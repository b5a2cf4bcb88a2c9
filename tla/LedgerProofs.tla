---------------------------- MODULE LedgerProofs ----------------------------
(***************************************************************************)
(* Theorems of a tenant's ledger and their proofs.                         *)
(*                                                                         *)
(* Its positions and the readers that keep a place in it: the head a       *)
(* transaction is given is final, so what was computed up to it stays      *)
(* exact (StableHeadIsFinal, KeptIsFold, StreamsMissNothing).              *)
(*                                                                         *)
(* Its chains and their verification: what a transaction may add or take   *)
(* away leaves a set of entries chained, every entry after the newest      *)
(* before it on its chain, and every anchor holding the heads it covers    *)
(* (IntactVerifiesHolds, RemovalFoundHolds, RewriteFoundHolds).            *)
(***************************************************************************)
EXTENDS LedgerReaders, LedgerChains, FiniteSetTheorems, WellFoundedInduction, TLAPS

-----------------------------------------------------------------------------
(* The positions.                                                          *)

\* Nothing lies above the sequence.
UpToLast ==
  /\ passed <= last
  /\ \A p \in log : p <= last
  /\ \A s \in Sessions : /\ tx[s].below <= last
                         /\ tx[s].newest <= last
                         /\ tx[s].head <= last
                         /\ \A p \in tx[s].seen \cup tx[s].own : p <= last

\* Whoever has appended an entry holds a mark with a bound below it.
MarkedBelow ==
  \A s \in Sessions : /\ At(s, "marked") => tx[s].holds
                      /\ \A p \in tx[s].own : tx[s].holds /\ tx[s].below < p

\* What is still to commit lies above every place a reader was sent on from ...
OpenAbovePassed == \A s \in Sessions : \A p \in tx[s].own : passed < p

\* ... and above the head another transaction was given and has not committed with.
OpenAboveHeads ==
  \A s \in Sessions : \A t \in Sessions \ {s} : \A p \in tx[t].own : tx[s].head < p

IInv == TypeOK /\ UpToLast /\ MarkedBelow /\ OpenAbovePassed /\ OpenAboveHeads

-----------------------------------------------------------------------------

LEMMA IdleType == Idle \in Transaction
  BY PositionsAssumption DEF Idle, Transaction, Bounds, Positions

\* A newest of some positions is one of them or 0, and within the bounds they lie in.
LEMMA NewestIsOne ==
  ASSUME NEW h, NEW S \in SUBSET Positions, IsNewest(h, S)
  PROVE  h \in Bounds /\ (h = 0 \/ h \in S)
  BY PositionsAssumption DEF IsNewest, Bounds, Positions

LEMMA InitIInv == Init => IInv
<1> SUFFICES ASSUME Init PROVE IInv
  OBVIOUS
<1>1. TypeOK
  BY IdleType, PositionsAssumption DEF Init, TypeOK, Bounds, Positions
<1>2. \A s \in Sessions : tx[s] = Idle
  BY DEF Init
<1>3. QED
  BY <1>1, <1>2 DEF Init, IInv, UpToLast, MarkedBelow, OpenAbovePassed, OpenAboveHeads, Idle, At

\* One lemma for every step: a transaction that changes to a record r of the right type, and
\* what the change must keep.
LEMMA StepKeeps ==
  ASSUME IInv, NEW s \in Sessions, NEW r \in Transaction,
         tx' = [tx EXCEPT ![s] = r],
         last' \in Bounds, last <= last',
         log' \in SUBSET Positions, \A p \in log' : p <= last',
         passed' \in Bounds, passed' <= last',
         r.below <= last', r.newest <= last', r.head <= last',
         \A p \in r.seen \cup r.own : p <= last',
         r.at = "marked" => r.holds,
         \A p \in r.own : r.holds /\ r.below < p /\ passed' < p,
         \A t \in Sessions \ {s} : \A p \in tx[t].own : passed' < p /\ r.head < p,
         \A t \in Sessions \ {s} : \A p \in r.own : tx[t].head < p
  PROVE  IInv'
<1>1. /\ tx'[s] = r
      /\ \A t \in Sessions \ {s} : tx'[t] = tx[t]
  BY DEF IInv, TypeOK
<1>2. \A t \in Sessions : tx[t] \in Transaction
  BY DEF IInv, TypeOK
<1>3. TypeOK'
  BY DEF IInv, TypeOK
<1>4. UpToLast'
  <2>1. last \in Nat /\ last' \in Nat
    BY PositionsAssumption DEF IInv, TypeOK, Bounds
  <2>2. ASSUME NEW t \in Sessions \ {s}
        PROVE  /\ tx[t].below <= last' /\ tx[t].newest <= last' /\ tx[t].head <= last'
               /\ \A p \in tx[t].seen \cup tx[t].own : p <= last'
    BY <1>2, <2>1, <2>2, PositionsAssumption
       DEF IInv, UpToLast, Transaction, Bounds, Positions
  <2>3. QED
    BY <1>1, <2>2 DEF UpToLast
<1>5. MarkedBelow'
  BY <1>1 DEF IInv, MarkedBelow, At
<1>6. OpenAbovePassed'
  BY <1>1 DEF OpenAbovePassed
<1>7. OpenAboveHeads'
  <2>1. ASSUME NEW u \in Sessions, NEW t \in Sessions \ {u}, NEW p \in tx'[t].own
        PROVE  tx'[u].head < p
    <3>1. CASE u = s
      BY <1>1, <2>1, <3>1
    <3>2. CASE u # s /\ t = s
      BY <1>1, <2>1, <3>2
    <3>3. CASE u # s /\ t # s
      BY <1>1, <2>1, <3>3 DEF IInv, OpenAboveHeads
    <3>4. QED
      BY <3>1, <3>2, <3>3
  <2>2. QED
    BY <2>1 DEF OpenAboveHeads
<1>8. QED
  BY <1>3, <1>4, <1>5, <1>6, <1>7 DEF IInv

\* Most steps change neither the sequence nor the log nor what readers were given.
LEMMA QuietStepKeeps ==
  ASSUME IInv, NEW s \in Sessions, NEW r \in Transaction,
         tx' = [tx EXCEPT ![s] = r],
         last' = last, log' = log, passed' = passed,
         r.below <= last, r.newest <= last, \A p \in r.seen : p <= last,
         r.head = 0 \/ r.head = tx[s].head,
         r.at = "marked" => r.holds,
         r.own = {} \/ (r.own = tx[s].own /\ r.holds /\ r.below = tx[s].below)
  PROVE  IInv'
<1>1. /\ last \in Bounds /\ log \in SUBSET Positions /\ passed \in Bounds
      /\ tx[s] \in Transaction /\ last \in Nat
      /\ \A t \in Sessions : tx[t] \in Transaction
  BY PositionsAssumption DEF IInv, TypeOK, Bounds
<1>2. /\ last' \in Bounds /\ last <= last'
      /\ log' \in SUBSET Positions /\ \A p \in log' : p <= last'
      /\ passed' \in Bounds /\ passed' <= last'
  BY <1>1 DEF IInv, UpToLast
<1>3. r.below <= last' /\ r.newest <= last' /\ r.head <= last'
  BY <1>1 DEF IInv, UpToLast
<1>4. \A p \in r.seen \cup r.own : p <= last'
  BY DEF IInv, UpToLast
<1>5. \A p \in r.own : r.holds /\ r.below < p /\ passed' < p
  BY DEF IInv, MarkedBelow, OpenAbovePassed
<1>6. \A t \in Sessions \ {s} : \A p \in tx[t].own : passed' < p /\ r.head < p
  <2>1. ASSUME NEW t \in Sessions \ {s}, NEW p \in tx[t].own
        PROVE  passed' < p /\ r.head < p
    <3>1. p \in Positions
      BY <1>1, <2>1 DEF Transaction
    <3>2. passed' < p /\ tx[s].head < p
      BY <2>1 DEF IInv, OpenAbovePassed, OpenAboveHeads
    <3>3. QED
      BY <3>1, <3>2 DEF Positions
  <2>2. QED
    BY <2>1
<1>7. \A t \in Sessions \ {s} : \A p \in r.own : tx[t].head < p
  BY DEF IInv, OpenAboveHeads
<1>8. QED
  BY <1>2, <1>3, <1>4, <1>5, <1>6, <1>7, StepKeeps

-----------------------------------------------------------------------------
(* Each step of a session keeps the invariant.                             *)

LEMMA SessionKeeps ==
  ASSUME IInv, NEW s \in Sessions,
         Begin(s) \/ Writes(s) \/ ReadsHead(s) \/ Ends(s)
  PROVE  IInv'
<1> USE PositionsAssumption DEF Bounds, Positions, At
<1>0. last \in Bounds /\ 0 <= last /\ last <= last
  BY PositionsAssumption DEF IInv, TypeOK, Bounds
<1>i. last \in Nat /\ last <= MaxPosition
  BY <1>0 DEF IInv, TypeOK
<1>j. /\ tx \in [Sessions -> Transaction] /\ log \in SUBSET Positions
      /\ passed \in Bounds /\ passed <= last
  BY DEF IInv, TypeOK, UpToLast
<1>k. \A p \in log : p <= last
  BY DEF IInv, UpToLast
<1>a. /\ tx \in [Sessions -> Transaction]
      /\ last \in Nat /\ last <= MaxPosition
      /\ log \in SUBSET Positions /\ passed \in Bounds /\ passed <= last
      /\ \A p \in log : p <= last
  BY <1>i, <1>j, <1>k
<1>b. /\ tx[s].below <= last /\ tx[s].newest <= last /\ tx[s].head <= last
      /\ \A p \in tx[s].seen \cup tx[s].own : p <= last
      /\ \A p \in tx[s].own : tx[s].holds /\ tx[s].below < p /\ passed < p
  BY DEF IInv, UpToLast, MarkedBelow, OpenAbovePassed
<1>c. \A t \in Sessions \ {s} : \A p \in tx[t].own :
        /\ p \in Positions /\ p <= last /\ tx[t].holds /\ tx[t].below < p
        /\ passed < p /\ tx[s].head < p
  BY <1>a DEF IInv, UpToLast, MarkedBelow, OpenAbovePassed, OpenAboveHeads, Transaction
<1>d. \A t \in Sessions \ {s} : tx[t].head <= last /\ \A p \in tx[s].own : tx[t].head < p
  BY DEF IInv, UpToLast, OpenAboveHeads
<1>e. /\ tx[s].at = "marked" => tx[s].holds
      /\ tx[s].below \in Bounds /\ tx[s].newest \in Bounds /\ tx[s].head \in Bounds
      /\ tx[s].own \in SUBSET Positions /\ tx[s].seen \in SUBSET Positions
  BY <1>a DEF IInv, MarkedBelow, Transaction
<1>f. Idle \in Transaction /\ [Idle EXCEPT !.at = "open"] \in Transaction
  BY IdleType DEF Transaction, Idle
<1> HIDE DEF Bounds, Positions, At
<1>1. CASE Begin(s)
  <2> DEFINE r == [Idle EXCEPT !.at = "open"]
  <2>1. /\ tx' = [tx EXCEPT ![s] = r]
        /\ last' = last /\ log' = log /\ passed' = passed
    BY <1>1 DEF Begin
  <2>2. /\ r \in Transaction
        /\ r.below = 0 /\ r.newest = 0 /\ r.head = 0 /\ r.seen = {} /\ r.own = {}
        /\ r.at = "open"
    BY <1>f DEF Idle
  <2> HIDE DEF r
  <2>3. QED
    BY <1>0, <2>1, <2>2, QuietStepKeeps
<1>2. CASE ReadBound(s)
  <2> DEFINE r == [tx[s] EXCEPT !.at = "bounded", !.below = last]
  <2>1. /\ tx' = [tx EXCEPT ![s] = r]
        /\ last' = last /\ log' = log /\ passed' = passed
        /\ ~tx[s].holds
    BY <1>2, <1>a DEF ReadBound
  <2>2. /\ r \in Transaction
        /\ r.below = last /\ r.newest = tx[s].newest /\ r.head = tx[s].head
        /\ r.seen = tx[s].seen /\ r.own = tx[s].own /\ r.at = "bounded"
    BY <1>0, <1>a DEF Transaction
  <2>3. r.own = {}
    BY <1>b, <2>1, <2>2
  <2> HIDE DEF r
  <2>4. QED
    BY <1>0, <1>b, <2>1, <2>2, <2>3, QuietStepKeeps
<1>3. CASE Mark(s)
  <2> DEFINE r == [tx[s] EXCEPT !.at = "marked", !.holds = TRUE]
  <2>1. /\ tx' = [tx EXCEPT ![s] = r]
        /\ last' = last /\ log' = log /\ passed' = passed
    BY <1>3, <1>a DEF Mark
  <2>2. /\ r \in Transaction
        /\ r.below = tx[s].below /\ r.newest = tx[s].newest /\ r.head = tx[s].head
        /\ r.seen = tx[s].seen /\ r.own = tx[s].own /\ r.holds
    BY <1>a DEF Transaction
  <2> HIDE DEF r
  <2>3. QED
    BY <1>0, <1>b, <2>1, <2>2, QuietStepKeeps
<1>4. CASE Take(s)
  <2> DEFINE r == [tx[s] EXCEPT !.at = "open", !.own = @ \cup {last + 1}]
  <2>1. /\ tx' = [tx EXCEPT ![s] = r]
        /\ last' = last + 1 /\ log' = log /\ passed' = passed
        /\ last < MaxPosition
        /\ tx[s].holds
    BY <1>4, <1>a, <1>e DEF Take, At
  <2>2. last + 1 \in Positions /\ last' \in Bounds /\ last <= last'
    BY <1>a, <2>1, PositionsAssumption DEF Positions, Bounds
  <2>3. /\ r \in Transaction
        /\ r.below = tx[s].below /\ r.newest = tx[s].newest /\ r.head = tx[s].head
        /\ r.seen = tx[s].seen /\ r.own = tx[s].own \cup {last + 1} /\ r.holds = tx[s].holds
        /\ r.at = "open"
    BY <1>a, <2>2 DEF Transaction
  <2>4. \A t \in Sessions : tx[t].head \in Bounds
    BY <1>a DEF Transaction
  <2> HIDE DEF r
  <2>5. /\ r.below <= last' /\ r.newest <= last' /\ r.head <= last'
        /\ \A p \in r.seen \cup r.own : p <= last'
        /\ \A p \in log' : p <= last'
    BY <1>a, <1>b, <1>e, <2>1, <2>3, PositionsAssumption DEF Bounds, Positions
  <2>6. \A p \in r.own : r.holds /\ r.below < p /\ passed' < p
    BY <1>a, <1>b, <1>e, <2>1, <2>3, PositionsAssumption DEF Bounds, Positions
  <2>7. \A t \in Sessions \ {s} : \A p \in r.own : tx[t].head < p
    BY <1>a, <1>d, <2>1, <2>3, <2>4, PositionsAssumption DEF Bounds, Positions
  <2>8. passed' \in Bounds /\ passed' <= last'
    BY <1>a, <2>1, PositionsAssumption DEF Bounds
  <2>9. \A t \in Sessions \ {s} : \A p \in tx[t].own : passed' < p /\ r.head < p
    BY <1>c, <2>1, <2>3
  <2>10. QED
    BY <1>a, <2>1, <2>2, <2>3, <2>5, <2>6, <2>7, <2>8, <2>9, StepKeeps
<1>5. CASE ReadNewest(s)
  <2>1. PICK h \in Bounds :
          /\ IsNewest(h, Visible(s))
          /\ tx' = [tx EXCEPT ![s].at = IF h = 0 THEN "open" ELSE "reading",
                              ![s].newest = h, ![s].head = 0]
    BY <1>5 DEF ReadNewest
  <2> DEFINE r == [tx[s] EXCEPT !.at = IF h = 0 THEN "open" ELSE "reading",
                                !.newest = h, !.head = 0]
  <2>2. /\ tx' = [tx EXCEPT ![s] = r]
        /\ last' = last /\ log' = log /\ passed' = passed
    BY <1>5, <1>a, <2>1 DEF ReadNewest
  <2>3. h <= last
    BY <1>a, <1>b, <2>1 DEF IsNewest, Visible
  <2> DEFINE place == IF h = 0 THEN "open" ELSE "reading"
  <2>4. /\ place \in {"open", "reading"}
        /\ r = [tx[s] EXCEPT !.at = place, !.newest = h, !.head = 0]
    OBVIOUS
  <2>5. 0 \in Bounds
    BY PositionsAssumption DEF Bounds
  <2> HIDE DEF place, r
  <2>6. /\ r \in Transaction
        /\ r.below = tx[s].below /\ r.newest = h /\ r.head = 0
        /\ r.seen = tx[s].seen /\ r.own = tx[s].own /\ r.holds = tx[s].holds
        /\ r.at # "marked"
    BY <1>a, <2>1, <2>4, <2>5 DEF Transaction
  <2>7. r.own = {} \/ r.holds
    BY <1>b, <2>6
  <2>8. QED
    BY <1>0, <1>b, <2>2, <2>3, <2>6, <2>7, QuietStepKeeps
<1>6. CASE TakeSnapshot(s)
  <2> DEFINE r == [tx[s] EXCEPT !.at = "scanning", !.seen = Visible(s)]
  <2>1. /\ tx' = [tx EXCEPT ![s] = r]
        /\ last' = last /\ log' = log /\ passed' = passed
    BY <1>6, <1>a DEF TakeSnapshot
  <2>2. Visible(s) \in SUBSET Positions /\ \A p \in Visible(s) : p <= last
    BY <1>a, <1>b, <1>e DEF Visible
  <2>3. /\ r \in Transaction
        /\ r.below = tx[s].below /\ r.newest = tx[s].newest /\ r.head = tx[s].head
        /\ r.seen = Visible(s) /\ r.own = tx[s].own /\ r.holds = tx[s].holds
        /\ r.at = "scanning"
    BY <1>a, <2>2 DEF Transaction
  <2> HIDE DEF r
  <2>4. r.own = {} \/ r.holds
    BY <1>b, <2>3
  <2>5. QED
    BY <1>0, <1>b, <2>1, <2>2, <2>3, <2>4, QuietStepKeeps
<1>7. CASE ReadMarks(s)
  <2>1. PICK h \in Bounds :
          /\ IsNewest(h, Final(s))
          /\ tx' = [tx EXCEPT ![s].at = "open", ![s].head = h, ![s].seen = {}]
          /\ passed' = IF tx[s].own = {} THEN Higher(passed, h) ELSE passed
    BY <1>7 DEF ReadMarks
  <2> DEFINE r == [tx[s] EXCEPT !.at = "open", !.head = h, !.seen = {}]
  <2>2. tx' = [tx EXCEPT ![s] = r] /\ last' = last /\ log' = log
    BY <1>7, <1>a, <2>1 DEF ReadMarks
  <2>3. /\ r \in Transaction
        /\ r.below = tx[s].below /\ r.newest = tx[s].newest /\ r.head = h
        /\ r.seen = {} /\ r.own = tx[s].own /\ r.holds = tx[s].holds
        /\ r.at = "open"
    BY <1>a DEF Transaction
  \* The head lies below whatever another transaction may still commit: that transaction
  \* holds a mark, which the reading of the marks found.
  <2>4. ASSUME NEW t \in Sessions \ {s}, NEW p \in tx[t].own
        PROVE  h < p
    <3>1. p \in Positions /\ tx[t].holds /\ tx[t].below < p /\ tx[t].below \in Bounds
      BY <1>a, <1>c, <2>4 DEF Transaction
    <3>2. CASE h = 0
      BY <3>1, <3>2 DEF Positions
    <3>3. CASE h # 0
      <4>1. h \in Final(s)
        BY <2>1, <3>3 DEF IsNewest
      <4>2. h <= tx[t].below
        BY <3>1, <4>1 DEF Final
      <4>3. QED
        BY <2>1, <3>1, <4>2, PositionsAssumption DEF Bounds, Positions
    <3>4. QED
      BY <3>2, <3>3
  <2>5. h <= last
    <3>1. h = 0 \/ h \in tx[s].seen
      BY <2>1 DEF IsNewest, Final
    <3>2. QED
      BY <1>a, <1>b, <3>1
  <2>6. passed' \in Bounds /\ passed' <= last
    BY <1>a, <2>1, <2>5 DEF Higher
  <2>7. /\ \A t \in Sessions \ {s} : \A p \in tx[t].own : passed' < p
        /\ \A p \in tx[s].own : passed' < p
    BY <1>b, <1>c, <2>1, <2>4 DEF Higher
  <2> HIDE DEF r
  <2>8. /\ r.below <= last' /\ r.newest <= last' /\ r.head <= last'
        /\ \A p \in r.seen \cup r.own : p <= last'
    BY <1>b, <2>2, <2>3, <2>5
  <2>9. QED
    BY <1>0, <1>a, <1>b, <1>d, <2>2, <2>3, <2>4, <2>6, <2>7, <2>8, StepKeeps, ZenonT(60)
<1>8. CASE Publish(s)
  <2> DEFINE r == [tx[s] EXCEPT !.at = "visible", !.own = {}]
  <2>1. /\ tx' = [tx EXCEPT ![s] = r]
        /\ last' = last /\ log' = log \cup tx[s].own /\ passed' = Higher(passed, tx[s].head)
    BY <1>8, <1>a DEF Publish
  <2>2. /\ r \in Transaction
        /\ r.below = tx[s].below /\ r.newest = tx[s].newest /\ r.head = tx[s].head
        /\ r.seen = tx[s].seen /\ r.own = {} /\ r.at = "visible"
    BY <1>a DEF Transaction
  <2>3. passed' \in Bounds /\ passed' <= last
    BY <1>a, <1>b, <1>e, <2>1 DEF Higher
  <2>4. log' \in SUBSET Positions /\ \A p \in log' : p <= last'
    BY <1>a, <1>b, <1>e, <2>1
  <2> HIDE DEF r
  <2>5. /\ r.below <= last' /\ r.newest <= last' /\ r.head <= last'
        /\ \A p \in r.seen \cup r.own : p <= last'
    BY <1>b, <2>1, <2>2
  <2>6. \A t \in Sessions \ {s} : \A p \in tx[t].own : passed' < p /\ r.head < p
    BY <1>c, <2>1, <2>2 DEF Higher
  <2>7. last' \in Bounds /\ last <= last'
    BY <1>a, <2>1, PositionsAssumption DEF Bounds
  <2>8. QED
    BY <2>1, <2>2, <2>3, <2>4, <2>5, <2>6, <2>7, StepKeeps
<1>9. CASE Release(s) \/ Rollback(s)
  <2>1. /\ tx' = [tx EXCEPT ![s] = Idle]
        /\ last' = last /\ log' = log /\ passed' = passed
    BY <1>9 DEF Release, Rollback
  <2>2. /\ Idle.below = 0 /\ Idle.newest = 0 /\ Idle.head = 0
        /\ Idle.seen = {} /\ Idle.own = {} /\ Idle.at = "idle"
    BY DEF Idle
  <2>3. QED
    BY <1>0, <1>f, <2>1, <2>2, QuietStepKeeps
<1>10. QED
  BY <1>1, <1>2, <1>3, <1>4, <1>5, <1>6, <1>7, <1>8, <1>9 DEF Writes, ReadsHead, Ends

LEMMA NextKeeps == IInv /\ [Next]_vars => IInv'
<1> SUFFICES ASSUME IInv, [Next]_vars PROVE IInv'
  OBVIOUS
<1>1. CASE TakeElsewhere
  <2>1. /\ tx' = tx /\ log' = log /\ passed' = passed /\ last' = last + 1
        /\ last \in Nat /\ last' \in Bounds
    BY <1>1, PositionsAssumption DEF TakeElsewhere, IInv, TypeOK, Bounds
  <2>2. TypeOK' /\ MarkedBelow' /\ OpenAbovePassed' /\ OpenAboveHeads'
    BY <2>1 DEF IInv, TypeOK, MarkedBelow, OpenAbovePassed, OpenAboveHeads, At
  <2>3. UpToLast'
    <3>1. /\ passed <= last' /\ \A p \in log : p <= last'
      BY <2>1, PositionsAssumption DEF IInv, TypeOK, UpToLast, Bounds, Positions
    <3>2. ASSUME NEW s \in Sessions
          PROVE  /\ tx[s].below <= last' /\ tx[s].newest <= last' /\ tx[s].head <= last'
                 /\ \A p \in tx[s].seen \cup tx[s].own : p <= last'
      <4>1. tx[s] \in Transaction
        BY DEF IInv, TypeOK
      <4>2. QED
        BY <2>1, <4>1, PositionsAssumption DEF IInv, UpToLast, Transaction, Bounds, Positions
    <3>3. QED
      BY <2>1, <3>1, <3>2 DEF UpToLast
  <2>4. QED
    BY <2>2, <2>3 DEF IInv
<1>2. CASE \E s \in Sessions : Begin(s) \/ Writes(s) \/ ReadsHead(s) \/ Ends(s)
  BY <1>2, SessionKeeps
<1>3. CASE UNCHANGED vars
  BY <1>3 DEF vars, IInv, TypeOK, UpToLast, MarkedBelow, OpenAbovePassed, OpenAboveHeads, At
<1>4. QED
  BY <1>1, <1>2, <1>3 DEF Next

-----------------------------------------------------------------------------

\* The ledger's positions and transactions keep their types.
THEOREM TypeCorrect == Spec => []TypeOK
<1>1. IInv => TypeOK
  BY DEF IInv
<1>2. QED
  BY <1>1, InitIInv, NextKeeps, PTL DEF Spec

\* However the transactions interleave, nothing ever commits at or below a place that a
\* reader of the stable head was sent on from.
THEOREM StableHeadIsFinal == Spec => NothingCommitsBelow
<1>1. ASSUME IInv, [Next]_vars
      PROVE  [\A p \in log' \ log : p > passed]_vars
  <2>1. CASE \E s \in Sessions : Publish(s)
    <3>1. PICK s \in Sessions : Publish(s)
      BY <2>1
    <3>2. \A p \in log' \ log : p \in tx[s].own
      BY <3>1 DEF Publish
    <3>3. \A p \in tx[s].own : p > passed
      <4>1. tx[s].own \subseteq Positions /\ passed \in Bounds
        BY <1>1 DEF IInv, TypeOK, Transaction
      <4>2. QED
        BY <1>1, <4>1, PositionsAssumption DEF IInv, OpenAbovePassed, Positions, Bounds
    <3>4. QED
      BY <3>2, <3>3
  <2>2. CASE ~\E s \in Sessions : Publish(s)
    <3>1. log' = log
      BY <1>1, <2>2 DEF Next, TakeElsewhere, Writes, ReadsHead, Ends, Begin, ReadBound, Mark,
                        Take, ReadNewest, TakeSnapshot, ReadMarks, Release, Rollback, vars
    <3>2. QED
      BY <3>1
  <2>3. QED
    BY <2>1, <2>2
<1>2. QED
  BY <1>1, InitIInv, NextKeeps, PTL DEF Spec, NothingCommitsBelow

-----------------------------------------------------------------------------
(* The readers.                                                            *)

\* Nobody in a closed transaction holds an entry that is not committed, and a head that was
\* committed with is a place passed.
ClosedTx ==
  \A s \in Sessions : /\ tx[s].at \in {"idle", "visible"} => tx[s].own = {}
                      /\ tx[s].at = "visible" => tx[s].head <= passed

\* A row is exact if it holds what was committed up to its place, and its place is final.
ExactRow(row) == row.seq <= passed /\ row.folded = {p \in log : p <= row.seq}

SeenUpTo(s, place) == {p \in Visible(s) : p <= place}

\* Who does what.
InRole(s) ==
  /\ Doing(s, "nothing") => work[s] = Nothing
  /\ ~Doing(s, "nothing") =>
       \/ s \in Keepers \ Streams /\ work[s].name \in Names
       \/ s \in Streams \ Keepers /\ work[s].name \in {"page", "opening"} /\ work[s].wrote = NoRow

\* The head a session was given is that of its transaction; a page outlives it.
GivenHead(s) ==
  /\ work[s].at \in {"head", "headed", "store", "beyond"} => tx[s].at \notin {"idle", "visible"}
  /\ work[s].at \in {"headed", "store", "beyond", "done"} =>
       \/ tx[s].at # "idle" /\ tx[s].head = work[s].through
       \/ tx[s].at = "idle" /\ s \in Streams /\ Doing(s, "done") /\ work[s].through <= passed

\* What is computed up to it, and the row written, hold what the session sees up to it.
Computed(s) ==
  /\ ExactRow(work[s].start)
  /\ work[s].at \in {"store", "beyond"} => work[s].value = SeenUpTo(s, work[s].through)
  /\ work[s].wrote # NoRow =>
       /\ work[s].at \in {"beyond", "done"}
       /\ work[s].wrote.seq = work[s].through
       /\ work[s].wrote.folded = SeenUpTo(s, work[s].through)

\* A page leaves nothing out between the stream's place and its last entry.
Paged(s) ==
  s \in Streams /\ work[s].name = "page" /\ Doing(s, "done") =>
    \A p \in work[s].value :
      /\ p \in Visible(s) /\ stream[s].place < p /\ p <= work[s].through
      /\ \A q \in Visible(s) : stream[s].place < q /\ q < p => q \in work[s].value

WorkSound(s) == InRole(s) /\ GivenHead(s) /\ Computed(s) /\ Paged(s)

StreamSound(s) == stream[s].place <= passed /\ UpTo(stream[s].place) \subseteq stream[s].sent

ReadersInv ==
  /\ IInv /\ ReadersTypeOK /\ ClosedTx
  /\ \A n \in Names : ExactRow(kept[n])
  /\ \A s \in Sessions : WorkSound(s)
  /\ \A s \in Streams : StreamSound(s)

-----------------------------------------------------------------------------
(* Lemmas of the records and of pages.                                     *)

LEMMA RowTypes == NoRow \in Row /\ Nothing \in Work /\ Nothing.at = "nothing"
  BY PositionsAssumption DEF NoRow, Row, Nothing, Work, Bounds, Positions

LEMMA RolesAreApart ==
  /\ \A s \in Keepers : s \in Sessions /\ s \notin Streams
  /\ \A s \in Streams : s \in Sessions /\ s \notin Keepers
  /\ \A s \in Writers : s \in Sessions
  BY ReadersAssumption

\* The first page of some entries leaves out none below one it takes.
LEMMA PagesAreGapless ==
  ASSUME NEW entries \in SUBSET Positions, NEW p \in FirstPage(entries),
         NEW q \in entries, q < p
  PROVE  q \in FirstPage(entries)
<1> DEFINE Below(x) == {y \in entries : y < x}
<1>1. IsFiniteSet(Positions)
  BY PositionsAssumption, FS_Interval DEF Positions
<1>2. p \in entries /\ Cardinality(Below(p)) < Page
  BY DEF FirstPage
<1>3. \A x \in entries : x \in Int
  BY DEF Positions
<1>4. Below(q) \subseteq Below(p)
  BY <1>2, <1>3
<1>5. IsFiniteSet(Below(p))
  BY <1>1, FS_Subset
<1>6. Cardinality(Below(q)) <= Cardinality(Below(p)) /\ IsFiniteSet(Below(q))
  BY <1>4, <1>5, FS_Subset
<1>7. Cardinality(Below(q)) \in Nat /\ Cardinality(Below(p)) \in Nat
  BY <1>5, <1>6, FS_CardinalityType
<1>8. Cardinality(Below(q)) < Page
  BY <1>2, <1>6, <1>7, ReadersAssumption
<1>9. QED
  BY <1>8 DEF FirstPage

\* A set of bounded places has a highest one.
LEMMA HighestIs ==
  ASSUME NEW places \in SUBSET Bounds, places # {}
  PROVE  \E p \in places : \A q \in places : q <= p
<1> DEFINE down == {MaxPosition - p : p \in places}
<1>1. \A p \in places : p \in Nat /\ MaxPosition - p \in Nat
  BY PositionsAssumption DEF Bounds
<1>2. down \in SUBSET Nat /\ down # {}
  BY <1>1
<1> HIDE DEF down
<1>3. PICK n \in down : \A m \in down : n <= m
  <2> DEFINE less == OpToRel(<, Nat)
  <2>1. \E n \in down : \A m \in down : ~(<<m, n>> \in less)
    BY <1>2, NatLessThanWellFounded, WFMin
  <2>2. \A m, n \in down : m < n => <<m, n>> \in less
    BY <1>2 DEF OpToRel
  <2> HIDE DEF less
  <2>3. PICK n \in down : \A m \in down : ~(<<m, n>> \in less)
    BY <2>1
  <2>4. \A m \in down : ~(m < n)
    BY <2>2, <2>3
  <2>5. \A m \in down : n <= m
    BY <1>2, <2>4
  <2>6. QED
    BY <2>5
<1> USE DEF down
<1>4. PICK p \in places : n = MaxPosition - p
  BY <1>3
<1>5. \A q \in places : MaxPosition - p <= MaxPosition - q
  BY <1>3, <1>4
<1>6. QED
  BY <1>1, <1>4, <1>5, PositionsAssumption

-----------------------------------------------------------------------------
(* Every step of the readers is one of the positions, or leaves them alone. *)

LEMMA StepsOfSessions == [ReadersNext]_allVars => [Next]_vars
<1> USE RolesAreApart
<1> SUFFICES ASSUME [ReadersNext]_allVars PROVE [Next]_vars
  OBVIOUS
<1>1. ASSUME NEW s \in Sessions, Enter(s) \/ AskHead(s) \/ Commit(s) \/ Unlock(s) \/ Abort(s)
      PROVE  Next
  BY <1>1 DEF Enter, AskHead, Commit, Unlock, Abort, Next, Ends
<1>2. ASSUME NEW s \in Writers, Record(s) PROVE Next
  BY <1>2 DEF Record, Next
<1>3. ASSUME NEW s \in Keepers, Keep(s) PROVE UNCHANGED vars
  BY <1>3 DEF Keep, BringUpToDate, Start, Alarm, Folded, Store, Beyond
<1>4. ASSUME NEW s \in Streams, Serve(s) PROVE UNCHANGED vars
  BY <1>4 DEF Serve, Poll, Open, Start, ReadPage, HandOver, HeadRead, ShowState
<1>5. CASE ReadersNext
  BY <1>1, <1>2, <1>3, <1>4, <1>5 DEF ReadersNext, Next
<1>6. QED
  BY <1>5 DEF allVars

-----------------------------------------------------------------------------
(* What stays while the ledger grows above what was passed.                *)

Grows ==
  /\ log \subseteq log' /\ passed \in Bounds /\ passed' \in Bounds /\ passed <= passed'
  /\ log' \subseteq Positions /\ \A p \in log' \ log : passed < p

LEMMA RowsStay ==
  ASSUME Grows, NEW row \in Row, ExactRow(row)
  PROVE  ExactRow(row)'
<1>1. row.seq \in Int /\ row.seq <= passed /\ row.folded = {p \in log : p <= row.seq}
  BY DEF ExactRow, Row, Bounds
<1>2. \A p \in log' : p \in Int
  BY DEF Grows, Positions
<1>3. passed \in Int /\ passed' \in Int
  BY DEF Grows, Bounds
<1>4. row.seq <= passed'
  BY <1>1, <1>3 DEF Grows
<1>5. {p \in log : p <= row.seq} = {p \in log' : p <= row.seq}
  BY <1>1, <1>2, <1>3 DEF Grows
<1>6. QED
  BY <1>1, <1>4, <1>5 DEF ExactRow

\* A session that does nothing itself.
LEMMA OthersStay ==
  ASSUME ReadersInv, Grows, NEW u \in Sessions, tx'[u] = tx[u], work'[u] = work[u],
         u \in Streams => stream'[u] = stream[u],
         \A p \in log' \ log : tx[u].head < p
  PROVE  WorkSound(u)'
<1>1. /\ WorkSound(u) /\ work[u] \in Work /\ tx[u] \in Transaction
      /\ work[u].start \in Row /\ work[u].through \in Bounds
  BY DEF ReadersInv, ReadersTypeOK, TypeOK, Work
<1>2. InRole(u)'
  BY <1>1 DEF WorkSound, InRole, Doing
<1>3. GivenHead(u)'
  <2>1. work[u].through \in Int /\ passed \in Int /\ passed' \in Int /\ passed <= passed'
    BY <1>1 DEF Grows, Bounds
  <2>2. work[u].through <= passed => work[u].through <= passed'
    BY <2>1
  <2>3. QED
    BY <1>1, <2>2 DEF WorkSound, GivenHead, Doing
<1>4. ASSUME work[u].at \in {"headed", "store", "beyond", "done"}
      PROVE  \A p \in log' \ log : work[u].through < p
  <2>1. CASE tx[u].at # "idle" /\ tx[u].head = work[u].through
    BY <2>1
  <2>2. CASE work[u].through <= passed
    <3>1. work[u].through \in Int /\ passed \in Int /\ \A p \in log' : p \in Int
      BY <1>1 DEF Grows, Bounds, Positions
    <3>2. QED
      BY <2>2, <3>1 DEF Grows
  <2>3. QED
    BY <1>1, <1>4, <2>1, <2>2 DEF WorkSound, GivenHead
<1>5. ASSUME work[u].at \in {"headed", "store", "beyond", "done"}
      PROVE  SeenUpTo(u, work[u].through) = SeenUpTo(u, work[u].through)'
  <2>1. work[u].through \in Int /\ \A p \in log' : p \in Int
    BY <1>1 DEF Grows, Bounds, Positions
  <2>2. Visible(u) \subseteq Visible(u)' /\ \A p \in Visible(u)' \ Visible(u) : p \in log' \ log
    BY DEF Grows, Visible
  <2>3. \A p \in Visible(u)' : p <= work[u].through => p \in Visible(u)
    BY <1>4, <1>5, <2>1, <2>2
  <2>4. work'[u].through = work[u].through
    OBVIOUS
  <2>5. QED
    BY <2>2, <2>3, <2>4 DEF SeenUpTo
<1>6. Computed(u)'
  <2>1. ExactRow(work[u].start)'
    <3> DEFINE row == work[u].start
    <3>1. PICK r \in Row : r = row /\ r = row'
      BY <1>1
    <3>2. ExactRow(r)
      BY <1>1, <3>1 DEF WorkSound, Computed
    <3>3. ExactRow(r)'
      BY <3>2, RowsStay
    <3>4. QED
      BY <3>1, <3>3
  <2>2. QED
    BY <1>1, <1>5, <2>1 DEF WorkSound, Computed
<1>7. Paged(u)'
  <2> SUFFICES ASSUME u \in Streams, work[u].name = "page", Doing(u, "done"),
                      NEW p \in work[u].value
               PROVE  /\ p \in Visible(u)' /\ stream'[u].place < p /\ p <= work'[u].through
                      /\ \A q \in Visible(u)' :
                           stream'[u].place < q /\ q < p => q \in work'[u].value
    BY DEF Paged, Doing
  <2>1. /\ p \in Visible(u) /\ stream[u].place < p /\ p <= work[u].through
        /\ \A q \in Visible(u) : stream[u].place < q /\ q < p => q \in work[u].value
    BY <1>1 DEF WorkSound, Paged
  <2>2. Visible(u) \subseteq Visible(u)' /\ \A q \in Visible(u)' \ Visible(u) : q \in log' \ log
    BY DEF Grows, Visible
  <2>3. \A q \in Visible(u)' \ Visible(u) : work[u].through < q
    BY <1>4, <2>2 DEF Doing
  <2>4. work[u].through \in Int /\ p \in Int /\ \A q \in Visible(u)' : q \in Int
    BY <1>1, <2>1, <2>2 DEF Grows, Bounds, Positions, Visible, Transaction
  <2>5. \A q \in Visible(u)' : q < p => q \in Visible(u)
    BY <2>1, <2>3, <2>4
  <2>6. QED
    BY <2>1, <2>2, <2>5
<1>8. QED
  BY <1>2, <1>3, <1>6, <1>7 DEF WorkSound

\* What a step of one session must keep.
LEMMA SessionStepKeeps ==
  ASSUME ReadersInv, ReadersNext, Grows, NEW s \in Sessions,
         \A u \in Sessions \ {s} :
           /\ tx'[u] = tx[u] /\ work'[u] = work[u] /\ (u \in Streams => stream'[u] = stream[u])
           /\ \A p \in log' \ log : tx[u].head < p,
         \A n \in Names : kept'[n] = kept[n] \/ ExactRow(kept[n])',
         ReadersTypeOK', ClosedTx', WorkSound(s)', s \in Streams => StreamSound(s)'
  PROVE  ReadersInv'
<1>1. IInv'
  BY StepsOfSessions, NextKeeps DEF ReadersInv
<1>2. \A n \in Names : ExactRow(kept[n])'
  <2> SUFFICES ASSUME NEW n \in Names, kept'[n] = kept[n] PROVE ExactRow(kept[n])'
    OBVIOUS
  <2>1. PICK r \in Row : r = kept[n] /\ r = kept'[n]
    BY DEF ReadersInv, ReadersTypeOK
  <2>2. ExactRow(r)'
    BY <2>1, RowsStay DEF ReadersInv
  <2>3. QED
    BY <2>1, <2>2
<1>3. \A u \in Sessions : WorkSound(u)'
  BY OthersStay
<1>4. ASSUME NEW u \in Streams \ {s} PROVE StreamSound(u)'
  <2>1. u \in Sessions /\ stream'[u] = stream[u] /\ stream[u].place \in Bounds
    BY RolesAreApart DEF ReadersInv, ReadersTypeOK
  <2>2. stream[u].place \in Int /\ passed \in Int /\ passed' \in Int /\ \A p \in log' : p \in Int
    BY <2>1 DEF Grows, Bounds, Positions
  <2>3. stream[u].place <= passed /\ UpTo(stream[u].place) \subseteq stream[u].sent
    BY DEF ReadersInv, StreamSound
  <2>4. \A p \in log' : p <= stream[u].place => p \in log
    BY <2>2, <2>3 DEF Grows
  <2>5. QED
    BY <2>1, <2>2, <2>3, <2>4 DEF StreamSound, UpTo, Grows
<1>5. QED
  BY <1>1, <1>2, <1>3, <1>4 DEF ReadersInv

\* A step that leaves the positions and the transactions alone.
LEMMA QuietKeeps ==
  ASSUME ReadersInv, ReadersNext, UNCHANGED vars, NEW s \in Sessions,
         work' = [work EXCEPT ![s] = work'[s]], work'[s] \in Work,
         claim' \in [Names -> Sessions \cup {NoSession}], kept' = kept,
         \A u \in Streams \ {s} : stream'[u] = stream[u],
         stream' \in [Streams -> [place : Bounds, sent : SUBSET Positions]],
         WorkSound(s)', s \in Streams => StreamSound(s)'
  PROVE  ReadersInv'
<1>1. Grows /\ log' = log /\ tx' = tx
  BY PositionsAssumption DEF Grows, vars, ReadersInv, ReadersTypeOK, TypeOK, Bounds
<1>2. ReadersTypeOK' /\ ClosedTx'
  BY DEF vars, ReadersInv, ReadersTypeOK, TypeOK, ClosedTx
<1>3. \A u \in Sessions \ {s} : work'[u] = work[u]
  BY DEF ReadersInv, ReadersTypeOK
<1>4. QED
  BY <1>1, <1>2, <1>3, SessionStepKeeps

-----------------------------------------------------------------------------
(* Bringing a kept value up to date.                                       *)

LEMMA StartKeeps ==
  ASSUME ReadersInv, ReadersNext, NEW s \in Sessions, NEW name, NEW full \in BOOLEAN,
         NEW start \in Row, Start(s, name, full, start), ExactRow(start),
         \/ s \in Keepers \ Streams /\ name \in Names
         \/ s \in Streams \ Keepers /\ name \in {"page", "opening"}
  PROVE  ReadersInv'
<1> DEFINE begun == [Nothing EXCEPT !.at = "head", !.name = name, !.full = full, !.start = start]
<1>1. /\ begun \in Work /\ begun.at = "head" /\ begun.name = name /\ begun.start = start
      /\ begun.wrote = NoRow
  BY RowTypes, PositionsAssumption DEF Nothing, Work, Bounds
<1>2. work' = [work EXCEPT ![s] = begun] /\ UNCHANGED <<vars, kept, claim, stream>> /\ At(s, "open")
  BY DEF Start
<1> HIDE DEF begun
<1>3. work' = [work EXCEPT ![s] = work'[s]] /\ work'[s] = begun
  BY <1>2 DEF ReadersInv, ReadersTypeOK
<1>4. WorkSound(s)'
  BY <1>1, <1>2, <1>3 DEF WorkSound, InRole, GivenHead, Computed, Paged, Doing, At, ExactRow, vars
<1>5. s \in Streams => StreamSound(s)'
  BY <1>2 DEF ReadersInv, StreamSound, UpTo, vars
<1>6. QED
  BY <1>1, <1>2, <1>3, <1>4, <1>5, QuietKeeps DEF ReadersInv, ReadersTypeOK

LEMMA BringUpToDateKeeps ==
  ASSUME ReadersInv, ReadersNext, NEW s \in Keepers, BringUpToDate(s)
  PROVE  ReadersInv'
<1>1. PICK n \in Names, full \in BOOLEAN :
        Start(s, n, full, IF full THEN NoRow ELSE RowSeen(s, n))
  BY DEF BringUpToDate
<1>2. s \in Sessions /\ s \in Keepers \ Streams
  BY RolesAreApart
<1>3. work[s] = Nothing
  BY <1>1, <1>2 DEF Start, ReadersInv, WorkSound, InRole
<1>4. RowSeen(s, n) = kept[n]
  BY <1>3 DEF RowSeen, Nothing
<1>5. NoRow \in Row /\ ExactRow(NoRow) /\ kept[n] \in Row /\ ExactRow(kept[n])
  <2>1. \A p \in log : ~(p <= -1)
    BY PositionsAssumption DEF ReadersInv, ReadersTypeOK, TypeOK, Positions
  <2>2. -1 <= passed
    BY DEF ReadersInv, ReadersTypeOK, TypeOK, Bounds
  <2>3. NoRow.seq = -1 /\ NoRow.folded = {}
    BY DEF NoRow
  <2>4. QED
    BY <2>1, <2>2, <2>3, RowTypes DEF ExactRow, ReadersInv, ReadersTypeOK
<1>6. PICK start \in Row : start = (IF full THEN NoRow ELSE kept[n]) /\ ExactRow(start)
  BY <1>5
<1>7. Start(s, n, full, start)
  BY <1>1, <1>4, <1>6
<1>8. QED
  BY <1>2, <1>6, <1>7, StartKeeps

LEMMA AlarmKeeps ==
  ASSUME ReadersInv, ReadersNext, NEW s \in Keepers, Alarm(s)
  PROVE  ReadersInv'
<1>1. s \in Sessions /\ s \notin Streams /\ work[s] \in Work /\ WorkSound(s)
  BY RolesAreApart DEF ReadersInv, ReadersTypeOK
<1>2. work' = [work EXCEPT ![s] = [work[s] EXCEPT !.at = "done"]]
      /\ UNCHANGED <<vars, kept, claim, stream>> /\ At(s, "open") /\ Doing(s, "headed")
  BY DEF Alarm
<1>3. /\ work' = [work EXCEPT ![s] = work'[s]] /\ work'[s] = [work[s] EXCEPT !.at = "done"]
      /\ work'[s] \in Work
  BY <1>1, <1>2 DEF ReadersInv, ReadersTypeOK, Work
<1>4. WorkSound(s)'
  BY <1>1, <1>2, <1>3
     DEF WorkSound, InRole, GivenHead, Computed, Paged, Doing, At, ExactRow, vars, Work
<1>5. QED
  BY <1>1, <1>2, <1>3, <1>4, QuietKeeps DEF ReadersInv, ReadersTypeOK

\* What is folded up to the head is what the session sees up to it.
LEMMA FoldedKeeps ==
  ASSUME ReadersInv, ReadersNext, NEW s \in Keepers, Folded(s)
  PROVE  ReadersInv'
<1> DEFINE from == IF BeyondHead(s) THEN NoRow ELSE work[s].start
           value == from.folded \cup EntriesBetween(s, from.seq, work[s].through)
           at == IF MustStore(s) THEN "store"
                 ELSE IF work[s].name = Checkpoint THEN "done" ELSE "beyond"
           done == [work[s] EXCEPT !.value = value, !.at = at]
<1>1. s \in Sessions /\ s \notin Streams /\ work[s] \in Work /\ WorkSound(s)
  BY RolesAreApart DEF ReadersInv, ReadersTypeOK
<1>2. /\ work' = [work EXCEPT ![s] = done] /\ UNCHANGED <<vars, kept, claim, stream>>
      /\ At(s, "open") /\ Doing(s, "headed")
  BY DEF Folded
<1>3. /\ work[s].start \in Row /\ work[s].through \in Bounds /\ ExactRow(work[s].start)
      /\ tx[s] \in Transaction /\ log \in SUBSET Positions /\ passed \in Bounds
      /\ \A p \in tx[s].own : passed < p
  BY <1>1 DEF Work, WorkSound, Computed, ReadersInv, ReadersTypeOK, TypeOK, IInv, OpenAbovePassed
<1>4. /\ from.seq \in Int /\ from.seq <= passed /\ from.seq <= work[s].through
      /\ from.folded = {p \in log : p <= from.seq}
  <2>1. CASE BeyondHead(s)
    <3>1. from.seq = -1 /\ from.folded = {}
      BY <2>1 DEF NoRow
    <3>2. \A p \in log : ~(p <= -1)
      BY <1>3 DEF Positions
    <3> HIDE DEF from
    <3>3. QED
      BY <1>3, <3>1, <3>2 DEF Bounds
  <2>2. CASE ~BeyondHead(s)
    <3>1. from = work[s].start
      BY <2>2
    <3> HIDE DEF from
    <3>2. QED
      BY <1>3, <2>2, <3>1 DEF BeyondHead, ExactRow, Row, Bounds
  <2>3. QED
    BY <2>1, <2>2
<1> HIDE DEF from
<1>5. value = SeenUpTo(s, work[s].through)
  <2>1. \A p \in Visible(s) : p \in Int
    BY <1>3 DEF Visible, Positions, Transaction
  <2>2. \A p \in Visible(s) : p <= from.seq => p \in log
    BY <1>3, <1>4, <2>1 DEF Visible, Bounds
  <2>3. log \subseteq Visible(s) /\ work[s].through \in Int
    BY <1>3 DEF Visible, Bounds
  <2>4. QED
    BY <1>4, <2>1, <2>2, <2>3 DEF SeenUpTo, EntriesBetween
<1>6. value \in SUBSET Positions
  BY <1>3, <1>5 DEF SeenUpTo, Visible, Transaction
<1> HIDE DEF value
<1>7. at \in {"store", "done", "beyond"}
  OBVIOUS
<1> HIDE DEF at
<1>8. /\ done \in Work /\ done.at = at /\ done.value = value /\ done.start = work[s].start
      /\ done.through = work[s].through /\ done.wrote = work[s].wrote /\ done.name = work[s].name
  BY <1>1, <1>6, <1>7 DEF Work
<1> HIDE DEF done
<1>9. work' = [work EXCEPT ![s] = work'[s]] /\ work'[s] = done
  BY <1>1, <1>2 DEF ReadersInv, ReadersTypeOK
<1>10. InRole(s)' /\ GivenHead(s)' /\ Paged(s)'
  BY <1>1, <1>2, <1>7, <1>8, <1>9 DEF WorkSound, InRole, GivenHead, Paged, Doing, At, vars
<1>11. Computed(s)'
  BY <1>1, <1>2, <1>3, <1>5, <1>8, <1>9
     DEF WorkSound, Computed, Doing, ExactRow, SeenUpTo, Visible, vars
<1>12. QED
  BY <1>1, <1>2, <1>8, <1>9, <1>10, <1>11, QuietKeeps DEF ReadersInv, ReadersTypeOK, WorkSound

\* The row stored is the fold the session computed.
LEMMA StoreKeeps ==
  ASSUME ReadersInv, ReadersNext, NEW s \in Keepers, Store(s)
  PROVE  ReadersInv'
<1> DEFINE n == work[s].name
           row == [seq |-> work[s].through, folded |-> work[s].value]
           at == IF n = Checkpoint THEN "done" ELSE "beyond"
<1>1. s \in Sessions /\ s \notin Streams /\ work[s] \in Work /\ WorkSound(s)
  BY RolesAreApart DEF ReadersInv, ReadersTypeOK
<1>2. UNCHANGED <<vars, kept, stream>> /\ At(s, "open") /\ Doing(s, "store")
  BY DEF Store
<1>3. n \in Names /\ work[s].wrote = NoRow /\ work[s].value = SeenUpTo(s, work[s].through)
  BY <1>1, <1>2 DEF WorkSound, InRole, Computed, Doing
<1>4. /\ row \in Row /\ row.seq = work[s].through /\ row.folded = work[s].value
      /\ NoRow \in Row
  BY <1>1, RowTypes DEF Work, Row
<1>5. claim' \in [Names -> Sessions \cup {NoSession}]
  <2>1. claim \in [Names -> Sessions \cup {NoSession}]
    BY DEF ReadersInv, ReadersTypeOK
  <2>2. claim' = claim \/ claim' = [claim EXCEPT ![n] = s]
    BY DEF Store
  <2>3. QED
    BY <1>1, <2>1, <2>2
<1> HIDE DEF row
<1>6. PICK wrote \in {row, NoRow} :
        work' = [work EXCEPT ![s] = [work[s] EXCEPT !.at = at, !.wrote = wrote]]
  <2>1. CASE claim[n] \in {s, NoSession}
    <3>1. work' = [work EXCEPT ![s].at = at,
                     ![s].wrote = IF Replaces(s) \/ RowSeen(s, n).seq < row.seq THEN row ELSE @]
      BY <2>1 DEF Store, row
    <3>2. CASE Replaces(s) \/ RowSeen(s, n).seq < row.seq
      BY <3>1, <3>2
    <3>3. CASE ~(Replaces(s) \/ RowSeen(s, n).seq < row.seq)
      BY <1>1, <1>3, <3>1, <3>3 DEF Work
    <3>4. QED
      BY <3>2, <3>3
  <2>2. CASE claim[n] \notin {s, NoSession}
    <3>1. work' = [work EXCEPT ![s].at = at]
      BY <2>2 DEF Store
    <3>2. QED
      BY <1>1, <1>3, <3>1 DEF Work
  <2>3. QED
    BY <2>1, <2>2
<1>7. at \in {"done", "beyond"}
  OBVIOUS
<1> HIDE DEF at
<1> DEFINE stored == [work[s] EXCEPT !.at = at, !.wrote = wrote]
<1>8. /\ stored \in Work /\ stored.at = at /\ stored.wrote = wrote /\ stored.name = n
      /\ stored.value = work[s].value /\ stored.through = work[s].through
      /\ stored.start = work[s].start
  BY <1>1, <1>4, <1>7 DEF Work
<1> HIDE DEF stored
<1>9. work' = [work EXCEPT ![s] = work'[s]] /\ work'[s] = stored
  BY <1>1, <1>6 DEF ReadersInv, ReadersTypeOK, stored
<1>10. InRole(s)' /\ GivenHead(s)' /\ Paged(s)'
  BY <1>1, <1>2, <1>3, <1>7, <1>8, <1>9 DEF WorkSound, InRole, GivenHead, Paged, Doing, At, vars
<1>11. Computed(s)'
  BY <1>1, <1>2, <1>3, <1>4, <1>6, <1>7, <1>8, <1>9
     DEF WorkSound, Computed, Doing, ExactRow, SeenUpTo, Visible, vars
<1>12. QED
  BY <1>1, <1>2, <1>5, <1>8, <1>9, <1>10, <1>11, QuietKeeps DEF WorkSound, ReadersInv, ReadersTypeOK

LEMMA BeyondKeeps ==
  ASSUME ReadersInv, ReadersNext, NEW s \in Keepers, Beyond(s)
  PROVE  ReadersInv'
<1> DEFINE value == work[s].value \cup EntriesBetween(s, work[s].through, MaxPosition)
           done == [work[s] EXCEPT !.at = "done", !.value = value]
<1>1. s \in Sessions /\ s \notin Streams /\ work[s] \in Work /\ WorkSound(s)
  BY RolesAreApart DEF ReadersInv, ReadersTypeOK
<1>2. /\ UNCHANGED <<vars, kept, claim, stream>> /\ At(s, "open") /\ Doing(s, "beyond")
      /\ work' = [work EXCEPT ![s] = done]
  BY DEF Beyond
<1>3. value \in SUBSET Positions
  BY <1>1 DEF Work, EntriesBetween, Visible, ReadersInv, ReadersTypeOK, TypeOK, Transaction
<1> HIDE DEF value
<1>4. /\ done \in Work /\ done.at = "done" /\ done.wrote = work[s].wrote /\ done.name = work[s].name
      /\ done.through = work[s].through /\ done.start = work[s].start
  BY <1>1, <1>3 DEF Work
<1> HIDE DEF done
<1>5. work' = [work EXCEPT ![s] = work'[s]] /\ work'[s] = done
  BY <1>1, <1>2 DEF ReadersInv, ReadersTypeOK
<1>6. WorkSound(s)'
  BY <1>1, <1>2, <1>4, <1>5
     DEF WorkSound, InRole, GivenHead, Computed, Paged, Doing, At, ExactRow, SeenUpTo, Visible, vars
<1>7. QED
  BY <1>1, <1>2, <1>4, <1>5, <1>6, QuietKeeps DEF ReadersInv, ReadersTypeOK

-----------------------------------------------------------------------------
(* Reading for the streams of a replica.                                   *)

\* A row that was never stored says nothing.
LEMMA NoRowIsExact == ASSUME TypeOK PROVE ExactRow(NoRow)
<1>1. (\A p \in log : ~(p <= -1)) /\ -1 <= passed
  BY PositionsAssumption DEF TypeOK, Positions, Bounds
<1>2. NoRow.seq = -1 /\ NoRow.folded = {}
  BY DEF NoRow
<1>3. QED
  BY <1>1, <1>2 DEF ExactRow

\* A session that does nothing is sound, before and after a step.
LEMMA NothingIsSound == \A s \in Sessions : TypeOK /\ work[s] = Nothing => WorkSound(s)
<1>1. Nothing.at = "nothing" /\ Nothing.start = NoRow /\ Nothing.wrote = NoRow
  BY DEF Nothing
<1>2. QED
  BY <1>1, NoRowIsExact DEF WorkSound, InRole, GivenHead, Computed, Paged, Doing

LEMMA NothingStaysSound ==
  (\A s \in Sessions : TypeOK /\ work[s] = Nothing => WorkSound(s))'
  BY NothingIsSound, PTL

LEMMA OpeningKeeps ==
  ASSUME ReadersInv, ReadersNext, NEW s \in Streams, Poll(s) \/ Open(s)
  PROVE  ReadersInv'
<1>1. ExactRow(NoRow) /\ NoRow \in Row /\ s \in Sessions /\ s \in Streams \ Keepers
  BY NoRowIsExact, RowTypes, RolesAreApart DEF ReadersInv, ReadersTypeOK
<1>2. PICK name \in {"page", "opening"} : Start(s, name, FALSE, NoRow)
  BY DEF Poll, Open
<1>3. QED
  BY <1>1, <1>2, StartKeeps

LEMMA ReadPageKeeps ==
  ASSUME ReadersInv, ReadersNext, NEW s \in Streams, ReadPage(s)
  PROVE  ReadersInv'
<1> DEFINE entries == EntriesBetween(s, stream[s].place, work[s].through)
           page == FirstPage(entries)
           done == [work[s] EXCEPT !.at = "done", !.value = page]
<1>1. s \in Sessions /\ work[s] \in Work /\ WorkSound(s) /\ StreamSound(s)
  BY RolesAreApart DEF ReadersInv, ReadersTypeOK
<1>2. /\ UNCHANGED <<vars, kept, claim, stream>> /\ At(s, "open") /\ Doing(s, "headed")
      /\ work' = [work EXCEPT ![s] = done]
  BY DEF ReadPage
<1>3. Visible(s) \in SUBSET Positions /\ entries \in SUBSET Positions
  BY <1>1 DEF EntriesBetween, Visible, ReadersInv, ReadersTypeOK, TypeOK, Transaction
<1>4. ASSUME NEW p \in page
      PROVE  /\ p \in Visible(s) /\ stream[s].place < p /\ p <= work[s].through
             /\ \A q \in Visible(s) : stream[s].place < q /\ q < p => q \in page
  <2>1. p \in entries
    BY DEF FirstPage
  <2>2. p \in Visible(s) /\ stream[s].place < p /\ p <= work[s].through
    BY <2>1 DEF EntriesBetween
  <2>3. ASSUME NEW q \in Visible(s), stream[s].place < q, q < p
        PROVE  q \in page
    <3>1. q \in Int /\ p \in Int /\ work[s].through \in Int
      BY <1>1, <1>3, <2>2 DEF Positions, Work, Bounds
    <3>2. q \in entries
      BY <2>2, <2>3, <3>1 DEF EntriesBetween
    <3> HIDE DEF entries
    <3>3. QED
      BY <1>3, <2>3, <3>2, PagesAreGapless
  <2>4. QED
    BY <2>2, <2>3
<1>5. page \in SUBSET Positions
  BY <1>3 DEF FirstPage
<1> HIDE DEF page
<1>6. /\ done \in Work /\ done.at = "done" /\ done.wrote = work[s].wrote /\ done.name = work[s].name
      /\ done.through = work[s].through /\ done.start = work[s].start /\ done.value = page
  BY <1>1, <1>5 DEF Work
<1> HIDE DEF done
<1>7. work' = [work EXCEPT ![s] = work'[s]] /\ work'[s] = done
  BY <1>1, <1>2 DEF ReadersInv, ReadersTypeOK
<1>8. InRole(s)' /\ GivenHead(s)' /\ Computed(s)'
  BY <1>1, <1>2, <1>6, <1>7
     DEF WorkSound, InRole, GivenHead, Computed, Doing, At, ExactRow, vars
<1>9. Paged(s)'
  BY <1>2, <1>4, <1>6, <1>7 DEF Paged, Visible, vars
<1>10. StreamSound(s)'
  BY <1>1, <1>2 DEF StreamSound, UpTo, vars
<1>11. QED
  BY <1>1, <1>2, <1>6, <1>7, <1>8, <1>9, <1>10, QuietKeeps DEF ReadersInv, ReadersTypeOK, WorkSound

LEMMA HeadReadKeeps ==
  ASSUME ReadersInv, ReadersNext, NEW s \in Streams, HeadRead(s)
  PROVE  ReadersInv'
<1>1. s \in Sessions /\ work[s] \in Work /\ WorkSound(s) /\ StreamSound(s)
  BY RolesAreApart DEF ReadersInv, ReadersTypeOK
<1>2. /\ work' = [work EXCEPT ![s] = [work[s] EXCEPT !.at = "done"]]
      /\ UNCHANGED <<vars, kept, claim, stream>> /\ At(s, "open") /\ Doing(s, "headed")
      /\ work[s].name = "opening"
  BY DEF HeadRead
<1>3. /\ work' = [work EXCEPT ![s] = work'[s]] /\ work'[s] = [work[s] EXCEPT !.at = "done"]
      /\ work'[s] \in Work
  BY <1>1, <1>2 DEF ReadersInv, ReadersTypeOK, Work
<1>4. WorkSound(s)'
  BY <1>1, <1>2, <1>3
     DEF WorkSound, InRole, GivenHead, Computed, Paged, Doing, At, ExactRow, vars, Work
<1>5. StreamSound(s)'
  BY <1>1, <1>2 DEF StreamSound, UpTo, vars
<1>6. QED
  BY <1>1, <1>2, <1>3, <1>4, <1>5, QuietKeeps DEF ReadersInv, ReadersTypeOK

\* The place moves to the last entry of the page, and everything up to it was handed over.
LEMMA HandOverKeeps ==
  ASSUME ReadersInv, ReadersNext, NEW s \in Streams, HandOver(s)
  PROVE  ReadersInv'
<1> DEFINE places == work[s].value \cup {stream[s].place}
           place == CHOOSE p \in places : \A q \in places : q <= p
           sent == stream[s].sent \cup work[s].value
<1>1. /\ s \in Sessions /\ work[s] \in Work /\ WorkSound(s) /\ StreamSound(s) /\ TypeOK
      /\ stream \in [Streams -> [place : Bounds, sent : SUBSET Positions]]
      /\ work \in [Sessions -> Work]
  BY RolesAreApart DEF ReadersInv, ReadersTypeOK
<1>2. /\ UNCHANGED <<vars, kept, claim>> /\ At(s, "idle") /\ Doing(s, "done")
      /\ work[s].name = "page" /\ work' = [work EXCEPT ![s] = Nothing]
      /\ stream' = [stream EXCEPT ![s] = [place |-> place, sent |-> sent]]
  BY DEF HandOver
<1>3. /\ places \in SUBSET Bounds /\ places # {} /\ sent \in SUBSET Positions
      /\ stream[s].place \in Bounds
  BY <1>1 DEF Work, Bounds, Positions
<1>4. place \in places /\ \A q \in places : q <= place
  <2>1. \E p \in places : \A q \in places : q <= p
    BY <1>3, HighestIs
  <2>2. QED
    BY <2>1
<1>5. Visible(s) = log /\ work[s].through <= passed
  BY <1>1, <1>2 DEF ReadersInv, ClosedTx, At, Visible, WorkSound, GivenHead, Doing
<1>6. \A p \in work[s].value :
        /\ p <= work[s].through
        /\ \A q \in log : stream[s].place < q /\ q < p => q \in work[s].value
  BY <1>1, <1>2, <1>5 DEF WorkSound, Paged
<1>7. place <= passed
  <2>1. stream[s].place <= passed
    BY <1>1 DEF StreamSound
  <2>2. \A p \in work[s].value : p <= passed
    BY <1>1, <1>5, <1>6 DEF Work, Bounds, Positions, TypeOK
  <2>3. QED
    BY <1>4, <2>1, <2>2
<1>8. \A p \in log : p <= place => p \in sent
  <2> SUFFICES ASSUME NEW p \in log, p <= place, p \notin stream[s].sent PROVE p \in work[s].value
    OBVIOUS
  <2>1. p \in Int /\ place \in Int /\ stream[s].place \in Int
    BY <1>1, <1>3, <1>4 DEF TypeOK, Bounds, Positions
  <2>2. stream[s].place < p
    BY <1>1, <2>1 DEF StreamSound, UpTo
  <2>3. place \in work[s].value
    BY <1>4, <2>1, <2>2
  <2>4. QED
    BY <1>6, <2>1, <2>2, <2>3
<1>9. place \in Bounds
  BY <1>3, <1>4
<1> HIDE DEF place, sent
<1>10. stream'[s].place = place /\ stream'[s].sent = sent
  BY <1>1, <1>2
<1>11. StreamSound(s)'
  BY <1>2, <1>7, <1>8, <1>10 DEF StreamSound, UpTo, vars
<1>12. work'[s] = Nothing /\ work' = [work EXCEPT ![s] = work'[s]] /\ Nothing \in Work
  BY <1>1, <1>2, RowTypes
<1>13. TypeOK'
  BY <1>1, <1>2 DEF TypeOK, vars
<1>14. WorkSound(s)'
  BY <1>1, <1>12, <1>13, NothingStaysSound
<1>15. /\ stream' \in [Streams -> [place : Bounds, sent : SUBSET Positions]]
       /\ \A u \in Streams \ {s} : stream'[u] = stream[u]
       /\ claim' \in [Names -> Sessions \cup {NoSession}] /\ kept' = kept
  BY <1>1, <1>2, <1>3, <1>9 DEF ReadersInv, ReadersTypeOK
<1>16. QED
  BY <1>1, <1>2, <1>11, <1>12, <1>14, <1>15, QuietKeeps

LEMMA ShowStateKeeps ==
  ASSUME ReadersInv, ReadersNext, NEW s \in Streams, ShowState(s)
  PROVE  ReadersInv'
<1>1. /\ s \in Sessions /\ work[s] \in Work /\ WorkSound(s) /\ TypeOK
      /\ stream \in [Streams -> [place : Bounds, sent : SUBSET Positions]]
      /\ work \in [Sessions -> Work]
  BY RolesAreApart DEF ReadersInv, ReadersTypeOK
<1>2. /\ UNCHANGED <<vars, kept, claim>> /\ At(s, "idle") /\ Doing(s, "done")
      /\ work' = [work EXCEPT ![s] = Nothing]
      /\ stream' = [stream EXCEPT ![s] = [place |-> work[s].through, sent |-> log]]
  BY DEF ShowState
<1>3. work[s].through <= passed /\ work[s].through \in Bounds /\ log \in SUBSET Positions
  BY <1>1, <1>2 DEF WorkSound, GivenHead, Doing, At, Work, TypeOK
<1>4. stream'[s].place = work[s].through /\ stream'[s].sent = log
  BY <1>1, <1>2
<1>5. StreamSound(s)'
  BY <1>2, <1>3, <1>4 DEF StreamSound, UpTo, vars
<1>6. work'[s] = Nothing /\ work' = [work EXCEPT ![s] = work'[s]] /\ Nothing \in Work
  BY <1>1, <1>2, RowTypes
<1>7. TypeOK'
  BY <1>1, <1>2 DEF TypeOK, vars
<1>8. WorkSound(s)'
  BY <1>1, <1>6, <1>7, NothingStaysSound
<1>9. /\ stream' \in [Streams -> [place : Bounds, sent : SUBSET Positions]]
      /\ \A u \in Streams \ {s} : stream'[u] = stream[u]
      /\ claim' \in [Names -> Sessions \cup {NoSession}] /\ kept' = kept
  BY <1>1, <1>2, <1>3 DEF ReadersInv, ReadersTypeOK
<1>10. QED
  BY <1>1, <1>2, <1>5, <1>6, <1>8, <1>9, QuietKeeps

-----------------------------------------------------------------------------
(* The transactions.                                                       *)

\* A step that changes one transaction and commits nothing.
LEMMA TransactionKeeps ==
  ASSUME ReadersInv, ReadersNext, NEW s \in Sessions, NEW r, tx' = [tx EXCEPT ![s] = r],
         log' = log, passed <= passed', kept' = kept, stream' = stream,
         work' = [work EXCEPT ![s] = work'[s]], work'[s] \in Work,
         claim' \in [Names -> Sessions \cup {NoSession}],
         r.at \in {"idle", "visible"} => r.own = {},
         r.at = "visible" => r.head <= passed',
         WorkSound(s)'
  PROVE  ReadersInv'
<1>1. IInv'
  BY StepsOfSessions, NextKeeps DEF ReadersInv
<1>2. Grows
  BY <1>1, PositionsAssumption DEF Grows, ReadersInv, ReadersTypeOK, TypeOK, IInv
<1>3. tx'[s] = r /\ \A u \in Sessions \ {s} : tx'[u] = tx[u] /\ work'[u] = work[u]
  BY DEF ReadersInv, ReadersTypeOK, TypeOK
<1>4. ReadersTypeOK'
  BY <1>1 DEF ReadersInv, ReadersTypeOK, IInv
<1>5. passed \in Int /\ passed' \in Int /\ \A u \in Sessions : tx[u].head \in Int
  BY <1>2 DEF Grows, Bounds, ReadersInv, ReadersTypeOK, TypeOK, Transaction
<1>6. ClosedTx'
  BY <1>3, <1>5 DEF ClosedTx, ReadersInv
<1>7. s \in Streams => StreamSound(s)'
  <2>1. s \in Streams => stream[s].place \in Int
    BY DEF ReadersInv, ReadersTypeOK, Bounds
  <2>2. QED
    BY <1>5, <2>1 DEF ReadersInv, StreamSound, UpTo
<1>8. QED
  BY <1>2, <1>3, <1>4, <1>6, <1>7, SessionStepKeeps

LEMMA EnterKeeps ==
  ASSUME ReadersInv, ReadersNext, NEW s \in Sessions, Enter(s)
  PROVE  ReadersInv'
<1> DEFINE r == [Idle EXCEPT !.at = "open"]
<1>1. /\ tx' = [tx EXCEPT ![s] = r] /\ log' = log /\ passed' = passed /\ UNCHANGED readerVars
      /\ Doing(s, "nothing")
  BY DEF Enter, Begin
<1>2. r.at = "open"
  BY DEF Idle
<1> HIDE DEF r
<1>3. /\ work[s] \in Work /\ work \in [Sessions -> Work] /\ passed \in Int
      /\ claim' \in [Names -> Sessions \cup {NoSession}] /\ WorkSound(s)
  BY <1>1 DEF ReadersInv, ReadersTypeOK, TypeOK, Bounds, readerVars
<1>4. work'[s] = Nothing
  BY <1>1, <1>3 DEF WorkSound, InRole, readerVars
<1>5. TypeOK'
  BY StepsOfSessions, NextKeeps DEF ReadersInv, IInv
<1>6. WorkSound(s)'
  BY <1>4, <1>5, NothingStaysSound
<1>7. work' = [work EXCEPT ![s] = work'[s]] /\ work'[s] \in Work /\ passed <= passed'
  BY <1>1, <1>3 DEF readerVars
<1>8. QED
  BY <1>1, <1>2, <1>3, <1>6, <1>7, TransactionKeeps DEF readerVars

\* The last statement of LedgerStore.head gives the session its head.
LEMMA AskHeadKeeps ==
  ASSUME ReadersInv, ReadersNext, NEW s \in Sessions, AskHead(s)
  PROVE  ReadersInv'
<1>1. /\ work[s] \in Work /\ work \in [Sessions -> Work] /\ WorkSound(s) /\ tx[s] \in Transaction
      /\ tx \in [Sessions -> Transaction] /\ passed \in Int
      /\ claim \in [Names -> Sessions \cup {NoSession}]
  BY DEF ReadersInv, ReadersTypeOK, TypeOK, Bounds
<1>2. IInv' /\ TypeOK'
  BY StepsOfSessions, NextKeeps DEF ReadersInv, IInv
<1>3. /\ UNCHANGED <<log, kept, claim, stream>> /\ Doing(s, "head")
      /\ work' = IF tx'[s].at = "open"
                 THEN [work EXCEPT ![s].at = "headed", ![s].through = tx'[s].head]
                 ELSE work
  BY DEF AskHead, ReadsHead, ReadNewest, TakeSnapshot, ReadMarks
<1>4. PICK r : /\ tx' = [tx EXCEPT ![s] = r] /\ r.at \in {"open", "reading", "scanning"}
               /\ r.own = tx[s].own
  <2>1. ASSUME NEW h \in Bounds,
               tx' = [tx EXCEPT ![s].at = IF h = 0 THEN "open" ELSE "reading",
                                ![s].newest = h, ![s].head = 0]
        PROVE  \E r : /\ tx' = [tx EXCEPT ![s] = r] /\ r.at \in {"open", "reading", "scanning"}
                      /\ r.own = tx[s].own
    <3> DEFINE r == [tx[s] EXCEPT !.at = IF h = 0 THEN "open" ELSE "reading",
                                  !.newest = h, !.head = 0]
    <3>1. r.at \in {"open", "reading", "scanning"} /\ r.own = tx[s].own
      BY <1>1 DEF Transaction
    <3>2. tx' = [tx EXCEPT ![s] = r]
      BY <2>1
    <3>3. QED
      BY <3>1, <3>2
  <2>2. ASSUME TakeSnapshot(s)
        PROVE  \E r : /\ tx' = [tx EXCEPT ![s] = r] /\ r.at \in {"open", "reading", "scanning"}
                      /\ r.own = tx[s].own
    <3> DEFINE r == [tx[s] EXCEPT !.at = "scanning", !.seen = Visible(s)]
    <3>1. r.at \in {"open", "reading", "scanning"} /\ r.own = tx[s].own
      BY <1>1 DEF Transaction
    <3>2. tx' = [tx EXCEPT ![s] = r]
      BY <2>2 DEF TakeSnapshot
    <3>3. QED
      BY <3>1, <3>2
  <2>3. ASSUME NEW h \in Bounds,
               tx' = [tx EXCEPT ![s].at = "open", ![s].head = h, ![s].seen = {}]
        PROVE  \E r : /\ tx' = [tx EXCEPT ![s] = r] /\ r.at \in {"open", "reading", "scanning"}
                      /\ r.own = tx[s].own
    <3> DEFINE r == [tx[s] EXCEPT !.at = "open", !.head = h, !.seen = {}]
    <3>1. r.at \in {"open", "reading", "scanning"} /\ r.own = tx[s].own
      BY <1>1 DEF Transaction
    <3>2. tx' = [tx EXCEPT ![s] = r]
      BY <2>3
    <3>3. QED
      BY <3>1, <3>2
  <2>4. QED
    BY <2>1, <2>2, <2>3 DEF AskHead, ReadsHead, ReadNewest, ReadMarks
<1>5. passed <= passed'
  <2>1. \A h \in Bounds : passed <= Higher(passed, h)
    BY <1>1 DEF Higher, Bounds
  <2>2. ASSUME ReadMarks(s) PROVE passed <= passed'
    <3>1. PICK h \in Bounds : passed' = IF tx[s].own = {} THEN Higher(passed, h) ELSE passed
      BY <2>2 DEF ReadMarks
    <3>2. passed <= Higher(passed, h) /\ passed <= passed
      BY <1>1, <2>1
    <3>3. QED
      BY <3>1, <3>2
  <2>3. ASSUME ReadNewest(s) \/ TakeSnapshot(s) PROVE passed <= passed'
    <3>1. passed' = passed
      BY <2>3 DEF ReadNewest, TakeSnapshot
    <3>2. QED
      BY <1>1, <3>1
  <2>4. QED
    BY <2>2, <2>3 DEF AskHead, ReadsHead
<1>6. tx'[s] = r
  BY <1>1, <1>4
<1>7. tx'[s].head \in Bounds /\ tx'[s].at = r.at
  BY <1>2, <1>6 DEF TypeOK, Transaction
<1>8. PICK w \in Work : /\ work' = [work EXCEPT ![s] = w]
                        /\ w = work[s] \/ (w.at = "headed" /\ w.through = tx'[s].head)
                        /\ w.start = work[s].start /\ w.wrote = work[s].wrote
                        /\ w.name = work[s].name /\ w.at \in {"head", "headed"}
  <2>1. CASE tx'[s].at = "open"
    <3> DEFINE w == [work[s] EXCEPT !.at = "headed", !.through = tx'[s].head]
    <3>1. /\ w \in Work /\ w.at = "headed" /\ w.through = tx'[s].head /\ w.start = work[s].start
          /\ w.wrote = work[s].wrote /\ w.name = work[s].name
      BY <1>1, <1>7 DEF Work
    <3>2. work' = [work EXCEPT ![s] = w]
      BY <1>3, <2>1
    <3>3. QED
      BY <3>1, <3>2
  <2>2. CASE tx'[s].at # "open"
    <3>1. work' = [work EXCEPT ![s] = work[s]]
      BY <1>1, <1>3, <2>2
    <3>2. QED
      BY <1>1, <1>3, <3>1 DEF Doing
  <2>3. QED
    BY <2>1, <2>2
<1>9. work'[s] = w /\ work' = [work EXCEPT ![s] = work'[s]] /\ work'[s] \in Work
  BY <1>1, <1>8
<1>10. InRole(s)'
  BY <1>1, <1>3, <1>8, <1>9 DEF WorkSound, InRole, Doing
<1>11. GivenHead(s)'
  BY <1>3, <1>4, <1>6, <1>8, <1>9 DEF GivenHead, Doing
<1>12. Computed(s)'
  <2>1. PICK row \in Row : row = work[s].start /\ ExactRow(row)
    BY <1>1 DEF WorkSound, Computed, Work
  <2>2. ExactRow(row)'
    <3>1. Grows
      BY <1>2, <1>3, <1>5 DEF Grows, ReadersInv, ReadersTypeOK, TypeOK
    <3>2. QED
      BY <2>1, <3>1, RowsStay
  <2>3. work'[s].start = row
    BY <1>8, <1>9, <2>1
  <2>4. QED
    BY <1>1, <1>3, <1>8, <1>9, <2>2, <2>3 DEF WorkSound, Computed, Doing
<1>13. Paged(s)'
  BY <1>8, <1>9 DEF Paged, Doing
<1>14. QED
  BY <1>1, <1>3, <1>4, <1>5, <1>9, <1>10, <1>11, <1>12, <1>13, TransactionKeeps DEF WorkSound

\* What a session records lies above the head it was given.
LEMMA RecordKeeps ==
  ASSUME ReadersInv, ReadersNext, NEW s \in Writers, Record(s)
  PROVE  ReadersInv'
<1>1. /\ s \in Sessions /\ work[s] \in Work /\ work \in [Sessions -> Work] /\ WorkSound(s)
      /\ tx[s] \in Transaction /\ tx \in [Sessions -> Transaction] /\ passed \in Int
      /\ claim \in [Names -> Sessions \cup {NoSession}]
  BY RolesAreApart DEF ReadersInv, ReadersTypeOK, TypeOK, Bounds
<1>2. IInv' /\ TypeOK'
  BY StepsOfSessions, NextKeeps DEF ReadersInv, IInv
<1>3. /\ log' = log /\ passed' = passed /\ UNCHANGED readerVars
      /\ Doing(s, "nothing") \/ Doing(s, "done")
      /\ tx[s].at \notin {"idle", "visible"}
  BY DEF Record, Writes, ReadBound, Mark, Take, At
<1>4. PICK r : /\ tx' = [tx EXCEPT ![s] = r] /\ r.at \in {"bounded", "marked", "open"}
               /\ r.head = tx[s].head
               /\ r.own = tx[s].own \/ r.own = tx[s].own \cup {last + 1}
  <2>1. CASE ReadBound(s)
    <3> DEFINE r == [tx[s] EXCEPT !.at = "bounded", !.below = last]
    <3>1. r.at = "bounded" /\ r.head = tx[s].head /\ r.own = tx[s].own
      BY <1>1 DEF Transaction
    <3>2. tx' = [tx EXCEPT ![s] = r]
      BY <2>1 DEF ReadBound
    <3>3. QED
      BY <3>1, <3>2
  <2>2. CASE Mark(s)
    <3> DEFINE r == [tx[s] EXCEPT !.at = "marked", !.holds = TRUE]
    <3>1. r.at = "marked" /\ r.head = tx[s].head /\ r.own = tx[s].own
      BY <1>1 DEF Transaction
    <3>2. tx' = [tx EXCEPT ![s] = r]
      BY <2>2 DEF Mark
    <3>3. QED
      BY <3>1, <3>2
  <2>3. CASE Take(s)
    <3> DEFINE r == [tx[s] EXCEPT !.at = "open", !.own = @ \cup {last + 1}]
    <3>1. r.at = "open" /\ r.head = tx[s].head /\ r.own = tx[s].own \cup {last + 1}
      BY <1>1 DEF Transaction
    <3>2. tx' = [tx EXCEPT ![s] = r]
      BY <2>3 DEF Take
    <3>3. QED
      BY <3>1, <3>2
  <2>4. QED
    BY <2>1, <2>2, <2>3 DEF Record, Writes
<1>5. tx'[s] = r /\ work'[s] = work[s] /\ work' = work
  BY <1>1, <1>3, <1>4 DEF readerVars
<1>6. tx[s].head < last + 1 /\ last \in Int
  BY <1>1 DEF ReadersInv, IInv, UpToLast, TypeOK, Transaction, Bounds
<1>7. InRole(s)'
  BY <1>1, <1>5 DEF WorkSound, InRole, Doing
<1>8. GivenHead(s)'
  BY <1>1, <1>3, <1>4, <1>5 DEF WorkSound, GivenHead, Doing
<1>9. ASSUME Doing(s, "done")
      PROVE  /\ SeenUpTo(s, work[s].through)' = SeenUpTo(s, work[s].through)
             /\ Visible(s) \subseteq Visible(s)'
             /\ \A q \in Visible(s)' : q <= work[s].through => q \in Visible(s)
  <2>1. tx[s].head = work[s].through
    BY <1>1, <1>3, <1>9 DEF WorkSound, GivenHead, Doing
  <2>2. ~(last + 1 <= work[s].through)
    BY <1>1, <1>6, <2>1 DEF Work, Bounds
  <2>3. Visible(s) \subseteq Visible(s)' /\ Visible(s)' \subseteq Visible(s) \cup {last + 1}
    BY <1>3, <1>4, <1>5 DEF Visible
  <2>4. QED
    BY <1>5, <2>2, <2>3 DEF SeenUpTo
<1>10. Computed(s)'
  <2>1. ExactRow(work[s].start)'
    BY <1>1, <1>3, <1>5 DEF WorkSound, Computed, ExactRow
  <2>2. QED
    BY <1>1, <1>3, <1>5, <1>9, <2>1 DEF WorkSound, Computed, Doing
<1>11. Paged(s)'
  <2> SUFFICES ASSUME s \in Streams, work[s].name = "page", Doing(s, "done"),
                      NEW p \in work[s].value
               PROVE  /\ p \in Visible(s)' /\ stream'[s].place < p /\ p <= work'[s].through
                      /\ \A q \in Visible(s)' :
                           stream'[s].place < q /\ q < p => q \in work'[s].value
    BY <1>5 DEF Paged, Doing
  <2>1. /\ p \in Visible(s) /\ stream[s].place < p /\ p <= work[s].through
        /\ \A q \in Visible(s) : stream[s].place < q /\ q < p => q \in work[s].value
    BY <1>1 DEF WorkSound, Paged
  <2>2. work[s].through \in Int /\ p \in Int /\ \A q \in Visible(s)' : q \in Int
    BY <1>1, <1>2, <2>1 DEF Work, Bounds, Positions, Visible, TypeOK, Transaction
  <2>3. \A q \in Visible(s)' : q < p => q \in Visible(s)
    BY <1>9, <2>1, <2>2
  <2>4. QED
    BY <1>3, <1>5, <1>9, <2>1, <2>3 DEF readerVars
<1>12. work' = [work EXCEPT ![s] = work'[s]] /\ work'[s] \in Work /\ passed <= passed'
  BY <1>1, <1>3, <1>5
<1>13. QED
  BY <1>1, <1>3, <1>4, <1>7, <1>8, <1>10, <1>11, <1>12, TransactionKeeps DEF WorkSound, readerVars

\* A commit makes its entries and its row visible at once; both lie where they should.
LEMMA CommitKeeps ==
  ASSUME ReadersInv, ReadersNext, NEW s \in Sessions, Commit(s)
  PROVE  ReadersInv'
<1> DEFINE r == [tx[s] EXCEPT !.at = "visible", !.own = {}]
<1>1. /\ work[s] \in Work /\ work \in [Sessions -> Work] /\ WorkSound(s)
      /\ tx[s] \in Transaction /\ tx \in [Sessions -> Transaction] /\ passed \in Int
      /\ tx[s].head \in Int /\ claim \in [Names -> Sessions \cup {NoSession}]
      /\ kept \in [Names -> Row] /\ log \in SUBSET Positions
  BY DEF ReadersInv, ReadersTypeOK, TypeOK, Bounds, Transaction
<1>2. IInv' /\ TypeOK'
  BY StepsOfSessions, NextKeeps DEF ReadersInv, IInv
<1>3. /\ UNCHANGED <<claim, work, stream>> /\ At(s, "open")
      /\ Doing(s, "nothing") \/ Doing(s, "done")
      /\ log' = log \cup tx[s].own /\ passed' = Higher(passed, tx[s].head)
      /\ tx' = [tx EXCEPT ![s] = r]
      /\ kept' = IF work[s].wrote = NoRow THEN kept
                 ELSE [kept EXCEPT ![work[s].name] = work[s].wrote]
  BY DEF Commit, Publish
<1>4. r.at = "visible" /\ r.own = {} /\ r.head = tx[s].head
  BY <1>1 DEF Transaction
<1> HIDE DEF r
<1>5. tx'[s] = r /\ \A u \in Sessions \ {s} : tx'[u] = tx[u]
  BY <1>1, <1>3
<1>6. passed <= passed' /\ tx[s].head <= passed' /\ passed' \in Int
  BY <1>1, <1>3 DEF Higher
<1>7. Grows
  <2>1. \A p \in log' \ log : passed < p
    BY <1>3 DEF ReadersInv, IInv, OpenAbovePassed
  <2>2. QED
    BY <1>2, <1>3, <1>6, <2>1 DEF Grows, ReadersInv, ReadersTypeOK, TypeOK
<1>8. \A u \in Sessions \ {s} : \A p \in log' \ log : tx[u].head < p
  BY <1>3 DEF ReadersInv, IInv, OpenAboveHeads
<1>9. Visible(s)' = Visible(s) /\ Visible(s) = log'
  BY <1>3, <1>4, <1>5 DEF Visible
<1>10. work[s].wrote # NoRow =>
         /\ work[s].name \in Names /\ work[s].wrote \in Row
         /\ work[s].wrote.seq = tx[s].head
         /\ work[s].wrote.folded = {p \in log' : p <= work[s].wrote.seq}
  <2>1. Nothing.wrote = NoRow
    BY DEF Nothing
  <2>2. QED
    BY <1>1, <1>3, <1>9, <2>1
       DEF WorkSound, InRole, GivenHead, Computed, SeenUpTo, Doing, At, Work
<1>11. ASSUME NEW n \in Names, kept'[n] # kept[n] PROVE ExactRow(kept[n])'
  <2>1. work[s].wrote # NoRow /\ n = work[s].name /\ kept'[n] = work[s].wrote
    BY <1>1, <1>3, <1>11
  <2>2. QED
    BY <1>6, <1>10, <2>1 DEF ExactRow
<1>12. kept' \in [Names -> Row]
  <2>1. CASE work[s].wrote = NoRow
    BY <1>1, <1>3, <2>1
  <2>2. CASE work[s].wrote # NoRow
    BY <1>1, <1>3, <1>10, <2>2
  <2>3. QED
    BY <2>1, <2>2
<1>13. ReadersTypeOK'
  BY <1>1, <1>2, <1>3, <1>12 DEF ReadersInv, ReadersTypeOK
<1>14. ClosedTx'
  <2>1. \A u \in Sessions : tx[u].head \in Int
    BY <1>1 DEF Transaction, Bounds
  <2>2. QED
    BY <1>1, <1>4, <1>5, <1>6, <2>1 DEF ClosedTx, ReadersInv
<1>15. WorkSound(s)'
  <2>1. InRole(s)'
    BY <1>1, <1>3 DEF WorkSound, InRole, Doing
  <2>2. GivenHead(s)'
    BY <1>1, <1>3, <1>4, <1>5 DEF WorkSound, GivenHead, Doing, At
  <2>3. ExactRow(work[s].start)'
    <3>1. PICK row \in Row : row = work[s].start /\ ExactRow(row)
      BY <1>1 DEF WorkSound, Computed, Work
    <3>2. ExactRow(row)'
      BY <1>7, <3>1, RowsStay
    <3>3. work'[s].start = row
      BY <1>3, <3>1
    <3>4. QED
      BY <3>2, <3>3
  <2>4. SeenUpTo(s, work[s].through)' = SeenUpTo(s, work[s].through)
    BY <1>3, <1>9 DEF SeenUpTo
  <2>5. Computed(s)'
    BY <1>1, <1>3, <2>3, <2>4 DEF WorkSound, Computed, Doing
  <2>6. Paged(s)'
    BY <1>1, <1>3, <1>9 DEF WorkSound, Paged, Doing
  <2>7. QED
    BY <2>1, <2>2, <2>5, <2>6 DEF WorkSound
<1>16. ASSUME s \in Streams PROVE StreamSound(s)'
  <2>1. /\ stream[s].place <= passed /\ UpTo(stream[s].place) \subseteq stream[s].sent
        /\ stream[s].place \in Int /\ stream' = stream
    BY <1>3, <1>16 DEF ReadersInv, ReadersTypeOK, StreamSound, Bounds
  <2>2. \A p \in log' : p <= stream[s].place => p \in log
    BY <1>1, <1>2, <1>7, <2>1 DEF Grows, TypeOK, Positions
  <2>3. QED
    BY <1>1, <1>6, <2>1, <2>2 DEF StreamSound, UpTo
<1>17. \A u \in Sessions \ {s} :
         /\ tx'[u] = tx[u] /\ work'[u] = work[u] /\ (u \in Streams => stream'[u] = stream[u])
         /\ \A p \in log' \ log : tx[u].head < p
  BY <1>3, <1>5, <1>8
<1>18. \A n \in Names : kept'[n] = kept[n] \/ ExactRow(kept[n])'
  BY <1>11
<1>19. QED
  BY <1>7, <1>13, <1>14, <1>15, <1>16, <1>17, <1>18, SessionStepKeeps

LEMMA FreedType ==
  ASSUME claim \in [Names -> Sessions \cup {NoSession}], NEW s
  PROVE  Freed(s) \in [Names -> Sessions \cup {NoSession}]
  BY DEF Freed

LEMMA UnlockKeeps ==
  ASSUME ReadersInv, ReadersNext, NEW s \in Sessions, Unlock(s)
  PROVE  ReadersInv'
<1>1. /\ work[s] \in Work /\ work \in [Sessions -> Work] /\ WorkSound(s) /\ passed \in Int
      /\ tx \in [Sessions -> Transaction]
      /\ claim' \in [Names -> Sessions \cup {NoSession}]
  BY FreedType DEF Unlock, ReadersInv, ReadersTypeOK, TypeOK, Bounds
<1>2. TypeOK'
  BY StepsOfSessions, NextKeeps DEF ReadersInv, IInv
<1>3. /\ log' = log /\ passed' = passed /\ kept' = kept /\ stream' = stream
      /\ tx' = [tx EXCEPT ![s] = Idle] /\ At(s, "visible")
      /\ work' = IF s \in Streams THEN work ELSE [work EXCEPT ![s] = Nothing]
  BY DEF Unlock, Release
<1>4. Idle.at = "idle" /\ Idle.own = {} /\ tx'[s] = Idle /\ tx[s].own = {}
      /\ tx[s].head <= passed
  BY <1>1, <1>3 DEF Idle, ReadersInv, ClosedTx, At
<1>a. passed <= passed' /\ (Idle.at \in {"idle", "visible"} => Idle.own = {})
      /\ (Idle.at = "visible" => Idle.head <= passed')
  BY <1>1, <1>3, <1>4
<1>5. CASE s \in Streams
  <2>1. work' = work /\ Visible(s)' = Visible(s)
    BY <1>3, <1>4, <1>5 DEF Visible
  <2>2. InRole(s)' /\ Computed(s)' /\ Paged(s)'
    BY <1>1, <1>3, <2>1
       DEF WorkSound, InRole, Computed, Paged, Doing, ExactRow, SeenUpTo
  <2>3. GivenHead(s)'
    BY <1>1, <1>3, <1>4, <1>5, <2>1 DEF WorkSound, GivenHead, Doing, At
  <2>4. work' = [work EXCEPT ![s] = work'[s]] /\ work'[s] \in Work
    BY <1>1, <2>1
  <2>5. QED
    BY <1>1, <1>3, <1>a, <2>2, <2>3, <2>4, TransactionKeeps DEF WorkSound
<1>6. CASE s \notin Streams
  <2>1. work'[s] = Nothing /\ work' = [work EXCEPT ![s] = work'[s]] /\ Nothing \in Work
    BY <1>1, <1>3, <1>6, RowTypes
  <2>2. WorkSound(s)'
    BY <1>2, <2>1, NothingStaysSound
  <2>3. QED
    BY <1>1, <1>3, <1>a, <2>1, <2>2, TransactionKeeps
<1>7. QED
  BY <1>5, <1>6

LEMMA AbortKeeps ==
  ASSUME ReadersInv, ReadersNext, NEW s \in Sessions, Abort(s)
  PROVE  ReadersInv'
<1>1. /\ work \in [Sessions -> Work] /\ passed \in Int /\ tx \in [Sessions -> Transaction]
      /\ claim' \in [Names -> Sessions \cup {NoSession}]
  BY FreedType DEF Abort, ReadersInv, ReadersTypeOK, TypeOK, Bounds
<1>2. TypeOK'
  BY StepsOfSessions, NextKeeps DEF ReadersInv, IInv
<1>3. /\ log' = log /\ passed' = passed /\ kept' = kept /\ stream' = stream
      /\ tx' = [tx EXCEPT ![s] = Idle] /\ work' = [work EXCEPT ![s] = Nothing]
  BY DEF Abort, Rollback
<1>4. passed <= passed' /\ (Idle.at \in {"idle", "visible"} => Idle.own = {})
      /\ (Idle.at = "visible" => Idle.head <= passed')
  BY <1>1, <1>3 DEF Idle
<1>5. work'[s] = Nothing /\ work' = [work EXCEPT ![s] = work'[s]] /\ Nothing \in Work
  BY <1>1, <1>3, RowTypes
<1>6. WorkSound(s)'
  BY <1>2, <1>5, NothingStaysSound
<1>7. QED
  BY <1>1, <1>3, <1>4, <1>5, <1>6, TransactionKeeps

\* A step of another tenant, and a step of none.
LEMMA AloneKeeps ==
  ASSUME ReadersInv, IInv', UNCHANGED <<log, tx, passed, readerVars>>
  PROVE  ReadersInv'
<1>1. ReadersTypeOK' /\ ClosedTx' /\ \A n \in Names : ExactRow(kept[n])'
  BY DEF ReadersInv, ReadersTypeOK, IInv, ClosedTx, ExactRow, readerVars
<1>2. \A s \in Sessions : WorkSound(s)'
  BY DEF ReadersInv, WorkSound, InRole, GivenHead, Computed, Paged, Doing, ExactRow, SeenUpTo,
         Visible, readerVars
<1>3. \A s \in Streams : StreamSound(s)'
  BY DEF ReadersInv, StreamSound, UpTo, readerVars
<1>4. QED
  BY <1>1, <1>2, <1>3 DEF ReadersInv

-----------------------------------------------------------------------------
(* The invariant.                                                          *)

LEMMA InitReadersInv == ReadersInit => ReadersInv
<1> SUFFICES ASSUME ReadersInit PROVE ReadersInv
  OBVIOUS
<1>1. IInv /\ TypeOK
  BY InitIInv DEF ReadersInit, IInv
<1>2. ReadersTypeOK
  BY <1>1, RowTypes, PositionsAssumption DEF ReadersInit, ReadersTypeOK, Bounds
<1>3. ClosedTx
  BY DEF ReadersInit, Init, ClosedTx, Idle
<1>4. \A n \in Names : ExactRow(kept[n])
  BY <1>1, NoRowIsExact DEF ReadersInit
<1>5. \A s \in Sessions : WorkSound(s)
  BY <1>1, NothingIsSound DEF ReadersInit
<1>6. \A s \in Streams : StreamSound(s)
  BY DEF ReadersInit, Init, StreamSound, UpTo
<1>7. QED
  BY <1>1, <1>2, <1>3, <1>4, <1>5, <1>6 DEF ReadersInv

LEMMA ReadersNextKeeps == ReadersInv /\ [ReadersNext]_allVars => ReadersInv'
<1> SUFFICES ASSUME ReadersInv, [ReadersNext]_allVars PROVE ReadersInv'
  OBVIOUS
<1>1. IInv'
  BY StepsOfSessions, NextKeeps DEF ReadersInv
<1>2. CASE UNCHANGED allVars
  BY <1>1, <1>2, AloneKeeps DEF allVars, vars
<1>3. CASE ReadersNext /\ TakeElsewhere /\ UNCHANGED readerVars
  BY <1>1, <1>3, AloneKeeps DEF TakeElsewhere
<1>4. ASSUME ReadersNext, NEW s \in Sessions,
             Enter(s) \/ AskHead(s) \/ Commit(s) \/ Unlock(s) \/ Abort(s)
      PROVE  ReadersInv'
  BY <1>4, EnterKeeps, AskHeadKeeps, CommitKeeps, UnlockKeeps, AbortKeeps
<1>5. ASSUME ReadersNext, NEW s \in Writers, Record(s) PROVE ReadersInv'
  BY <1>5, RecordKeeps
<1>6. ASSUME ReadersNext, NEW s \in Keepers, Keep(s) PROVE ReadersInv'
  BY <1>6, BringUpToDateKeeps, AlarmKeeps, FoldedKeeps, StoreKeeps, BeyondKeeps DEF Keep
<1>7. ASSUME ReadersNext, NEW s \in Streams, Serve(s) PROVE ReadersInv'
  BY <1>7, OpeningKeeps, ReadPageKeeps, HandOverKeeps, HeadReadKeeps, ShowStateKeeps DEF Serve
<1>8. QED
  BY <1>2, <1>3, <1>4, <1>5, <1>6, <1>7 DEF ReadersNext

THEOREM ReadersInvHolds == ReadersSpec => []ReadersInv
<1>1. QED
  BY InitReadersInv, ReadersNextKeeps, PTL DEF ReadersSpec

-----------------------------------------------------------------------------
(* What the readers may rely on.                                           *)

\* The types of the readers' state (ChainedLedger, Records, LiveHub).
THEOREM ReadersTypeCorrect == ReadersSpec => []ReadersTypeOK
<1>1. ReadersInv => ReadersTypeOK
  BY DEF ReadersInv
<1>2. QED
  BY <1>1, ReadersInvHolds, PTL

\* What is kept is the fold of exactly the committed entries up to its position
\* (ChainedLedger.project, rebuilt and verify, ProjectionStore.write).
THEOREM KeptIsFold == ReadersSpec => []StoredIsFold
<1>1. ReadersInv => StoredIsFold
  BY DEF ReadersInv, ExactRow, StoredIsFold, UpTo
<1>2. QED
  BY <1>1, ReadersInvHolds, PTL

\* A stream was sent everything up to its place (Records.after, LiveHub._read).
THEOREM StreamsMissNothing == ReadersSpec => []NothingMissed
<1>1. ReadersInv => NothingMissed
  BY DEF ReadersInv, StreamSound, NothingMissed
<1>2. QED
  BY <1>1, ReadersInvHolds, PTL

\* The readers are sessions of the positions: whatever else their transactions do, nothing
\* commits below a place one of them was sent on from (PostgresLedgerStore.head).
THEOREM ReadersAreSessions == ReadersSpec => Spec
<1>1. ReadersInit => Init
  BY DEF ReadersInit
<1>2. QED
  BY <1>1, StepsOfSessions, PTL DEF ReadersSpec, Spec

THEOREM ReadersPassNothing == ReadersSpec => NothingCommitsBelow
<1>1. QED
  BY ReadersAreSessions, StableHeadIsFinal, PTL

\* A caller receives the fold of everything its last statement could see.
LEMMA BeyondCompletes ==
  ASSUME ReadersInv, NEW s \in Keepers, Beyond(s)
  PROVE  work'[s].value = Visible(s)
<1>1. /\ s \in Sessions /\ work[s] \in Work /\ Visible(s) \in SUBSET Positions
      /\ work[s].value = SeenUpTo(s, work[s].through) /\ work \in [Sessions -> Work]
  BY RolesAreApart DEF Beyond, ReadersInv, ReadersTypeOK, TypeOK, Transaction, Visible,
                       WorkSound, Computed, Doing
<1>2. work'[s].value = work[s].value \cup EntriesBetween(s, work[s].through, MaxPosition)
  BY <1>1 DEF Beyond, Work
<1>3. \A p \in Visible(s) :
        p <= work[s].through \/ (work[s].through < p /\ p <= MaxPosition)
  BY <1>1, PositionsAssumption DEF Work, Bounds, Positions
<1>4. QED
  BY <1>1, <1>2, <1>3 DEF SeenUpTo, EntriesBetween

\* No other step makes a session that is to add what lies beyond the head a finished one.
LEMMA OnlyBeyondCompletes ==
  ASSUME ReadersInv, [ReadersNext]_allVars, NEW s \in Keepers,
         Doing(s, "beyond"), Doing(s, "done")'
  PROVE  Beyond(s)
<1> USE RolesAreApart
<1>1. work \in [Sessions -> Work] /\ s \in Sessions /\ s \notin Streams /\ work'[s] # work[s]
  BY DEF ReadersInv, ReadersTypeOK, Doing
<1>2. work' # work
  BY <1>1
<1>3. ASSUME NEW u \in Sessions, u # s,
             AskHead(u) \/ Unlock(u) \/ Abort(u) \/ Keep(u) \/ Serve(u)
      PROVE  FALSE
  <2>1. work' = work \/ \E w : work' = [work EXCEPT ![u] = w]
    BY <1>3 DEF AskHead, Unlock, Abort, Keep, BringUpToDate, Start, Alarm, Folded, Store, Beyond,
                Serve, Poll, Open, ReadPage, HandOver, HeadRead, ShowState
  <2>2. QED
    BY <1>1, <1>3, <2>1
<1>4. ASSUME NEW u \in Sessions, Enter(u) \/ Commit(u) PROVE FALSE
  BY <1>2, <1>4 DEF Enter, Commit, readerVars
<1>5. ~AskHead(s)
  BY DEF AskHead, Doing
<1>6. ~(Unlock(s) \/ Abort(s))
  BY <1>1 DEF Unlock, Abort, Doing, Nothing
<1>7. Keep(s) => Beyond(s)
  BY DEF Keep, BringUpToDate, Start, Alarm, Folded, Store, Doing
<1>8. ASSUME NEW u \in Writers, Record(u) PROVE FALSE
  BY <1>2, <1>8 DEF Record, readerVars
<1>9. ReadersNext /\ ~(TakeElsewhere /\ UNCHANGED readerVars)
  BY <1>2 DEF allVars, readerVars
<1>10. QED
  BY <1>1, <1>3, <1>4, <1>5, <1>6, <1>7, <1>8, <1>9 DEF ReadersNext

\* However a caller's reading interleaves with the writers, it receives the fold of everything
\* its last statement could see, what the session recorded itself included
\* (ChainedLedger.project and rebuilt).
THEOREM CallersGetAll == ReadersSpec => ReturnedIsComplete
<1>1. ReadersInv /\ [ReadersNext]_allVars => [\A s \in Keepers : Complete(s)]_allVars
  BY OnlyBeyondCompletes, BeyondCompletes DEF Complete
<1>2. QED
  BY <1>1, ReadersInvHolds, PTL DEF ReadersSpec, ReturnedIsComplete

-----------------------------------------------------------------------------
(* The chains.                                                             *)

\* An entry as it is recorded.
Proper(e) ==
  /\ e = [seq |-> e.seq, chain |-> e.chain, place |-> e.place, prev |-> e.prev,
          kind |-> e.kind, through |-> e.through, root |-> e.root, hash |-> e.hash]
  /\ e.seq \in Seqs /\ e.place \in Seqs /\ e.place <= e.seq
  /\ e.chain \in Chains /\ e.kind \in Facts \cup {Anchored} /\ e.through \in Nat
  /\ e.hash = HashOf(e)

Below(A, e) == {f \in OnChain(A, e.chain) : f.seq < e.seq}
Anchors(A) == {e \in A : IsAnchor(e)}

Chained(A) ==
  /\ \A e \in A : Proper(e)
  /\ \A e, f \in A : e.seq = f.seq => e = f
  /\ \A e, f \in A : e.chain = f.chain /\ e.seq < f.seq => e.place < f.place
  /\ \A e \in A : FollowsIts(e, Newest(Below(A, e)))
  /\ \A a \in Anchors(A) : AnchorHolds(A, a)

\* Every entry there is, committed or not.
All == ledger \cup UNION {draft[s].own : s \in Recorders}

Draft(E) == [at : {"idle", "open", "claimed", "anchoring", "anchor"}, own : SUBSET E,
             claims : SUBSET Chains, chain : Chains, through : 0 .. MaxSeq]

\* Whoever writes on a chain has its claim; the bound of an anchor is taken before anything is
\* written and nothing below it is still to commit.
Fit(r) ==
  /\ \A e \in r.own : e.chain \in r.claims
  /\ r.at = "idle" => r.own = {}
  /\ r.at = "claimed" => r.chain \in r.claims
  /\ r.at = "anchor" => TenantChain \in r.claims
  /\ r.at \in {"anchoring", "anchor"} =>
       /\ r.own = {} /\ r.through <= lastSeq
       /\ \A t \in Recorders : \A e \in draft[t].own : r.through < e.seq

\* What is still to commit on a chain lies above what is committed there, and above what any
\* anchor covers.
OpenAbove ==
  \A s \in Recorders : \A e \in draft[s].own :
    /\ \A f \in ledger : f.chain = e.chain => f.seq < e.seq
    /\ \A a \in Anchors(All) : a.through < e.seq

ChainsInv ==
  /\ lastSeq \in 0 .. MaxSeq /\ draft \in [Recorders -> Draft(All)]
  /\ Chained(All) /\ \A e \in All : e.seq <= lastSeq
  /\ \A s \in Recorders : Fit(draft[s])
  /\ \A s, t \in Recorders : s # t => draft[s].claims \cap draft[t].claims = {}
  /\ OpenAbove

-----------------------------------------------------------------------------
(* Newest entries, bounds and heads.                                       *)

LEMMA LeastIs ==
  ASSUME NEW S \in SUBSET Nat, S # {}
  PROVE  \E n \in S : \A m \in S : n <= m
<1> DEFINE less == OpToRel(<, Nat)
<1>1. PICK n \in S : \A m \in S : ~(<<m, n>> \in less)
  BY NatLessThanWellFounded, WFMin
<1>2. \A m \in S : ~(m < n)
  BY <1>1 DEF OpToRel
<1>3. QED
  BY <1>2

LEMMA NewestIs ==
  ASSUME NEW E, \A e \in E : e.seq \in Seqs, E # {}
  PROVE  \E e \in Newest(E) : e \in E /\ \A f \in E : f.seq <= e.seq
<1> DEFINE down == {MaxSeq - e.seq : e \in E}
<1>1. \A e \in E : e.seq \in Nat /\ MaxSeq - e.seq \in Nat
  BY ChainsAssumption DEF Seqs
<1>2. down \in SUBSET Nat /\ down # {}
  BY <1>1
<1>3. PICK n \in down : \A m \in down : n <= m
  BY <1>2, LeastIs
<1>4. PICK e \in E : n = MaxSeq - e.seq
  BY <1>3
<1>5. ASSUME NEW f \in E PROVE f.seq <= e.seq
  <2>1. MaxSeq - f.seq \in down
    OBVIOUS
  <2>2. MaxSeq - e.seq <= MaxSeq - f.seq
    BY <1>3, <1>4, <2>1
  <2>3. f.seq \in Nat /\ e.seq \in Nat
    BY DEF Seqs
  <2> HIDE DEF down
  <2>4. QED
    BY <2>2, <2>3, ChainsAssumption
<1>6. QED
  BY <1>5 DEF Newest

LEMMA NewestIsOf ==
  ASSUME NEW E, NEW e \in Newest(E)
  PROVE  e \in E /\ \A f \in E : f.seq <= e.seq
  BY DEF Newest

LEMMA NewestOne ==
  ASSUME NEW A, Chained(A), NEW E \in SUBSET A, NEW e \in Newest(E), NEW f \in Newest(E)
  PROVE  e = f
<1>1. e \in A /\ f \in A /\ e.seq \in Seqs /\ f.seq \in Seqs
  BY NewestIsOf DEF Chained, Proper
<1>2. e.seq <= f.seq /\ f.seq <= e.seq
  BY NewestIsOf
<1>3. e.seq = f.seq
  BY <1>1, <1>2 DEF Seqs
<1>4. QED
  BY <1>1, <1>3 DEF Chained

LEMMA BoundSame ==
  ASSUME NEW X, NEW Y, Anchors(X) = Anchors(Y)
  PROVE  Bound(X) = Bound(Y)
<1> DEFINE of(anchors) == IF anchors = {} THEN 0 ELSE (CHOOSE e \in anchors : TRUE).through
<1>1. Bound(X) = of(Newest(Anchors(X))) /\ Bound(Y) = of(Newest(Anchors(Y)))
  BY DEF Bound, Anchors
<1> HIDE DEF of
<1>2. QED
  BY <1>1

LEMMA BoundIs ==
  ASSUME NEW A, Chained(A), NEW X \in SUBSET A
  PROVE  /\ Bound(X) \in Nat
         /\ Anchors(X) = {} => Bound(X) = 0
         /\ Anchors(X) # {} => \E a \in Anchors(X) : Bound(X) = a.through
<1>1. Anchors(X) \in SUBSET A /\ \A a \in Anchors(X) : a.seq \in Seqs /\ a.through \in Nat
  BY DEF Anchors, Chained, Proper
<1>2. Newest(Anchors(X)) \subseteq Anchors(X)
  BY DEF Newest
<1>3. Anchors(X) # {} => Newest(Anchors(X)) # {}
  BY <1>1, NewestIs
<1>4. CASE Newest(Anchors(X)) = {}
  BY <1>3, <1>4 DEF Bound, Anchors
<1>5. CASE Newest(Anchors(X)) # {}
  <2>1. PICK a \in Newest(Anchors(X)) : a = (CHOOSE e \in Newest(Anchors(X)) : TRUE)
    BY <1>5
  <2>2. Bound(X) = a.through
    BY <1>5, <2>1 DEF Bound, Anchors
  <2>3. QED
    BY <1>1, <1>2, <2>1, <2>2
<1>6. QED
  BY <1>4, <1>5

LEMMA HeadsSame ==
  ASSUME NEW X, NEW Y, NEW after, NEW through,
         \A e : after < e.seq /\ e.seq <= through => (e \in X <=> e \in Y)
  PROVE  Heads(X, after, through) = Heads(Y, after, through)
<1>1. ASSUME NEW r \in Runs
      PROVE  {e \in OnChain(X, r) : after < e.seq /\ e.seq <= through}
             = {e \in OnChain(Y, r) : after < e.seq /\ e.seq <= through}
  BY DEF OnChain
<1>2. QED
  BY <1>1 DEF Heads

-----------------------------------------------------------------------------
(* What may be taken away and what may be added.                           *)

\* Entries may be taken away from the ends of the chains, above what the anchors cover.
LEMMA Restricts ==
  ASSUME NEW A, Chained(A), NEW S \in SUBSET A,
         \A e \in S, f \in A : f.chain = e.chain /\ f.seq < e.seq => f \in S,
         \A a \in Anchors(S), f \in A : f.seq <= a.through => f \in S
  PROVE  Chained(S)
<1>1. \A e \in S : Below(S, e) = Below(A, e)
  BY DEF Below, OnChain
<1>2. ASSUME NEW a \in Anchors(S)
      PROVE  AnchorHolds(S, a)
  <2> DEFINE X == {f \in S : f.seq < a.seq}
             Y == {f \in A : f.seq < a.seq}
  <2>1. AnchorHolds(A, a)
    BY DEF Anchors, Chained
  <2>2. Anchors(X) = Anchors(Y)
    BY DEF Anchors, IsAnchor
  <2>3. Bound(X) = Bound(Y)
    BY <2>2, BoundSame
  <2>4. Heads(S, Bound(Y), a.through) = Heads(A, Bound(Y), a.through)
    BY HeadsSame
  <2>5. QED
    BY <2>1, <2>3, <2>4 DEF AnchorHolds
<1>3. QED
  BY <1>1, <1>2 DEF Chained

\* An entry linked to the newest of its chain may be added, above every other.
LEMMA Extends ==
  ASSUME NEW A, Chained(A), NEW c \in Chains, NEW seq \in Seqs, \A e \in A : e.seq < seq,
         NEW kind \in Facts \cup {Anchored}, NEW through \in Nat, NEW root,
         NEW x, x = Link(Newest(OnChain(A, c)), c, seq, kind, through, root),
         kind = Anchored /\ c = TenantChain =>
           Bound(A) <= through /\ through < seq /\ root = Root(Heads(A, Bound(A), through))
  PROVE  Chained(A \cup {x}) /\ x.seq = seq /\ x.chain = c /\ x.kind = kind /\ x.through = through
<1> DEFINE E == OnChain(A, c)
           N == Newest(E)
<1>1. E \in SUBSET A /\ N \subseteq E /\ \A e \in E : e.chain = c /\ e.seq \in Seqs
  BY DEF OnChain, Newest, Chained, Proper
<1>2. PICK place, prev : /\ place = IF N = {} THEN 1 ELSE 1 + (CHOOSE e \in N : TRUE).place
                         /\ prev = IF N = {} THEN NoHash ELSE (CHOOSE e \in N : TRUE).hash
  OBVIOUS
<1>3. /\ x.seq = seq /\ x.chain = c /\ x.kind = kind /\ x.through = through /\ x.root = root
      /\ x.place = place /\ x.prev = prev /\ x.hash = HashOf(x)
      /\ x = [seq |-> x.seq, chain |-> x.chain, place |-> x.place, prev |-> x.prev,
              kind |-> x.kind, through |-> x.through, root |-> x.root, hash |-> x.hash]
  <2>1. x = Hashed([seq |-> seq, chain |-> c, place |-> place, prev |-> prev,
                    kind |-> kind, through |-> through, root |-> root, hash |-> NoHash])
    BY <1>2 DEF Link
  <2>2. PICK h : h = HashOf([seq |-> seq, chain |-> c, place |-> place, prev |-> prev,
                             kind |-> kind, through |-> through, root |-> root, hash |-> NoHash])
    OBVIOUS
  <2>3. x = [seq |-> seq, chain |-> c, place |-> place, prev |-> prev,
             kind |-> kind, through |-> through, root |-> root, hash |-> h]
    BY <2>1, <2>2 DEF Hashed
  <2>4. h = <<seq, c, place, prev, kind, through, root>>
    BY <2>2 DEF HashOf
  <2>5. QED
    BY <2>3, <2>4 DEF HashOf
<1>4. N = {} => E = {}
  BY <1>1, NewestIs
<1>5. /\ place \in Seqs /\ place <= seq
      /\ \A f \in N : place = f.place + 1 /\ prev = f.hash
      /\ N = {} => place = 1 /\ prev = NoHash
  <2>1. CASE N = {}
    BY <1>2, <2>1, ChainsAssumption DEF Seqs
  <2>2. CASE N # {}
    <3>1. PICK f \in N : f = (CHOOSE e \in N : TRUE)
      BY <2>2
    <3>2. f \in A /\ f.place \in Seqs /\ f.place <= f.seq /\ f.seq < seq
      BY <1>1 DEF Chained, Proper
    <3>3. \A g \in N : g = f
      BY <1>1, NewestOne
    <3>4. place = 1 + f.place /\ prev = f.hash
      BY <1>2, <2>2, <3>1
    <3>5. QED
      <4>1. place \in Seqs /\ place <= seq
        BY <3>2, <3>4, ChainsAssumption DEF Seqs, Chained, Proper
      <4>2. \A g \in N : place = g.place + 1 /\ prev = g.hash
        BY <3>2, <3>3, <3>4 DEF Seqs
      <4>3. QED
        BY <2>2, <4>1, <4>2
  <2>3. QED
    BY <2>1, <2>2
<1>6. \A e \in E : e.place < place
  <2>1. SUFFICES ASSUME NEW e \in E PROVE e.place < place
    OBVIOUS
  <2>2. PICK f \in N : f \in E /\ e.seq <= f.seq
    BY <1>1, NewestIs
  <2>3. /\ e \in A /\ f \in A /\ e.place \in Seqs /\ f.place \in Seqs
        /\ e.seq \in Seqs /\ f.seq \in Seqs
    BY <1>1, <2>2 DEF Chained, Proper
  <2>4. e.place <= f.place
    <3>1. CASE e.seq = f.seq
      BY <2>3, <3>1 DEF Chained, Seqs
    <3>2. CASE e.seq < f.seq
      BY <1>1, <2>2, <2>3, <3>2 DEF Chained, Seqs
    <3>3. QED
      BY <2>2, <2>3, <3>1, <3>2 DEF Seqs
  <2>5. QED
    BY <1>5, <2>3, <2>4 DEF Seqs
<1>7. Proper(x)
  BY <1>3, <1>5 DEF Proper
<1>8. \A e \in A : e.seq \in Seqs /\ e.seq # seq
  BY DEF Chained, Proper, Seqs
<1> DEFINE B == A \cup {x}
<1>9. ASSUME NEW e \in A PROVE Below(B, e) = Below(A, e)
  <2>1. ~(x.seq < e.seq)
    BY <1>3, <1>8 DEF Seqs
  <2>2. QED
    BY <2>1 DEF Below, OnChain
<1>10. Below(B, x) = E
  <2>1. ~(x.seq < x.seq) /\ x.chain = c /\ \A e \in A : e.seq < x.seq
    BY <1>3 DEF Seqs
  <2>2. QED
    BY <2>1 DEF Below, OnChain
<1>11. FollowsIts(x, Newest(Below(B, x)))
  BY <1>3, <1>5, <1>10 DEF FollowsIts
<1>12. \A e, f \in B : e.seq = f.seq => e = f
  BY <1>3, <1>8 DEF Chained
<1>13. \A e, f \in B : e.chain = f.chain /\ e.seq < f.seq => e.place < f.place
  <2>1. SUFFICES ASSUME NEW e \in B, NEW f \in B, e.chain = f.chain, e.seq < f.seq
                 PROVE  e.place < f.place
    OBVIOUS
  <2>2. CASE f = x
    BY <1>3, <1>6, <2>1, <2>2 DEF OnChain, Seqs
  <2>3. CASE f # x /\ e = x
    BY <1>3, <1>8, <2>1, <2>3 DEF Seqs
  <2>4. CASE f # x /\ e # x
    BY <2>1, <2>4 DEF Chained
  <2>5. QED
    BY <2>2, <2>3, <2>4
<1>14. ASSUME NEW a \in Anchors(A)
       PROVE  AnchorHolds(B, a)
  <2>1. AnchorHolds(A, a) /\ a \in A
    BY DEF Chained, Anchors
  <2>2. {f \in B : f.seq < a.seq} = {f \in A : f.seq < a.seq}
    BY <1>3, <1>8, <2>1 DEF Seqs
  <2>3. PICK after : after = Bound({f \in A : f.seq < a.seq})
    OBVIOUS
  <2>4. a.through < a.seq /\ a.through \in Nat /\ a.seq < seq
    BY <2>1 DEF AnchorHolds, Chained, Proper
  <2>5. ~(x.seq <= a.through)
    BY <1>3, <1>8, <2>1, <2>4 DEF Seqs
  <2>6. Heads(B, after, a.through) = Heads(A, after, a.through)
    BY <2>5, HeadsSame
  <2>7. QED
    BY <2>1, <2>2, <2>3, <2>6 DEF AnchorHolds
<1>15. IsAnchor(x) => AnchorHolds(B, x)
  <2>1. SUFFICES ASSUME IsAnchor(x) PROVE AnchorHolds(B, x)
    OBVIOUS
  <2>2. Bound(A) <= through /\ through < seq /\ root = Root(Heads(A, Bound(A), through))
    BY <1>3, <2>1 DEF IsAnchor
  <2>3. {f \in B : f.seq < x.seq} = A
    BY <1>3 DEF Seqs
  <2>4. ~(x.seq <= through)
    BY <1>3, <2>2 DEF Seqs
  <2>5. Heads(B, Bound(A), through) = Heads(A, Bound(A), through)
    BY <2>4, HeadsSame
  <2>6. QED
    BY <1>3, <2>2, <2>3, <2>5 DEF AnchorHolds
<1>16. Chained(B)
  BY <1>7, <1>9, <1>11, <1>12, <1>13, <1>14, <1>15 DEF Chained, Anchors
<1>17. QED
  BY <1>3, <1>16

-----------------------------------------------------------------------------
(* The steps of a transaction.                                             *)

\* One lemma for every step: a transaction that becomes r, and what it may add and commit.
LEMMA ChainsStepKeeps ==
  ASSUME ChainsInv, NEW s \in Recorders, NEW r, draft' = [draft EXCEPT ![s] = r],
         r \in Draft(All'), lastSeq' \in 0 .. MaxSeq, lastSeq <= lastSeq',
         Chained(All'), \A e \in All' : e.seq <= lastSeq',
         \A t \in Recorders \ {s} : r.claims \cap draft[t].claims = {},
         \A e \in r.own : e.chain \in r.claims,
         r.at = "idle" => r.own = {},
         r.at = "claimed" => r.chain \in r.claims,
         r.at = "anchor" => TenantChain \in r.claims,
         r.at \in {"anchoring", "anchor"} =>
           /\ r.own = {} /\ r.through <= lastSeq
           /\ \A t \in Recorders : \A e \in draft[t].own : r.through < e.seq,
         \A e \in r.own : e \in draft[s].own \/ lastSeq < e.seq,
         \A f \in ledger' : f \in ledger \/ f \in draft[s].own,
         r.own # {} => ledger' = ledger,
         \A a \in Anchors(All') :
           a \in All \/ (a.through <= lastSeq /\ \A t \in Recorders : \A e \in draft[t].own : a.through < e.seq)
  PROVE  ChainsInv'
<1>1. \A t \in Recorders : draft'[t] = IF t = s THEN r ELSE draft[t]
  BY DEF ChainsInv
<1>2. draft' \in [Recorders -> Draft(All')]
  <2>1. \A t \in Recorders : draft'[t].own \subseteq All'
    BY DEF All
  <2>2. \A t \in Recorders : draft'[t] \in Draft(All')
    BY <1>1, <2>1 DEF ChainsInv, Draft
  <2>3. draft' = [t \in Recorders |-> draft'[t]]
    BY DEF ChainsInv
  <2>4. QED
    BY <2>2, <2>3
<1>3. \A t \in Recorders : \A e \in draft[t].own : e \in All /\ e.seq \in Nat
  BY DEF All, ChainsInv, Chained, Proper, Seqs
<1>4. \A t \in Recorders : \A e \in draft'[t].own : e \in draft[t].own \/ (t = s /\ lastSeq < e.seq /\ e.seq \in Nat)
  <2>1. \A e \in r.own : e \in All'
    BY DEF Draft
  <2>2. \A e \in All' : e.seq \in Nat
    BY DEF Chained, Proper, Seqs
  <2>3. QED
    BY <1>1, <2>1, <2>2
<1>5. \A a \in Anchors(All) : a.through \in Nat /\ a.through <= lastSeq
  <2>1. SUFFICES ASSUME NEW a \in Anchors(All) PROVE a.through \in Nat /\ a.through <= lastSeq
    OBVIOUS
  <2>2. a \in All /\ a.through \in Nat /\ a.seq \in Nat /\ a.seq <= lastSeq /\ AnchorHolds(All, a)
    BY DEF ChainsInv, Chained, Proper, Anchors, Seqs
  <2>3. a.through < a.seq
    BY <2>2 DEF AnchorHolds
  <2>4. QED
    BY <2>2, <2>3 DEF ChainsInv
<1>6. OpenAbove'
  <2>1. SUFFICES ASSUME NEW t \in Recorders, NEW e \in draft'[t].own
                 PROVE  /\ \A f \in ledger' : f.chain = e.chain => f.seq < e.seq
                        /\ \A a \in Anchors(All') : a.through < e.seq
    BY DEF OpenAbove
  <2>2. ASSUME NEW f \in ledger', f.chain = e.chain
        PROVE  f.seq < e.seq
    <3>1. CASE f \in ledger /\ e \in draft[t].own
      BY <2>2, <3>1 DEF ChainsInv, OpenAbove
    <3>2. CASE f \in ledger /\ e \notin draft[t].own
      <4>1. f \in All /\ f.seq \in Nat /\ f.seq <= lastSeq
        BY <3>2 DEF All, ChainsInv, Chained, Proper, Seqs
      <4>2. QED
        BY <1>4, <3>2, <4>1 DEF ChainsInv
    <3>3. CASE f \notin ledger
      <4>1. f \in draft[s].own /\ r.own = {}
        BY <2>2, <3>3
      <4>2. t # s /\ e \in draft[t].own
        BY <1>1, <2>1, <4>1
      <4>3. e.chain \in draft[t].claims /\ f.chain \in draft[s].claims
        BY <4>1, <4>2 DEF ChainsInv, Fit
      <4>4. QED
        BY <2>2, <4>2, <4>3 DEF ChainsInv
    <3>4. QED
      BY <3>1, <3>2, <3>3
  <2>3. ASSUME NEW a \in Anchors(All')
        PROVE  a.through < e.seq
    <3>1. a.through \in Nat
      BY DEF Anchors, Chained, Proper
    <3>2. a \in Anchors(All) \/ (a.through <= lastSeq /\ \A e2 \in draft[t].own : a.through < e2.seq)
      BY <2>3 DEF Anchors
    <3>3. QED
      BY <1>4, <1>5, <2>1, <3>1, <3>2 DEF ChainsInv, OpenAbove
  <2>4. QED
    BY <2>2, <2>3
<1>7. ASSUME NEW t \in Recorders
      PROVE  Fit(draft[t])'
  <2>1. \A q \in Recorders : (draft'[t].at \in {"anchoring", "anchor"} /\ draft'[t].through <= lastSeq
                               /\ \A e \in draft[q].own : draft'[t].through < e.seq)
             => \A e \in draft'[q].own : draft'[t].through < e.seq
    <3>1. draft'[t].through \in Nat
      BY <1>2 DEF Draft
    <3>2. QED
      BY <1>4, <3>1 DEF ChainsInv
  <2>2. CASE t = s
    <3>1. draft'[t] = r
      BY <1>1, <2>2
    <3>2. r.at \in {"anchoring", "anchor"} => r.through <= lastSeq'
      BY DEF ChainsInv, Draft
    <3>3. QED
      BY <2>1, <3>1, <3>2 DEF Fit
  <2>3. CASE t # s
    <3>1. draft'[t] = draft[t] /\ Fit(draft[t]) /\ draft[t].through \in Nat
      BY <1>1, <2>3 DEF ChainsInv, Draft
    <3>2. draft[t].at \in {"anchoring", "anchor"} => draft[t].through <= lastSeq /\ draft[t].through <= lastSeq'
      BY <3>1 DEF Fit, ChainsInv
    <3>3. QED
      BY <2>1, <3>1, <3>2 DEF Fit
  <2>4. QED
    BY <2>2, <2>3
<1>8. \A t, q \in Recorders : t # q => draft'[t].claims \cap draft'[q].claims = {}
  BY <1>1 DEF ChainsInv
<1>9. QED
  BY <1>2, <1>6, <1>7, <1>8 DEF ChainsInv

\* A step that adds, commits and drops nothing.
LEMMA QuietChainsStepKeeps ==
  ASSUME ChainsInv, NEW s \in Recorders, NEW r \in Draft(All), draft' = [draft EXCEPT ![s] = r],
         UNCHANGED <<lastSeq, ledger>>, r.own = draft[s].own,
         \A t \in Recorders \ {s} : r.claims \cap draft[t].claims = {},
         \A e \in r.own : e.chain \in r.claims,
         r.at # "idle",
         r.at = "claimed" => r.chain \in r.claims,
         r.at = "anchor" => TenantChain \in r.claims,
         r.at \in {"anchoring", "anchor"} =>
           /\ r.own = {} /\ r.through <= lastSeq
           /\ \A t \in Recorders : \A e \in draft[t].own : r.through < e.seq
  PROVE  ChainsInv'
<1>1. \A t \in Recorders : draft'[t].own = draft[t].own
  BY DEF ChainsInv
<1>2. All' = All
  BY <1>1 DEF All
<1>3. /\ lastSeq' \in 0 .. MaxSeq /\ lastSeq <= lastSeq' /\ Chained(All') /\ \A e \in All' : e.seq <= lastSeq'
      /\ r \in Draft(All')
  BY <1>2 DEF ChainsInv
<1>4. \A a \in Anchors(All') : a \in All
  BY <1>2 DEF Anchors
<1>5. QED
  BY <1>3, <1>4, ChainsStepKeeps

LEMMA BeginInv ==
  ASSUME ChainsInv, NEW s \in Recorders, BeginDraft(s)
  PROVE  ChainsInv'
<1>1. PICK x : x = draft[s] /\ x \in Draft(All) /\ Fit(x)
  BY DEF ChainsInv
<1>p. PICK r : r = [x EXCEPT !.at = "open"]
  OBVIOUS
<1>2. r \in Draft(All) /\ r.own = x.own /\ r.claims = x.claims /\ r.at = "open"
  BY <1>1, <1>p DEF Draft
<1>3. draft' = [draft EXCEPT ![s] = r] /\ UNCHANGED <<lastSeq, ledger>>
  BY <1>1, <1>p DEF BeginDraft
<1>4. \A t \in Recorders \ {s} : r.claims \cap draft[t].claims = {}
  BY <1>1, <1>2 DEF ChainsInv
<1>5. \A e \in r.own : e.chain \in r.claims
  BY <1>1, <1>2 DEF Fit
<1>6. QED
  BY <1>1, <1>2, <1>3, <1>4, <1>5, QuietChainsStepKeeps

LEMMA ClaimInv ==
  ASSUME ChainsInv, NEW s \in Recorders, Claim(s)
  PROVE  ChainsInv'
<1>1. PICK x : x = draft[s] /\ x \in Draft(All) /\ Fit(x)
  BY DEF ChainsInv
<1>2. PICK c \in Chains :
        /\ \A t \in Recorders \ {s} : c \notin draft[t].claims
        /\ draft' = [draft EXCEPT ![s].at = "claimed", ![s].chain = c, ![s].claims = @ \cup {c}]
  BY DEF Claim
<1>p. PICK r : r = [x EXCEPT !.at = "claimed", !.chain = c, !.claims = x.claims \cup {c}]
  OBVIOUS
<1>3. /\ r \in Draft(All) /\ r.own = x.own /\ r.claims = x.claims \cup {c}
      /\ r.at = "claimed" /\ r.chain = c
  BY <1>1, <1>p DEF Draft
<1>4. draft' = [draft EXCEPT ![s] = r] /\ UNCHANGED <<lastSeq, ledger>>
  BY <1>1, <1>2, <1>p DEF Claim
<1>5. \A t \in Recorders \ {s} : r.claims \cap draft[t].claims = {}
  BY <1>1, <1>2, <1>3 DEF ChainsInv
<1>6. \A e \in r.own : e.chain \in r.claims
  BY <1>1, <1>3 DEF Fit
<1>7. QED
  BY <1>1, <1>3, <1>4, <1>5, <1>6, QuietChainsStepKeeps

\* The head is final: nothing that is still to commit lies at or below it.
LEMMA AnchorHeadInv ==
  ASSUME ChainsInv, NEW s \in Recorders, AnchorHead(s)
  PROVE  ChainsInv'
<1>1. PICK x : x = draft[s] /\ x \in Draft(All) /\ Fit(x) /\ x.own = {}
  BY DEF ChainsInv, AnchorHead
<1>2. PICK h \in FinalHeads : draft' = [draft EXCEPT ![s].at = "anchoring", ![s].through = h]
  BY DEF AnchorHead
<1>3. h \in 0 .. MaxSeq /\ h <= lastSeq /\ \A t \in Recorders : \A e \in draft[t].own : h < e.seq
  <2>1. \A e \in All : e.seq \in Seqs /\ e.seq <= lastSeq
    BY DEF ChainsInv, Chained, Proper
  <2>2. ledger \subseteq All /\ \A t \in Recorders : draft[t].own \subseteq All
    BY DEF All
  <2>3. CASE h = 0
    BY <2>1, <2>2, <2>3, ChainsAssumption DEF ChainsInv, Seqs
  <2>4. CASE h # 0
    BY <2>1, <2>2, <2>4 DEF FinalHeads, Seqs
  <2>5. QED
    BY <2>3, <2>4
<1>p. PICK r : r = [x EXCEPT !.at = "anchoring", !.through = h]
  OBVIOUS
<1>4. /\ r \in Draft(All) /\ r.own = x.own /\ r.claims = x.claims
      /\ r.at = "anchoring" /\ r.through = h
  BY <1>1, <1>3, <1>p DEF Draft
<1>5. draft' = [draft EXCEPT ![s] = r] /\ UNCHANGED <<lastSeq, ledger>>
  BY <1>1, <1>2, <1>p DEF AnchorHead
<1>6. \A t \in Recorders \ {s} : r.claims \cap draft[t].claims = {}
  BY <1>1, <1>4 DEF ChainsInv
<1>7. QED
  BY <1>1, <1>3, <1>4, <1>5, <1>6, QuietChainsStepKeeps

LEMMA AnchorClaimInv ==
  ASSUME ChainsInv, NEW s \in Recorders, AnchorClaim(s)
  PROVE  ChainsInv'
<1>1. PICK x : /\ x = draft[s] /\ x \in Draft(All) /\ x.own = {} /\ x.through <= lastSeq
               /\ \A t \in Recorders : \A e \in draft[t].own : x.through < e.seq
  BY DEF ChainsInv, AnchorClaim, Stands, Fit
<1>p. PICK r : r = [x EXCEPT !.at = "anchor", !.claims = {TenantChain}]
  OBVIOUS
<1>2. /\ r \in Draft(All) /\ r.own = x.own /\ r.claims = {TenantChain}
      /\ r.at = "anchor" /\ r.through = x.through
  BY <1>1, <1>p DEF Draft, Chains
<1>3. draft' = [draft EXCEPT ![s] = r] /\ UNCHANGED <<lastSeq, ledger>>
  BY <1>1, <1>p DEF AnchorClaim
<1>4. \A t \in Recorders \ {s} : r.claims \cap draft[t].claims = {}
  BY <1>2 DEF AnchorClaim
<1>5. QED
  BY <1>1, <1>2, <1>3, <1>4, QuietChainsStepKeeps

\* Of a chain whose claim it has, a session sees all there is.
LEMMA SeesItsChain ==
  ASSUME ChainsInv, NEW s \in Recorders, NEW c \in draft[s].claims
  PROVE  OnChain(Readable(s), c) = OnChain(All, c)
<1>1. Readable(s) \subseteq All
  BY DEF Readable, All
<1>2. ASSUME NEW e \in All, e.chain = c
      PROVE  e \in Readable(s)
  <2>1. CASE e \in ledger
    BY <2>1 DEF Readable
  <2>2. CASE e \notin ledger
    <3>1. PICK t \in Recorders : e \in draft[t].own
      BY <2>2 DEF All
    <3>2. c \in draft[t].claims
      BY <1>2, <3>1 DEF ChainsInv, Fit
    <3>3. t = s
      BY <3>2 DEF ChainsInv
    <3>4. QED
      BY <3>1, <3>3 DEF Readable
  <2>3. QED
    BY <2>1, <2>2
<1>3. QED
  BY <1>1, <1>2 DEF OnChain

\* An entry is added to a chain whose claim the session has.
LEMMA AddsKeep ==
  ASSUME ChainsInv, NEW s \in Recorders, draft[s].at # "idle", NEW x, x.chain \in draft[s].claims,
         Chained(All \cup {x}), x.seq = lastSeq + 1, lastSeq < MaxSeq,
         draft' = [draft EXCEPT ![s].at = "open", ![s].own = @ \cup {x}],
         lastSeq' = lastSeq + 1, ledger' = ledger,
         IsAnchor(x) => x.through <= lastSeq /\ \A t \in Recorders : \A e \in draft[t].own : x.through < e.seq
  PROVE  ChainsInv'
<1>1. PICK y : y = draft[s] /\ y \in Draft(All) /\ Fit(y)
  BY DEF ChainsInv
<1> DEFINE r == [y EXCEPT !.at = "open", !.own = y.own \cup {x}]
<1>2. draft' = [draft EXCEPT ![s] = r]
  BY <1>1
<1>3. /\ r \in Draft(All \cup {x}) /\ r.at = "open" /\ r.own = y.own \cup {x}
      /\ r.claims = y.claims
  BY <1>1 DEF Draft
<1> HIDE DEF r
<1>4. \A t \in Recorders : draft'[t] = IF t = s THEN r ELSE draft[t]
  BY <1>2 DEF ChainsInv
<1>5. All' = All \cup {x}
  <2>1. draft'[s].own = draft[s].own \cup {x} /\ \A t \in Recorders \ {s} : draft'[t].own = draft[t].own
    BY <1>1, <1>3, <1>4
  <2>2. \A e : (\E t \in Recorders : e \in draft'[t].own)
               <=> (\E t \in Recorders : e \in draft[t].own) \/ e = x
    BY <2>1
  <2>3. \A e : e \in All' <=> e \in All \cup {x}
    BY <2>2 DEF All
  <2>4. QED
    BY <2>3
<1>6. /\ lastSeq \in Nat /\ lastSeq' \in 0 .. MaxSeq /\ lastSeq <= lastSeq'
      /\ \A e \in All' : e.seq <= lastSeq'
  BY <1>5, ChainsAssumption DEF ChainsInv, Chained, Proper, Seqs
<1>7. \A t \in Recorders \ {s} : r.claims \cap draft[t].claims = {}
  BY <1>1, <1>3 DEF ChainsInv
<1>8. \A e \in r.own : e.chain \in r.claims /\ (e \in draft[s].own \/ lastSeq < e.seq)
  BY <1>1, <1>3, <1>6 DEF Fit
<1>9. \A a \in Anchors(All') :
        a \in All \/ (a.through <= lastSeq /\ \A t \in Recorders : \A e \in draft[t].own : a.through < e.seq)
  BY <1>5 DEF Anchors
<1>10. QED
  BY <1>2, <1>3, <1>5, <1>6, <1>7, <1>8, <1>9, ChainsStepKeeps

LEMMA NextPosition ==
  ASSUME ChainsInv, lastSeq < MaxSeq
  PROVE  lastSeq + 1 \in Seqs /\ \A e \in All : e.seq < lastSeq + 1
<1>1. lastSeq \in Nat /\ lastSeq + 1 \in Seqs
  BY ChainsAssumption DEF ChainsInv, Seqs
<1>2. \A e \in All : e.seq \in Nat /\ e.seq <= lastSeq
  BY DEF ChainsInv, Chained, Proper, Seqs
<1>3. QED
  BY <1>1, <1>2

LEMMA AppendInv ==
  ASSUME ChainsInv, NEW s \in Recorders, Append(s)
  PROVE  ChainsInv'
<1>1. PICK c \in Chains : c = draft[s].chain /\ c \in draft[s].claims
  BY DEF ChainsInv, Draft, Append, Stands, Fit
<1>2. PICK fact \in Facts :
        draft' = [draft EXCEPT ![s].at = "open",
                               ![s].own = @ \cup {Link(Newest(OnChain(Readable(s), c)), c,
                                                       lastSeq + 1, fact, 0, NoHeads)}]
  BY <1>1 DEF Append
<1>3. PICK x : x = Link(Newest(OnChain(Readable(s), c)), c, lastSeq + 1, fact, 0, NoHeads)
  OBVIOUS
<1>4. draft' = [draft EXCEPT ![s].at = "open", ![s].own = @ \cup {x}]
  BY <1>2, <1>3
<1>5. x = Link(Newest(OnChain(All, c)), c, lastSeq + 1, fact, 0, NoHeads)
  BY <1>1, <1>3, SeesItsChain
<1>6. lastSeq + 1 \in Seqs /\ \A e \in All : e.seq < lastSeq + 1
  BY NextPosition DEF Append
<1>7. fact # Anchored
  BY ChainsAssumption
<1>8. Chained(All \cup {x}) /\ x.seq = lastSeq + 1 /\ x.chain = c /\ x.kind = fact
  <2>1. Chained(All) /\ fact \in Facts \cup {Anchored} /\ 0 \in Nat
    BY DEF ChainsInv
  <2>2. QED
    BY <1>5, <1>6, <1>7, <2>1, Extends
<1>9. QED
  BY <1>1, <1>4, <1>7, <1>8, AddsKeep DEF Append, Stands, IsAnchor

LEMMA WriteAnchorInv ==
  ASSUME ChainsInv, NEW s \in Recorders, WriteAnchor(s)
  PROVE  ChainsInv'
<1>1. PICK through \in 0 .. MaxSeq :
        /\ through = draft[s].through /\ through <= lastSeq /\ draft[s].own = {}
        /\ \A t \in Recorders : \A e \in draft[t].own : through < e.seq
        /\ TenantChain \in draft[s].claims
  BY DEF ChainsInv, Draft, WriteAnchor, Stands, Fit
<1>2. OnChain(Readable(s), TenantChain) = OnChain(All, TenantChain)
  BY <1>1, SeesItsChain
<1>3. Anchors(Readable(s)) = Anchors(All)
  <2>1. \A S : Anchors(S) = {e \in OnChain(S, TenantChain) : e.kind = Anchored}
    BY DEF Anchors, IsAnchor, OnChain
  <2>2. QED
    BY <1>2, <2>1
<1>4. PICK after \in Nat : after = Bound(Readable(s)) /\ after = Bound(All)
  BY <1>3, BoundSame, BoundIs DEF ChainsInv
<1>5. PICK heads : heads = Heads(Readable(s), after, through) /\ heads = Heads(All, after, through)
  <2>1. Readable(s) = ledger /\ ledger \subseteq All
    BY <1>1 DEF Readable, All
  <2>2. ASSUME NEW e, after < e.seq, e.seq <= through, e \in All
        PROVE  e \in ledger
    <3>1. e.seq \in Nat
      BY <2>2 DEF ChainsInv, Chained, Proper, Seqs
    <3>2. \A t \in Recorders : e \notin draft[t].own
      BY <1>1, <2>2, <3>1
    <3>3. QED
      BY <2>2, <3>2 DEF All
  <2>3. Heads(Readable(s), after, through) = Heads(All, after, through)
    BY <2>1, <2>2, HeadsSame
  <2>4. QED
    BY <2>3
<1>6. CASE through <= after \/ heads = {}
  <2>1. PICK x : x = draft[s] /\ x \in Draft(All) /\ Fit(x)
    BY DEF ChainsInv
  <2>p. PICK r : r = [x EXCEPT !.at = "open"]
    OBVIOUS
  <2>2. r \in Draft(All) /\ r.own = x.own /\ r.claims = x.claims /\ r.at = "open"
    BY <2>1, <2>p DEF Draft
  <2>3. draft' = [draft EXCEPT ![s] = r] /\ UNCHANGED <<lastSeq, ledger>>
    BY <1>1, <1>4, <1>5, <1>6, <2>1, <2>p DEF WriteAnchor
  <2>4. \A t \in Recorders \ {s} : r.claims \cap draft[t].claims = {}
    BY <2>1, <2>2 DEF ChainsInv
  <2>5. \A e \in r.own : e.chain \in r.claims
    BY <2>1, <2>2 DEF Fit
  <2>6. QED
    BY <2>1, <2>2, <2>3, <2>4, <2>5, QuietChainsStepKeeps
<1>7. CASE ~(through <= after \/ heads = {})
  <2>1. PICK x : x = Link(Newest(OnChain(All, TenantChain)), TenantChain, lastSeq + 1, Anchored,
                          through, Root(heads))
    OBVIOUS
  <2>2. /\ lastSeq < MaxSeq /\ lastSeq' = lastSeq + 1 /\ ledger' = ledger
        /\ draft' = [draft EXCEPT ![s].at = "open", ![s].own = @ \cup {x}]
    BY <1>1, <1>2, <1>4, <1>5, <1>7, <2>1 DEF WriteAnchor
  <2>3. lastSeq + 1 \in Seqs /\ \A e \in All : e.seq < lastSeq + 1
    BY <2>2, NextPosition
  <2>4. after <= through /\ through < lastSeq + 1 /\ through \in Nat
    BY <1>1, <1>7 DEF ChainsInv
  <2>5. TenantChain \in Chains
    BY DEF Chains
  <2>6. PICK root : root = Root(heads) /\ root = Root(Heads(All, Bound(All), through))
    BY <1>4, <1>5
  <2>7. /\ Chained(All \cup {x}) /\ x.seq = lastSeq + 1 /\ x.chain = TenantChain
        /\ x.through = through
    BY <1>4, <2>1, <2>3, <2>4, <2>5, <2>6, Extends DEF ChainsInv
  <2>8. QED
    BY <1>1, <2>2, <2>7, AddsKeep DEF WriteAnchor, Stands
<1>8. QED
  BY <1>6, <1>7

LEMMA IdleIs ==
  ASSUME NEW E
  PROVE  NoDraft \in Draft(E) /\ NoDraft.own = {} /\ NoDraft.claims = {} /\ NoDraft.at = "idle"
  BY ChainsAssumption DEF NoDraft, Draft, Chains

LEMMA CommitInv ==
  ASSUME ChainsInv, NEW s \in Recorders, CommitDraft(s)
  PROVE  ChainsInv'
<1>1. PICK r : r = NoDraft
  OBVIOUS
<1>2. draft' = [draft EXCEPT ![s] = r] /\ lastSeq' = lastSeq /\ ledger' = ledger \cup draft[s].own
  BY <1>1 DEF CommitDraft
<1>3. \A E : r \in Draft(E) /\ r.own = {} /\ r.claims = {} /\ r.at = "idle"
  BY <1>1, IdleIs
<1>4. \A t \in Recorders : draft'[t] = IF t = s THEN r ELSE draft[t]
  BY <1>2 DEF ChainsInv
<1>5. All' = All
  <2>1. draft'[s].own = {} /\ \A t \in Recorders \ {s} : draft'[t].own = draft[t].own
    BY <1>3, <1>4
  <2>2. \A e : e \in ledger' \/ (\E t \in Recorders : e \in draft'[t].own)
               <=> e \in ledger \/ (\E t \in Recorders : e \in draft[t].own)
    BY <1>2, <2>1
  <2>3. \A e : e \in All' <=> e \in All
    BY <2>2 DEF All
  <2>4. QED
    BY <2>3
<1>6. /\ lastSeq' \in 0 .. MaxSeq /\ lastSeq <= lastSeq'
      /\ Chained(All') /\ \A e \in All' : e.seq <= lastSeq'
  BY <1>2, <1>5, ChainsAssumption DEF ChainsInv
<1>7. \A a \in Anchors(All') : a \in All
  BY <1>5 DEF Anchors
<1>8. QED
  BY <1>2, <1>3, <1>6, <1>7, ChainsStepKeeps

\* What is dropped lies above what stays on its chain and above what any anchor covers.
LEMMA RollbackInv ==
  ASSUME ChainsInv, NEW s \in Recorders, DropDraft(s)
  PROVE  ChainsInv'
<1>1. PICK r : r = NoDraft
  OBVIOUS
<1>2. draft' = [draft EXCEPT ![s] = r] /\ lastSeq' = lastSeq /\ ledger' = ledger
  BY <1>1 DEF DropDraft
<1>3. \A E : r \in Draft(E) /\ r.own = {} /\ r.claims = {} /\ r.at = "idle"
  BY <1>1, IdleIs
<1>4. \A t \in Recorders : draft'[t] = IF t = s THEN r ELSE draft[t]
  BY <1>2 DEF ChainsInv
<1>5. draft'[s].own = {} /\ \A t \in Recorders \ {s} : draft'[t].own = draft[t].own
  BY <1>3, <1>4
<1>6. /\ \A e \in All' : e \in All /\ (e \in ledger \/ \E t \in Recorders \ {s} : e \in draft[t].own)
      /\ \A e \in All : e \in All' \/ e \in draft[s].own
  BY <1>2, <1>5 DEF All
<1>7. ASSUME NEW e \in All', NEW f \in All, f.chain = e.chain, f.seq < e.seq
      PROVE  f \in All'
  <2>1. SUFFICES ASSUME f \in draft[s].own PROVE FALSE
    BY <1>6
  <2>2. CASE e \in ledger
    <3>1. e.seq < f.seq
      BY <1>7, <2>1, <2>2 DEF ChainsInv, OpenAbove
    <3>2. e.seq \in Nat /\ f.seq \in Nat
      BY <1>6 DEF ChainsInv, Chained, Proper, Seqs
    <3>3. QED
      BY <1>7, <3>1, <3>2
  <2>3. CASE e \notin ledger
    <3>1. PICK t \in Recorders \ {s} : e \in draft[t].own
      BY <1>6, <2>3
    <3>2. e.chain \in draft[t].claims /\ e.chain \in draft[s].claims
      BY <1>7, <2>1, <3>1 DEF ChainsInv, Fit
    <3>3. QED
      BY <3>2 DEF ChainsInv
  <2>4. QED
    BY <2>2, <2>3
<1>8. ASSUME NEW a \in Anchors(All'), NEW f \in All, f.seq <= a.through
      PROVE  f \in All'
  <2>1. a \in Anchors(All) /\ a.through \in Nat /\ f.seq \in Nat
    BY <1>6 DEF Anchors, ChainsInv, Chained, Proper, Seqs
  <2>2. f \notin draft[s].own
    BY <1>8, <2>1 DEF ChainsInv, OpenAbove
  <2>3. QED
    BY <1>6, <2>2
<1>9. PICK S \in SUBSET All : S = All'
  BY <1>6
<1>10. Chained(S)
  BY <1>7, <1>8, <1>9, Restricts DEF ChainsInv
<1>11. /\ lastSeq' \in 0 .. MaxSeq /\ lastSeq <= lastSeq'
       /\ \A e \in All' : e.seq <= lastSeq'
  BY <1>2, <1>6, ChainsAssumption DEF ChainsInv
<1>12. Chained(All')
  BY <1>9, <1>10
<1>13. \A a \in Anchors(All') : a \in All
  BY <1>6 DEF Anchors
<1>14. QED
  BY <1>2, <1>3, <1>11, <1>12, <1>13, ChainsStepKeeps

-----------------------------------------------------------------------------

LEMMA InitChains == ChainsInit => ChainsInv
<1>1. SUFFICES ASSUME ChainsInit PROVE ChainsInv
  OBVIOUS
<1>2. lastSeq = 0 /\ ledger = {} /\ draft = [s \in Recorders |-> NoDraft]
  BY <1>1 DEF ChainsInit
<1>3. All = {}
  BY <1>2, IdleIs DEF All
<1>4. Chained({})
  BY DEF Chained, Anchors
<1>5. \A s \in Recorders : draft[s] \in Draft(All) /\ draft[s].own = {} /\ draft[s].claims = {}
                           /\ draft[s].at = "idle"
  BY <1>2, IdleIs
<1>6. QED
  BY <1>2, <1>3, <1>4, <1>5, ChainsAssumption DEF ChainsInv, Fit, OpenAbove

LEMMA NextChains == ChainsInv /\ [ChainsNext]_chainVars => ChainsInv'
<1>1. SUFFICES ASSUME ChainsInv, [ChainsNext]_chainVars PROVE ChainsInv'
  OBVIOUS
<1>2. CASE UNCHANGED chainVars
  BY <1>1, <1>2 DEF chainVars, ChainsInv, Fit, OpenAbove, All
<1>3. ASSUME NEW s \in Recorders, BeginDraft(s) PROVE ChainsInv'
  BY <1>1, <1>3, BeginInv
<1>4. ASSUME NEW s \in Recorders, Claim(s) PROVE ChainsInv'
  BY <1>1, <1>4, ClaimInv
<1>5. ASSUME NEW s \in Recorders, Append(s) PROVE ChainsInv'
  BY <1>1, <1>5, AppendInv
<1>6. ASSUME NEW s \in Recorders, AnchorHead(s) PROVE ChainsInv'
  BY <1>1, <1>6, AnchorHeadInv
<1>7. ASSUME NEW s \in Recorders, AnchorClaim(s) PROVE ChainsInv'
  BY <1>1, <1>7, AnchorClaimInv
<1>8. ASSUME NEW s \in Recorders, WriteAnchor(s) PROVE ChainsInv'
  BY <1>1, <1>8, WriteAnchorInv
<1>9. ASSUME NEW s \in Recorders, CommitDraft(s) PROVE ChainsInv'
  BY <1>1, <1>9, CommitInv
<1>10. ASSUME NEW s \in Recorders, DropDraft(s) PROVE ChainsInv'
  BY <1>1, <1>10, RollbackInv
<1>11. QED
  BY <1>1, <1>2, <1>3, <1>4, <1>5, <1>6, <1>7, <1>8, <1>9, <1>10 DEF ChainsNext

\* Whatever the sessions do, the entries, committed and not, are chained: gapless places, each
\* entry linked to the one before it, each anchor the root of what it covers.
THEOREM ChainsInvHolds == ChainsSpec => []ChainsInv
<1>1. ChainsInit => ChainsInv
  BY InitChains
<1>2. ChainsInv /\ [ChainsNext]_chainVars => ChainsInv'
  BY NextChains
<1>3. QED
  BY <1>1, <1>2, PTL DEF ChainsSpec

\* The type invariant of the chains.
THEOREM ChainsTypeCorrect == ChainsSpec => []ChainsTypeOK
<1>1. ChainsInv => ChainsTypeOK
  <2>1. SUFFICES ASSUME ChainsInv PROVE ChainsTypeOK
    OBVIOUS
  <2>2. \A e \in All : e.seq \in 1 .. lastSeq /\ e.chain \in Chains /\ e.place \in Seqs
                       /\ e.kind \in Facts \cup {Anchored}
    BY <2>1, ChainsAssumption DEF ChainsInv, Chained, Proper, Seqs
  <2>3. \A s \in Recorders : draft[s] \in Draft(All)
    BY <2>1 DEF ChainsInv
  <2>4. QED
    BY <2>1, <2>2, <2>3 DEF ChainsTypeOK, All, Draft, ChainsInv
<1>2. QED
  BY <1>1, ChainsInvHolds, PTL

-----------------------------------------------------------------------------
(* What a verification finds.                                              *)

\* What is committed is chained by itself.
LEMMA LogChained ==
  ASSUME ChainsInv
  PROVE  Chained(ledger) /\ ledger \subseteq All
<1>1. ledger \subseteq All
  BY DEF All
<1>2. ASSUME NEW e \in ledger, NEW f \in All, f \notin ledger
      PROVE  ~(f.chain = e.chain /\ f.seq < e.seq)
  <2>1. PICK t \in Recorders : f \in draft[t].own
    BY <1>2 DEF All
  <2>2. e.seq \in Nat /\ f.seq \in Nat
    BY <1>1 DEF ChainsInv, Chained, Proper, Seqs
  <2>3. f.chain = e.chain => e.seq < f.seq
    BY <2>1 DEF ChainsInv, OpenAbove
  <2>4. QED
    BY <2>2, <2>3
<1>3. ASSUME NEW a \in Anchors(ledger), NEW f \in All, f \notin ledger
      PROVE  ~(f.seq <= a.through)
  <2>1. PICK t \in Recorders : f \in draft[t].own
    BY <1>3 DEF All
  <2>2. a \in Anchors(All) /\ a.through \in Nat /\ f.seq \in Nat
    BY <1>1 DEF Anchors, ChainsInv, Chained, Proper, Seqs
  <2>3. a.through < f.seq
    BY <2>1, <2>2 DEF ChainsInv, OpenAbove
  <2>4. QED
    BY <2>2, <2>3
<1>4. QED
  BY <1>1, <1>2, <1>3, Restricts DEF ChainsInv

\* Wherever a walk starts, it compares an entry with what the whole chain says it follows.
LEMMA FollowsWalked ==
  ASSUME NEW A, Chained(A), NEW e \in A, NEW start \in Nat, start < e.seq
  PROVE  FollowsIts(e, Before(A, start, e))
<1> DEFINE W == {f \in OnChain(A, e.chain) : start < f.seq /\ f.seq < e.seq}
           L == Below(A, e)
           P == {f \in OnChain(A, e.chain) : f.place = e.place - 1}
<1>1. /\ W \subseteq L /\ L \subseteq A /\ \A f \in A : f.seq \in Seqs /\ f.place \in Seqs
      /\ FollowsIts(e, Newest(L))
  BY DEF Below, OnChain, Chained, Proper
<1>2. CASE Newest(W) # {}
  <2>1. Newest(W) = Newest(L)
    <3>1. PICK w \in Newest(W) : TRUE
      BY <1>2
    <3>2. w \in W /\ \A f \in W : f.seq <= w.seq
      BY NewestIsOf
    <3>3. ASSUME NEW f \in L PROVE f.seq <= w.seq
      <4>1. CASE f \in W
        BY <3>2, <4>1
      <4>2. CASE f \notin W
        <5>1. ~(start < f.seq) /\ start < w.seq
          BY <3>2, <4>2 DEF Below
        <5>2. f.seq \in Nat /\ w.seq \in Nat
          BY <1>1, <3>2 DEF Seqs
        <5>3. QED
          BY <5>1, <5>2
      <4>3. QED
        BY <4>1, <4>2
    <3>4. w \in Newest(L)
      BY <1>1, <3>2, <3>3 DEF Newest
    <3>5. \A f \in Newest(L) : f = w
      BY <1>1, <3>4, NewestOne
    <3>6. \A f \in Newest(W) : f = w
      <4>1. W \in SUBSET A
        BY <1>1
      <4>2. QED
        BY <3>1, <4>1, NewestOne
    <3>7. QED
      BY <3>1, <3>4, <3>5, <3>6
  <2>2. Before(A, start, e) = Newest(W)
    BY <1>2 DEF Before
  <2>3. QED
    BY <1>1, <2>1, <2>2
<1>3. CASE Newest(W) = {}
  <2>1. Before(A, start, e) = P
    BY <1>3 DEF Before
  <2>2. CASE Newest(L) = {}
    <3>1. e.place = 1 /\ e.prev = NoHash
      BY <1>1, <2>2 DEF FollowsIts
    <3>2. P = {}
      BY <1>1, <3>1 DEF OnChain, Seqs
    <3>3. QED
      BY <2>1, <3>1, <3>2 DEF FollowsIts
  <2>3. CASE Newest(L) # {}
    <3>1. PICK g \in Newest(L) : e.place = g.place + 1 /\ e.prev = g.hash
      BY <1>1, <2>3 DEF FollowsIts
    <3>2. g \in A /\ g.chain = e.chain
      BY <1>1, NewestIsOf DEF Below, OnChain
    <3>3. ASSUME NEW f \in P PROVE f = g
      <4>1. f \in A /\ f.chain = e.chain /\ f.place = e.place - 1
        BY DEF OnChain
      <4>2. f.place = g.place /\ f.seq \in Nat /\ g.seq \in Nat
        BY <1>1, <3>1, <3>2, <4>1 DEF Seqs
      <4>3. ~(f.seq < g.seq) /\ ~(g.seq < f.seq)
        <5>1. f.place \in Nat
          BY <1>1, <4>1 DEF Seqs
        <5>2. QED
          BY <3>2, <4>1, <4>2, <5>1 DEF Chained
      <4>4. f.seq = g.seq
        BY <4>2, <4>3
      <4>5. QED
        BY <3>2, <4>1, <4>4 DEF Chained
    <3>4. g \in P
      BY <1>1, <3>1, <3>2 DEF OnChain, Seqs
    <3>5. QED
      BY <2>1, <3>1, <3>3, <3>4 DEF FollowsIts
  <2>4. QED
    BY <2>2, <2>3
<1>4. QED
  BY <1>2, <1>3

\* A verification of a ledger nobody altered answers that it is intact from any checkpoint up to
\* any head at or above it, and, by the rule of the code, from no checkpoint above its head.
THEOREM IntactVerifiesHolds == ChainsSpec => []IntactVerifies
<1>1. ASSUME ChainsInv, NEW start \in FinalHeads, NEW head \in FinalHeads
      PROVE  Intact(ledger, start, head) <=> start <= head
  <2>1. Chained(ledger) /\ start \in Nat /\ head \in Nat
    BY <1>1, LogChained DEF FinalHeads, Chained, Proper, Seqs
  <2>2. ASSUME NEW e \in ledger, start < e.seq
        PROVE  /\ FollowsIts(e, Before(ledger, start, e)) /\ e.hash = HashOf(e)
               /\ IsAnchor(e) => AnchorHolds(ledger, e)
    <3>1. FollowsIts(e, Before(ledger, start, e))
      BY <2>1, <2>2, FollowsWalked
    <3>2. QED
      BY <2>1, <3>1 DEF Chained, Proper, Anchors
  <2>3. \A e \in ledger : Rises(ledger, e)
    BY <2>1 DEF Rises, Chained
  <2>4. Findings(ledger, start, head) = {}
    BY <2>2, <2>3 DEF Findings
  <2>5. QED
    BY <2>1, <2>4 DEF Intact, EndsBefore
<1>2. ChainsInv => IntactVerifies
  BY <1>1 DEF IntactVerifies
<1>3. QED
  BY <1>2, ChainsInvHolds, PTL

-----------------------------------------------------------------------------
(* What a verification finds of a ledger that was altered.                 *)

\* No two entries of a chain have the same place.
LEMMA PlaceIsOne ==
  ASSUME NEW A, Chained(A), NEW e \in A, NEW f \in A, e.chain = f.chain, e.place = f.place
  PROVE  e = f
<1>1. e.seq \in Nat /\ f.seq \in Nat /\ e.place \in Nat
  BY DEF Chained, Proper, Seqs
<1>2. ~(e.seq < f.seq) /\ ~(f.seq < e.seq)
  BY <1>1 DEF Chained
<1>3. QED
  BY <1>1, <1>2 DEF Chained

\* What follows an entry at once names it, and is one place on.
LEMMA NextNames ==
  ASSUME NEW A, Chained(A), NEW e \in A, NEW f \in After(A, e),
         \A g \in After(A, e) : f.seq <= g.seq
  PROVE  f \in A /\ f.chain = e.chain /\ f.place = e.place + 1 /\ f.prev = e.hash
<1>1. f \in A /\ f.chain = e.chain /\ e.seq < f.seq /\ \A g \in A : g.seq \in Nat
  BY DEF After, OnChain, Chained, Proper, Seqs
<1>2. e \in Below(A, f)
  BY <1>1 DEF Below, OnChain
<1>3. ASSUME NEW g \in Below(A, f) PROVE g.seq <= e.seq
  <2>1. g \in A /\ g.chain = e.chain /\ g.seq < f.seq
    BY <1>1 DEF Below, OnChain
  <2>2. ~(g.seq > e.seq)
    BY <1>1, <2>1 DEF After, OnChain
  <2>3. QED
    BY <1>1, <2>1, <2>2
<1>4. e \in Newest(Below(A, f))
  BY <1>2, <1>3 DEF Newest
<1>5. QED
  BY <1>1, <1>4 DEF Chained, FollowsIts

\* The first anchor that covers an entry of a run's chain: its range begins below the entry.
LEMMA FirstCovers ==
  ASSUME NEW A, Chained(A), NEW e \in A, Covered(A, e)
  PROVE  \E a \in A : /\ IsAnchor(a) /\ e.seq <= a.through
                      /\ Bound({f \in A : f.seq < a.seq}) < e.seq
                      /\ a.root = Root(Heads(A, Bound({f \in A : f.seq < a.seq}), a.through))
<1> DEFINE C == {a \in A : IsAnchor(a) /\ e.seq <= a.through}
           S == {a.seq : a \in C}
<1>1. \A a \in A : a.seq \in Nat /\ a.through \in Nat /\ a.seq > 0
  BY DEF Chained, Proper, Seqs
<1>2. S \in SUBSET Nat /\ S # {}
  BY <1>1 DEF Covered
<1>3. PICK n \in S : \A m \in S : n <= m
  BY <1>2, LeastIs
<1>4. PICK a \in C : n = a.seq
  BY <1>3
<1>5. \A b \in C : a.seq <= b.seq
  BY <1>3, <1>4
<1> HIDE DEF S
<1> DEFINE X == {f \in A : f.seq < a.seq}
<1>6. Bound(X) < e.seq
  <2>1. CASE Anchors(X) = {}
    BY <1>1, <2>1, BoundIs
  <2>2. CASE Anchors(X) # {}
    <3>1. PICK b \in Anchors(X) : Bound(X) = b.through
      BY <2>2, BoundIs
    <3>2. b \in A /\ IsAnchor(b) /\ b.seq < a.seq
      BY DEF Anchors
    <3>3. b \notin C
      BY <1>1, <1>4, <1>5, <3>2
    <3>4. QED
      BY <1>1, <3>1, <3>2, <3>3
  <2>3. QED
    BY <2>1, <2>2
<1>7. AnchorHolds(A, a)
  BY <1>4 DEF Chained, Anchors
<1>8. a.root = Root(Heads(A, Bound(X), a.through))
  BY <1>7 DEF AnchorHolds
<1>9. QED
  BY <1>4, <1>6, <1>8

\* An entry that is taken out is missed by the one that followed it ...
LEMMA FollowerMisses ==
  ASSUME NEW A, Chained(A), NEW e \in A, Followed(A, e)
  PROVE  Findings(A \ {e}, 0, MaxSeq) # {}
<1> DEFINE S == {f.seq : f \in After(A, e)}
<1>1. \A f \in A : f.seq \in Nat /\ 0 < f.seq /\ f.seq <= MaxSeq /\ f.place \in Nat /\ f.place > 0
  BY ChainsAssumption DEF Chained, Proper, Seqs
<1>2. After(A, e) \subseteq A
  BY DEF After, OnChain
<1>3. S \in SUBSET Nat /\ S # {}
  BY <1>1, <1>2 DEF Followed
<1>4. PICK n \in S : \A m \in S : n <= m
  BY <1>3, LeastIs
<1>5. PICK f \in After(A, e) : n = f.seq
  BY <1>4
<1>6. \A g \in After(A, e) : f.seq <= g.seq
  BY <1>4, <1>5
<1>7. f \in A /\ f.chain = e.chain /\ f.place = e.place + 1
  BY <1>6, NextNames
<1>8. f # e
  BY <1>1, <1>7
<1> DEFINE B == Before(A \ {e}, 0, f)
<1>9. \A g \in B : g \in A \ {e} /\ g.chain = f.chain
  BY DEF Before, Newest, OnChain
<1>10. ~FollowsIts(f, B)
  <2>1. SUFFICES ASSUME FollowsIts(f, B) PROVE FALSE
    OBVIOUS
  <2>2. CASE B = {}
    BY <1>1, <1>7, <2>1, <2>2 DEF FollowsIts
  <2>3. CASE B # {}
    <3>1. PICK g \in B : f.place = g.place + 1
      BY <2>1, <2>3 DEF FollowsIts
    <3>2. g \in A /\ g # e /\ g.chain = e.chain
      BY <1>7, <1>9
    <3>3. g.place = e.place
      BY <1>1, <1>7, <3>1, <3>2
    <3>4. QED
      BY <3>2, <3>3, PlaceIsOne
  <2>4. QED
    BY <2>2, <2>3
<1>11. f \in Findings(A \ {e}, 0, MaxSeq)
  BY <1>1, <1>7, <1>8, <1>10 DEF Findings
<1>12. QED
  BY <1>11

\* ... and the last of a run's chain by the anchor that covers it.
LEMMA AnchorMisses ==
  ASSUME NEW A, Chained(A), NEW e \in A, ~Followed(A, e), Covered(A, e)
  PROVE  Findings(A \ {e}, 0, MaxSeq) # {}
<1>1. PICK a \in A : /\ IsAnchor(a) /\ e.seq <= a.through
                     /\ Bound({f \in A : f.seq < a.seq}) < e.seq
                     /\ a.root = Root(Heads(A, Bound({f \in A : f.seq < a.seq}), a.through))
  BY FirstCovers
<1>2. e.chain \in Runs /\ e.chain # TenantChain /\ a # e /\ ~IsAnchor(e)
  BY <1>1, ChainsAssumption DEF Covered, IsAnchor
<1>3. PICK after : after = Bound({f \in A : f.seq < a.seq})
  OBVIOUS
<1>4. Bound({f \in A \ {e} : f.seq < a.seq}) = after
  <2>1. Anchors({f \in A \ {e} : f.seq < a.seq}) = Anchors({f \in A : f.seq < a.seq})
    BY <1>2 DEF Anchors
  <2>2. QED
    BY <1>3, <2>1, BoundSame
<1>5. \A f \in A : f.seq \in Nat /\ 0 < f.seq /\ f.seq <= MaxSeq
  BY ChainsAssumption DEF Chained, Proper, Seqs
<1>6. e \in Heads(A, after, a.through)
  <2>1. \A f \in OnChain(A, e.chain) : f.seq <= e.seq
    BY <1>5 DEF Followed, After, OnChain
  <2>2. e \in Newest({f \in OnChain(A, e.chain) : after < f.seq /\ f.seq <= a.through})
    BY <1>1, <1>3, <2>1 DEF Newest, OnChain
  <2>3. QED
    BY <1>2, <2>2 DEF Heads
<1>7. [chain |-> e.chain, place |-> e.place, digest |-> e.hash] \in a.root
  BY <1>1, <1>3, <1>6 DEF Root
<1>8. ~AnchorHolds(A \ {e}, a)
  <2>1. SUFFICES ASSUME a.root = Root(Heads(A \ {e}, after, a.through)) PROVE FALSE
    BY <1>4 DEF AnchorHolds
  <2>2. PICK h \in Heads(A \ {e}, after, a.through) : h.chain = e.chain /\ h.place = e.place
    BY <1>7, <2>1 DEF Root
  <2>3. h \in A \ {e}
    BY DEF Heads, Newest, OnChain
  <2>4. QED
    BY <2>2, <2>3, PlaceIsOne
<1>9. a \in Findings(A \ {e}, 0, MaxSeq)
  BY <1>1, <1>2, <1>5, <1>8 DEF Findings
<1>10. QED
  BY <1>9

\* A verification finds that an entry was taken out.
THEOREM RemovalFoundHolds == ChainsSpec => []RemovalFound
<1>1. ASSUME ChainsInv PROVE RemovalFound
  <2>1. Chained(ledger)
    BY <1>1, LogChained
  <2>2. QED
    BY <2>1, FollowerMisses, AnchorMisses DEF RemovalFound
<1>2. QED
  BY <1>1, ChainsInvHolds, PTL

\* What rewrites a chain place by place: each place takes the hash before it.
Rewrites(again, N, k, first, of) ==
  again = [p \in 0 .. N |-> IF p <= k THEN first ELSE Relinked(of[p], again[p - 1].hash)]

LEMMA RewritingExists ==
  ASSUME NEW k \in Nat, k > 0, NEW first, NEW of, NEW N \in Nat
  PROVE  \E again : Rewrites(again, N, k, first, of)
<1> DEFINE To(n) == \E g : Rewrites(g, n, k, first, of)
           Bad == {n \in Nat : ~To(n)}
<1>1. To(0)
  <2>1. PICK g : g = [p \in 0 .. 0 |-> first]
    OBVIOUS
  <2>2. g = [p \in 0 .. 0 |-> IF p <= k THEN first ELSE Relinked(of[p], g[p - 1].hash)]
    BY <2>1
  <2>3. QED
    BY <2>2 DEF Rewrites
<1>2. ASSUME NEW n \in Nat, To(n) PROVE To(n + 1)
  <2>1. PICK g : g = [p \in 0 .. n |-> IF p <= k THEN first ELSE Relinked(of[p], g[p - 1].hash)]
    BY <1>2 DEF Rewrites
  <2>2. PICK h : h = [p \in 0 .. n + 1 |->
                        IF p <= k THEN first ELSE Relinked(of[p], g[p - 1].hash)]
    OBVIOUS
  <2>3. ASSUME NEW p \in 0 .. n PROVE h[p] = g[p]
    <3>1. PICK v : v = IF p <= k THEN first ELSE Relinked(of[p], g[p - 1].hash)
      OBVIOUS
    <3>2. g[p] = v
      BY <2>1, <3>1, Zenon
    <3>3. p \in 0 .. n + 1
      OBVIOUS
    <3>4. h[p] = v
      BY <2>2, <3>1, <3>3, Zenon
    <3>5. QED
      BY <3>2, <3>4
  <2>4. ASSUME NEW p \in 0 .. n + 1, ~(p <= k) PROVE g[p - 1] = h[p - 1]
    <3>1. p - 1 \in 0 .. n
      BY <2>4
    <3>2. QED
      BY <2>3, <3>1
  <2>5. h = [p \in 0 .. n + 1 |-> IF p <= k THEN first ELSE Relinked(of[p], h[p - 1].hash)]
    BY <2>2, <2>4
  <2>6. QED
    BY <2>5 DEF Rewrites
<1>3. Bad = {}
  <2>1. SUFFICES ASSUME Bad # {} PROVE FALSE
    OBVIOUS
  <2>2. PICK n \in Bad : \A m \in Bad : n <= m
    BY <2>1, LeastIs
  <2> HIDE DEF To
  <2>3. n # 0 /\ n \in Nat
    BY <1>1
  <2>4. n - 1 \in Nat /\ ~(n <= n - 1)
    BY <2>3
  <2>5. To(n - 1)
    BY <2>2, <2>4
  <2>6. To((n - 1) + 1)
    BY <1>2, <2>4, <2>5
  <2>7. QED
    BY <2>3, <2>6
<1>4. To(N)
  BY <1>3
<1>5. QED
  BY <1>4

\* What a rewriting puts at each place: the entry that was there, with another hash.
LEMMA RewritingIs ==
  ASSUME NEW A, Chained(A), NEW e \in A, NEW fact
  PROVE  /\ Rewriting(A, e, fact)[e.place] = Restated(e, fact)
         /\ \A f \in After(A, e) : Rewriting(A, e, fact)[f.place]
              = Relinked(f, Rewriting(A, e, fact)[f.place - 1].hash)
<1> DEFINE first == Restated(e, fact)
           of == [p \in 0 .. MaxSeq |-> CHOOSE g \in After(A, e) : g.place = p]
<1>1. e.place \in Nat /\ e.place > 0 /\ e.place \in 0 .. MaxSeq
  BY ChainsAssumption DEF Chained, Proper, Seqs
<1>2. PICK again : Rewrites(again, MaxSeq, e.place, first, of)
  BY <1>1, ChainsAssumption, RewritingExists
<1>3. again = [p \in 0 .. MaxSeq |->
          IF p <= e.place THEN Restated(e, fact)
          ELSE Relinked(CHOOSE g \in After(A, e) : g.place = p, again[p - 1].hash)]
  <2>1. \A p \in 0 .. MaxSeq : of[p] = CHOOSE g \in After(A, e) : g.place = p
    OBVIOUS
  <2> HIDE DEF of
  <2>2. again = [p \in 0 .. MaxSeq |->
                  IF p <= e.place THEN first ELSE Relinked(of[p], again[p - 1].hash)]
    BY <1>2, Zenon DEF Rewrites
  <2>3. again = [p \in 0 .. MaxSeq |-> again[p]]
    <3>1. PICK body : body = [p \in 0 .. MaxSeq |->
                        IF p <= e.place THEN first ELSE Relinked(of[p], again[p - 1].hash)]
      OBVIOUS
    <3>2. body = [p \in 0 .. MaxSeq |-> body[p]]
      BY <3>1
    <3>3. again = body
      BY <2>2, <3>1, Zenon
    <3>4. QED
      BY <3>2, <3>3
  <2>4. ASSUME NEW p \in 0 .. MaxSeq
        PROVE  again[p] = IF p <= e.place THEN first ELSE Relinked(of[p], again[p - 1].hash)
    BY <2>2, Zenon
  <2>5. PICK told : told = [p \in 0 .. MaxSeq |->
          IF p <= e.place THEN Restated(e, fact)
          ELSE Relinked(CHOOSE g \in After(A, e) : g.place = p, again[p - 1].hash)]
    OBVIOUS
  <2>6. ASSUME NEW p \in 0 .. MaxSeq
        PROVE  told[p] = IF p <= e.place THEN Restated(e, fact)
                         ELSE Relinked(CHOOSE g \in After(A, e) : g.place = p, again[p - 1].hash)
    BY <2>5, Zenon
  <2>7. ASSUME NEW p \in 0 .. MaxSeq PROVE told[p] = again[p]
    <3>1. PICK g : g = of[p] /\ g = CHOOSE h \in After(A, e) : h.place = p
      BY <2>1
    <3>2. again[p] = IF p <= e.place THEN first ELSE Relinked(g, again[p - 1].hash)
      BY <2>4, <3>1
    <3>3. told[p] = IF p <= e.place THEN Restated(e, fact) ELSE Relinked(g, again[p - 1].hash)
      BY <2>6, <3>1, Zenon
    <3>4. QED
      BY <3>2, <3>3
  <2>8. told = [p \in 0 .. MaxSeq |-> told[p]]
    BY <2>5
  <2>9. told = again
    BY <2>3, <2>7, <2>8
  <2>10. QED
    BY <2>5, <2>9, Zenon
<1>4. Rewriting(A, e, fact) = [p \in 0 .. MaxSeq |->
          IF p <= e.place THEN Restated(e, fact)
          ELSE Relinked(CHOOSE g \in After(A, e) : g.place = p, Rewriting(A, e, fact)[p - 1].hash)]
  BY <1>3 DEF Rewriting
<1>5. Rewriting(A, e, fact)[e.place] = Restated(e, fact)
  BY <1>1, <1>4
<1>6. ASSUME NEW f \in After(A, e)
      PROVE  Rewriting(A, e, fact)[f.place]
             = Relinked(f, Rewriting(A, e, fact)[f.place - 1].hash)
  <2>1. f \in A /\ f.chain = e.chain /\ f.seq > e.seq /\ e.seq \in Nat /\ f.seq \in Nat
    BY DEF After, OnChain, Chained, Proper, Seqs
  <2>2. f.place \in 0 .. MaxSeq /\ ~(f.place <= e.place)
    BY <1>1, <2>1, ChainsAssumption DEF Chained, Proper, Seqs
  <2>3. \A g \in After(A, e) : g.place = f.place => g = f
    BY <2>1, PlaceIsOne DEF After, OnChain
  <2>4. (CHOOSE g \in After(A, e) : g.place = f.place) = f
    BY <2>3
  <2>5. QED
    BY <1>4, <2>2, <2>4
<1>7. QED
  BY <1>5, <1>6

\* A hash is of the whole content: one of another fact, or after another hash, is another.
LEMMA KindDiffers ==
  ASSUME NEW x, Proper(x), NEW v, v # x.kind, NEW y, y = Restated(x, v)
  PROVE  y.hash # x.hash /\ y.chain = x.chain /\ y.place = x.place
<1>1. PICK z : z = [x EXCEPT !.kind = v]
  OBVIOUS
<1>2. z = [seq |-> x.seq, chain |-> x.chain, place |-> x.place, prev |-> x.prev,
             kind |-> v, through |-> x.through, root |-> x.root, hash |-> x.hash]
  BY <1>1 DEF Proper
<1>3. PICK h : h = HashOf(z)
  OBVIOUS
<1>4. h = <<x.seq, x.chain, x.place, x.prev, v, x.through, x.root>>
  BY <1>2, <1>3 DEF HashOf
<1>5. y = [seq |-> x.seq, chain |-> x.chain, place |-> x.place, prev |-> x.prev,
             kind |-> v, through |-> x.through, root |-> x.root, hash |-> h]
  BY <1>1, <1>2, <1>3 DEF Restated, Hashed
<1>6. x.hash = <<x.seq, x.chain, x.place, x.prev, x.kind, x.through, x.root>>
  BY DEF Proper, HashOf
<1>7. h # x.hash
  BY <1>4, <1>6
<1>8. QED
  BY <1>5, <1>7

LEMMA PrevDiffers ==
  ASSUME NEW x, Proper(x), NEW v, v # x.prev, NEW y, y = Relinked(x, v)
  PROVE  y.hash # x.hash /\ y.chain = x.chain /\ y.place = x.place
<1>1. PICK z : z = [x EXCEPT !.prev = v]
  OBVIOUS
<1>2. z = [seq |-> x.seq, chain |-> x.chain, place |-> x.place, prev |-> v,
             kind |-> x.kind, through |-> x.through, root |-> x.root, hash |-> x.hash]
  BY <1>1 DEF Proper
<1>3. PICK h : h = HashOf(z)
  OBVIOUS
<1>4. h = <<x.seq, x.chain, x.place, v, x.kind, x.through, x.root>>
  BY <1>2, <1>3 DEF HashOf
<1>5. y = [seq |-> x.seq, chain |-> x.chain, place |-> x.place, prev |-> v,
             kind |-> x.kind, through |-> x.through, root |-> x.root, hash |-> h]
  BY <1>1, <1>2, <1>3 DEF Relinked, Hashed
<1>6. x.hash = <<x.seq, x.chain, x.place, x.prev, x.kind, x.through, x.root>>
  BY DEF Proper, HashOf
<1>7. h # x.hash
  BY <1>4, <1>6
<1>8. QED
  BY <1>5, <1>7

\* Every entry from the altered one on keeps its chain and place and changes its hash.
LEMMA RewritingDiffers ==
  ASSUME NEW A, Chained(A), NEW e \in A, NEW fact, fact # e.kind
  PROVE  \A f \in After(A, e) \cup {e} :
           LET x == Rewriting(A, e, fact)[f.place]
           IN x.chain = f.chain /\ x.place = f.place /\ x.hash # f.hash
<1> DEFINE again == Rewriting(A, e, fact)
           Same(f) == /\ again[f.place].chain = f.chain /\ again[f.place].place = f.place
                      /\ again[f.place].hash # f.hash
<1>1. \A f \in A : Proper(f) /\ f.seq \in Nat /\ f.place \in Nat
  BY DEF Chained, Proper, Seqs
<1>2. /\ again[e.place] = Restated(e, fact)
      /\ \A f \in After(A, e) : again[f.place]
              = Relinked(f, again[f.place - 1].hash)
  BY RewritingIs
<1> HIDE DEF again
<1>3. Same(e)
  BY <1>1, <1>2, KindDiffers
<1>4. ASSUME NEW f \in After(A, e), NEW g \in A, again[g.place].hash # g.hash,
             f.place = g.place + 1, f.prev = g.hash
      PROVE  Same(f)
  <2>1. f \in A /\ f.place - 1 = g.place
    BY <1>1, <1>4 DEF After, OnChain
  <2>2. again[f.place] = Relinked(f, again[g.place].hash)
    BY <1>2, <2>1
  <2>3. QED
    BY <1>1, <1>4, <2>1, <2>2, PrevDiffers
<1> HIDE DEF Same
<1> DEFINE Bad == {f \in After(A, e) : ~Same(f)}
           S == {f.seq : f \in Bad}
<1>5. Bad = {}
  <2>1. SUFFICES ASSUME Bad # {} PROVE FALSE
    OBVIOUS
  <2>2. After(A, e) \subseteq A
    BY DEF After, OnChain
  <2>3. S \in SUBSET Nat /\ S # {}
    BY <1>1, <2>1, <2>2
  <2>4. PICK n \in S : \A m \in S : n <= m
    BY <2>3, LeastIs
  <2>5. PICK f \in Bad : n = f.seq
    BY <2>4
  <2>6. \A g \in Bad : f.seq <= g.seq
    BY <2>4, <2>5
  <2>7. f \in A /\ f.chain = e.chain /\ e.seq < f.seq
    BY <1>1, <2>2 DEF After, OnChain
  <2>8. e \in Below(A, f) /\ Below(A, f) \subseteq A /\ \A g \in Below(A, f) : g.seq \in Seqs
    BY <2>7 DEF Below, OnChain, Chained, Proper
  <2>9. PICK g \in Newest(Below(A, f)) : \A h \in Below(A, f) : h.seq <= g.seq
    BY <2>8, NewestIs
  <2>10. /\ g \in A /\ g.chain = e.chain /\ g.seq < f.seq /\ e.seq <= g.seq
         /\ f.place = g.place + 1 /\ f.prev = g.hash
    <3>1. g \in Below(A, f)
      BY NewestIsOf
    <3>2. FollowsIts(f, Newest(Below(A, f)))
      BY <2>7 DEF Chained
    <3>3. QED
      BY <2>7, <2>8, <2>9, <3>1, <3>2 DEF FollowsIts, Below, OnChain
  <2>11. Same(g)
    <3>1. CASE g = e
      BY <1>3, <3>1
    <3>2. CASE g # e
      <4>1. e.seq < g.seq
        BY <1>1, <2>10, <3>2 DEF Chained
      <4>2. g \in After(A, e)
        BY <1>1, <2>10, <4>1 DEF After, OnChain
      <4>3. g \notin Bad
        BY <1>1, <2>6, <2>7, <2>10
      <4>4. QED
        BY <4>2, <4>3
    <3>3. QED
      BY <3>1, <3>2
  <2>12. Same(f)
    BY <1>4, <2>10, <2>11 DEF Same
  <2>13. QED
    BY <2>5, <2>12
<1>6. QED
  BY <1>3, <1>5 DEF Same, again

\* The first anchor that covers the entry holds the hash of an entry that was rewritten.
LEMMA AnchorDiffers ==
  ASSUME NEW A, Chained(A), NEW e \in A, NEW fact, fact # e.kind, Covered(A, e)
  PROVE  Findings(Rewritten(A, e, fact), 0, MaxSeq) # {}
<1> DEFINE changed == After(A, e) \cup {e}
<1>1. PICK a \in A : /\ IsAnchor(a) /\ e.seq <= a.through
                     /\ Bound({f \in A : f.seq < a.seq}) < e.seq
                     /\ a.root = Root(Heads(A, Bound({f \in A : f.seq < a.seq}), a.through))
  BY FirstCovers
<1>2. PICK after : after = Bound({f \in A : f.seq < a.seq})
  OBVIOUS
<1>3. PICK again : again = Rewriting(A, e, fact)
  OBVIOUS
<1>4. PICK R : R = Rewritten(A, e, fact)
  OBVIOUS
<1>5. R = (A \ changed) \cup {again[f.place] : f \in changed}
  BY <1>3, <1>4 DEF Rewritten
<1>6. /\ \A f \in A : f.seq \in Seqs
      /\ changed \subseteq A /\ e \in changed
      /\ \A f \in A : f \in changed <=> f.chain = e.chain /\ e.seq <= f.seq
  <2>1. \A f \in A : f.seq \in Nat /\ f.seq \in Seqs /\ e.seq \in Nat
    BY DEF Chained, Proper, Seqs
  <2>2. ASSUME NEW f \in A
        PROVE  f \in changed <=> f.chain = e.chain /\ e.seq <= f.seq
    <3>1. f.seq = e.seq => f = e
      BY DEF Chained
    <3>2. QED
      BY <2>1, <3>1 DEF After, OnChain
  <2>3. QED
    BY <2>1, <2>2 DEF After, OnChain
<1>7. \A f \in changed : /\ again[f.place].chain = e.chain /\ again[f.place].place = f.place
                         /\ again[f.place].hash # f.hash
  BY <1>3, <1>6, RewritingDiffers
<1> HIDE DEF changed
<1>8. e.chain \in Runs /\ e.chain # TenantChain /\ a.chain = TenantChain
  BY <1>1, ChainsAssumption DEF Covered, IsAnchor
<1>9. a \in R /\ 0 < a.seq /\ a.seq <= MaxSeq
  BY <1>5, <1>6, <1>8, ChainsAssumption DEF Seqs
<1>10. Bound({f \in R : f.seq < a.seq}) = after
  <2>1. \A f : IsAnchor(f) => (f \in R <=> f \in A)
    BY <1>5, <1>6, <1>7, <1>8 DEF IsAnchor
  <2>2. Anchors({f \in R : f.seq < a.seq}) = Anchors({f \in A : f.seq < a.seq})
    BY <2>1 DEF Anchors
  <2>3. QED
    BY <1>2, <2>2, BoundSame
<1>11. PICK h \in Heads(A, after, a.through) : h \in changed
  <2> DEFINE E == {f \in OnChain(A, e.chain) : after < f.seq /\ f.seq <= a.through}
  <2>1. e \in E /\ \A f \in E : f \in A /\ f.chain = e.chain /\ f.seq \in Seqs
    BY <1>1, <1>2, <1>6 DEF OnChain
  <2>2. PICK h \in Newest(E) : h \in E /\ \A f \in E : f.seq <= h.seq
    BY <2>1, NewestIs
  <2>3. h \in changed
    BY <1>6, <2>1, <2>2
  <2>4. h \in Heads(A, after, a.through)
    BY <1>8, <2>2 DEF Heads
  <2>5. QED
    BY <2>3, <2>4
<1>12. [chain |-> h.chain, place |-> h.place, digest |-> h.hash] \in a.root
  BY <1>1, <1>2 DEF Root
<1>13. ~AnchorHolds(R, a)
  <2>1. SUFFICES ASSUME a.root = Root(Heads(R, after, a.through)) PROVE FALSE
    BY <1>10 DEF AnchorHolds
  <2>2. PICK x \in Heads(R, after, a.through) :
          x.chain = h.chain /\ x.place = h.place /\ x.hash = h.hash
    BY <1>12, <2>1 DEF Root
  <2>3. x \in R
    BY DEF Heads, Newest, OnChain
  <2>4. CASE x \in A \ changed
    BY <1>6, <1>11, <2>2, <2>4, PlaceIsOne
  <2>5. CASE \E f \in changed : x = again[f.place]
    <3>1. PICK f \in changed : x = again[f.place]
      BY <2>5
    <3>2. f.place = h.place /\ f.chain = h.chain /\ f \in A /\ h \in A
      BY <1>6, <1>7, <1>11, <2>2, <3>1
    <3>3. f = h
      BY <3>2, PlaceIsOne
    <3>4. QED
      BY <1>7, <2>2, <3>1, <3>3
  <2>6. QED
    BY <1>5, <2>3, <2>4, <2>5
<1>14. a \in Findings(R, 0, MaxSeq)
  BY <1>1, <1>9, <1>13 DEF Findings
<1>15. QED
  BY <1>4, <1>14

\* A verification finds a run's chain rewritten from an entry on.
THEOREM RewriteFoundHolds == ChainsSpec => []RewriteFound
<1>1. ASSUME ChainsInv PROVE RewriteFound
  <2>1. Chained(ledger)
    BY <1>1, LogChained
  <2>2. QED
    BY <2>1, AnchorDiffers DEF RewriteFound
<1>2. QED
  BY <1>1, ChainsInvHolds, PTL

=============================================================================
