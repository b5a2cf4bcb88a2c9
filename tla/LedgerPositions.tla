--------------------------- MODULE LedgerPositions ---------------------------
(***************************************************************************)
(* The reading positions of one tenant's ledger and its stable head.       *)
(*                                                                         *)
(* A transaction that records an entry takes its position from the         *)
(* sequence ledger_entry_seq and waits for no other writer, so a position  *)
(* may commit after a higher one.  Before its first position it takes a    *)
(* mark: a shared lock that names a bound below every position it will     *)
(* hold.  LedgerStore.head reads the newest entry, then the entries and    *)
(* the marks of the other transactions, and answers an entry at or below   *)
(* which nothing is still to commit: the stable head.                      *)
(*                                                                         *)
(* A session is one connection to the database.  Its statements are read   *)
(* committed: each sees what was committed when it began, and its own      *)
(* entries.  A commit makes the entries visible first and lets go of the   *)
(* locks afterwards.  An entry is its position.                            *)
(***************************************************************************)
EXTENDS Integers, FiniteSets

CONSTANTS
  Sessions,      \* the connections of every instance
  MaxPosition    \* bound on the positions handed out

ASSUME PositionsAssumption == MaxPosition \in Nat

VARIABLES
  last,     \* the sequence's last value
  log,      \* the positions of the committed entries
  tx,       \* the transaction of each session
  passed    \* the highest stable head a reader that keeps its place was given

vars == <<last, log, tx, passed>>

Positions == 1 .. MaxPosition
Bounds == 0 .. MaxPosition

Transaction ==
  [at     : {"idle", "open", "bounded", "marked", "reading", "scanning", "visible"},
   holds  : BOOLEAN,            \* whether it holds its mark
   below  : Bounds,             \* the sequence's value it read for its mark
   own    : SUBSET Positions,   \* the entries it appended
   newest : Bounds,             \* what the first statement of head found
   seen   : SUBSET Positions,   \* what the second statement of head sees
   head   : Bounds]             \* the head it was given last

Idle == [at |-> "idle", holds |-> FALSE, below |-> 0, own |-> {}, newest |-> 0,
         seen |-> {}, head |-> 0]

Init ==
  /\ last = 0
  /\ log = {}
  /\ tx = [s \in Sessions |-> Idle]
  /\ passed = 0

-----------------------------------------------------------------------------

At(s, place) == tx[s].at = place

\* What a statement of the session sees: the committed entries and the session's own.
Visible(s) == log \cup tx[s].own

\* h is the newest of the positions, 0 when there is none.
IsNewest(h, positions) ==
  /\ h \in positions \cup {0}
  /\ \A p \in positions : p <= h

Higher(a, b) == IF a > b THEN a ELSE b

\* The entries the second statement of head may answer: those it sees at or below the first
\* statement's and at or below every mark another transaction holds.
Final(s) ==
  {p \in tx[s].seen : /\ p <= tx[s].newest
                      /\ \A t \in Sessions \ {s} : tx[t].holds => p <= tx[t].below}

-----------------------------------------------------------------------------
(* A transaction and what it does.                                         *)

Begin(s) ==
  /\ At(s, "idle")
  /\ tx' = [tx EXCEPT ![s] = [Idle EXCEPT !.at = "open"]]
  /\ UNCHANGED <<last, log, passed>>

\* ledger_allocate, once in a transaction: the sequence's last value is read ...
ReadBound(s) ==
  /\ At(s, "open")
  /\ ~tx[s].holds
  /\ last < MaxPosition
  /\ tx' = [tx EXCEPT ![s].at = "bounded", ![s].below = last]
  /\ UNCHANGED <<last, log, passed>>

\* ... and the mark is taken with it.  Shared locks never wait for each other.
Mark_Unheld(s) ==
  /\ At(s, "bounded")
  /\ tx' = [tx EXCEPT ![s].at = "marked"]
  /\ UNCHANGED <<last, log, passed>>
Mark(s) ==
  /\ At(s, "bounded")
  /\ tx' = [tx EXCEPT ![s].at = "marked", ![s].holds = TRUE]
  /\ UNCHANGED <<last, log, passed>>

\* The position, and the entry appended at it.
Take(s) ==
  /\ At(s, "marked") \/ (At(s, "open") /\ tx[s].holds)
  /\ last < MaxPosition
  /\ last' = last + 1
  /\ tx' = [tx EXCEPT ![s].at = "open", ![s].own = @ \cup {last + 1}]
  /\ UNCHANGED <<log, passed>>

\* Another tenant's transaction takes a position of the sequence they share.
TakeElsewhere ==
  /\ last < MaxPosition
  /\ last' = last + 1
  /\ UNCHANGED <<log, tx, passed>>

-----------------------------------------------------------------------------
(* LedgerStore.head: two statements, the second of which takes its         *)
(* snapshot before it reads the lock table.                                *)

ReadNewest(s) ==
  /\ At(s, "open")
  /\ \E h \in Bounds :
       /\ IsNewest(h, Visible(s))
       /\ tx' = [tx EXCEPT ![s].at = IF h = 0 THEN "open" ELSE "reading",
                           ![s].newest = h, ![s].head = 0]
  /\ UNCHANGED <<last, log, passed>>

TakeSnapshot(s) ==
  /\ At(s, "reading")
  /\ tx' = [tx EXCEPT ![s].at = "scanning", ![s].seen = Visible(s)]
  /\ UNCHANGED <<last, log, passed>>

\* The statement may read the lock table once for each entry it looks at; the reading that
\* let the answered entry through is the one modelled.  A place taken in a transaction that
\* records as well is kept only if that transaction commits.
ReadMarks(s) ==
  /\ At(s, "scanning")
  /\ \E h \in Bounds :
       /\ IsNewest(h, Final(s))
       /\ tx' = [tx EXCEPT ![s].at = "open", ![s].head = h, ![s].seen = {}]
       /\ passed' = IF tx[s].own = {} THEN Higher(passed, h) ELSE passed
  /\ UNCHANGED <<last, log>>

-----------------------------------------------------------------------------
(* The end of a transaction.                                               *)

\* The commit is recorded: the entries are visible, the locks are still held.
Publish(s) ==
  /\ At(s, "open")
  /\ log' = log \cup tx[s].own
  /\ passed' = Higher(passed, tx[s].head)
  /\ tx' = [tx EXCEPT ![s].at = "visible", ![s].own = {}]
  /\ UNCHANGED last

Release(s) ==
  /\ At(s, "visible")
  /\ tx' = [tx EXCEPT ![s] = Idle]
  /\ UNCHANGED <<last, log, passed>>

\* The transaction fails, or its client dies, or the server ends it for having been idle.
Rollback(s) ==
  /\ ~At(s, "idle") /\ ~At(s, "visible")
  /\ tx' = [tx EXCEPT ![s] = Idle]
  /\ UNCHANGED <<last, log, passed>>

Writes(s) == ReadBound(s) \/ Mark(s) \/ Take(s)
ReadsHead(s) == ReadNewest(s) \/ TakeSnapshot(s) \/ ReadMarks(s)
Ends(s) == Publish(s) \/ Release(s) \/ Rollback(s)

Next ==
  \/ TakeElsewhere
  \/ \E s \in Sessions : Begin(s) \/ Writes(s) \/ ReadsHead(s) \/ Ends(s)

Spec == Init /\ [][Next]_vars

-----------------------------------------------------------------------------

TypeOK ==
  /\ last \in Bounds
  /\ log \in SUBSET Positions
  /\ tx \in [Sessions -> Transaction]
  /\ passed \in Bounds

\* No entry commits at or below a place a reader was sent on from: the stable head, answered
\* without waiting for anybody, is final (PostgresLedgerStore.head and ledger_allocate).
NothingCommitsBelow == [][\A p \in log' \ log : p > passed]_vars

=============================================================================
