--------------------------- MODULE JobQueueProofs ---------------------------
(* Theorems of the job queue and their proofs.                             *)
EXTENDS JobQueue, FiniteSetTheorems, TLAPS

\* A job that was not enqueued has no history.
NewRowsBlank == \A j \in Jobs : row[j].phase = "new" => row[j] = NewRow

\* No claim is ahead of the job's row.
IssuedInRow == \A c \in issued : c.attempt <= row[c.job].attempts

\* A claim is determined by its job and its attempt.
IssuedDistinct ==
  \A c, d \in issued : c.job = d.job /\ c.attempt = d.attempt => c = d

\* A claim a runner holds is one that counts.
RunnersClaimCounts ==
  \A j \in Jobs : Queued(j) /\ row[j].by \in Runners => Counted(j) >= 1

-----------------------------------------------------------------------------

LEMMA NewRowType == NewRow \in Row
  BY QueueAssumption DEF NewRow, Row, Never

\* The row a claim leaves behind is a row, and only the claimed job's attempts, claimant and
\* hold change.
LEMMA MarkedRows ==
  ASSUME TypeOK, NEW c \in Claimants, NEW taken \in SUBSET Jobs
  PROVE  /\ Marked(c, taken) \in [Jobs -> Row]
         /\ \A j \in taken : /\ Marked(c, taken)[j].phase = row[j].phase
                             /\ Marked(c, taken)[j].by = c
                             /\ Marked(c, taken)[j].at = now
                             /\ Marked(c, taken)[j].heldUntil = Never
                             /\ Marked(c, taken)[j].attempts = row[j].attempts + 1
                             /\ Marked(c, taken)[j].deferrals = row[j].deferrals
         /\ \A j \in Jobs \ taken :
              /\ Marked(c, taken)[j].phase = row[j].phase
              /\ Marked(c, taken)[j].by = row[j].by
              /\ Marked(c, taken)[j].at = row[j].at
              /\ Marked(c, taken)[j].heldUntil = row[j].heldUntil
              /\ Marked(c, taken)[j].attempts = row[j].attempts
              /\ Marked(c, taken)[j].deferrals = row[j].deferrals
              /\ ~Due(j) => Marked(c, taken)[j] = row[j]
<1>1. ASSUME NEW j \in Jobs
      PROVE  /\ row[j] \in Row
             /\ ClaimedRow(c, j) \in Row
             /\ [row[j] EXCEPT !.quotaHeld = TRUE] \in Row
  <2>1. row[j] \in Row
    BY DEF TypeOK
  <2>2. ClaimedRow(c, j) \in Row
    <3>1. NextAttempt(j) \in Nat /\ now \in Nat
      BY <2>1 DEF TypeOK, Row, NextAttempt
    <3>2. QED
      BY <2>1, <3>1 DEF Row, ClaimedRow
  <2>3. [row[j] EXCEPT !.quotaHeld = TRUE] \in Row
    BY <2>1 DEF Row
  <2>4. QED
    BY <2>1, <2>2, <2>3
<1>2. \A j \in taken : Marked(c, taken)[j] = ClaimedRow(c, j)
  BY DEF Marked
<1>3. \A j \in Jobs \ taken :
        /\ Marked(c, taken)[j] \in {[row[j] EXCEPT !.quotaHeld = TRUE], row[j]}
        /\ ~Due(j) => Marked(c, taken)[j] = row[j]
  BY DEF Marked, WaitsForUnit
<1>4. Marked(c, taken) \in [Jobs -> Row]
  <2>1. \A j \in Jobs : Marked(c, taken)[j] \in Row
    BY <1>1, <1>2, <1>3
  <2>2. Marked(c, taken) = [j \in Jobs |-> Marked(c, taken)[j]]
    BY DEF Marked
  <2>3. QED
    BY <2>1, <2>2
<1>5. \A j \in taken : /\ ClaimedRow(c, j).phase = row[j].phase
                       /\ ClaimedRow(c, j).by = c
                       /\ ClaimedRow(c, j).at = now
                       /\ ClaimedRow(c, j).heldUntil = Never
                       /\ ClaimedRow(c, j).attempts = row[j].attempts + 1
                       /\ ClaimedRow(c, j).deferrals = row[j].deferrals
  BY <1>1 DEF ClaimedRow, NextAttempt, Row
<1>6. \A j \in Jobs \ taken : /\ Marked(c, taken)[j].phase = row[j].phase
                              /\ Marked(c, taken)[j].by = row[j].by
                              /\ Marked(c, taken)[j].at = row[j].at
                              /\ Marked(c, taken)[j].heldUntil = row[j].heldUntil
                              /\ Marked(c, taken)[j].attempts = row[j].attempts
                              /\ Marked(c, taken)[j].deferrals = row[j].deferrals
  BY <1>1, <1>3 DEF Row
<1>7. QED
  BY <1>2, <1>3, <1>4, <1>5, <1>6

LEMMA TypeStep == TypeOK /\ [Next]_vars => TypeOK'
<1> SUFFICES ASSUME TypeOK, [Next]_vars PROVE TypeOK'
  OBVIOUS
<1> USE QueueAssumption
<1>1. ASSUME NEW j \in Jobs, Enqueue(j) PROVE TypeOK'
  BY <1>1, NewRowType DEF Enqueue, TypeOK, Row, NewRow
<1>2. ASSUME NEW c \in Runners, NEW skipped \in SUBSET Lockable, ClaimJob(c, skipped)
      PROVE  TypeOK'
  <2>1. PICK j \in First(Ranked \ skipped) :
          LET new == [job |-> j, by |-> c, attempt |-> NextAttempt(j), last |-> ToldLast(j)]
          IN  /\ row' = Marked(c, {j})
              /\ issued' = issued \cup {new}
              /\ working' = working \cup {new}
              /\ UNCHANGED <<now, asked, written>>
    BY <1>2 DEF ClaimJob
  <2>2. j \in Jobs
    BY DEF First, Ranked
  <2>3. [job |-> j, by |-> c, attempt |-> NextAttempt(j), last |-> ToldLast(j)] \in Claim
    BY <2>2 DEF Claim, Claimants, NextAttempt, ToldLast, Counted, TypeOK, Row
  <2>4. row' \in [Jobs -> Row]
    BY <2>1, <2>2, MarkedRows DEF Claimants
  <2>5. QED
    BY <2>1, <2>3, <2>4 DEF TypeOK
<1>3. ASSUME NEW c \in Runners, NEW skipped \in SUBSET Lockable, ClaimNothing(c, skipped)
      PROVE  TypeOK'
  <2>1. row' \in [Jobs -> Row]
    BY <1>3, MarkedRows DEF ClaimNothing, Claimants
  <2>2. QED
    BY <1>3, <2>1 DEF ClaimNothing, TypeOK
<1>4. ASSUME NEW c \in working, c.by \in Runners, RunnerStep(c) PROVE TypeOK'
  <2>0. /\ c \in Claim
        /\ c.job \in Jobs
        /\ row[c.job] \in Row
    BY <1>4 DEF TypeOK, Claim
  <2>1. CASE Extend(c)
    BY <2>0, <2>1 DEF Extend, TypeOK, Row
  <2>2. CASE FencedWrite(c)
    BY <2>0, <2>2 DEF FencedWrite, TypeOK, Claim
  <2>3. CASE Abandon(c)
    BY <2>3 DEF Abandon, TypeOK
  <2>4. CASE Release(c)
    BY <2>0, <2>4 DEF Release, TypeOK, Row, Never
  <2>5. ASSUME NEW seconds \in Delays, Defer(c, seconds) PROVE TypeOK'
    BY <2>0, <2>5 DEF Defer, TypeOK, Row, Never
  <2>6. CASE Complete(c)
    <3>1. [NewRow EXCEPT !.phase = "gone", !.attempts = row[c.job].attempts] \in Row
      BY <2>0, NewRowType DEF Row, NewRow
    <3>2. QED
      BY <2>0, <2>6, <3>1 DEF Complete, TypeOK
  <2>7. CASE WithdrawTakeover(c)
    BY <2>0, <2>7 DEF WithdrawTakeover, TypeOK, Row
  <2>8. CASE PassClaim(c)
    <3>1. /\ row[c.job].takeover \in Holders
          /\ NextAttempt(c.job) \in Nat
      BY <2>0, <2>8 DEF PassClaim, Row, NextAttempt
    <3>2. [job |-> c.job, by |-> row[c.job].takeover, attempt |-> NextAttempt(c.job),
           last |-> FALSE] \in Claim
      BY <2>0, <3>1 DEF Claim, Claimants
    <3> DEFINE passed == [row[c.job] EXCEPT !.at = now, !.by = row[c.job].takeover,
                            !.attempts = NextAttempt(c.job), !.deferrals = @ + 2,
                            !.heldUntil = now + HoldTime, !.takeover = NoOne]
    <3>3. row' \in [Jobs -> Row]
      <4>1. passed \in Row
        <5>1. /\ now \in Nat
              /\ now + HoldTime \in Nat
              /\ row[c.job].deferrals + 2 \in Nat
          BY <2>0, QueueAssumption DEF TypeOK, Row
        <5>2. /\ row[c.job].takeover \in Claimants \cup {NoOne}
              /\ NoOne \in Holders \cup {NoOne}
          BY <3>1 DEF Claimants
        <5>3. QED
          BY <2>0, <3>1, <5>1, <5>2 DEF Row
      <4>2. row' = [row EXCEPT ![c.job] = passed]
        BY <2>0, <2>8 DEF PassClaim, TypeOK
      <4>3. QED
        BY <2>0, <4>1, <4>2 DEF TypeOK
    <3>4. written' \in [Jobs -> Nat]
      BY <2>0, <2>8 DEF PassClaim, TypeOK, Claim
    <3>5. QED
      BY <2>8, <3>2, <3>3, <3>4 DEF PassClaim, TypeOK
  <2>9. QED
    BY <1>4, <2>1, <2>2, <2>3, <2>4, <2>5, <2>6, <2>7, <2>8 DEF RunnerStep
<1>5. ASSUME NEW c \in working, c.by \in Holders, HolderStep(c) PROVE TypeOK'
  <2>0. /\ c \in Claim
        /\ c.job \in Jobs
        /\ row[c.job] \in Row
    BY <1>5 DEF TypeOK, Claim
  <2>1. CASE HandBack(c)
    BY <2>0, <2>1 DEF HandBack, TypeOK, Row, Never, Claim
  <2>2. CASE Abandon(c)
    BY <2>2 DEF Abandon, TypeOK
  <2>3. QED
    BY <1>5, <2>1, <2>2 DEF HolderStep
<1>6. ASSUME NEW r \in Runs, NEW h \in Holders, AskTakeover(r, h) PROVE TypeOK'
  <2>1. \A j \in Jobs : row[j] \in Row /\ [row[j] EXCEPT !.takeover = h] \in Row
    BY DEF TypeOK, Row
  <2>2. row' \in [Jobs -> Row]
    BY <1>6, <2>1 DEF AskTakeover
  <2>3. QED
    BY <1>6, <2>2 DEF AskTakeover, TypeOK
<1>7. CASE Tick
  BY <1>7 DEF Tick, TypeOK
<1>8. CASE UNCHANGED vars
  BY <1>8 DEF vars, TypeOK
<1>9. QED
  BY <1>1, <1>2, <1>3, <1>4, <1>5, <1>6, <1>7, <1>8 DEF Next

LEMMA TypeInit == Init => TypeOK
  BY NewRowType, QueueAssumption DEF Init, TypeOK

\* Every variable of the queue keeps its type, for every instance of the constants.
THEOREM TypeCorrect == Spec => []TypeOK
<1>1. Init => TypeOK
  BY TypeInit
<1>2. TypeOK /\ [Next]_vars => TypeOK'
  BY TypeStep
<1>3. QED
  BY <1>1, <1>2, PTL DEF Spec

-----------------------------------------------------------------------------

\* The history of a job's claims: what a step of the queue keeps of it.
History == NewRowsBlank /\ IssuedInRow /\ IssuedDistinct

\* A step that hands out no claim and changes no job's attempts keeps the history.
LEMMA HistoryKept ==
  ASSUME History, issued' = issued, TypeOK,
         \A j \in Jobs : /\ row'[j].attempts = row[j].attempts
                         /\ row'[j].phase = "new" => row[j].phase = "new"
                         /\ row[j].phase = "new" => (row'[j] = row[j] \/ row'[j].phase # "new")
  PROVE  History'
<1>1. \A c \in issued : c.job \in Jobs
  BY DEF TypeOK, Claim
<1>2. NewRowsBlank'
  BY DEF History, NewRowsBlank
<1>3. IssuedInRow' /\ IssuedDistinct'
  BY <1>1 DEF History, IssuedInRow, IssuedDistinct
<1>4. QED
  BY <1>2, <1>3 DEF History

\* A step that hands out one claim, as the next attempt of a queued job, keeps the history.
LEMMA HistoryGrown ==
  ASSUME History, TypeOK, TypeOK', NEW new \in Claim,
         issued' = issued \cup {new},
         row[new.job].phase = "queued",
         new.attempt = row[new.job].attempts + 1,
         row'[new.job].attempts = new.attempt,
         row'[new.job].phase = "queued",
         \A j \in Jobs \ {new.job} : /\ row'[j].attempts = row[j].attempts
                                     /\ row'[j].phase = row[j].phase
                                     /\ row[j].phase = "new" => row'[j] = row[j]
  PROVE  History'
<1>0. new.job \in Jobs /\ row[new.job].attempts \in Nat
  BY DEF TypeOK, Claim, Row
<1>1. NewRowsBlank'
  <2>1. ASSUME NEW j \in Jobs, row'[j].phase = "new" PROVE row'[j] = NewRow
    BY <2>1 DEF History, NewRowsBlank
  <2>2. QED
    BY <2>1 DEF NewRowsBlank, NewRow
<1>2. \A c \in issued : c.job \in Jobs /\ c.attempt \in Nat /\ row[c.job].attempts \in Nat
  BY DEF TypeOK, Claim, Row
<1>3. IssuedInRow'
  <2>1. ASSUME NEW c \in issued PROVE c.attempt <= row'[c.job].attempts
    <3>1. c.attempt <= row[c.job].attempts
      BY DEF History, IssuedInRow
    <3>2. CASE c.job = new.job
      BY <1>0, <1>2, <3>1, <3>2
    <3>3. CASE c.job # new.job
      BY <1>2, <3>1, <3>3
    <3>4. QED
      BY <3>2, <3>3
  <2>2. new.attempt <= row'[new.job].attempts
    BY <1>0
  <2>3. QED
    BY <2>1, <2>2 DEF IssuedInRow
<1>4. \A c \in issued : c.job = new.job => c.attempt < new.attempt
  BY <1>2 DEF History, IssuedInRow
<1>5. IssuedDistinct'
  BY <1>2, <1>4 DEF History, IssuedDistinct
<1>6. QED
  BY <1>1, <1>3, <1>5 DEF History

LEMMA HistoryStep == TypeOK /\ History /\ [Next]_vars => History'
<1> SUFFICES ASSUME TypeOK, History, [Next]_vars PROVE History'
  OBVIOUS
<1>0. TypeOK'
  BY TypeStep
<1>1. ASSUME NEW j \in Jobs, Enqueue(j) PROVE History'
  <2>1. /\ row[j] = NewRow
        /\ row'[j] = [NewRow EXCEPT !.phase = "queued", !.created = now, !.available = now]
        /\ \A i \in Jobs \ {j} : row'[i] = row[i]
    BY <1>1 DEF Enqueue, History, NewRowsBlank, TypeOK
  <2>2. row'[j].phase = "queued" /\ row'[j].attempts = row[j].attempts
    BY <2>1 DEF NewRow
  <2>3. QED
    BY <1>1, <2>1, <2>2, HistoryKept DEF Enqueue
<1>2. ASSUME NEW c \in Runners, NEW skipped \in SUBSET Lockable, ClaimJob(c, skipped)
      PROVE  History'
  <2>1. PICK j \in First(Ranked \ skipped) :
          LET new == [job |-> j, by |-> c, attempt |-> NextAttempt(j), last |-> ToldLast(j)]
          IN  row' = Marked(c, {j}) /\ issued' = issued \cup {new}
    BY <1>2 DEF ClaimJob
  <2> DEFINE new == [job |-> j, by |-> c, attempt |-> NextAttempt(j), last |-> ToldLast(j)]
  <2>2. j \in Jobs /\ row[j].phase = "queued"
    BY DEF First, Ranked, Due, Queued
  <2>3. new \in issued'
    BY <2>1
  <2>4. new \in Claim /\ new.job = j /\ new.attempt = row[j].attempts + 1
    BY <1>0, <2>3 DEF TypeOK, NextAttempt
  <2>5. /\ row'[j].attempts = new.attempt
        /\ row'[j].phase = "queued"
        /\ \A i \in Jobs \ {j} : /\ row'[i].attempts = row[i].attempts
                                 /\ row'[i].phase = row[i].phase
                                 /\ ~Due(i) => row'[i] = row[i]
    BY <2>1, <2>2, <2>4, MarkedRows DEF Claimants
  <2>6. \A i \in Jobs : row[i].phase = "new" => ~Due(i)
    BY DEF Due, Queued
  <2>7. QED
    BY <1>0, <2>1, <2>2, <2>4, <2>5, <2>6, HistoryGrown
<1>3. ASSUME NEW c \in Runners, NEW skipped \in SUBSET Lockable, ClaimNothing(c, skipped)
      PROVE  History'
  <2>1. \A i \in Jobs : /\ row'[i].attempts = row[i].attempts
                        /\ row'[i].phase = row[i].phase
                        /\ ~Due(i) => row'[i] = row[i]
    BY <1>3, MarkedRows DEF ClaimNothing, Claimants
  <2>2. QED
    BY <1>3, <2>1, HistoryKept DEF ClaimNothing, Due, Queued
<1>4. ASSUME NEW c \in working, c.by \in Runners, RunnerStep(c) PROVE History'
  <2>0. /\ c \in Claim
        /\ c.job \in Jobs
        /\ row[c.job] \in Row
    BY <1>4 DEF TypeOK, Claim
  <2>1. CASE Extend(c)
    BY <2>0, <2>1, HistoryKept DEF Extend, TypeOK, Row, Names, Queued
  <2>2. CASE FencedWrite(c)
    BY <2>2, HistoryKept DEF FencedWrite
  <2>3. CASE Abandon(c)
    BY <2>3, HistoryKept DEF Abandon
  <2>4. CASE Release(c)
    BY <2>0, <2>4, HistoryKept DEF Release, TypeOK, Row, Names, Queued
  <2>5. ASSUME NEW seconds \in Delays, Defer(c, seconds) PROVE History'
    BY <2>0, <2>5, HistoryKept DEF Defer, TypeOK, Row, Names, Queued
  <2>6. CASE Complete(c)
    BY <2>0, <2>6, HistoryKept DEF Complete, TypeOK, Row, Names, Queued, NewRow
  <2>7. CASE WithdrawTakeover(c)
    BY <2>0, <2>7, HistoryKept DEF WithdrawTakeover, TypeOK, Row, Queued
  <2>8. CASE PassClaim(c)
    <3> DEFINE h == row[c.job].takeover
               new == [job |-> c.job, by |-> h, attempt |-> NextAttempt(c.job), last |-> FALSE]
    <3>1. issued' = issued \cup {new} /\ row[c.job].phase = "queued"
      BY <2>8 DEF PassClaim, Passes, Queued
    <3>2. new \in Claim /\ new.job = c.job /\ new.attempt = row[c.job].attempts + 1
      BY <1>0, <3>1 DEF TypeOK, NextAttempt
    <3>3. /\ row'[c.job].attempts = row[c.job].attempts + 1
          /\ row'[c.job].phase = row[c.job].phase
          /\ \A i \in Jobs \ {c.job} : row'[i] = row[i]
      BY <2>0, <2>8 DEF PassClaim, TypeOK, Row, NextAttempt
    <3>4. QED
      BY <1>0, <3>1, <3>2, <3>3, HistoryGrown
  <2>9. QED
    BY <1>4, <2>1, <2>2, <2>3, <2>4, <2>5, <2>6, <2>7, <2>8 DEF RunnerStep
<1>5. ASSUME NEW c \in working, c.by \in Holders, HolderStep(c) PROVE History'
  <2>0. c.job \in Jobs /\ row[c.job] \in Row
    BY <1>5 DEF TypeOK, Claim
  <2>1. CASE HandBack(c)
    BY <2>0, <2>1, HistoryKept DEF HandBack, TypeOK, Row, Passes, Queued
  <2>2. CASE Abandon(c)
    BY <2>2, HistoryKept DEF Abandon
  <2>3. QED
    BY <1>5, <2>1, <2>2 DEF HolderStep
<1>6. ASSUME NEW r \in Runs, NEW h \in Holders, AskTakeover(r, h) PROVE History'
  <2>1. \A j \in Jobs : row[j] \in Row
    BY DEF TypeOK
  <2>2. \A j \in Jobs : /\ row'[j].attempts = row[j].attempts
                        /\ row'[j].phase = row[j].phase
                        /\ ~Queued(j) => row'[j] = row[j]
    BY <1>6, <2>1 DEF AskTakeover, Row
  <2>3. QED
    BY <1>6, <2>2, HistoryKept DEF AskTakeover, Queued
<1>7. CASE Tick
  BY <1>7, HistoryKept DEF Tick
<1>8. CASE UNCHANGED vars
  BY <1>8, HistoryKept DEF vars
<1>9. QED
  BY <1>1, <1>2, <1>3, <1>4, <1>5, <1>6, <1>7, <1>8 DEF Next

LEMMA HistoryAlways == Spec => [](TypeOK /\ History)
<1>1. Init => TypeOK /\ History
  BY TypeInit DEF Init, History, NewRowsBlank, IssuedInRow, IssuedDistinct
<1>2. (TypeOK /\ History) /\ [Next]_vars => (TypeOK /\ History)'
  BY TypeStep, HistoryStep
<1>3. QED
  BY <1>1, <1>2, PTL DEF Spec

\* At most one of the claims ever handed out on a job passes the fence, for any number of
\* jobs, runners, take-overs and claims.
THEOREM OneWriterPerJob == Spec => []OneClaimPasses
<1>1. History => OneClaimPasses
  BY DEF History, IssuedDistinct, OneClaimPasses, Passes
<1>2. QED
  BY <1>1, HistoryAlways, PTL

-----------------------------------------------------------------------------
(* What a step does to one job: a step of the queue is one of these for     *)
(* every job, and what follows is argued from them alone.                   *)

Kept(j) ==
  /\ row'[j].phase = row[j].phase
  /\ row'[j].by = row[j].by
  /\ row'[j].attempts = row[j].attempts
  /\ row'[j].deferrals = row[j].deferrals
  /\ row'[j].heldUntil = row[j].heldUntil

Enqueued(j) ==
  /\ row[j].phase = "new"
  /\ row'[j].phase = "queued"
  /\ row'[j].by = NoOne
  /\ row'[j].attempts = 0
  /\ row'[j].deferrals = 0

Claimed(j) ==
  /\ Due(j)
  /\ row'[j].phase = "queued"
  /\ row'[j].by \in Runners
  /\ row'[j].attempts = row[j].attempts + 1
  /\ row'[j].deferrals = row[j].deferrals
  /\ \E c \in issued' : c.job = j /\ c.attempt = row'[j].attempts /\ c.last = ToldLast(j)

Freed(j) ==
  /\ Queued(j)
  /\ row'[j].phase = "queued"
  /\ row'[j].by = NoOne
  /\ row'[j].attempts = row[j].attempts
  /\ row'[j].deferrals = row[j].deferrals

Deferred(j) ==
  /\ Queued(j)
  /\ row[j].by \in Runners
  /\ row'[j].phase = "queued"
  /\ row'[j].by = NoOne
  /\ row'[j].attempts = row[j].attempts
  /\ row'[j].deferrals = row[j].deferrals + 1

Completed(j) == row'[j].phase = "gone" /\ Queued(j) /\ row[j].by \in Runners

Passed(j) ==
  /\ Queued(j)
  /\ row[j].by \in Runners
  /\ row'[j].phase = "queued"
  /\ row'[j].by \in Holders
  /\ row'[j].attempts = row[j].attempts + 1
  /\ row'[j].deferrals = row[j].deferrals + 2

\* A job is freed by a runner, or by the holder whose hand-back lands with it.
JobStep(j) ==
  \/ Kept(j)
  \/ Enqueued(j)
  \/ Claimed(j)
  \/ Freed(j) /\ row[j].by \in Runners
  \/ Freed(j) /\ row[j].by \in Holders /\ written'[j] = row[j].attempts
  \/ Deferred(j)
  \/ Completed(j)
  \/ Passed(j)

LEMMA StepOfJob ==
  ASSUME TypeOK, History, [Next]_vars
  PROVE  /\ issued \subseteq issued'
         /\ \A j \in Jobs : JobStep(j)
<1> DEFINE Goal == issued \subseteq issued' /\ \A j \in Jobs : JobStep(j)
<1> SUFFICES Goal
  OBVIOUS
<1>0. \A j \in Jobs : row[j] \in Row
  BY DEF TypeOK
<1>1. ASSUME NEW j \in Jobs, Enqueue(j) PROVE Goal
  <2>1. row'[j] = [NewRow EXCEPT !.phase = "queued", !.created = now, !.available = now]
    BY <1>1 DEF Enqueue, TypeOK
  <2>2. Enqueued(j)
    <3>1. /\ row'[j].phase = "queued"
          /\ row'[j].by = NoOne
          /\ row'[j].attempts = 0
          /\ row'[j].deferrals = 0
      BY <2>1 DEF NewRow
    <3>2. QED
      BY <1>1, <3>1 DEF Enqueue, Enqueued
  <2>3. \A i \in Jobs \ {j} : Kept(i)
    BY <1>1 DEF Enqueue, Kept, TypeOK
  <2>4. QED
    BY <1>1, <2>2, <2>3 DEF JobStep, Enqueue
<1>2. ASSUME NEW c \in Runners, NEW skipped \in SUBSET Lockable, ClaimJob(c, skipped)
      PROVE  Goal
  <2>1. PICK j \in First(Ranked \ skipped) :
          LET new == [job |-> j, by |-> c, attempt |-> NextAttempt(j), last |-> ToldLast(j)]
          IN  row' = Marked(c, {j}) /\ issued' = issued \cup {new}
    BY <1>2 DEF ClaimJob
  <2>2. j \in Jobs /\ Due(j)
    BY DEF First, Ranked
  <2>3. /\ row'[j].phase = row[j].phase
        /\ row'[j].by = c
        /\ row'[j].attempts = row[j].attempts + 1
        /\ row'[j].deferrals = row[j].deferrals
        /\ \A i \in Jobs \ {j} : Kept(i)
    BY <2>1, <2>2, MarkedRows DEF Claimants, Kept
  <2>4. Claimed(j)
    <3>1. \E d \in issued' : d.job = j /\ d.attempt = row'[j].attempts /\ d.last = ToldLast(j)
      <4> DEFINE new == [job |-> j, by |-> c, attempt |-> NextAttempt(j), last |-> ToldLast(j)]
      <4>1. new \in issued'
        BY <2>1
      <4>2. new.job = j /\ new.attempt = row'[j].attempts /\ new.last = ToldLast(j)
        BY <2>3 DEF NextAttempt
      <4>3. QED
        BY <4>1, <4>2
    <3>2. QED
      BY <2>2, <2>3, <3>1 DEF Claimed, Due, Queued
  <2>5. QED
    BY <2>1, <2>3, <2>4 DEF JobStep
<1>3. ASSUME NEW c \in Runners, NEW skipped \in SUBSET Lockable, ClaimNothing(c, skipped)
      PROVE  Goal
  <2>1. \A j \in Jobs : Kept(j)
    BY <1>3, MarkedRows DEF ClaimNothing, Claimants, Kept
  <2>2. QED
    BY <1>3, <2>1 DEF ClaimNothing, JobStep
<1>4. ASSUME NEW c \in working, c.by \in Runners, RunnerStep(c) PROVE Goal
  <2>0. c.job \in Jobs
    BY <1>4 DEF TypeOK, Claim
  <2>1. CASE Extend(c)
    BY <1>0, <2>0, <2>1 DEF Extend, TypeOK, Row, JobStep, Kept
  <2>2. CASE FencedWrite(c)
    BY <2>2 DEF FencedWrite, JobStep, Kept
  <2>3. CASE Abandon(c)
    BY <2>3 DEF Abandon, JobStep, Kept
  <2>4. CASE Release(c)
    <3>1. CASE Names(c)
      BY <1>0, <1>4, <2>0, <2>4, <3>1
         DEF Release, TypeOK, Row, JobStep, Kept, Freed, Names, Queued
    <3>2. CASE ~Names(c)
      BY <2>4, <3>2 DEF Release, JobStep, Kept
    <3>3. QED
      BY <3>1, <3>2
  <2>5. ASSUME NEW seconds \in Delays, Defer(c, seconds) PROVE Goal
    <3>1. CASE Names(c)
      BY <1>0, <1>4, <2>0, <2>5, <3>1
         DEF Defer, TypeOK, Row, JobStep, Kept, Deferred, Names, Queued
    <3>2. CASE ~Names(c)
      BY <2>5, <3>2 DEF Defer, JobStep, Kept
    <3>3. QED
      BY <3>1, <3>2
  <2>6. CASE Complete(c)
    <3>1. CASE Names(c)
      BY <1>0, <1>4, <2>0, <2>6, <3>1
         DEF Complete, TypeOK, NewRow, JobStep, Kept, Completed, Names, Queued
    <3>2. CASE ~Names(c)
      BY <2>6, <3>2 DEF Complete, JobStep, Kept
    <3>3. QED
      BY <3>1, <3>2
  <2>7. CASE WithdrawTakeover(c)
    BY <1>0, <2>0, <2>7 DEF WithdrawTakeover, TypeOK, Row, JobStep, Kept
  <2>8. CASE PassClaim(c)
    <3>1. row[c.job].takeover \in Holders
      BY <1>0, <2>0, <2>8 DEF PassClaim, Row
    <3>2. Passed(c.job)
      BY <1>0, <1>4, <2>0, <2>8, <3>1
         DEF PassClaim, TypeOK, Row, NextAttempt, Passes, Passed, Queued
    <3>3. \A i \in Jobs \ {c.job} : Kept(i)
      BY <2>8 DEF PassClaim, TypeOK, Kept
    <3>4. QED
      BY <2>8, <3>2, <3>3 DEF PassClaim, JobStep
  <2>9. QED
    BY <1>4, <2>1, <2>2, <2>3, <2>4, <2>5, <2>6, <2>7, <2>8 DEF RunnerStep
<1>5. ASSUME NEW c \in working, c.by \in Holders, HolderStep(c) PROVE Goal
  <2>0. c.job \in Jobs
    BY <1>5 DEF TypeOK, Claim
  <2>1. CASE HandBack(c)
    BY <1>0, <1>5, <2>0, <2>1
       DEF HandBack, TypeOK, Row, Passes, JobStep, Kept, Freed, Queued
  <2>2. CASE Abandon(c)
    BY <2>2 DEF Abandon, JobStep, Kept
  <2>3. QED
    BY <1>5, <2>1, <2>2 DEF HolderStep
<1>6. ASSUME NEW r \in Runs, NEW h \in Holders, AskTakeover(r, h) PROVE Goal
  BY <1>0, <1>6 DEF AskTakeover, JobStep, Kept, Row
<1>7. CASE Tick
  BY <1>7 DEF Tick, JobStep, Kept
<1>8. CASE UNCHANGED vars
  BY <1>8 DEF vars, JobStep, Kept
<1>9. QED
  BY <1>1, <1>2, <1>3, <1>4, <1>5, <1>6, <1>7, <1>8 DEF Next

\* A claim the fence refused is refused for good, for every instance of the constants.
THEOREM LostStaysLost == Spec => FenceNeverReopens
<1>1. ASSUME TypeOK, History, [Next]_vars, NEW c \in issued, ~Passes(c)
      PROVE  ~Passes(c)'
  <2>0. /\ c.job \in Jobs
        /\ c.by \in Claimants
        /\ c.attempt \in Nat
        /\ row[c.job] \in Row
        /\ c.attempt <= row[c.job].attempts
    BY <1>1 DEF TypeOK, Claim, History, IssuedInRow
  <2>1. JobStep(c.job)
    BY <1>1, <2>0, StepOfJob
  <2>2. CASE Kept(c.job)
    BY <1>1, <2>2 DEF Kept, Passes, Queued
  <2>3. CASE row'[c.job].by = NoOne \/ row'[c.job].phase = "gone"
    BY <2>0, <2>3, QueueAssumption DEF Passes, Queued, Claimants
  <2>4. CASE row'[c.job].attempts = row[c.job].attempts + 1
    BY <2>0, <2>4 DEF Passes, Row
  <2>5. QED
    BY <2>1, <2>2, <2>3, <2>4
       DEF JobStep, Enqueued, Claimed, Freed, Deferred, Completed, Passed
<1>2. TypeOK /\ History /\ [Next]_vars => [\A c \in issued : ~Passes(c) => ~Passes(c)']_vars
  BY <1>1
<1>3. QED
  BY <1>2, HistoryAlways, PTL DEF Spec, FenceNeverReopens

-----------------------------------------------------------------------------
(* The counted attempts: a deferral gives one back that was counted, a     *)
(* take-over gives back the runner's and counts none of its own.           *)

Attempts == AttemptsWithinLimit /\ RunnersClaimCounts

LEMMA AttemptsStep ==
  ASSUME TypeOK, History, Attempts, [Next]_vars
  PROVE  Attempts'
<1>1. ASSUME NEW j \in Jobs, Queued(j)'
      PROVE  /\ Counted(j)' \in 0 .. MaxAttempts
             /\ row'[j].by \in Runners => Counted(j)' >= 1
  <2>1. row[j] \in Row /\ row[j].attempts \in Nat /\ row[j].deferrals \in Nat
    BY DEF TypeOK, Row
  <2>2. MaxAttempts \in Nat \ {0} /\ Runners \cap Holders = {} /\ NoOne \notin Runners \cup Holders
    BY QueueAssumption
  <2>3. Counted(j) = row[j].attempts - row[j].deferrals
        /\ Counted(j)' = row'[j].attempts - row'[j].deferrals
    BY DEF Counted
  <2>4. Queued(j) => /\ Counted(j) >= 0 /\ Counted(j) <= MaxAttempts
                     /\ row[j].by \in Runners => Counted(j) >= 1
    BY DEF Attempts, AttemptsWithinLimit, RunnersClaimCounts
  <2>5. JobStep(j)
    BY StepOfJob
  <2>6. CASE Kept(j)
    BY <1>1, <2>1, <2>2, <2>3, <2>4, <2>6 DEF Kept, Queued
  <2>7. CASE Enqueued(j)
    BY <2>2, <2>3, <2>7 DEF Enqueued
  <2>8. CASE Claimed(j)
    <3>1. Queued(j) /\ Counted(j) < MaxAttempts
      BY <2>8 DEF Claimed, Due
    <3>2. row'[j].attempts = row[j].attempts + 1 /\ row'[j].deferrals = row[j].deferrals
      BY <2>8 DEF Claimed
    <3>3. QED
      BY <2>1, <2>2, <2>3, <2>4, <3>1, <3>2
  <2>9. CASE Freed(j)
    BY <2>1, <2>2, <2>3, <2>4, <2>9 DEF Freed
  <2>10. CASE Deferred(j)
    BY <2>1, <2>2, <2>3, <2>4, <2>10 DEF Deferred
  <2>11. CASE Completed(j)
    BY <1>1, <2>11 DEF Completed, Queued
  <2>12. CASE Passed(j)
    BY <2>1, <2>2, <2>3, <2>4, <2>12 DEF Passed
  <2>13. QED
    BY <2>5, <2>6, <2>7, <2>8, <2>9, <2>10, <2>11, <2>12 DEF JobStep
<1>2. QED
  BY <1>1 DEF Attempts, AttemptsWithinLimit, RunnersClaimCounts

LEMMA AttemptsAlways == Spec => [](TypeOK /\ History /\ Attempts)
<1>1. Init => Attempts
  BY DEF Init, Attempts, AttemptsWithinLimit, RunnersClaimCounts, NewRow, Queued
<1>2. TypeOK /\ History /\ Attempts /\ [Next]_vars => Attempts'
  BY AttemptsStep
<1>3. QED
  BY <1>1, <1>2, HistoryAlways, PTL DEF Spec

\* The attempts that count stay between none and the limit, for any jobs and any number of
\* claims, deferrals and take-overs (claim_jobs, PostgresQueue.defer and pass_claim).
THEOREM NoneBeyondLimit == Spec => []AttemptsWithinLimit
<1>1. Attempts => AttemptsWithinLimit
  BY DEF Attempts
<1>2. QED
  BY <1>1, AttemptsAlways, PTL

\* The claim after which a job is never claimed again was told so (Claim.last_attempt).
THEOREM LastIsTold == Spec => []LastAttemptTold
<1>1. Init => LastAttemptTold
  BY DEF Init, LastAttemptTold, NewRow, Queued
<1>2. ASSUME TypeOK, History, Attempts, LastAttemptTold, [Next]_vars
      PROVE  LastAttemptTold'
  <2> SUFFICES ASSUME NEW j \in Jobs, Queued(j)', Counted(j)' >= MaxAttempts
               PROVE  \E c \in issued' : c.job = j /\ c.attempt = row'[j].attempts /\ c.last
    BY DEF LastAttemptTold
  <2>1. row[j].attempts \in Nat /\ row[j].deferrals \in Nat /\ MaxAttempts \in Nat \ {0}
    BY <1>2, QueueAssumption DEF TypeOK, Row
  <2>2. Counted(j) = row[j].attempts - row[j].deferrals
        /\ Counted(j)' = row'[j].attempts - row'[j].deferrals
    BY DEF Counted
  <2>3. JobStep(j) /\ issued \subseteq issued'
    BY <1>2, StepOfJob
  <2>4. Queued(j) => Counted(j) <= MaxAttempts
    BY <1>2 DEF Attempts, AttemptsWithinLimit
  <2>5. CASE Kept(j) \/ Freed(j)
    <3>1. /\ Queued(j) /\ row'[j].attempts = row[j].attempts
          /\ row'[j].deferrals = row[j].deferrals
      BY <2>5 DEF Kept, Freed, Queued
    <3>2. PICK c \in issued : c.job = j /\ c.attempt = row[j].attempts /\ c.last
      BY <1>2, <2>2, <3>1 DEF LastAttemptTold
    <3>3. QED
      BY <2>3, <3>1, <3>2
  <2>6. CASE Enqueued(j)
    BY <2>1, <2>2, <2>6 DEF Enqueued
  <2>7. CASE Claimed(j)
    <3>1. PICK c \in issued' : c.job = j /\ c.attempt = row'[j].attempts /\ c.last = ToldLast(j)
      BY <2>7 DEF Claimed
    <3>2. Counted(j)' = Counted(j) + 1
      BY <2>1, <2>2, <2>7 DEF Claimed
    <3>3. ToldLast(j)
      BY <3>2 DEF ToldLast
    <3>4. QED
      BY <3>1, <3>3
  <2>8. CASE Deferred(j) \/ Passed(j)
    <3>1. Queued(j) /\ Counted(j)' = Counted(j) - 1
      BY <2>1, <2>2, <2>8 DEF Deferred, Passed
    <3>2. QED
      BY <2>1, <2>2, <2>4, <3>1
  <2>9. CASE Completed(j)
    BY <2>9 DEF Completed, Queued
  <2>10. QED
    BY <2>3, <2>5, <2>6, <2>7, <2>8, <2>9 DEF JobStep
<1>3. QED
  BY <1>1, <1>2, AttemptsAlways, PTL DEF Spec

\* What a person took over stays theirs until their time, for any number of runners that
\* claim, release, defer or complete meanwhile (PostgresQueue.pass_claim, claim_jobs).
THEOREM PersonsKeepHold == Spec => HoldKept
<1>1. ASSUME TypeOK, History, [Next]_vars,
             NEW c \in issued, c.by \in Holders, Passes(c), row[c.job].heldUntil > now
      PROVE  Passes(c)' \/ written'[c.job] = c.attempt
  <2>1. c.job \in Jobs /\ row[c.job] \in Row /\ now \in Nat
    BY <1>1 DEF TypeOK, Claim
  <2>2. JobStep(c.job)
    BY <1>1, <2>1, StepOfJob
  <2>3. row[c.job].by \notin Runners /\ row[c.job].phase = "queued"
    BY <1>1, QueueAssumption DEF Passes, Queued
  <2>4. ~Claimed(c.job)
    <3>1. Held(c.job) /\ ~(row[c.job].heldUntil <= now)
      BY <1>1, <2>1 DEF Held, Never, Row
    <3>2. QED
      BY <3>1 DEF Claimed, Due
  <2>5. Kept(c.job) => Passes(c)'
    BY <1>1 DEF Kept, Passes, Queued
  <2>6. QED
    BY <1>1, <2>2, <2>3, <2>4, <2>5
       DEF JobStep, Enqueued, Freed, Deferred, Completed, Passed, Passes
<1>2. TypeOK /\ History /\ [Next]_vars =>
        [\A c \in issued :
           c.by \in Holders /\ Passes(c) /\ row[c.job].heldUntil > now =>
             Passes(c)' \/ written'[c.job] = c.attempt]_vars
  BY <1>1
<1>3. QED
  BY <1>2, HistoryAlways, PTL DEF Spec, HoldKept

-----------------------------------------------------------------------------
(* The live claims of a unit: only a claim adds one, and it was counted.   *)

LEMMA OnlyClaimsLive ==
  ASSUME TypeOK, [Next]_vars,
         \A c \in Runners, skipped \in SUBSET Lockable : ~ClaimJob(c, skipped),
         NEW j \in Jobs, Live(j)'
  PROVE  Live(j)
<1> USE DEF Live, Queued, Held, LeaseRuns
<1>0. /\ \A i \in Jobs : row[i] \in Row
      /\ row[j].at \in Int /\ now \in Int /\ Lease \in Int
      /\ \A c \in working : c.job \in Jobs /\ c.by \in Claimants
      /\ NoOne \notin Claimants
  BY QueueAssumption DEF TypeOK, Row, Never, Claim, Claimants
<1>1. ASSUME NEW i \in Jobs, Enqueue(i) PROVE Live(j)
  <2>1. row'[i].by = NoOne /\ \A k \in Jobs \ {i} : row'[k] = row[k]
    BY <1>1 DEF Enqueue, TypeOK, NewRow
  <2>2. QED
    BY <1>1, <2>1 DEF Enqueue
<1>2. ASSUME NEW c \in Runners, NEW skipped \in SUBSET Lockable, ClaimNothing(c, skipped)
      PROVE  Live(j)
  <2>1. /\ row'[j].phase = row[j].phase /\ row'[j].by = row[j].by /\ row'[j].at = row[j].at
        /\ row'[j].heldUntil = row[j].heldUntil
    BY <1>2, MarkedRows DEF ClaimNothing, Claimants
  <2>2. QED
    BY <1>2, <2>1 DEF ClaimNothing
<1>3. ASSUME NEW c \in working, c.by \in Runners, RunnerStep(c) PROVE Live(j)
  <2>0. c.job \in Jobs /\ row[c.job] \in Row /\ c.by # NoOne
    BY <1>0, <1>3 DEF Claimants
  <2>1. CASE Extend(c)
    <3>1. Live(c.job) /\ \A i \in Jobs \ {c.job} : row'[i] = row[i]
      BY <2>0, <2>1 DEF Extend, Names, TypeOK
    <3>2. now' = now
      BY <2>1 DEF Extend
    <3>3. QED
      BY <3>1, <3>2
  <2>2. CASE FencedWrite(c) \/ Abandon(c)
    BY <2>2 DEF FencedWrite, Abandon
  <2>3. CASE Release(c)
    <3>1. CASE row' = row
      BY <2>3, <3>1 DEF Release
    <3>2. CASE row' # row
      <4>1. row'[c.job].by = NoOne /\ \A i \in Jobs \ {c.job} : row'[i] = row[i]
        BY <2>0, <2>3, <3>2 DEF Release, TypeOK, Row
      <4>2. QED
        BY <2>3, <4>1 DEF Release
    <3>3. QED
      BY <3>1, <3>2
  <2>4. ASSUME NEW seconds \in Delays, Defer(c, seconds) PROVE Live(j)
    <3>1. CASE row' = row
      BY <2>4, <3>1 DEF Defer
    <3>2. CASE row' # row
      <4>1. row'[c.job].by = NoOne /\ \A i \in Jobs \ {c.job} : row'[i] = row[i]
        BY <2>0, <2>4, <3>2 DEF Defer, TypeOK, Row
      <4>2. QED
        BY <2>4, <4>1 DEF Defer
    <3>3. QED
      BY <3>1, <3>2
  <2>5. CASE Complete(c)
    <3>1. CASE row' = row
      BY <2>5, <3>1 DEF Complete
    <3>2. CASE row' # row
      <4>1. row'[c.job].phase = "gone" /\ \A i \in Jobs \ {c.job} : row'[i] = row[i]
        BY <2>0, <2>5, <3>2 DEF Complete, TypeOK, NewRow
      <4>2. QED
        BY <2>5, <4>1 DEF Complete
    <3>3. QED
      BY <3>1, <3>2
  <2>6. CASE WithdrawTakeover(c)
    BY <1>0, <2>0, <2>6 DEF WithdrawTakeover, TypeOK, Row
  <2>7. CASE PassClaim(c)
    <3> DEFINE until == now + HoldTime
    <3>1. until # Never
      BY QueueAssumption DEF TypeOK, Never
    <3> HIDE DEF until
    <3>2. row'[c.job].heldUntil = until /\ \A i \in Jobs \ {c.job} : row'[i] = row[i]
      BY <2>0, <2>7 DEF PassClaim, TypeOK, Row, until
    <3>3. now' = now
      BY <2>7 DEF PassClaim
    <3>4. QED
      BY <3>1, <3>2, <3>3
  <2>8. QED
    BY <1>3, <2>1, <2>2, <2>3, <2>4, <2>5, <2>6, <2>7 DEF RunnerStep
<1>4. ASSUME NEW c \in working, c.by \in Holders, HolderStep(c) PROVE Live(j)
  <2>1. CASE HandBack(c)
    <3>1. row'[c.job].by = NoOne /\ \A i \in Jobs \ {c.job} : row'[i] = row[i]
      BY <1>0, <1>4, <2>1 DEF HandBack, TypeOK, Row
    <3>2. QED
      BY <2>1, <3>1 DEF HandBack
  <2>2. CASE Abandon(c)
    BY <2>2 DEF Abandon
  <2>3. QED
    BY <1>4, <2>1, <2>2 DEF HolderStep
<1>5. ASSUME NEW r \in Runs, NEW h \in Holders, AskTakeover(r, h) PROVE Live(j)
  BY <1>0, <1>5 DEF AskTakeover, Row
<1>6. CASE Tick
  <2>1. now' = now + 1 /\ row' = row
    BY <1>6 DEF Tick
  <2>2. QED
    BY <1>0, <2>1
<1>7. CASE UNCHANGED vars
  BY <1>7 DEF vars
<1>8. QED
  BY <1>1, <1>2, <1>3, <1>4, <1>5, <1>6, <1>7 DEF Next

\* The claim of a job adds that job alone, and the job's place counted it.
LEMMA ClaimWithinLimit ==
  ASSUME TypeOK, UnitLimitHeld, NEW c \in Runners, NEW skipped \in SUBSET Lockable,
         ClaimJob(c, skipped), NEW u \in Units
  PROVE  Cardinality(LiveOf(u)') <= PerUnit[u]
<1>1. PICK j \in First(Ranked \ skipped) : row' = Marked(c, {j}) /\ now' = now
  BY DEF ClaimJob
<1>2. j \in Jobs /\ Due(j) /\ (UnitOf[j] # NoUnit => Place(j) <= PerUnit[UnitOf[j]])
  BY DEF First, Ranked
<1>3. \A i \in Jobs \ {j} : /\ row'[i].phase = row[i].phase /\ row'[i].by = row[i].by
                            /\ row'[i].at = row[i].at /\ row'[i].heldUntil = row[i].heldUntil
  BY <1>1, <1>2, MarkedRows DEF Claimants
<1>4. \A i \in Jobs \ {j} : Live(i)' => Live(i)
  BY <1>1, <1>3 DEF Live, Queued, Held, LeaseRuns
<1>5. /\ IsFiniteSet(LiveOf(u)) /\ IsFiniteSet(LiveOf(u)')
      /\ Cardinality(LiveOf(u)) \in Nat /\ Cardinality(LiveOf(u)') \in Nat
  <2>1. LiveOf(u) \subseteq Jobs /\ LiveOf(u)' \subseteq Jobs
    BY DEF LiveOf
  <2>2. QED
    BY <2>1, QueueAssumption, FS_Subset, FS_CardinalityType
<1>6. CASE UnitOf[j] # u
  <2>1. LiveOf(u)' \subseteq LiveOf(u)
    BY <1>4, <1>6 DEF LiveOf
  <2>2. Cardinality(LiveOf(u)') <= Cardinality(LiveOf(u))
    BY <1>5, <2>1, FS_Subset
  <2>3. Cardinality(LiveOf(u)) <= PerUnit[u] /\ PerUnit[u] \in Nat
    BY QueueAssumption DEF UnitLimitHeld
  <2>4. QED
    BY <1>5, <2>2, <2>3
<1>7. CASE UnitOf[j] = u
  <2> DEFINE older == {i \in Jobs : Due(i) /\ UnitOf[i] = UnitOf[j] /\ Older(i, j)}
  <2>1. LiveOf(u)' \subseteq LiveOf(u) \cup {j}
    BY <1>4 DEF LiveOf
  <2>2. IsFiniteSet(LiveOf(u) \cup {j})
        /\ Cardinality(LiveOf(u) \cup {j}) <= Cardinality(LiveOf(u)) + 1
        /\ Cardinality(LiveOf(u) \cup {j}) \in Nat
    <3>1. Cardinality(LiveOf(u) \cup {j})
            = IF j \in LiveOf(u) THEN Cardinality(LiveOf(u)) ELSE Cardinality(LiveOf(u)) + 1
      BY <1>5, FS_AddElement
    <3>2. IsFiniteSet(LiveOf(u) \cup {j})
      BY <1>5, FS_AddElement
    <3>3. QED
      BY <1>5, <3>1, <3>2
  <2>3. Cardinality(LiveOf(u)') <= Cardinality(LiveOf(u) \cup {j})
    BY <2>1, <2>2, FS_Subset
  <2>4. j \in older
    BY <1>2, QueueAssumption DEF Older, TypeOK, Row
  <2>5. IsFiniteSet(older) /\ Cardinality(older) \in Nat /\ Cardinality(older) # 0
    <3>1. IsFiniteSet(older)
      BY QueueAssumption, FS_Subset
    <3> HIDE DEF older
    <3>2. QED
      BY <2>4, <3>1, FS_CardinalityType, FS_EmptySet
  <2>6. Place(j) = Cardinality(LiveOf(u)) + Cardinality(older)
    BY <1>7 DEF Place
  <2> HIDE DEF older
  <2>7. Place(j) <= PerUnit[u] /\ PerUnit[u] \in Nat
    BY <1>2, <1>7, QueueAssumption
  <2>8. QED
    BY <1>5, <2>2, <2>3, <2>5, <2>6, <2>7
<1>8. QED
  BY <1>6, <1>7

\* No unit holds more live claims than its limit, for any number of jobs, runners and units
\* (claim_jobs, ADR-0166).
THEOREM NoUnitBeyondLimit == Spec => []UnitLimitHeld
<1>1. Init => UnitLimitHeld
  <2> SUFFICES ASSUME Init, NEW u \in Units PROVE Cardinality(LiveOf(u)) <= PerUnit[u]
    BY DEF UnitLimitHeld
  <2>1. LiveOf(u) = {}
    BY DEF Init, LiveOf, Live, Queued, NewRow
  <2>2. QED
    BY <2>1, FS_EmptySet, QueueAssumption
<1>2. ASSUME TypeOK, UnitLimitHeld, [Next]_vars PROVE UnitLimitHeld'
  <2> SUFFICES ASSUME NEW u \in Units PROVE Cardinality(LiveOf(u)') <= PerUnit[u]
    BY DEF UnitLimitHeld
  <2>1. CASE \E c \in Runners, skipped \in SUBSET Lockable : ClaimJob(c, skipped)
    BY <1>2, <2>1, ClaimWithinLimit
  <2>2. CASE \A c \in Runners, skipped \in SUBSET Lockable : ~ClaimJob(c, skipped)
    <3>1. LiveOf(u)' \subseteq LiveOf(u) /\ LiveOf(u) \subseteq Jobs
      BY <1>2, <2>2, OnlyClaimsLive DEF LiveOf
    <3>2. IsFiniteSet(LiveOf(u)) /\ Cardinality(LiveOf(u)) \in Nat
      BY <3>1, QueueAssumption, FS_Subset, FS_CardinalityType
    <3>3. Cardinality(LiveOf(u)') <= Cardinality(LiveOf(u)) /\ IsFiniteSet(LiveOf(u)')
      BY <3>1, <3>2, FS_Subset
    <3>4. Cardinality(LiveOf(u)') \in Nat
      BY <3>3, FS_CardinalityType
    <3>5. Cardinality(LiveOf(u)) <= PerUnit[u] /\ PerUnit[u] \in Nat
      BY <1>2, QueueAssumption DEF UnitLimitHeld
    <3>6. QED
      BY <3>2, <3>3, <3>4, <3>5
  <2>3. QED
    BY <2>1, <2>2
<1>3. QED
  BY <1>1, <1>2, TypeCorrect, PTL DEF Spec

-----------------------------------------------------------------------------
(* The queue implements the claim epochs.                                  *)

Epoch == [j \in Jobs |-> row[j].attempts]

LEMMA EpochStep ==
  ASSUME TypeOK, History, [Next]_vars
  PROVE  [Epochs!Next]_<<Epoch, written>>
<1> DEFINE Goal == Epochs!Next \/ (Epoch' = Epoch /\ written' = written)
<1> SUFFICES Goal
  BY DEF Epoch
<1>0. /\ \A j \in Jobs : row[j] \in Row /\ row[j].attempts \in Nat
      /\ \A c \in working : c.job \in Jobs
  BY DEF TypeOK, Row, Claim
<1>a. ASSUME written' = written, \A j \in Jobs : row'[j].attempts = row[j].attempts PROVE Goal
  BY <1>a DEF Epoch
<1>b. ASSUME NEW j \in Jobs, row'[j].attempts = row[j].attempts + 1,
             \A i \in Jobs \ {j} : row'[i].attempts = row[i].attempts
      PROVE  Epoch' = [Epoch EXCEPT ![j] = @ + 1]
  <2>1. \A i \in Jobs : Epoch'[i] = IF i = j THEN row[j].attempts + 1 ELSE row[i].attempts
    BY <1>b DEF Epoch
  <2> DEFINE next == [Epoch EXCEPT ![j] = @ + 1]
  <2>2. \A i \in Jobs : next[i] = IF i = j THEN row[j].attempts + 1 ELSE row[i].attempts
    BY <1>b DEF Epoch
  <2>3. Epoch' = [i \in Jobs |-> Epoch'[i]] /\ next = [i \in Jobs |-> next[i]]
    BY DEF Epoch
  <2> HIDE DEF next
  <2>4. QED
    BY <2>1, <2>2, <2>3 DEF next
<1>1. ASSUME NEW j \in Jobs, Enqueue(j) PROVE Goal
  <2>1. row[j].attempts = 0 /\ written' = written
    BY <1>1 DEF Enqueue, History, NewRowsBlank, NewRow
  <2>2. row'[j].attempts = 0 /\ \A i \in Jobs \ {j} : row'[i] = row[i]
    BY <1>1 DEF Enqueue, TypeOK, NewRow
  <2>3. QED
    BY <1>a, <2>1, <2>2
<1>2. ASSUME NEW c \in Runners, NEW skipped \in SUBSET Lockable, ClaimJob(c, skipped)
      PROVE  Goal
  <2>1. PICK j \in First(Ranked \ skipped) : row' = Marked(c, {j}) /\ written' = written
    BY <1>2 DEF ClaimJob
  <2>2. j \in Jobs
    BY DEF First, Ranked
  <2>3. row'[j].attempts = row[j].attempts + 1
        /\ \A i \in Jobs \ {j} : row'[i].attempts = row[i].attempts
    BY <2>1, <2>2, MarkedRows DEF Claimants
  <2>4. Epoch' = [Epoch EXCEPT ![j] = @ + 1]
    BY <1>b, <2>2, <2>3
  <2>5. QED
    BY <2>1, <2>2, <2>4 DEF Epochs!Next, Epochs!Claim, Epoch
<1>3. ASSUME NEW c \in Runners, NEW skipped \in SUBSET Lockable, ClaimNothing(c, skipped)
      PROVE  Goal
  <2>1. \A j \in Jobs : row'[j].attempts = row[j].attempts
    BY <1>3, MarkedRows DEF ClaimNothing, Claimants
  <2>2. written' = written
    BY <1>3 DEF ClaimNothing
  <2>3. QED
    BY <1>a, <2>1, <2>2
<1>4. ASSUME NEW c \in working, FencedWrite(c) \/ HandBack(c) PROVE Goal
  <2>1. /\ written' = [written EXCEPT ![c.job] = row[c.job].attempts]
        /\ \A j \in Jobs : row'[j].attempts = row[j].attempts
    BY <1>0, <1>4 DEF FencedWrite, HandBack, Passes, TypeOK, Row
  <2>2. Epoch' = Epoch /\ Epoch[c.job] = row[c.job].attempts
    BY <1>0, <2>1 DEF Epoch
  <2>3. QED
    BY <1>0, <2>1, <2>2 DEF Epochs!Next, Epochs!Write, Epoch
<1>5. ASSUME NEW c \in working, PassClaim(c) PROVE Goal
  <2>1. /\ written' = [written EXCEPT ![c.job] = row[c.job].attempts]
        /\ row'[c.job].attempts = row[c.job].attempts + 1
        /\ \A i \in Jobs \ {c.job} : row'[i].attempts = row[i].attempts
    <3> DEFINE r == [row[c.job] EXCEPT !.at = now, !.by = row[c.job].takeover,
                                       !.attempts = NextAttempt(c.job), !.deferrals = @ + 2,
                                       !.heldUntil = now + HoldTime, !.takeover = NoOne]
    <3>1. row \in [Jobs -> Row] /\ c.job \in Jobs
      BY <1>0, <1>5 DEF PassClaim, Passes, TypeOK
    <3>a. row' = [row EXCEPT ![c.job] = r]
      BY <1>5, <3>1 DEF PassClaim
    <3>b. r.attempts = NextAttempt(c.job)
      BY <3>1 DEF Row
    <3> HIDE DEF r
    <3>2. /\ row'[c.job].attempts = NextAttempt(c.job)
          /\ \A i \in Jobs \ {c.job} : row'[i] = row[i]
      BY <3>1, <3>a, <3>b
    <3>3. QED
      BY <1>5, <3>1, <3>2 DEF PassClaim, Passes, NextAttempt
  <2>2. Epoch' = [Epoch EXCEPT ![c.job] = @ + 1] /\ Epoch[c.job] = row[c.job].attempts
    BY <1>0, <1>b, <2>1 DEF Epoch
  <2>3. QED
    BY <1>0, <2>1, <2>2 DEF Epochs!Next, Epochs!WriteAndPass, Epoch
<1>6. ASSUME NEW c \in working, Extend(c) \/ Abandon(c) \/ Release(c) \/ WithdrawTakeover(c)
      PROVE  Goal
  <2>1. written' = written
    BY <1>6 DEF Extend, Abandon, Release, WithdrawTakeover
  <2>2. \A j \in Jobs : row'[j].attempts = row[j].attempts
    BY <1>0, <1>6 DEF Extend, Abandon, Release, WithdrawTakeover, TypeOK, Row
  <2>3. QED
    BY <1>a, <2>1, <2>2
<1>7. ASSUME NEW c \in working, NEW seconds \in Delays, Defer(c, seconds) PROVE Goal
  <2>1. written' = written /\ \A j \in Jobs : row'[j].attempts = row[j].attempts
    BY <1>0, <1>7 DEF Defer, TypeOK, Row
  <2>2. QED
    BY <1>a, <2>1
<1>8. ASSUME NEW c \in working, Complete(c) PROVE Goal
  <2>1. written' = written /\ \A j \in Jobs : row'[j].attempts = row[j].attempts
    BY <1>0, <1>8 DEF Complete, TypeOK, Row, NewRow
  <2>2. QED
    BY <1>a, <2>1
<1>9. ASSUME NEW r \in Runs, NEW h \in Holders, AskTakeover(r, h) PROVE Goal
  <2>1. written' = written /\ \A j \in Jobs : row'[j].attempts = row[j].attempts
    BY <1>0, <1>9 DEF AskTakeover, Row
  <2>2. QED
    BY <1>a, <2>1
<1>10. CASE Tick \/ UNCHANGED vars
  BY <1>a, <1>10 DEF Tick, vars
<1>11. QED
  BY <1>1, <1>2, <1>3, <1>4, <1>5, <1>6, <1>7, <1>8, <1>9, <1>10
     DEF Next, RunnerStep, HolderStep

\* The queue implements the claim epochs: nothing written under an earlier claim of a job
\* lands after what was written under a later one (Queue.fence, pass_claim).
THEOREM EpochsImplemented == Spec => ImplementsEpochs
<1>1. Init => Epochs!Init
  BY DEF Init, Epochs!Init, NewRow
<1>2. TypeOK /\ History /\ [Next]_vars => [Epochs!Next]_<<Epoch, written>>
  BY EpochStep
<1>3. QED
  BY <1>1, <1>2, HistoryAlways, PTL DEF Spec, ImplementsEpochs, Epochs!Spec, Epoch

=============================================================================
