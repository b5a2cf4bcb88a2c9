------------------------------ MODULE JobQueue ------------------------------
(***************************************************************************)
(* The job queue of the control plane: the table job, the function         *)
(* claim_jobs and the statements of PostgresQueue.                         *)
(*                                                                         *)
(* A runner claims a due job and holds the claim as a lease, which it      *)
(* renews.  Every claim of a job is a new attempt, and the pair claimant   *)
(* and attempt is what a fenced write compares with the job's row.  A      *)
(* claim may pass to a person who takes the running step over; it is then  *)
(* held until a time, which is not renewed.                                *)
(*                                                                         *)
(* Every action is one transaction.  A transaction that fenced a write     *)
(* keeps the job's row locked, and a claim skips locked rows: the set      *)
(* skipped of Claim stands for the rows locked at that moment.             *)
(***************************************************************************)
EXTENDS Integers, FiniteSets

CONSTANTS
  Jobs,          \* job identifiers, ordered as the identifiers are
  Runs,          \* runs a job can name
  RunOf,         \* the run each job's payload names
  Units,         \* organisational units
  NoUnit,        \* the unit of a job that runs for the tenant itself
  UnitOf,        \* the unit each job runs for, or NoUnit
  PerUnit,       \* the limit of live claims of each unit
  Runners,       \* the claimants that are runners
  Holders,       \* the claimants that are take-overs, one name per take-over
  NoOne,         \* no claimant
  Lease,         \* how long a claim lives without a renewal
  HoldTime,      \* how long a person holds a step they took over
  Delays,        \* the delays a deferral may name
  MaxAttempts,   \* counted attempts after which a job is claimed no more
  MaxTime,       \* bound on the clock
  MaxClaims      \* bound on the claims of one job

Never == -1      \* a time that is not set: NULL in the row

ASSUME QueueAssumption ==
  /\ Jobs \subseteq Nat
  /\ IsFiniteSet(Jobs)
  /\ RunOf \in [Jobs -> Runs]
  /\ NoUnit \notin Units
  /\ UnitOf \in [Jobs -> Units \cup {NoUnit}]
  /\ PerUnit \in [Units -> Nat]
  /\ Runners \cap Holders = {}
  /\ NoOne \notin Runners \cup Holders
  /\ Lease \in Nat
  /\ HoldTime \in Nat
  /\ Delays \subseteq Nat
  /\ MaxAttempts \in Nat \ {0}
  /\ MaxTime \in Nat
  /\ MaxClaims \in Nat

VARIABLES
  now,      \* the clock every transaction reads
  row,      \* the table job, and for a job completed or not yet enqueued its attempts
  issued,   \* every claim handed out so far
  working,  \* the claims whose claimant has not finished with them
  asked,    \* the take-overs asked so far
  written   \* the attempt the latest write of the job's run was fenced by

vars == <<now, row, issued, working, asked, written>>

Claimants == Runners \cup Holders

Row == [phase      : {"new", "queued", "gone"},
        created    : Nat,
        available  : Nat,
        attempts   : Nat,
        deferrals  : Nat,
        by         : Claimants \cup {NoOne},
        at         : Nat \cup {Never},
        heldUntil  : Nat \cup {Never},
        takeover   : Holders \cup {NoOne},
        quotaHeld  : BOOLEAN]

\* What a claimant keeps of its claim: the port's Claim, and whether the runner was told
\* that this is the last attempt the job is given.
Claim == [job : Jobs, by : Claimants, attempt : Nat, last : BOOLEAN]

NewRow == [phase |-> "new", created |-> 0, available |-> 0, attempts |-> 0, deferrals |-> 0,
           by |-> NoOne, at |-> Never, heldUntil |-> Never, takeover |-> NoOne,
           quotaHeld |-> FALSE]

Init ==
  /\ now = 0
  /\ row = [j \in Jobs |-> NewRow]
  /\ issued = {}
  /\ working = {}
  /\ asked = {}
  /\ written = [j \in Jobs |-> 0]

-----------------------------------------------------------------------------
(* What the row says.                                                      *)

Queued(j) == row[j].phase = "queued"

\* Claims that count towards the limit: those that did not end deferred or passed on.
Counted(j) == row[j].attempts - row[j].deferrals

Held(j) == row[j].heldUntil # Never

\* The lease a claim lives by: the renewal at exactly its end still counts.
LeaseRuns(j) == row[j].at # Never /\ row[j].at >= now - Lease

\* The attempt the next claim of the job is.
NextAttempt_Unchanged(j) == row[j].attempts
NextAttempt(j) == row[j].attempts + 1

\* Whether the runner that claims the job now is told it is the last attempt.
ToldLast_BeforeClaim(j) == Counted(j) >= MaxAttempts
ToldLast(j) == Counted(j) + 1 >= MaxAttempts

\* Due and claimable: the condition every statement of claim_jobs shares.
Due_HoldIgnored(j) ==
  /\ Queued(j)
  /\ row[j].available <= now
  /\ Counted(j) < MaxAttempts
  /\ ~LeaseRuns(j)
Due(j) ==
  /\ Queued(j)
  /\ row[j].available <= now
  /\ Counted(j) < MaxAttempts
  /\ IF Held(j) THEN row[j].heldUntil <= now ELSE ~LeaseRuns(j)

\* A claim that holds a runner's place of its unit.
Live(j) == Queued(j) /\ row[j].by # NoOne /\ ~Held(j) /\ LeaseRuns(j)

LiveOf(u) == {j \in Jobs : Live(j) /\ UnitOf[j] = u}

Older(i, j) == \/ row[i].created < row[j].created
               \/ row[i].created = row[j].created /\ i <= j

\* The claims the job's unit holds, plus its position among the unit's due jobs.
Place_DueOnly(j) == Cardinality({i \in Jobs : Due(i) /\ UnitOf[i] = UnitOf[j] /\ Older(i, j)})
Place(j) == Cardinality(LiveOf(UnitOf[j]))
              + Cardinality({i \in Jobs : Due(i) /\ UnitOf[i] = UnitOf[j] /\ Older(i, j)})

Ranked == {j \in Jobs : Due(j) /\ (UnitOf[j] # NoUnit => Place(j) <= PerUnit[UnitOf[j]])}

\* The order by place, then by age.
Before(i, j) == Place(i) < Place(j) \/ (Place(i) = Place(j) /\ Older(i, j))

First(S) == {j \in S : \A i \in S : Before(j, i)}

\* A claim passes the fence while the row still names its claimant and its attempt.
Passes_AnyAttempt(c) == Queued(c.job) /\ row[c.job].by = c.by
Passes(c) ==
  /\ Queued(c.job)
  /\ row[c.job].by = c.by
  /\ row[c.job].attempts = c.attempt

\* What release, defer and complete ask of the row: the claimant, not the attempt.
Names(c) == Queued(c.job) /\ row[c.job].by = c.by

-----------------------------------------------------------------------------
(* The operations of the queue.                                            *)

\* The identifier is new, or the insert fails.
Enqueue(j) ==
  /\ row[j].phase = "new"
  /\ row' = [row EXCEPT ![j] = [NewRow EXCEPT !.phase = "queued", !.created = now,
                                              !.available = now]]
  /\ UNCHANGED <<now, issued, working, asked, written>>

\* The row of a job the runner c claims now; its mark of having been held back is cleared.
ClaimedRow(c, j) == [row[j] EXCEPT !.at = now, !.by = c, !.attempts = NextAttempt(j),
                                   !.heldUntil = Never, !.quotaHeld = FALSE]

\* Once the jobs in taken are claimed, a job that is still due waits for its unit's limit.
WaitsForUnit(j, taken) ==
  /\ Due(j)
  /\ UnitOf[j] # NoUnit
  /\ Cardinality({i \in Jobs : UnitOf[i] = UnitOf[j] /\ (Live(i) \/ i \in taken)})
       >= PerUnit[UnitOf[j]]

\* The table after a claim of the jobs in taken: every job its unit now holds back is marked.
Marked(c, taken) ==
  [j \in Jobs |-> IF j \in taken THEN ClaimedRow(c, j)
                  ELSE IF WaitsForUnit(j, taken) THEN [row[j] EXCEPT !.quotaHeld = TRUE]
                  ELSE row[j]]

\* One claim of a runner, for one job: the first by place of those not locked.  A claim
\* that finds none still marks what it skipped for a unit's limit.
ClaimJob(c, skipped) ==
  \E j \in First(Ranked \ skipped) :
    LET new == [job |-> j, by |-> c, attempt |-> NextAttempt(j), last |-> ToldLast(j)]
    IN  /\ row[j].attempts < MaxClaims
        /\ row' = Marked(c, {j})
        /\ issued' = issued \cup {new}
        /\ working' = working \cup {new}
        /\ UNCHANGED <<now, asked, written>>

ClaimNothing(c, skipped) ==
  /\ Ranked \ skipped = {}
  /\ row' = Marked(c, {})
  /\ UNCHANGED <<now, issued, working, asked, written>>

\* The rows a transaction of a write holds locked: their claim still passes the fence.
Lockable == {c.job : c \in {d \in working : Passes(d)}}

\* The heartbeat of a runner's claim.
Extend(c) ==
  /\ Names(c)
  /\ LeaseRuns(c.job)
  /\ ~Held(c.job)
  /\ row' = [row EXCEPT ![c.job].at = now]
  /\ UNCHANGED <<now, issued, working, asked, written>>

\* A write of the run under the claim.
FencedWrite(c) ==
  /\ Passes(c)
  /\ written' = [written EXCEPT ![c.job] = c.attempt]
  /\ UNCHANGED <<now, row, issued, working, asked>>

\* The claimant gives up: it died, its renewal failed, or its write was refused.
Abandon(c) ==
  /\ working' = working \ {c}
  /\ UNCHANGED <<now, row, issued, asked, written>>

Release(c) ==
  /\ row' = IF Names(c)
            THEN [row EXCEPT ![c.job].at = Never, ![c.job].by = NoOne,
                             ![c.job].heldUntil = Never]
            ELSE row
  /\ working' = working \ {c}
  /\ UNCHANGED <<now, issued, asked, written>>

Defer(c, seconds) ==
  /\ row' = IF Names(c)
            THEN [row EXCEPT ![c.job].at = Never, ![c.job].by = NoOne,
                             ![c.job].deferrals = @ + 1, ![c.job].available = now + seconds]
            ELSE row
  /\ working' = working \ {c}
  /\ UNCHANGED <<now, issued, asked, written>>

\* The row is deleted; only how often it was claimed is remembered here.
Complete(c) ==
  /\ row' = IF Names(c)
            THEN [row EXCEPT ![c.job] = [NewRow EXCEPT !.phase = "gone", !.attempts = row[c.job].attempts]]
            ELSE row
  /\ working' = working \ {c}
  /\ UNCHANGED <<now, issued, asked, written>>

\* A take-over is asked on every job of the run that a runner holds and none is asked on.
AskTakeover(r, h) ==
  LET open == {j \in Jobs : /\ Queued(j) /\ RunOf[j] = r /\ row[j].by # NoOne
                            /\ ~Held(j) /\ row[j].takeover = NoOne}
  IN  /\ h \notin asked
      /\ open # {}
      /\ asked' = asked \cup {h}
      /\ row' = [j \in Jobs |-> IF j \in open THEN [row[j] EXCEPT !.takeover = h] ELSE row[j]]
      /\ UNCHANGED <<now, issued, working, written>>

WithdrawTakeover(c) ==
  /\ Queued(c.job)
  /\ row[c.job].takeover # NoOne
  /\ row' = [row EXCEPT ![c.job].takeover = NoOne]
  /\ UNCHANGED <<now, issued, working, asked, written>>

\* The runner's claim becomes the holder's, a new attempt; neither counts.  It lands with a
\* write of the run fenced by the runner's claim, and the runner is done with the job.
PassClaim(c) ==
  LET h == row[c.job].takeover
      new == [job |-> c.job, by |-> h, attempt |-> NextAttempt(c.job), last |-> FALSE]
  IN  /\ Passes(c)
      /\ h # NoOne
      /\ row[c.job].attempts < MaxClaims
      /\ row' = [row EXCEPT ![c.job].at = now, ![c.job].by = h,
                            ![c.job].attempts = NextAttempt(c.job), ![c.job].deferrals = @ + 2,
                            ![c.job].heldUntil = now + HoldTime,
                            ![c.job].takeover = NoOne]
      /\ issued' = issued \cup {new}
      /\ working' = (working \ {c}) \cup {new}
      /\ written' = [written EXCEPT ![c.job] = c.attempt]
      /\ UNCHANGED <<now, asked>>

\* The person hands the result back: a write fenced by their claim, and the release, in one
\* transaction.
HandBack(c) ==
  /\ Passes(c)
  /\ written' = [written EXCEPT ![c.job] = c.attempt]
  /\ row' = [row EXCEPT ![c.job].at = Never, ![c.job].by = NoOne, ![c.job].heldUntil = Never]
  /\ working' = working \ {c}
  /\ UNCHANGED <<now, issued, asked>>

Tick ==
  /\ now < MaxTime
  /\ now' = now + 1
  /\ UNCHANGED <<row, issued, working, asked, written>>

-----------------------------------------------------------------------------

\* What a runner does with a claim it works on.
RunnerStep(c) ==
  \/ Extend(c)
  \/ FencedWrite(c)
  \/ Abandon(c)
  \/ Release(c)
  \/ \E seconds \in Delays : Defer(c, seconds)
  \/ Complete(c)
  \/ WithdrawTakeover(c)
  \/ PassClaim(c)

\* What a person does with the claim of a take-over.
HolderStep(c) == HandBack(c) \/ Abandon(c)

Next ==
  \/ \E j \in Jobs : Enqueue(j)
  \/ \E c \in Runners, skipped \in SUBSET Lockable : ClaimJob(c, skipped) \/ ClaimNothing(c, skipped)
  \/ \E c \in working : c.by \in Runners /\ RunnerStep(c)
  \/ \E c \in working : c.by \in Holders /\ HolderStep(c)
  \/ \E r \in Runs, h \in Holders : AskTakeover(r, h)
  \/ Tick

Spec == Init /\ [][Next]_vars

-----------------------------------------------------------------------------
(* Properties.                                                             *)

\* Every variable keeps its type: the row of the table, and the claims handed out.
TypeOK ==
  /\ now \in Nat
  /\ row \in [Jobs -> Row]
  /\ issued \subseteq Claim
  /\ working \subseteq issued
  /\ asked \subseteq Holders
  /\ written \in [Jobs -> Nat]

\* Of all the claims ever handed out on a job, at most one passes the fence: two runners, a
\* runner and a take-over, or two executions of one runner never both write under their
\* claims of the same job (Queue.fence, Claim.attempt).
OneClaimPasses ==
  \A c, d \in issued : c.job = d.job /\ Passes(c) /\ Passes(d) => c = d

\* A claim that was lost stays lost: once the fence refuses it, it refuses it for good,
\* whoever released, deferred, completed or claimed the job since (Queue.fence).
FenceNeverReopens ==
  [][\A c \in issued : ~Passes(c) => ~Passes(c)']_vars

\* The attempts that count stay between none and the limit, though deferrals and take-overs
\* are subtracted from the claims: a take-over gives no attempt back that was not used, and
\* no job is claimed beyond its limit (ADR-0037, ADR-0128).
AttemptsWithinLimit ==
  \A j \in Jobs : Queued(j) => Counted(j) \in 0 .. MaxAttempts

\* A job that is never claimed again had told its runner so: the latest claim of a job at
\* its limit carried last_attempt, so that the run escalates instead of staying running for
\* nobody (#591).
LastAttemptTold ==
  \A j \in Jobs : Queued(j) /\ Counted(j) >= MaxAttempts =>
    \E c \in issued : c.job = j /\ c.attempt = row[j].attempts /\ c.last

\* No unit holds more live claims than its limit, whoever claimed them (ADR-0166).
UnitLimitHeld ==
  \A u \in Units : Cardinality(LiveOf(u)) <= PerUnit[u]

\* The queue implements the claim epochs: a write lands only under the latest claim of its
\* job, so nothing written under an earlier claim lands after a write under a later (#107).
Epochs == INSTANCE ClaimEpochs WITH epoch <- [j \in Jobs |-> row[j].attempts]
ImplementsEpochs == Epochs!Spec

\* What a person took over stays theirs until their time: no runner's claim, release,
\* deferral or completion takes the job from the holder before it (ADR-0128).
HoldKept ==
  [][\A c \in issued :
       c.by \in Holders /\ Passes(c) /\ row[c.job].heldUntil > now =>
         Passes(c)' \/ written'[c.job] = c.attempt]_vars

=============================================================================
