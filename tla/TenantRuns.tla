----------------------------- MODULE TenantRuns -----------------------------
(***************************************************************************)
(* The runs of a tenant between what holds them: the cap on their          *)
(* process's open work (OpenWorkCap) and the stops of their adapters       *)
(* (AdapterStops).  A run passes the cap, or waits for its next check;     *)
(* its step, of a worker or a connector, is begun, asked to stop or        *)
(* refused where its adapter is stopped; and the run ends or halts.        *)
(*                                                                         *)
(* One execution of a run at a time: what a runner does that lost its      *)
(* claim is in RunExecution and AssignmentHandover.  An execution that     *)
(* dies leaves its run for the next claim of the job, and a worker at      *)
(* work; a run a person resumed is executed by the person's command,       *)
(* without a claim and without a heartbeat.  A person may resume whatever  *)
(* has not finished, a run that escalated or was left running included.    *)
(***************************************************************************)
EXTENDS AdapterStops, OpenWorkCap

CONSTANTS
  Workers,      \* the adapters that are workers; the others are connectors
  Reader,       \* the connector the outcomes outside are read through
  Resumable,    \* bound: the runs a person resumes
  MaxResumes,   \* bound on how often a person resumes a run
  MaxLosses     \* bound on the executions that die

ASSUME TenantAssumption ==
  /\ Workers \subseteq Adapters /\ Reader \in Adapters \ Workers /\ Resumable \subseteq Runs
  /\ {MaxResumes, MaxLosses} \subseteq Nat

VARIABLES
  queued,    \* the runs whose job is in the queue
  exec,      \* where each run's execution stands
  work,      \* the assignment of each run's step at its worker
  resumes, losses,
  reopened   \* history: the runs a person resumed after they had escalated

vars == <<run, stopVars, capVars, queued, exec, work, resumes, losses, reopened>>
bounds == <<resumes, losses>>
beside == <<resumes, losses, reopened>>

OfWorker(r) == AdapterOf[r] \in Workers

\* `stop` is the request to stop the run at its boundary, which the process keeps.
Exec == [at : {"off", "begin", "cap", "count", "decide", "capped", "step", "admit", "admitted",
               "checking", "calling", "assigned", "recheck", "follow", "after", "ended"},
         stop : BOOLEAN,
         count : [seen : SUBSET Runs, read : 0 .. MaxOutside \cup {Unread}, made : 0 .. Recounts]]
NoExec == [at |-> "off", stop |-> FALSE, count |-> NoCount]

\* An assignment that is recorded, at work, asked to stop, or ended with nobody told.
Work == {"none", "recorded", "working", "stopping", "succeeded", "failed", "stopped"}

Init ==
  /\ StopsInit /\ CapInit
  /\ queued = Runs
  /\ exec = [r \in Runs |-> NoExec]
  /\ work = [r \in Runs |-> "none"]
  /\ resumes = 0 /\ losses = 0 /\ reopened = {}

-----------------------------------------------------------------------------

At(r, stand) == exec[r].at = stand
Goes(r, stand) == exec' = [exec EXCEPT ![r].at = stand]

\* The step's record is written with its new state, the time of its end with one that ends it.
StepTo(r, step) ==
  [run EXCEPT ![r].step = step,
              ![r].since = IF step \in {"succeeded", "failed", "stopped"}
                           THEN {s \in Stops : stops[s].state # "none"} ELSE @]

IsStopped(r) == AdapterOf[r] \in Held

\* The step is not handed to its stopped adapter: it stops at its boundary, and so does the run.
AtStoppedAdapter(r) ==
  /\ run' = StepTo(r, "stopped")
  /\ exec' = [exec EXCEPT ![r].at = "after", ![r].stop = TRUE]

-----------------------------------------------------------------------------
(* From the claim to the step.                                             *)

Claim(r) ==
  /\ r \in queued /\ At(r, "off")
  /\ exec' = [exec EXCEPT ![r] = [NoExec EXCEPT !.at = "begin"]]
  /\ UNCHANGED <<run, stopVars, capVars, queued, work, beside>>

\* A step in flight goes back to its boundary.  A run that ended stays as it is, unless it
\* escalated and it is a person who resumes it.
Begin(r) ==
  LET inFlight == run[r].step \in {"admitted", "running"}
      escalated == run[r].state = "escalated"
  IN  /\ At(r, "begin")
      /\ IF run[r].state = "finished" \/ (escalated /\ r \in queued)
         THEN Goes(r, "ended") /\ UNCHANGED <<run, reopened>>
         ELSE /\ run' = [IF inFlight THEN StepTo(r, "stopped") ELSE run EXCEPT ![r].state = "running"]
              /\ reopened' = IF escalated THEN reopened \cup {r} ELSE reopened
              /\ Goes(r, "cap")
      /\ UNCHANGED <<stopVars, capVars, queued, work, bounds>>

\* A run that started, or passed before it was interrupted, is not counted again.
ReadInFlight(r) ==
  /\ At(r, "cap")
  /\ IF run[r].step # "planned" \/ r \in flying
     THEN Goes(r, "step")
     ELSE exec' = [exec EXCEPT ![r].at = "count", ![r].count = [NoCount EXCEPT !.seen = flying]]
  /\ UNCHANGED <<run, stopVars, capVars, queued, work, beside>>

\* A stopped connector is not called for a count either.
ReadOutside(r) ==
  /\ At(r, "count")
  /\ exec' = [exec EXCEPT ![r].at = "decide",
                          ![r].count.read = IF Reader \in Held THEN Unread ELSE outside]
  /\ UNCHANGED <<run, stopVars, capVars, queued, work, beside>>

\* The cap is reached and the run waits, or the run passes, or counts again.
Decide(r) ==
  LET count == exec[r].count
  IN  /\ At(r, "decide")
      /\ \/ /\ Reached(count) \/ count.made = Recounts
            /\ Goes(r, "capped") /\ UNCHANGED flying
         \/ /\ ~Reached(count) /\ count.made < Recounts
            /\ Unchanged(r, count)
            /\ Passed(r) /\ Goes(r, "step")
         \/ /\ ~Reached(count) /\ count.made < Recounts
            /\ ~Unchanged(r, count)
            /\ exec' = [exec EXCEPT ![r].count = [count EXCEPT !.seen = flying \ {r}, !.made = @ + 1]]
            /\ UNCHANGED flying
      /\ UNCHANGED <<run, stopVars, outside, queued, work, beside>>

WaitAtCap(r) ==
  /\ At(r, "capped")
  /\ run' = [run EXCEPT ![r].state = "halted parked"]
  /\ Goes(r, "ended")
  /\ UNCHANGED <<stopVars, capVars, queued, work, beside>>

-----------------------------------------------------------------------------
(* The step.                                                               *)

\* An assignment still open is asked about first: the worker's end of it is read, and what it
\* works on is adopted.  Else the stops are read before anything is admitted.
BeginStep(r) ==
  /\ At(r, "step")
  /\ run[r].step # "succeeded"
  /\ CASE work[r] \notin {"none", "recorded"} -> run' = StepTo(r, "running") /\ Goes(r, "recheck")
       [] work[r] \in {"none", "recorded"} /\ IsStopped(r) -> AtStoppedAdapter(r)
       [] OTHER -> Goes(r, "admit") /\ UNCHANGED run
  /\ UNCHANGED <<stopVars, capVars, queued, work, beside>>

\* Between them lies the estimate.
Admit(r) ==
  /\ At(r, "admit")
  /\ run' = StepTo(r, "admitted")
  /\ Goes(r, "admitted")
  /\ UNCHANGED <<stopVars, capVars, queued, work, beside>>

\* A connector's step is started, and the stops are read again before it calls.
Start(r) ==
  /\ At(r, "admitted") /\ ~OfWorker(r)
  /\ run' = StepTo(r, "running")
  /\ Goes(r, "checking")
  /\ UNCHANGED <<stopVars, capVars, queued, work, beside>>

NotStopped_Unchecked(r) == TRUE
NotStopped(r) == ~IsStopped(r)
Check(r) ==
  /\ At(r, "checking")
  /\ IF NotStopped(r) THEN Goes(r, "calling") /\ UNCHANGED run ELSE AtStoppedAdapter(r)
  /\ UNCHANGED <<stopVars, capVars, queued, work, beside>>

CallEnds(r) ==
  /\ At(r, "calling")
  /\ \E step \in {"succeeded", "failed"} : run' = StepTo(r, step)
  /\ Goes(r, "after")
  /\ UNCHANGED <<stopVars, capVars, queued, work, beside>>

\* A worker's assignment is recorded, handed over, and the step started.
RecordAssignment(r) ==
  /\ At(r, "admitted") /\ OfWorker(r)
  /\ work' = [work EXCEPT ![r] = "recorded"]
  /\ Goes(r, "assigned")
  /\ UNCHANGED <<run, stopVars, capVars, queued, beside>>

HandOver(r) ==
  /\ At(r, "assigned") /\ work[r] = "recorded"
  /\ work' = [work EXCEPT ![r] = "working"]
  /\ UNCHANGED <<run, stopVars, capVars, queued, exec, beside>>

StartFollowing(r) ==
  /\ At(r, "assigned") /\ work[r] # "recorded"
  /\ run' = StepTo(r, "running")
  /\ Goes(r, "recheck")
  /\ UNCHANGED <<stopVars, capVars, queued, work, beside>>

\* The worker is asked to stop at its next boundary.
AskedToStop(r) == IF work[r] = "working" THEN [work EXCEPT ![r] = "stopping"] ELSE work

\* A stop requested since the check before, or held while the assignment was adopted.
RecheckStops_Trusted(r) == UNCHANGED work /\ Goes(r, "follow")
RecheckStops(r) ==
  IF IsStopped(r)
  THEN work' = AskedToStop(r) /\ exec' = [exec EXCEPT ![r].at = "follow", ![r].stop = TRUE]
  ELSE UNCHANGED work /\ Goes(r, "follow")
Recheck(r) ==
  /\ At(r, "recheck")
  /\ RecheckStops(r)
  /\ UNCHANGED <<run, stopVars, capVars, queued, beside>>

\* The heartbeat of the claim reads the stops while the run is inside its worker.
HearStop_OnlyAtHandOver(r) == FALSE
HearStop(r) == r \in queued /\ At(r, "follow") /\ IsStopped(r) /\ ~exec[r].stop
Beat(r) ==
  /\ HearStop(r)
  /\ work' = AskedToStop(r)
  /\ exec' = [exec EXCEPT ![r].stop = TRUE]
  /\ UNCHANGED <<run, stopVars, capVars, queued, beside>>

\* The worker's end is read.  An assignment that stopped at a request this execution did not
\* make is continued by another.
FollowEnds(r) ==
  LET outcome == work[r]
  IN  /\ At(r, "follow")
      /\ outcome \in {"succeeded", "failed", "stopped"}
      /\ run' = StepTo(r, outcome)
      /\ work' = [work EXCEPT ![r] = "none"]
      /\ Goes(r, IF outcome = "stopped" /\ ~exec[r].stop THEN "step" ELSE "after")
      /\ UNCHANGED <<stopVars, capVars, queued, beside>>

\* The worker reaches its boundary, or ends first.
WorkerEnds(r) ==
  /\ work[r] \in {"working", "stopping"}
  /\ \E outcome \in {"succeeded", "failed"} \cup (IF work[r] = "stopping" THEN {"stopped"} ELSE {}) :
       work' = [work EXCEPT ![r] = outcome]
  /\ UNCHANGED <<run, stopVars, capVars, queued, exec, beside>>

\* Asked to stop, it does so within the step's ceiling; one at work may work for long.
WorkerStops(r) == work[r] = "stopping" /\ WorkerEnds(r)

-----------------------------------------------------------------------------
(* The run's end.                                                          *)

End(r) ==
  LET step == run[r].step
      stays == step = "stopped" \/ (step = "succeeded" /\ exec[r].stop)
  IN  /\ At(r, "after") \/ (At(r, "step") /\ step = "succeeded")
      /\ run' = [run EXCEPT ![r].state = IF stays THEN "halted stop"
                                         ELSE IF step = "succeeded" THEN "finished" ELSE "escalated"]
      /\ IF stays THEN UNCHANGED <<capVars, reopened>> ELSE Ended(r) /\ reopened' = reopened \ {r}
      /\ exec' = [exec EXCEPT ![r] = [NoExec EXCEPT !.at = "ended"]]
      /\ UNCHANGED <<stopVars, queued, work, bounds>>

\* A run that waits at the cap is deferred, every other completed.
Dispose(r) ==
  /\ At(r, "ended")
  /\ queued' = IF run[r].state = "halted parked" THEN queued ELSE queued \ {r}
  /\ exec' = [exec EXCEPT ![r] = NoExec]
  /\ UNCHANGED <<run, stopVars, capVars, work, beside>>

\* A person resumes a run no job names: the command executes it, under no claim.
Resume(r) ==
  /\ run[r].state # "finished" /\ r \notin queued /\ At(r, "off")
  /\ r \in Resumable /\ resumes < MaxResumes
  /\ resumes' = resumes + 1
  /\ exec' = [exec EXCEPT ![r] = [NoExec EXCEPT !.at = "begin"]]
  /\ UNCHANGED <<run, stopVars, capVars, queued, work, losses, reopened>>

\* The execution's process dies, and what it noted with it; a lease of the job ends.
Lose(r) ==
  /\ ~At(r, "off")
  /\ losses < MaxLosses
  /\ losses' = losses + 1
  /\ exec' = [exec EXCEPT ![r] = NoExec]
  /\ UNCHANGED <<run, stopVars, capVars, queued, work, resumes, reopened>>

-----------------------------------------------------------------------------

Executes(r) ==
  \/ Begin(r)
  \/ ReadInFlight(r) \/ ReadOutside(r) \/ Decide(r) \/ WaitAtCap(r)
  \/ BeginStep(r) \/ Admit(r)
  \/ Start(r) \/ Check(r) \/ CallEnds(r)
  \/ RecordAssignment(r) \/ HandOver(r) \/ StartFollowing(r) \/ Recheck(r) \/ FollowEnds(r)
  \/ End(r) \/ Dispose(r)

NotRuns == <<capVars, queued, exec, work, beside>>
Persons(s) == (\E a \in Adapters : Ask(s, a)) \/ Request(s) \/ Lift(s)
Confirms(s) == \E c \in Confirmers : Confirming(c, s)
Closes == OutcomeCloses /\ UNCHANGED <<run, stopVars, queued, exec, work, beside>>

Next ==
  \/ \E r \in Runs : Claim(r) \/ Executes(r) \/ Beat(r) \/ WorkerEnds(r) \/ Resume(r) \/ Lose(r)
  \/ \E s \in Stops : (Persons(s) \/ Confirms(s)) /\ UNCHANGED NotRuns
  \/ Closes

Spec == Init /\ [][Next]_vars

Fairness ==
  /\ \A r \in Runs : WF_vars(Claim(r) \/ Executes(r))
  /\ \A r \in {q \in Runs : OfWorker(q)} :
       WF_vars(Beat(r)) /\ WF_vars(WorkerStops(r) \/ (r \notin queued /\ WorkerEnds(r)))
  /\ \A s \in Stops : WF_vars(Confirms(s) /\ UNCHANGED NotRuns)

FairSpec == Spec /\ Fairness

-----------------------------------------------------------------------------
(* Properties.                                                             *)

TypeOK ==
  /\ run \in [Runs -> Run] /\ stops \in [Stops -> Stop] /\ confirmer \in [Confirmers -> Confirmer]
  /\ flying \subseteq Runs /\ outside \in 0 .. MaxOutside
  /\ queued \subseteq Runs /\ exec \in [Runs -> Exec] /\ work \in [Runs -> Work]
  /\ resumes \in 0 .. MaxResumes /\ losses \in 0 .. MaxLosses /\ reopened \subseteq Runs

\* Runs that start at the same moment do not both take the last place: of the runs that
\* started their first step and have not ended, no more than the cap (ADR-0132).  A run that
\* escalated has left the count, and one a person resumes passes no cap again: it runs
\* uncounted, beside as many others as the cap allows.  Only such runs are excepted.
Started(r) == run[r].step # "planned" /\ run[r].state \notin {"finished", "escalated"}
StartedWithinCap == Cardinality({r \in Runs : Started(r) /\ r \notin reopened}) <= Cap

\* Once a stop of a connector is confirmed, no call to it is under way or begins (ADR-0138).
QuietWhenConfirmed ==
  \A s \in Stops : stops[s].state = "confirmed" =>
    \A r \in Runs : AdapterOf[r] = stops[s].adapter => ~At(r, "calling")

\* A worker's step is handed over after its stops were read, and a confirmation may come in
\* between.  No execution goes on following such a step without having asked it to stop.
FollowedIsAsked ==
  \A s \in Stops : stops[s].state = "confirmed" =>
    \A r \in Runs :
      AdapterOf[r] = stops[s].adapter => ~(At(r, "follow") /\ work[r] = "working")

\* Every stop comes to hold and is confirmed, or is lifted: the steps inside its adapter end at
\* their boundaries whoever executes them, and no more begin (ADR-0138).  Only a command that
\* died inside a step leaves a run nobody takes to its boundary.
Stranded == \E r \in Runs : run[r].state = "running" /\ r \notin queued /\ At(r, "off")
ComesToHold ==
  \A s \in Stops :
    stops[s].state = "holding" ~> stops[s].state \in {"confirmed", "lifted"} \/ Stranded

=============================================================================
