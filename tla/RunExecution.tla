---------------------------- MODULE RunExecution ----------------------------
(***************************************************************************)
(* The execution of one run: runner processes that claim the run's jobs,   *)
(* the engine's step loop inside every claim, the heartbeat beside it, and *)
(* the persons who answer the steps the run waits for.                     *)
(*                                                                         *)
(* The run is one document.  An execution reads it once and from then on   *)
(* writes its own copy back, a whole document per transaction, refused     *)
(* when its claim no longer passes the fence.  What one process knows      *)
(* about the run beside the document - that a stop was asked, that its     *)
(* step parked - is kept per run, not per execution, in flags.             *)
(*                                                                         *)
(* An action is one transaction with the code that follows it up to the    *)
(* next wait, or one wake of the heartbeat.  The clock is abstracted: a    *)
(* lease lapses, a delay passes and a ceiling is reached at any time.      *)
(***************************************************************************)
EXTENDS Integers, FiniteSets

CONSTANTS
  Steps,          \* the plan's steps, numbered in execution order
  Dependencies,   \* the steps each step depends on
  May,            \* what executing each step may come to
  Heals,          \* how often a failure of each step is healed before it escalates
  Runners,        \* the runner processes
  Places,         \* how many jobs one runner executes at a time
  Jobs,           \* the jobs that may come to name the run; the first is its submission
  Persons,        \* the persons answering the run
  NoOne,          \* no claimant
  NoStep,         \* no step
  MaxAttempts,    \* counted attempts after which a job is claimed no more
  MaxWaits,       \* bound on the waits of one step, and on the checks of a parked wait
  MaxClaims,      \* bound on the claims of one job
  MaxTroubles     \* bound on crashes, on leases lapsed under a live runner, and on stops

ASSUME ExecutionAssumption ==
  /\ Steps \subseteq Nat /\ IsFiniteSet(Steps)
  /\ Dependencies \in [Steps -> SUBSET Steps]
  /\ \A s \in Steps : \A d \in Dependencies[s] : d < s
  /\ May \in [Steps -> SUBSET {"await", "reject", "fail", "raise", "park", "capacity",
                               "adapter", "worker", "ok"}]
  /\ Heals \in [Steps -> Nat]
  /\ Places \in Nat \ {0}
  /\ Jobs \subseteq Nat /\ 1 \in Jobs
  /\ NoOne \notin Runners
  /\ NoStep \notin Steps
  /\ {MaxAttempts, MaxClaims} \subseteq Nat \ {0}
  /\ {MaxWaits, MaxTroubles} \subseteq Nat

VARIABLES
  run,       \* the stored document of the run
  job,       \* the queue's row of every job
  exec,      \* what a runner does under each claim
  flags,     \* what each process notes of the run, beside the document
  stopping,  \* the processes told to shut down
  person,    \* what each person read of the run and is about to answer
  troubles   \* crashes, lapses and stops so far

vars == <<run, job, exec, flags, stopping, person, troubles>>

RunStates == {"planned", "admitted", "running", "waiting_human", "halted", "escalated", "finished"}
Causes == {"none", "stop", "capacity", "parked", "limit", "failure", "person", "declined"}
StepStates == {"planned", "rejected", "admitted", "running", "succeeded", "failed", "stopped",
               "waiting_human"}

Run == [state : RunStates, cause : Causes, steps : [Steps -> StepStates],
        confirmed : SUBSET Steps,    \* steps a person confirmed
        parked : SUBSET Steps,       \* steps whose block names its next check
        waits : [Steps -> Nat],      \* how often the step's current wait was answered
        healed : [Steps -> Nat]]     \* how often the step was healed

NewRun == [state |-> "planned", cause |-> "none", steps |-> [s \in Steps |-> "planned"],
           confirmed |-> {}, parked |-> {}, waits |-> [s \in Steps |-> 0],
           healed |-> [s \in Steps |-> 0]]

Job == [phase : {"new", "queued", "gone"}, by : Runners \cup {NoOne}, attempts : Nat,
        deferrals : Nat, lapsed : BOOLEAN]
NewJob == [phase |-> "new", by |-> NoOne, attempts |-> 0, deferrals |-> 0, lapsed |-> FALSE]

\* A claim of a job, by its attempt.
Claims == Jobs \X (1 .. MaxClaims)

\* Where an execution stands.
Stands == {"none", "claimed", "read", "launching", "loop", "admitted", "inside", "after",
           "raising", "ended", "lost", "leaving", "gone"}

Exec == [by : Runners \cup {NoOne}, at : Stands, run : Run, step : Steps \cup {NoStep},
         last : BOOLEAN, lost : BOOLEAN, stop : BOOLEAN, beat : {"on", "refused", "off"}]
NoExec == [by |-> NoOne, at |-> "none", run |-> NewRun, step |-> NoStep, last |-> FALSE,
           lost |-> FALSE, stop |-> FALSE, beat |-> "off"]

Flags == {"stop", "parked", "capacity"}

\* A person's answer under way: what they read, and whether only the run's end is left of it.
Reading == [at : {"idle", "read", "ending"}, run : Run]
NoAnswer == [at |-> "idle", run |-> NewRun]

Init ==
  /\ run = NewRun
  /\ job = [j \in Jobs |-> IF j = 1 THEN [NewJob EXCEPT !.phase = "queued"] ELSE NewJob]
  /\ exec = [c \in Claims |-> NoExec]
  /\ flags = [r \in Runners |-> {}]
  /\ stopping = {}
  /\ person = [p \in Persons |-> NoAnswer]
  /\ troubles = 0

-----------------------------------------------------------------------------
(* What the documents say.                                                 *)

Candidates(doc) == {s \in Steps : /\ doc.steps[s] \notin {"succeeded", "waiting_human"}
                                  /\ \A d \in Dependencies[s] : doc.steps[d] = "succeeded"}

\* Where execution continues: the first candidate, or nowhere.
Runnable(doc) == {s \in Candidates(doc) : \A t \in Candidates(doc) : s <= t}

Waiting(doc) == {s \in Steps : doc.steps[s] = "waiting_human"}

InFlight(doc) == {s \in Steps : doc.steps[s] \in {"admitted", "running"}}

\* Whether the run has ended in a way a runner's claim does not continue.
EndedForClaim(doc) ==
  \/ doc.state \in {"finished", "escalated"}
  \/ doc.state = "waiting_human" /\ Runnable(doc) = {} /\ Waiting(doc) # {}
  \/ doc.state = "halted" /\ doc.cause \notin {"stop", "capacity", "parked"}

To(doc, state, cause) == [doc EXCEPT !.state = state, !.cause = cause]
StepTo(doc, s, state) == [doc EXCEPT !.steps[s] = state]

\* The step's block is closed with its record.
Unblocked(doc, s) == [doc EXCEPT !.parked = @ \ {s}, !.waits[s] = 0]

-----------------------------------------------------------------------------
(* The queue, by its rows.                                                 *)

Counted(j) == job[j].attempts - job[j].deferrals

\* Whether the claim of the job made now is the last it is given.
LastAttempt_BeforeClaim(j) == Counted(j) >= MaxAttempts
LastAttempt(j) == Counted(j) + 1 >= MaxAttempts

Claimable(j) == /\ job[j].phase = "queued"
                /\ Counted(j) < MaxAttempts
                /\ job[j].by = NoOne \/ job[j].lapsed

Names(c) == job[c[1]].phase = "queued" /\ job[c[1]].by = exec[c].by

\* The fence: the row still names the claimant and the attempt.
Passes_Unfenced(c) == TRUE
Passes(c) == Names(c) /\ job[c[1]].attempts = c[2]

Alive(c) == exec[c].at \notin {"none", "gone"}

\* The runner's entry of a job: a later claim of the same job by it takes the entry's place.
Entries(r) == {c \in Claims : /\ Alive(c) /\ exec[c].by = r
                              /\ \A d \in Claims : d[1] = c[1] /\ d[2] > c[2] => exec[d].by # r}

-----------------------------------------------------------------------------
(* One write of an execution: the document, where the execution goes on,   *)
(* and the process's flags if the write lands.  A refused write leaves the *)
(* document and ends the execution with the claim lost; what was noted     *)
(* before the write stays noted, except for what resume and _execute take  *)
(* back on their way out.                                                  *)

Write(c, doc, at, step, noted) ==
  LET r == exec[c].by
  IN  IF Passes(c)
      THEN /\ run' = doc
           /\ exec' = [exec EXCEPT ![c].run = doc, ![c].at = at, ![c].step = step]
           /\ flags' = [flags EXCEPT ![r] = noted]
      ELSE /\ run' = run
           /\ exec' = [exec EXCEPT ![c].at = "lost"]
           /\ flags' = [flags EXCEPT ![r] = noted \ {"stop", "capacity"}]

Notes(c) == flags[exec[c].by]

-----------------------------------------------------------------------------
(* The runner.                                                             *)

\* One claim of the round: the job, and an execution of its own for it.
Claim(r, j) ==
  LET n == job[j].attempts + 1
      c == <<j, n>>
  IN  /\ r \notin stopping
      /\ Claimable(j)
      /\ Cardinality(Entries(r)) < Places
      /\ n <= MaxClaims
      /\ job' = [job EXCEPT ![j].by = r, ![j].attempts = n, ![j].lapsed = FALSE]
      /\ exec' = [exec EXCEPT ![c] = [NoExec EXCEPT !.by = r, !.at = "claimed",
                                                    !.last = LastAttempt(j),
                                                    !.beat = "on"]]
      /\ UNCHANGED <<run, flags, stopping, person, troubles>>

\* What becomes of the job, by what the run ended with and whether the runner asked it to stop.
Disposition_ParkedCompleted(e) ==
  IF e.run.state = "halted" /\ e.run.cause = "capacity" THEN "deferred"
  ELSE IF e.run.state = "halted" /\ e.run.cause = "stop" /\ e.stop THEN "released"
  ELSE "completed"
Disposition_WaitingReleased(e) ==
  IF e.run.state = "halted" /\ e.run.cause \in {"capacity", "parked"} THEN "deferred"
  ELSE IF e.run.state = "waiting_human" THEN "released"
  ELSE "completed"
Disposition(e) ==
  IF e.run.state = "halted" /\ e.run.cause \in {"capacity", "parked"} THEN "deferred"
  ELSE IF e.run.state = "halted" /\ e.run.cause = "stop" /\ e.stop THEN "released"
  ELSE "completed"

\* The queue's release, defer and complete: each a no-op for a job that names another claimant.
Disposed(c, how) ==
  IF ~Names(c) THEN job
  ELSE [job EXCEPT ![c[1]].by = NoOne, ![c[1]].lapsed = FALSE,
                   ![c[1]].deferrals = IF how = "deferred" THEN @ + 1 ELSE @,
                   ![c[1]].phase = IF how = "completed" THEN "gone" ELSE @]

\* The engine returned: the runner disposes of the job, unless the heartbeat lost the claim.
Dispose(c) ==
  /\ exec[c].at = "ended"
  /\ job' = IF exec[c].lost THEN job ELSE Disposed(c, Disposition(exec[c]))
  /\ exec' = [exec EXCEPT ![c].at = "leaving"]
  /\ UNCHANGED <<run, flags, stopping, person, troubles>>

\* The engine raised: the job is given back.
Release(c) ==
  /\ exec[c].at = "raising"
  /\ job' = Disposed(c, "released")
  /\ exec' = [exec EXCEPT ![c].at = "leaving"]
  /\ UNCHANGED <<run, flags, stopping, person, troubles>>

\* The execution is over, a lost one noted: its heartbeat is cancelled.
Leave(c) ==
  /\ exec[c].at \in {"lost", "leaving"}
  /\ exec' = [exec EXCEPT ![c] = [NoExec EXCEPT !.by = exec[c].by, !.at = "gone"]]
  /\ UNCHANGED <<run, job, flags, stopping, person, troubles>>

\* A renewal of the lease that the queue refuses; a renewal it grants changes nothing here.
Beat(c) ==
  /\ Alive(c)
  /\ exec[c].beat = "on"
  /\ ~(Names(c) /\ ~job[c[1]].lapsed)
  /\ exec' = [exec EXCEPT ![c].beat = "refused"]
  /\ UNCHANGED <<run, job, flags, stopping, person, troubles>>

\* The heartbeat takes the claim for lost and asks the run to stop at its boundary.
Relinquish(c) ==
  /\ Alive(c)
  /\ exec[c].beat = "refused"
  /\ exec' = [exec EXCEPT ![c].beat = "off", ![c].lost = TRUE, ![c].stop = TRUE]
  /\ flags' = [flags EXCEPT ![exec[c].by] = @ \cup {"stop"}]
  /\ UNCHANGED <<run, job, stopping, person, troubles>>

\* The heartbeat reads a stop of the adapter the step is inside.
StopHeld(c) ==
  /\ exec[c].at = "inside"
  /\ exec[c].beat = "on"
  /\ "adapter" \in May[exec[c].step]
  /\ "stop" \notin Notes(c)
  /\ flags' = [flags EXCEPT ![exec[c].by] = @ \cup {"stop"}]
  /\ UNCHANGED <<run, job, exec, stopping, person, troubles>>

\* The shutdown: no claim from now on, and every entry's run is asked to stop.
ShutDown(r) ==
  /\ r \notin stopping
  /\ troubles < MaxTroubles
  /\ stopping' = stopping \cup {r}
  /\ exec' = [c \in Claims |-> IF c \in Entries(r) THEN [exec[c] EXCEPT !.stop = TRUE] ELSE exec[c]]
  /\ flags' = IF Entries(r) = {} THEN flags ELSE [flags EXCEPT ![r] = @ \cup {"stop"}]
  /\ troubles' = troubles + 1
  /\ UNCHANGED <<run, job, person>>

\* The process starts again, knowing nothing of the run.
Restart(r) ==
  /\ r \in stopping
  /\ \A c \in Claims : exec[c].by = r => ~Alive(c)
  /\ stopping' = stopping \ {r}
  /\ flags' = [flags EXCEPT ![r] = {}]
  /\ UNCHANGED <<run, job, exec, person, troubles>>

\* The process dies and is started again.
Crash(r) ==
  /\ troubles < MaxTroubles
  /\ \E c \in Claims : exec[c].by = r /\ Alive(c)
  /\ exec' = [c \in Claims |-> IF exec[c].by = r /\ Alive(c)
                               THEN [NoExec EXCEPT !.by = r, !.at = "gone"] ELSE exec[c]]
  /\ flags' = [flags EXCEPT ![r] = {}]
  /\ stopping' = stopping \ {r}
  /\ troubles' = troubles + 1
  /\ UNCHANGED <<run, job, person>>

\* The lease of a claim ends unrenewed: nobody executes under it any more, or a runner is cut
\* off from the database for longer than the lease.
Lapse(j) ==
  LET cutOff == \E c \in Claims : c[1] = j /\ Alive(c) /\ Passes(c)
  IN  /\ job[j].phase = "queued" /\ job[j].by # NoOne /\ ~job[j].lapsed
      /\ cutOff => troubles < MaxTroubles
      /\ troubles' = IF cutOff THEN troubles + 1 ELSE troubles
      /\ job' = [job EXCEPT ![j].lapsed = TRUE]
      /\ UNCHANGED <<run, exec, flags, stopping, person>>

-----------------------------------------------------------------------------
(* The engine under a claim: resume.                                       *)

Read(c) ==
  /\ exec[c].at = "claimed"
  /\ exec' = [exec EXCEPT ![c].run = run,
                          ![c].at = IF EndedForClaim(run) THEN "ended" ELSE "read"]
  /\ UNCHANGED <<run, job, flags, stopping, person, troubles>>

\* The interrupted step goes back to its boundary, and the run continues.
Recovered_InFlightKept(doc) == To(doc, "running", "none")
Recovered(doc) ==
  To([doc EXCEPT !.steps = [s \in Steps |-> IF s \in InFlight(doc) THEN "stopped"
                                            ELSE doc.steps[s]]], "running", "none")

Begin(c) ==
  LET doc == exec[c].run
  IN  /\ exec[c].at = "read"
      /\ \/ /\ doc.state \in {"halted", "escalated", "waiting_human"}
            /\ Write(c, To(doc, "running", "none"), "loop", NoStep, Notes(c))
         \/ /\ doc.state = "planned" /\ InFlight(doc) = {}
            /\ Write(c, To(doc, "admitted", "none"), "launching", NoStep, Notes(c))
         \/ /\ doc.state \in {"admitted", "running"}
            /\ Write(c, Recovered(doc), "loop", NoStep, Notes(c))
      /\ UNCHANGED <<job, stopping, person, troubles>>

Launch(c) ==
  /\ exec[c].at = "launching"
  /\ Write(c, To(exec[c].run, "running", "none"), "loop", NoStep, Notes(c))
  /\ UNCHANGED <<job, stopping, person, troubles>>

-----------------------------------------------------------------------------
(* The engine under a claim: one pass of the step loop.                    *)

\* The step at its boundary, before it is admitted.
AtBoundary(c, s) == exec[c].at = "loop" /\ s \in Runnable(exec[c].run)

Await(c, s) ==
  /\ AtBoundary(c, s)
  /\ "await" \in May[s] /\ exec[c].run.steps[s] = "planned" /\ s \notin exec[c].run.confirmed
  /\ Write(c, StepTo(exec[c].run, s, "waiting_human"), "after", s, Notes(c))
  /\ UNCHANGED <<job, stopping, person, troubles>>

\* Whether nothing more is asked of a person before the step starts.
Asked(c, s) == "await" \in May[s] /\ exec[c].run.steps[s] = "planned" => s \in exec[c].run.confirmed

Reject(c, s) ==
  /\ AtBoundary(c, s) /\ Asked(c, s)
  /\ "reject" \in May[s]
  /\ Write(c, StepTo(exec[c].run, s, "rejected"), "after", s, Notes(c))
  /\ UNCHANGED <<job, stopping, person, troubles>>

FailBefore(c, s) ==
  /\ AtBoundary(c, s) /\ Asked(c, s)
  /\ "fail" \in May[s]
  /\ Write(c, StepTo(exec[c].run, s, "failed"), "after", s, Notes(c))
  /\ UNCHANGED <<job, stopping, person, troubles>>

\* The adapter the step would call is stopped: it stops where it is.
StoppedBefore(c, s) ==
  /\ AtBoundary(c, s) /\ Asked(c, s)
  /\ "adapter" \in May[s]
  /\ Write(c, StepTo(exec[c].run, s, "stopped"), "after", s, Notes(c) \cup {"stop"})
  /\ UNCHANGED <<job, stopping, person, troubles>>

Admit(c, s) ==
  /\ AtBoundary(c, s) /\ Asked(c, s)
  /\ Write(c, StepTo(exec[c].run, s, "admitted"), "admitted", s, Notes(c))
  /\ UNCHANGED <<job, stopping, person, troubles>>

Start(c) ==
  /\ exec[c].at = "admitted"
  /\ Write(c, StepTo(exec[c].run, exec[c].step, "running"), "inside", exec[c].step, Notes(c))
  /\ UNCHANGED <<job, stopping, person, troubles>>

Inside(c, outcome) == exec[c].at = "inside" /\ outcome \in May[exec[c].step]

Succeed(c) ==
  LET s == exec[c].step
  IN  /\ Inside(c, "ok")
      /\ Write(c, Unblocked(StepTo(exec[c].run, s, "succeeded"), s), "after", s, Notes(c))
      /\ UNCHANGED <<job, stopping, person, troubles>>

Fail(c) ==
  LET s == exec[c].step
  IN  /\ Inside(c, "fail")
      /\ Write(c, Unblocked(StepTo(exec[c].run, s, "failed"), s), "after", s, Notes(c))
      /\ UNCHANGED <<job, stopping, person, troubles>>

\* A wait goes on without this runner, until its next check.
Park(c) ==
  LET s == exec[c].step
      doc == [StepTo(exec[c].run, s, "stopped") EXCEPT !.parked = @ \cup {s}, !.waits[s] = @ + 1]
  IN  /\ Inside(c, "park")
      /\ exec[c].run.waits[s] < MaxWaits
      /\ Write(c, doc, "after", s, Notes(c) \cup {"parked"})
      /\ UNCHANGED <<job, stopping, person, troubles>>

\* The worker is at capacity, or the provider at its limit; past the ceiling the step fails.
AtCapacity(c) ==
  LET s == exec[c].step
      doc == IF exec[c].run.waits[s] < MaxWaits
             THEN [StepTo(exec[c].run, s, "stopped") EXCEPT !.waits[s] = @ + 1]
             ELSE Unblocked(StepTo(exec[c].run, s, "failed"), s)
  IN  /\ Inside(c, "capacity")
      /\ Write(c, doc, "after", s, Notes(c) \cup {"capacity"})
      /\ UNCHANGED <<job, stopping, person, troubles>>

\* The adapter was stopped since the step started; a wait keeps its block.
StoppedInside(c) ==
  LET s == exec[c].step
      doc == [StepTo(exec[c].run, s, "stopped") EXCEPT
                !.parked = IF "park" \in May[s] THEN @ \cup {s} ELSE @]
  IN  /\ Inside(c, "adapter")
      /\ Write(c, doc, "after", s, Notes(c) \cup {"stop"})
      /\ UNCHANGED <<job, stopping, person, troubles>>

\* A worker asked to stop does so at its boundary.
WorkerStops(c) ==
  /\ Inside(c, "worker")
  /\ "stop" \in Notes(c)
  /\ Write(c, StepTo(exec[c].run, exec[c].step, "stopped"), "after", exec[c].step, Notes(c))
  /\ UNCHANGED <<job, stopping, person, troubles>>

\* Executing the step raises, before it is admitted or inside it.
Raising(c, s) == \/ AtBoundary(c, s) /\ Asked(c, s) /\ "raise" \in May[s]
                 \/ Inside(c, "raise") /\ s = exec[c].step

Raise(c, s) ==
  /\ Raising(c, s) /\ ~exec[c].last
  /\ exec' = [exec EXCEPT ![c].at = "raising"]
  /\ flags' = [flags EXCEPT ![exec[c].by] = @ \ {"capacity"}]
  /\ UNCHANGED <<run, job, stopping, person, troubles>>

\* At the job's last attempt the step fails with what it raised, as the store holds the run
\* now; a step that has ended otherwise lets the exception leave the engine.
RaiseAtLast(c, s) ==
  /\ Raising(c, s) /\ exec[c].last
  /\ IF run.steps[s] \in {"succeeded", "waiting_human"}
     THEN /\ exec' = [exec EXCEPT ![c].at = "raising"]
          /\ flags' = [flags EXCEPT ![exec[c].by] =
                          IF run.steps[s] = "succeeded" THEN @ \ {"capacity"}
                                                        ELSE @ \ {"parked", "capacity"}]
          /\ UNCHANGED run
     ELSE Write(c, StepTo(run, s, "failed"), "after", s, Notes(c) \ {"parked", "capacity"})
  /\ UNCHANGED <<job, stopping, person, troubles>>

-----------------------------------------------------------------------------
(* The engine under a claim: what follows a step, and the end of the pass. *)

\* The end takes the request to stop back, whoever asked and whatever the run ends with.
End(c, state, cause) ==
  Write(c, To(exec[c].run, state, cause), "ended", exec[c].step, Notes(c) \ {"stop", "capacity"})

Continue(c, noted) ==
  /\ exec' = [exec EXCEPT ![c].at = "loop"]
  /\ flags' = [flags EXCEPT ![exec[c].by] = noted]
  /\ UNCHANGED run

AfterWaiting(c) ==
  /\ exec[c].run.steps[exec[c].step] = "waiting_human"
  /\ IF "stop" \in Notes(c) THEN End(c, "halted", "stop") ELSE Continue(c, Notes(c))

AfterRejected(c) ==
  /\ exec[c].run.steps[exec[c].step] = "rejected"
  /\ End(c, "halted", "limit")

Healed(c) ==
  LET s == exec[c].step
  IN  /\ "capacity" \notin Notes(c)
      /\ "stop" \notin Notes(c)
      /\ exec[c].run.healed[s] < Heals[s]

AfterFailed(c) ==
  LET s == exec[c].step
  IN  /\ exec[c].run.steps[s] = "failed"
      /\ IF Healed(c)
         THEN Write(c, [exec[c].run EXCEPT !.healed[s] = @ + 1], "loop", s, Notes(c))
         ELSE End(c, "escalated", IF "capacity" \in Notes(c) THEN "capacity" ELSE "failure")

\* What the run halts with when its step stopped: the flags the process holds of the run.
StopCause(c) == IF "capacity" \in Notes(c) THEN "capacity"
                ELSE IF "parked" \in Notes(c) THEN "parked" ELSE "stop"

\* A worker that stopped while nobody asks it to continues at its checkpoint, in a new unit.
InANewUnit(c) ==
  /\ exec[c].run.steps[exec[c].step] = "stopped"
  /\ "worker" \in May[exec[c].step]
  /\ Notes(c) \cap Flags = {}
  /\ Continue(c, Notes(c))

AfterStopped(c) ==
  /\ exec[c].run.steps[exec[c].step] = "stopped"
  /\ Write(c, To(exec[c].run, "halted", StopCause(c)), "ended", exec[c].step,
           Notes(c) \ {"stop", "capacity", "parked"})

AfterSucceeded(c) ==
  LET noted == Notes(c) \ {"capacity", "parked"}
  IN  /\ exec[c].run.steps[exec[c].step] = "succeeded"
      /\ IF "stop" \in noted
         THEN Write(c, To(exec[c].run, "halted", "stop"), "ended", exec[c].step, noted \ {"stop"})
         ELSE Continue(c, noted)

After(c) ==
  /\ exec[c].at = "after"
  /\ \/ AfterWaiting(c) \/ AfterRejected(c) \/ AfterFailed(c)
     \/ InANewUnit(c) \/ AfterStopped(c) \/ AfterSucceeded(c)
  /\ UNCHANGED <<job, stopping, person, troubles>>

\* No step can run: the run waits for its persons, or it is finished.
Exhausted(c) ==
  /\ exec[c].at = "loop"
  /\ Runnable(exec[c].run) = {}
  /\ IF Waiting(exec[c].run) # {} THEN End(c, "waiting_human", "person")
                                  ELSE End(c, "finished", "none")
  /\ UNCHANGED <<job, stopping, person, troubles>>

EngineStep(c) ==
  \/ Read(c) \/ Begin(c) \/ Launch(c)
  \/ \E s \in Steps : \/ Await(c, s) \/ Reject(c, s) \/ FailBefore(c, s) \/ StoppedBefore(c, s)
                      \/ Admit(c, s) \/ Raise(c, s) \/ RaiseAtLast(c, s)
  \/ Start(c) \/ Succeed(c) \/ Fail(c) \/ Park(c) \/ AtCapacity(c) \/ StoppedInside(c)
  \/ WorkerStops(c) \/ After(c) \/ Exhausted(c)

-----------------------------------------------------------------------------
(* The persons, each in a process of their own and under no claim.         *)

ReadRun(p) ==
  /\ person[p].at = "idle"
  /\ run.state = "waiting_human" /\ Waiting(run) # {}
  /\ person' = [person EXCEPT ![p] = [at |-> "read", run |-> run]]
  /\ UNCHANGED <<run, job, exec, flags, stopping, troubles>>

\* The document as the answer leaves it, and the job that hands the run to a runner, in one
\* transaction.
Answer(p, doc) ==
  /\ run' = doc
  /\ \E j \in Jobs : /\ job[j].phase = "new"
                     /\ job' = [job EXCEPT ![j].phase = "queued"]
  /\ person' = [person EXCEPT ![p] = NoAnswer]
  /\ UNCHANGED <<exec, flags, stopping, troubles>>

Confirm(p, s) ==
  /\ person[p].at = "read" /\ s \in Waiting(person[p].run)
  /\ Answer(p, [Unblocked(StepTo(person[p].run, s, "planned"), s) EXCEPT !.confirmed = @ \cup {s}])

Perform(p, s) ==
  /\ person[p].at = "read" /\ s \in Waiting(person[p].run)
  /\ Answer(p, [Unblocked(StepTo(person[p].run, s, "succeeded"), s) EXCEPT !.confirmed = @ \cup {s}])

\* A rejection hands the run to nobody: the answer, and in a second transaction the halt.
Decline(p, s) ==
  LET doc == [Unblocked(StepTo(person[p].run, s, "planned"), s) EXCEPT !.confirmed = @ \ {s}]
  IN  /\ person[p].at = "read" /\ s \in Waiting(person[p].run)
      /\ run' = doc
      /\ person' = [person EXCEPT ![p] = [at |-> "ending", run |-> doc]]
      /\ UNCHANGED <<job, exec, flags, stopping, troubles>>

HaltDeclined(p) ==
  /\ person[p].at = "ending"
  /\ run' = To(person[p].run, "halted", "declined")
  /\ person' = [person EXCEPT ![p] = NoAnswer]
  /\ UNCHANGED <<job, exec, flags, stopping, troubles>>

PersonStep(p) ==
  \/ ReadRun(p) \/ HaltDeclined(p)
  \/ \E s \in Steps : Confirm(p, s) \/ Perform(p, s) \/ Decline(p, s)

-----------------------------------------------------------------------------

RunnerStep(c) == Dispose(c) \/ Release(c) \/ Leave(c)

Next ==
  \/ \E r \in Runners, j \in Jobs : Claim(r, j)
  \/ \E c \in Claims : EngineStep(c)
  \/ \E c \in Claims : RunnerStep(c)
  \/ \E c \in Claims : Beat(c) \/ Relinquish(c) \/ StopHeld(c)
  \/ \E r \in Runners : ShutDown(r) \/ Restart(r) \/ Crash(r)
  \/ \E j \in Jobs : Lapse(j)
  \/ \E p \in Persons : PersonStep(p)

Spec == Init /\ [][Next]_vars

\* Every task of a process is scheduled: an execution goes on, its runner disposes of its job,
\* a runner with a free place claims, and a lease nobody renews runs out.
Fairness ==
  /\ \A c \in Claims : WF_vars(EngineStep(c)) /\ WF_vars(RunnerStep(c))
  /\ WF_vars(\E r \in Runners, j \in Jobs : Claim(r, j))
  /\ \A j \in Jobs : WF_vars(Lapse(j))
  /\ \A r \in Runners : WF_vars(Restart(r))

FairSpec == Spec /\ Fairness

-----------------------------------------------------------------------------
(* Properties.                                                             *)

\* Every variable keeps its type.
TypeOK ==
  /\ run \in Run
  /\ job \in [Jobs -> Job]
  /\ exec \in [Claims -> Exec]
  /\ flags \in [Runners -> SUBSET Flags]
  /\ stopping \subseteq Runners
  /\ person \in [Persons -> Reading]
  /\ troubles \in Nat

\* Where an execution stands while it works on its copy of the document.
Working == {"launching", "loop", "admitted", "inside", "after"}

\* An execution that may write holds the stored document: nothing another execution wrote is
\* overwritten by a whole document read before it (RunEngine._commit, _fence; NTC-0044).
NoLostUpdate ==
  \A c \in Claims : exec[c].at \in Working /\ Passes(c) => exec[c].run = run

\* Two runners never both commit to one run (execute_run.py, runner.py): of all executions at
\* work on the run, under whichever job, at most one passes the fence.
OneRunnerCommits ==
  \A c, d \in Claims :
    exec[c].at \in Working /\ exec[d].at \in Working /\ Passes(c) /\ Passes(d) => c = d

\* A step that succeeded is never set back (ADR-0005: at most one step of work is lost).
DoneStaysDone ==
  [][\A s \in Steps : run.steps[s] = "succeeded" => run'.steps[s] = "succeeded"]_vars

\* The stored run follows the run's lifecycle: every write is a listed transition of the run, or
\* of one step whose dependencies are done, or the recovery.
Lifecycle == INSTANCE RunLifecycle WITH state <- run.state, steps <- run.steps
FollowsLifecycle == Lifecycle!Spec

\* A run that is executed, or waits at a boundary for capacity or for its next check, has a job
\* some runner can still claim or holds: it is never left for nobody (runner.py).
NeverWithoutJob ==
  run.state \in {"planned", "admitted", "running"}
    \/ (run.state = "halted" /\ run.cause \in {"capacity", "parked"})
    => \E j \in Jobs : job[j].phase = "queued"

\* Nothing is left for a runner to do: the run ended, is with a person, or halted at a boundary
\* only a person resumes it from.
Settled ==
  \/ run.state \in {"finished", "escalated", "waiting_human"}
  \/ run.state = "halted" /\ run.cause \notin {"capacity", "parked"}

\* Every run a runner serves is settled in the end: waits, failures and exceptions lead to an
\* end or to a person, and none leaves the run running for nobody (#591).
SettlesInTheEnd == <>[]Settled

=============================================================================
