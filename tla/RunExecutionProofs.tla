------------------------- MODULE RunExecutionProofs -------------------------
(* Theorems of the execution of a run and their proofs.                    *)
EXTENDS RunExecution, FiniteSetTheorems, TLAPS

\* An execution is a runner's, and one that is at a step knows which.
WellPlaced(e) ==
  /\ e.at # "none" => e.by \in Runners
  /\ e.at \in {"admitted", "inside", "after"} => e.step \in Steps

TypeInv == TypeOK /\ \A c \in Claims : WellPlaced(exec[c])

-----------------------------------------------------------------------------
(* Types of the documents and of what is done to them.                     *)

LEMMA NewRunType == NewRun \in Run
  BY DEF NewRun, Run, RunStates, Causes, StepStates

LEMMA NoExecType == NoExec \in Exec
  BY NewRunType DEF NoExec, Exec, Stands

LEMMA NewJobType == NewJob \in Job
  BY DEF NewJob, Job

LEMMA ToType ==
  ASSUME NEW doc \in Run, NEW state \in RunStates, NEW cause \in Causes
  PROVE  /\ To(doc, state, cause) \in Run
         /\ To(doc, state, cause).state = state
         /\ To(doc, state, cause).steps = doc.steps
  BY DEF To, Run

LEMMA StepToType ==
  ASSUME NEW doc \in Run, NEW s \in Steps, NEW state \in StepStates
  PROVE  /\ StepTo(doc, s, state) \in Run
         /\ StepTo(doc, s, state).state = doc.state
         /\ StepTo(doc, s, state).steps = [doc.steps EXCEPT ![s] = state]
<1>1. [doc.steps EXCEPT ![s] = state] \in [Steps -> StepStates]
  BY DEF Run
<1>2. QED
  BY <1>1 DEF StepTo, Run

LEMMA UnblockedType ==
  ASSUME NEW doc \in Run, NEW s \in Steps
  PROVE  /\ Unblocked(doc, s) \in Run
         /\ Unblocked(doc, s).state = doc.state
         /\ Unblocked(doc, s).steps = doc.steps
<1>1. [doc.waits EXCEPT ![s] = 0] \in [Steps -> Nat]
  BY DEF Run
<1>2. doc.parked \ {s} \in SUBSET Steps
  BY DEF Run
<1>3. QED
  BY <1>1, <1>2 DEF Unblocked, Run

\* A stopped step notes how it waits.
LEMMA BlockedType ==
  ASSUME NEW doc \in Run, NEW s \in Steps
  PROVE  /\ [doc EXCEPT !.parked = @ \cup {s}, !.waits[s] = @ + 1] \in Run
         /\ [doc EXCEPT !.parked = @ \cup {s}, !.waits[s] = @ + 1].state = doc.state
         /\ [doc EXCEPT !.parked = @ \cup {s}, !.waits[s] = @ + 1].steps = doc.steps
         /\ [doc EXCEPT !.waits[s] = @ + 1] \in Run
         /\ [doc EXCEPT !.waits[s] = @ + 1].state = doc.state
         /\ [doc EXCEPT !.waits[s] = @ + 1].steps = doc.steps
         /\ [doc EXCEPT !.parked = IF "park" \in May[s] THEN @ \cup {s} ELSE @] \in Run
         /\ [doc EXCEPT !.parked = IF "park" \in May[s] THEN @ \cup {s} ELSE @].state = doc.state
         /\ [doc EXCEPT !.parked = IF "park" \in May[s] THEN @ \cup {s} ELSE @].steps = doc.steps
<1>1. [doc.waits EXCEPT ![s] = doc.waits[s] + 1] \in [Steps -> Nat]
  BY DEF Run
<1>2. /\ doc.parked \cup {s} \in SUBSET Steps
      /\ (IF "park" \in May[s] THEN doc.parked \cup {s} ELSE doc.parked) \in SUBSET Steps
  BY DEF Run
<1>3. /\ [doc EXCEPT !.waits[s] = @ + 1] \in Run
      /\ [doc EXCEPT !.parked = @ \cup {s}, !.waits[s] = @ + 1] \in Run
  BY <1>1, <1>2 DEF Run
<1>4. [doc EXCEPT !.parked = IF "park" \in May[s] THEN @ \cup {s} ELSE @] \in Run
  BY <1>2 DEF Run
<1>5. QED
  BY <1>3, <1>4 DEF Run

LEMMA RecoveredType ==
  ASSUME NEW doc \in Run
  PROVE  /\ Recovered(doc) \in Run
         /\ Recovered(doc).state = "running"
         /\ Recovered(doc).steps = [s \in Steps |-> IF s \in InFlight(doc) THEN "stopped"
                                                                          ELSE doc.steps[s]]
<1> DEFINE steps == [s \in Steps |-> IF s \in InFlight(doc) THEN "stopped" ELSE doc.steps[s]]
           back == [doc EXCEPT !.steps = steps]
<1>1. steps \in [Steps -> StepStates]
  BY DEF Run, StepStates
<1>2. back \in Run /\ back.steps = steps
  BY <1>1 DEF Run
<1>3. "running" \in RunStates /\ "none" \in Causes
  BY DEF RunStates, Causes
<1>4. Recovered(doc) = To(back, "running", "none")
  BY DEF Recovered
<1> HIDE DEF back
<1>5. /\ Recovered(doc) \in Run
      /\ Recovered(doc).state = "running"
      /\ Recovered(doc).steps = steps
  BY <1>2, <1>3, <1>4, ToType
<1>6. QED
  BY <1>5

\* What the claims and the rows are made of.
LEMMA ExecFields ==
  ASSUME TypeOK, NEW c \in Claims
  PROVE  /\ exec[c] \in Exec
         /\ exec[c].by \in Runners \cup {NoOne}
         /\ exec[c].run \in Run
         /\ exec[c].step \in Steps \cup {NoStep}
         /\ c[1] \in Jobs /\ c[2] \in Nat
         /\ job[c[1]] \in Job
  BY DEF TypeOK, Exec, Claims, Job

\* One execution changes: its type, and that it knows its step.
LEMMA OneExecType ==
  ASSUME TypeInv, NEW c \in Claims, NEW e \in Exec,
         WellPlaced(e), exec' = [exec EXCEPT ![c] = e]
  PROVE  exec' \in [Claims -> Exec] /\ \A d \in Claims : WellPlaced(exec'[d])
<1>1. exec \in [Claims -> Exec]
  BY DEF TypeInv, TypeOK
<1>2. \A d \in Claims : exec'[d] = IF d = c THEN e ELSE exec[d]
  BY <1>1
<1>3. QED
  BY <1>1, <1>2 DEF TypeInv

\* The flags of one process change.
LEMMA FlagsType ==
  ASSUME TypeInv, NEW r, NEW noted \in SUBSET Flags, flags' = [flags EXCEPT ![r] = noted]
  PROVE  flags' \in [Runners -> SUBSET Flags]
  BY DEF TypeInv, TypeOK

LEMMA NotesType ==
  ASSUME TypeInv, NEW c \in Claims, exec[c].at # "none"
  PROVE  Notes(c) \in SUBSET Flags
  BY DEF TypeInv, TypeOK, WellPlaced, Notes

LEMMA WriteType ==
  ASSUME TypeInv, NEW c \in Claims, NEW doc \in Run, NEW at \in Stands,
         NEW s \in Steps \cup {NoStep}, at \in {"admitted", "inside", "after"} => s \in Steps,
         NEW noted \in SUBSET Flags, exec[c].at # "none",
         Write(c, doc, at, s, noted)
  PROVE  /\ run' \in Run
         /\ exec' \in [Claims -> Exec]
         /\ \A d \in Claims : WellPlaced(exec'[d])
         /\ flags' \in [Runners -> SUBSET Flags]
<1>1. exec[c] \in Exec /\ run \in Run /\ exec \in [Claims -> Exec]
  BY DEF TypeInv, TypeOK
<1>2. CASE Passes(c)
  <2> DEFINE e == [exec[c] EXCEPT !.run = doc, !.at = at, !.step = s]
  <2>1. e \in Exec /\ WellPlaced(e)
    BY <1>1 DEF Exec, TypeInv, WellPlaced
  <2>2. run' = doc /\ flags' = [flags EXCEPT ![exec[c].by] = noted]
    BY <1>2 DEF Write
  <2>3. exec' = [exec EXCEPT ![c] = e]
    BY <1>2, <1>1 DEF Write
  <2> HIDE DEF e
  <2>4. exec' \in [Claims -> Exec] /\ \A d \in Claims : WellPlaced(exec'[d])
    BY <2>1, <2>3, OneExecType
  <2>5. flags' \in [Runners -> SUBSET Flags]
    BY <2>2, FlagsType
  <2>6. QED
    BY <2>2, <2>4, <2>5
<1>3. CASE ~Passes(c)
  <2> DEFINE e == [exec[c] EXCEPT !.at = "lost"]
  <2>1. e \in Exec /\ WellPlaced(e)
    BY <1>1 DEF Exec, Stands, TypeInv, WellPlaced
  <2>2. run' = run /\ flags' = [flags EXCEPT ![exec[c].by] = noted \ {"stop", "capacity"}]
    BY <1>3 DEF Write
  <2>3. exec' = [exec EXCEPT ![c] = e]
    BY <1>3, <1>1 DEF Write
  <2> HIDE DEF e
  <2>4. exec' \in [Claims -> Exec] /\ \A d \in Claims : WellPlaced(exec'[d])
    BY <2>1, <2>3, OneExecType
  <2>5. noted \ {"stop", "capacity"} \in SUBSET Flags
    OBVIOUS
  <2>6. flags' \in [Runners -> SUBSET Flags]
    BY <2>2, <2>5, FlagsType
  <2>7. QED
    BY <1>1, <2>2, <2>4, <2>6
<1>4. QED
  BY <1>2, <1>3

-----------------------------------------------------------------------------
(* Every step keeps the types.                                             *)

LEMMA InitType == Init => TypeInv
<1> SUFFICES ASSUME Init PROVE TypeInv
  OBVIOUS
<1>1. job \in [Jobs -> Job]
  <2>1. [NewJob EXCEPT !.phase = "queued"] \in Job
    BY DEF NewJob, Job
  <2>2. QED
    BY <2>1, NewJobType DEF Init
<1>2. exec \in [Claims -> Exec] /\ \A c \in Claims : WellPlaced(exec[c])
  <2>1. \A c \in Claims : exec[c] = NoExec
    BY DEF Init
  <2>2. WellPlaced(NoExec)
    BY DEF WellPlaced, NoExec
  <2>3. QED
    BY <2>1, <2>2, NoExecType DEF Init
<1>3. person \in [Persons -> Reading]
  BY NewRunType DEF Init, Reading, NoAnswer
<1>4. run \in Run /\ flags \in [Runners -> SUBSET Flags] /\ stopping \subseteq Runners
      /\ troubles \in Nat
  BY NewRunType DEF Init
<1>5. QED
  BY <1>1, <1>2, <1>3, <1>4 DEF TypeInv, TypeOK

\* A write of an execution that leaves the rest alone, but may note that a stop was asked.
LEMMA WriteKeepsType ==
  ASSUME TypeInv, NEW c \in Claims, NEW doc \in Run, NEW at \in Stands,
         NEW s \in Steps \cup {NoStep}, at \in {"admitted", "inside", "after"} => s \in Steps,
         NEW noted \in SUBSET Flags, exec[c].at # "none",
         Write(c, doc, at, s, noted),
         UNCHANGED <<job, stopping, person, troubles>>
  PROVE  TypeInv'
<1>1. /\ run' \in Run
      /\ exec' \in [Claims -> Exec]
      /\ \A d \in Claims : WellPlaced(exec'[d])
      /\ flags' \in [Runners -> SUBSET Flags]
  BY WriteType
<1>2. QED
  BY <1>1 DEF TypeInv, TypeOK, WellPlaced

\* A step of one execution that writes nothing.
LEMMA OneExecKeepsType ==
  ASSUME TypeInv, NEW c \in Claims, NEW e \in Exec, WellPlaced(e),
         exec' = [exec EXCEPT ![c] = e], UNCHANGED <<run, stopping, person, troubles>>,
         job' \in [Jobs -> Job], flags' \in [Runners -> SUBSET Flags]
  PROVE  TypeInv'
<1>1. exec' \in [Claims -> Exec] /\ \A d \in Claims : WellPlaced(exec'[d])
  BY OneExecType
<1>2. QED
  BY <1>1 DEF TypeInv, TypeOK, WellPlaced

LEMMA DisposedType ==
  ASSUME TypeInv, NEW c \in Claims, NEW how
  PROVE  Disposed(c, how) \in [Jobs -> Job]
<1>1. job \in [Jobs -> Job] /\ job[c[1]] \in Job
  BY ExecFields DEF TypeInv, TypeOK
<1> DEFINE deferrals == IF how = "deferred" THEN job[c[1]].deferrals + 1 ELSE job[c[1]].deferrals
           phase == IF how = "completed" THEN "gone" ELSE job[c[1]].phase
           row == [job[c[1]] EXCEPT !.by = NoOne, !.lapsed = FALSE,
                                    !.deferrals = deferrals, !.phase = phase]
<1>2. row \in Job
  <2>1. deferrals \in Nat /\ phase \in {"new", "queued", "gone"}
    BY <1>1 DEF Job
  <2> HIDE DEF deferrals, phase
  <2>2. QED
    BY <1>1, <2>1 DEF Job
<1>3. ~Names(c) => Disposed(c, how) = job
  BY DEF Disposed
<1>4. Names(c) => Disposed(c, how) = [job EXCEPT ![c[1]] = row]
  BY <1>1, ExecFields DEF Disposed, TypeInv, Job
<1> HIDE DEF row
<1>5. QED
  BY <1>1, <1>2, <1>3, <1>4

LEMMA ClaimType ==
  ASSUME TypeInv, NEW r \in Runners, NEW j \in Jobs, Claim(r, j)
  PROVE  TypeInv'
<1> DEFINE n == job[j].attempts + 1
           c == <<j, n>>
           row == [job[j] EXCEPT !.by = r, !.attempts = n, !.lapsed = FALSE]
           e == [NoExec EXCEPT !.by = r, !.at = "claimed", !.last = LastAttempt(j), !.beat = "on"]
<1>1. job \in [Jobs -> Job] /\ job[j] \in Job
  BY DEF TypeInv, TypeOK
<1>2. n \in Nat /\ n >= 1 /\ n <= MaxClaims
  BY <1>1 DEF Job, Claim
<1>3. c \in Claims
  BY <1>2, ExecutionAssumption DEF Claims
<1>4. row \in Job /\ job' = [job EXCEPT ![j] = row]
  BY <1>1, <1>2 DEF Job, Claim
<1>5. job' \in [Jobs -> Job]
  BY <1>1, <1>4
<1>6. e \in Exec /\ WellPlaced(e)
  <2>1. LastAttempt(j) \in BOOLEAN
    BY DEF LastAttempt
  <2> HIDE DEF c, n, row
  <2>2. QED
    BY <2>1, NoExecType DEF Exec, NoExec, WellPlaced, Stands
<1>7. exec' = [exec EXCEPT ![c] = e] /\ UNCHANGED <<run, flags, stopping, person, troubles>>
  BY DEF Claim
<1>8. flags' \in [Runners -> SUBSET Flags]
  BY <1>7 DEF TypeInv, TypeOK
<1> HIDE DEF c, e, n, row
<1>9. QED
  BY <1>3, <1>5, <1>6, <1>7, <1>8, OneExecKeepsType

\* The steps of the runner and of the heartbeat of one execution.
LEMMA RunnerStepType ==
  ASSUME TypeInv, NEW c \in Claims,
         RunnerStep(c) \/ Beat(c) \/ Relinquish(c) \/ StopHeld(c)
  PROVE  TypeInv'
<1>0. /\ exec[c] \in Exec /\ WellPlaced(exec[c]) /\ exec \in [Claims -> Exec]
      /\ job \in [Jobs -> Job] /\ flags \in [Runners -> SUBSET Flags]
  BY DEF TypeInv, TypeOK
<1>1. ASSUME Dispose(c) \/ Release(c)
      PROVE  TypeInv'
  <2> DEFINE e == [exec[c] EXCEPT !.at = "leaving"]
  <2>1. e \in Exec /\ WellPlaced(e)
    BY <1>0, <1>1 DEF Exec, WellPlaced, Dispose, Release, Stands
  <2>2. exec' = [exec EXCEPT ![c] = e]
    BY <1>0, <1>1 DEF Dispose, Release
  <2>3. job' \in [Jobs -> Job]
    BY <1>0, <1>1, DisposedType DEF Dispose, Release
  <2>4. UNCHANGED <<run, flags, stopping, person, troubles>>
    BY <1>1 DEF Dispose, Release
  <2> HIDE DEF e
  <2>5. QED
    BY <1>0, <2>1, <2>2, <2>3, <2>4, OneExecKeepsType
<1>2. ASSUME Leave(c)
      PROVE  TypeInv'
  <2> DEFINE e == [NoExec EXCEPT !.by = exec[c].by, !.at = "gone"]
  <2>1. e \in Exec /\ WellPlaced(e)
    BY <1>0, <1>2, NoExecType DEF Exec, WellPlaced, Leave, Stands, NoExec
  <2>2. exec' = [exec EXCEPT ![c] = e] /\ UNCHANGED <<run, job, flags, stopping, person, troubles>>
    BY <1>2 DEF Leave
  <2> HIDE DEF e
  <2>3. QED
    BY <1>0, <2>1, <2>2, OneExecKeepsType
<1>3. ASSUME Beat(c)
      PROVE  TypeInv'
  <2> DEFINE e == [exec[c] EXCEPT !.beat = "refused"]
  <2>1. e \in Exec /\ WellPlaced(e)
    BY <1>0 DEF Exec, WellPlaced
  <2>2. exec' = [exec EXCEPT ![c] = e] /\ UNCHANGED <<run, job, flags, stopping, person, troubles>>
    BY <1>0, <1>3 DEF Beat
  <2> HIDE DEF e
  <2>3. QED
    BY <1>0, <2>1, <2>2, OneExecKeepsType
<1>4. ASSUME Relinquish(c)
      PROVE  TypeInv'
  <2> DEFINE e == [exec[c] EXCEPT !.beat = "off", !.lost = TRUE, !.stop = TRUE]
  <2>1. e \in Exec /\ WellPlaced(e)
    BY <1>0 DEF Exec, WellPlaced
  <2>2. exec' = [exec EXCEPT ![c] = e] /\ UNCHANGED <<run, job, stopping, person, troubles>>
    BY <1>0, <1>4 DEF Relinquish
  <2>3. flags' \in [Runners -> SUBSET Flags]
    BY <1>0, <1>4 DEF Relinquish, Flags
  <2> HIDE DEF e
  <2>4. QED
    BY <1>0, <2>1, <2>2, <2>3, OneExecKeepsType
<1>5. ASSUME StopHeld(c)
      PROVE  TypeInv'
  <2>1. flags' \in [Runners -> SUBSET Flags]
    BY <1>0, <1>5 DEF StopHeld, Flags
  <2>2. UNCHANGED <<run, job, exec, stopping, person, troubles>>
    BY <1>5 DEF StopHeld
  <2>3. QED
    BY <2>1, <2>2 DEF TypeInv, TypeOK, WellPlaced
<1>6. QED
  BY <1>1, <1>2, <1>3, <1>4, <1>5 DEF RunnerStep

\* The steps of a process as a whole, and the end of a lease.
LEMMA ProcessStepType ==
  ASSUME TypeInv, NEW r \in Runners, ShutDown(r) \/ Restart(r) \/ Crash(r)
  PROVE  TypeInv'
<1>0. /\ exec \in [Claims -> Exec] /\ flags \in [Runners -> SUBSET Flags]
      /\ stopping \subseteq Runners /\ troubles \in Nat
      /\ \A c \in Claims : exec[c] \in Exec /\ WellPlaced(exec[c])
  BY DEF TypeInv, TypeOK
<1>1. ASSUME ShutDown(r)
      PROVE  TypeInv'
  <2>1. \A c \in Claims : LET e == [exec[c] EXCEPT !.stop = TRUE]
                         IN  e \in Exec /\ WellPlaced(e)
    BY <1>0 DEF Exec, WellPlaced
  <2>2. exec' \in [Claims -> Exec] /\ \A c \in Claims : WellPlaced(exec'[c])
    BY <1>0, <1>1, <2>1 DEF ShutDown
  <2>3. flags' \in [Runners -> SUBSET Flags]
    BY <1>0, <1>1 DEF ShutDown, Flags
  <2>4. stopping' \subseteq Runners /\ troubles' \in Nat
        /\ UNCHANGED <<run, job, person>>
    BY <1>0, <1>1 DEF ShutDown
  <2>5. QED
    BY <2>2, <2>3, <2>4 DEF TypeInv, TypeOK
<1>2. ASSUME Restart(r)
      PROVE  TypeInv'
  <2>1. flags' \in [Runners -> SUBSET Flags] /\ stopping' \subseteq Runners
    BY <1>0, <1>2 DEF Restart
  <2>2. QED
    BY <1>2, <2>1 DEF Restart, TypeInv, TypeOK, WellPlaced
<1>3. ASSUME Crash(r)
      PROVE  TypeInv'
  <2>1. \A c \in Claims : LET e == [NoExec EXCEPT !.by = r, !.at = "gone"]
                         IN  e \in Exec /\ WellPlaced(e)
    BY <1>0, NoExecType DEF Exec, NoExec, WellPlaced, Stands
  <2>2. exec' \in [Claims -> Exec] /\ \A c \in Claims : WellPlaced(exec'[c])
    BY <1>0, <1>3, <2>1 DEF Crash
  <2>3. flags' \in [Runners -> SUBSET Flags] /\ stopping' \subseteq Runners /\ troubles' \in Nat
        /\ UNCHANGED <<run, job, person>>
    BY <1>0, <1>3 DEF Crash
  <2>4. QED
    BY <2>2, <2>3 DEF TypeInv, TypeOK
<1>4. QED
  BY <1>1, <1>2, <1>3

LEMMA LapseType ==
  ASSUME TypeInv, NEW j \in Jobs, Lapse(j)
  PROVE  TypeInv'
<1>1. job \in [Jobs -> Job] /\ job[j] \in Job /\ troubles \in Nat
  BY DEF TypeInv, TypeOK
<1>2. [job[j] EXCEPT !.lapsed = TRUE] \in Job
  BY <1>1 DEF Job
<1>3. job' \in [Jobs -> Job] /\ troubles' \in Nat
  BY <1>1, <1>2 DEF Lapse
<1>4. QED
  BY <1>3 DEF Lapse, TypeInv, TypeOK, WellPlaced

-----------------------------------------------------------------------------
(* What a step of the engine may write, and where it leaves its execution. *)

\* Where an execution stands while it holds a copy of the document it may still write.
Holding == Working \cup {"read"}

\* The steps a step depends on are done.
Ready(doc, s) == \A d \in Dependencies[s] : doc.steps[d] = "succeeded"

\* What an execution that stands there knows of the document, at step s.
Shape(at, doc, s) ==
  /\ at = "launching" => doc.state = "admitted" /\ InFlight(doc) = {}
  /\ at \in {"loop", "after"} => doc.state = "running" /\ InFlight(doc) = {}
  /\ at \in {"admitted", "inside"} =>
       /\ doc.state = "running" /\ InFlight(doc) = {s} /\ Ready(doc, s)
       /\ doc.steps[s] = IF at = "admitted" THEN "admitted" ELSE "running"

\* A run nobody executes has no step in flight.
Calm(doc) == doc.state \notin {"admitted", "running"} => InFlight(doc) = {}

\* A step the run's lifecycle allows, from one stored document to the next.
StepAdvances(doc, to) ==
  \E s \in Steps, state \in StepStates :
    /\ doc.state = "running" /\ to.state = "running"
    /\ InFlight(doc) \subseteq {s} /\ Ready(doc, s)
    /\ <<doc.steps[s], state>> \in Lifecycle!StepTransitions
    /\ to.steps = [doc.steps EXCEPT ![s] = state]

Advances(doc, to) ==
  \/ to.state = doc.state /\ to.steps = doc.steps
  \/ /\ <<doc.state, to.state>> \in Lifecycle!RunTransitions
     /\ InFlight(doc) = {} /\ to.steps = doc.steps
  \/ StepAdvances(doc, to)
  \/ /\ doc.state \in {"admitted", "running"} /\ to.state = "running"
     /\ to.steps = [s \in Steps |-> IF s \in InFlight(doc) THEN "stopped" ELSE doc.steps[s]]

\* The execution holds the stored document, and stands where that document says.
Sound(c) ==
  exec[c].run = run /\ Shape(exec[c].at, run, exec[c].step) /\ Calm(run)

\* A step of the engine is a write the lifecycle allows when the execution is sound ...
WritesSoundly(c) ==
  \E doc \in Run, at \in Stands, s \in Steps \cup {NoStep}, noted \in SUBSET Flags :
    /\ exec[c].at \in Holding
    /\ at \in {"admitted", "inside", "after"} => s \in Steps
    /\ Write(c, doc, at, s, noted)
    /\ Sound(c) => Shape(at, doc, s) /\ Calm(doc) /\ Advances(run, doc)

\* ... or goes on without one.
GoesOn(c) ==
  \E e \in Exec :
    /\ exec' = [exec EXCEPT ![c] = e] /\ WellPlaced(e)
    /\ run' = run /\ flags' \in [Runners -> SUBSET Flags]
    /\ exec[c].at # "none"
    /\ e.at \in Holding => \/ e.run = run /\ e.at = "read"
                          \/ /\ exec[c].at \in Holding /\ e.run = exec[c].run
                             /\ Sound(c) => Shape(e.at, e.run, e.step)

\* The step s of a running document, in which no other step is in flight, moves.
LEMMA StepWrite ==
  ASSUME NEW doc \in Run, NEW to \in Run, NEW s \in Steps, NEW state \in StepStates,
         doc.state = "running", to.state = "running", InFlight(doc) \subseteq {s}, Ready(doc, s),
         <<doc.steps[s], state>> \in Lifecycle!StepTransitions,
         to.steps = [doc.steps EXCEPT ![s] = state]
  PROVE  /\ Advances(doc, to) /\ Calm(to)
         /\ InFlight(to) = IF state \in {"admitted", "running"} THEN {s} ELSE {}
         /\ \A d \in Steps : d < s => to.steps[d] = doc.steps[d]
         /\ Ready(to, s) /\ to.steps[s] = state
<1>1. Advances(doc, to) /\ Calm(to)
  BY DEF Advances, StepAdvances, Calm
<1>2. doc.steps \in [Steps -> StepStates] /\ to.steps \in [Steps -> StepStates]
  BY DEF Run
<1>3. \A d \in Steps : to.steps[d] = IF d = s THEN state ELSE doc.steps[d]
  BY <1>2
<1>4. InFlight(to) = IF state \in {"admitted", "running"} THEN {s} ELSE {}
  BY <1>3 DEF InFlight
<1>5. \A d \in Steps : d < s => to.steps[d] = doc.steps[d]
  BY <1>3, ExecutionAssumption
<1>6. Ready(to, s)
  BY <1>5, ExecutionAssumption DEF Ready
<1>7. QED
  BY <1>1, <1>3, <1>4, <1>5, <1>6

\* The step at whose boundary an execution stands.
LEMMA AtBoundaryStep ==
  ASSUME NEW doc \in Run, NEW s \in Runnable(doc), InFlight(doc) = {}
  PROVE  /\ s \in Steps /\ Ready(doc, s)
         /\ doc.steps[s] \in {"planned", "rejected", "failed", "stopped"}
<1>1. s \in Candidates(doc)
  BY DEF Runnable
<1>2. s \in Steps /\ Ready(doc, s) /\ doc.steps[s] \notin {"succeeded", "waiting_human"}
  BY <1>1 DEF Candidates, Ready
<1>3. doc.steps[s] \notin {"admitted", "running"}
  BY <1>2 DEF InFlight
<1>4. QED
  BY <1>2, <1>3 DEF Run, StepStates

\* The step at the boundary ends there, or is admitted.
LEMMA BoundaryWrites ==
  ASSUME TypeInv, NEW c \in Claims, NEW s \in Steps, AtBoundary(c, s),
         NEW state \in {"waiting_human", "rejected", "failed", "stopped", "admitted"},
         state = "waiting_human" => exec[c].run.steps[s] = "planned",
         NEW at, at = IF state = "admitted" THEN "admitted" ELSE "after",
         NEW noted \in SUBSET Flags,
         Write(c, StepTo(exec[c].run, s, state), at, s, noted)
  PROVE  WritesSoundly(c)
<1> DEFINE doc == StepTo(exec[c].run, s, state)
<1>1. exec[c].run \in Run
  BY ExecFields DEF TypeInv
<1>2. state \in StepStates /\ at \in Stands /\ s \in Steps \cup {NoStep}
  BY DEF StepStates, Stands
<1>3. /\ doc \in Run /\ doc.state = exec[c].run.state
      /\ doc.steps = [exec[c].run.steps EXCEPT ![s] = state]
  BY <1>1, <1>2, StepToType
<1>4. exec[c].at = "loop" /\ s \in Runnable(exec[c].run)
  BY DEF AtBoundary
<1>5. exec[c].at \in Holding
  BY <1>4 DEF Holding, Working
<1> HIDE DEF doc
<1>6. ASSUME Sound(c)
      PROVE  Shape(at, doc, s) /\ Calm(doc) /\ Advances(run, doc)
  <2>1. exec[c].run = run /\ run.state = "running" /\ InFlight(run) = {}
    BY <1>4, <1>6 DEF Sound, Shape
  <2>2. Ready(run, s) /\ run.steps[s] \in {"planned", "rejected", "failed", "stopped"}
    BY <1>1, <1>4, <2>1, AtBoundaryStep
  <2>3. <<run.steps[s], state>> \in Lifecycle!StepTransitions
    BY <2>1, <2>2 DEF Lifecycle!StepTransitions
  <2>4. /\ Advances(run, doc) /\ Calm(doc)
        /\ InFlight(doc) = IF state \in {"admitted", "running"} THEN {s} ELSE {}
        /\ Ready(doc, s) /\ doc.steps[s] = state
    <3>1. /\ run \in Run /\ doc.state = "running" /\ doc.steps = [run.steps EXCEPT ![s] = state]
          /\ InFlight(run) \subseteq {s}
      BY <1>1, <1>3, <2>1
    <3>2. run.state = "running" /\ state \in StepStates /\ doc \in Run
      BY <1>2, <1>3, <2>1
    <3>3. QED
      BY <2>2, <2>3, <3>1, <3>2, StepWrite, ZenonT(120)
  <2>5. Shape(at, doc, s)
    BY <1>3, <2>1, <2>4 DEF Shape
  <2>6. QED
    BY <2>4, <2>5
<1>7. QED
  BY <1>2, <1>3, <1>5, <1>6 DEF WritesSoundly, doc

\* The step an execution is at starts, or ends.
LEMMA StepWrites ==
  ASSUME TypeInv, NEW c \in Claims, NEW doc \in Run, NEW state, NEW at,
         \/ exec[c].at = "admitted" /\ state = "running" /\ at = "inside"
         \/ exec[c].at = "inside" /\ state \in {"succeeded", "failed", "stopped"} /\ at = "after",
         doc.state = exec[c].run.state,
         doc.steps = [exec[c].run.steps EXCEPT ![exec[c].step] = state],
         NEW noted \in SUBSET Flags,
         Write(c, doc, at, exec[c].step, noted)
  PROVE  WritesSoundly(c)
<1>1. exec[c].run \in Run /\ exec[c].step \in Steps
  BY ExecFields DEF TypeInv, WellPlaced
<1>2. state \in StepStates /\ at \in Stands /\ exec[c].at \in Holding
  BY DEF StepStates, Stands, Holding, Working
<1>3. ASSUME Sound(c)
      PROVE  Shape(at, doc, exec[c].step) /\ Calm(doc) /\ Advances(run, doc)
  <2> DEFINE s == exec[c].step
  <2>1. /\ exec[c].run = run /\ run.state = "running" /\ InFlight(run) = {s} /\ Ready(run, s)
        /\ run.steps[s] = IF exec[c].at = "admitted" THEN "admitted" ELSE "running"
    <3>1. exec[c].run = run /\ Shape(exec[c].at, run, s)
      BY <1>3 DEF Sound
    <3>2. QED
      BY <3>1 DEF Shape
  <2>2. <<run.steps[s], state>> \in Lifecycle!StepTransitions
    BY <2>1 DEF Lifecycle!StepTransitions
  <2>3. InFlight(run) \subseteq {s} /\ doc.state = "running" /\ doc.steps = [run.steps EXCEPT ![s] = state]
    BY <2>1
  <2> HIDE DEF s
  <2>4. s \in Steps /\ run \in Run
    BY <1>1, <2>1 DEF s
  <2>5. /\ Advances(run, doc) /\ Calm(doc)
        /\ InFlight(doc) = IF state \in {"admitted", "running"} THEN {s} ELSE {}
        /\ Ready(doc, s) /\ doc.steps[s] = state
    BY <1>2, <2>1, <2>2, <2>3, <2>4, StepWrite, ZenonT(60)
  <2>6. Shape(at, doc, s)
    BY <2>3, <2>5 DEF Shape
  <2>7. QED
    BY <2>5, <2>6 DEF s
<1>4. QED
  BY <1>1, <1>2, <1>3 DEF WritesSoundly

LEMMA BoundaryActions ==
  ASSUME TypeInv, NEW c \in Claims, NEW s \in Steps,
         Await(c, s) \/ Reject(c, s) \/ FailBefore(c, s) \/ StoppedBefore(c, s) \/ Admit(c, s)
  PROVE  WritesSoundly(c) /\ UNCHANGED <<job, stopping, person, troubles>>
<1>1. AtBoundary(c, s)
  BY DEF Await, Reject, FailBefore, StoppedBefore, Admit
<1>2. Notes(c) \in SUBSET Flags /\ Notes(c) \cup {"stop"} \in SUBSET Flags
  BY <1>1, NotesType DEF AtBoundary, Flags
<1>3. UNCHANGED <<job, stopping, person, troubles>>
  BY DEF Await, Reject, FailBefore, StoppedBefore, Admit, TypeInv, TypeOK
<1>4. CASE Await(c, s)
  BY <1>1, <1>2, <1>3, <1>4, BoundaryWrites DEF Await
<1>5. CASE Reject(c, s)
  BY <1>1, <1>2, <1>3, <1>5, BoundaryWrites DEF Reject
<1>6. CASE FailBefore(c, s)
  BY <1>1, <1>2, <1>3, <1>6, BoundaryWrites DEF FailBefore
<1>7. CASE StoppedBefore(c, s)
  BY <1>1, <1>2, <1>3, <1>7, BoundaryWrites DEF StoppedBefore
<1>8. CASE Admit(c, s)
  BY <1>1, <1>2, <1>3, <1>8, BoundaryWrites DEF Admit
<1>9. QED
  BY <1>4, <1>5, <1>6, <1>7, <1>8

\* The outcomes of a step that is executed.
LEMMA InsideActions ==
  ASSUME TypeInv, NEW c \in Claims,
         \/ Start(c) \/ Succeed(c) \/ Fail(c) \/ Park(c) \/ AtCapacity(c)
         \/ StoppedInside(c) \/ WorkerStops(c)
  PROVE  WritesSoundly(c) /\ UNCHANGED <<job, stopping, person, troubles>>
<1> DEFINE s == exec[c].step
           doc == exec[c].run
<1>1. exec[c].at \in {"admitted", "inside"}
  BY DEF Start, Succeed, Fail, Park, AtCapacity, StoppedInside, WorkerStops, Inside
<1>2. /\ doc \in Run /\ s \in Steps
      /\ {"running", "succeeded", "failed", "stopped"} \subseteq StepStates
  BY <1>1, ExecFields DEF TypeInv, WellPlaced, StepStates
<1>3. /\ Notes(c) \in SUBSET Flags
      /\ Notes(c) \cup {"stop"} \in SUBSET Flags
      /\ Notes(c) \cup {"parked"} \in SUBSET Flags
      /\ Notes(c) \cup {"capacity"} \in SUBSET Flags
  BY <1>1, NotesType DEF Flags
<1>4. UNCHANGED <<job, stopping, person, troubles>>
  BY DEF Start, Succeed, Fail, Park, AtCapacity, StoppedInside, WorkerStops, TypeInv, TypeOK
<1>5. ASSUME NEW state \in {"running", "succeeded", "failed", "stopped"}
      PROVE  /\ StepTo(doc, s, state) \in Run
             /\ StepTo(doc, s, state).state = doc.state
             /\ StepTo(doc, s, state).steps = [doc.steps EXCEPT ![s] = state]
  BY <1>2, StepToType
<1>6. ASSUME NEW state \in {"succeeded", "failed"}
      PROVE  /\ Unblocked(StepTo(doc, s, state), s) \in Run
             /\ Unblocked(StepTo(doc, s, state), s).state = doc.state
             /\ Unblocked(StepTo(doc, s, state), s).steps = [doc.steps EXCEPT ![s] = state]
  BY <1>2, <1>5, UnblockedType
<1>7. StepTo(doc, s, "stopped") \in Run /\ StepTo(doc, s, "stopped").state = doc.state
      /\ StepTo(doc, s, "stopped").steps = [doc.steps EXCEPT ![s] = "stopped"]
  BY <1>5
<1>8. CASE Start(c)
  BY <1>3, <1>4, <1>5, <1>8, StepWrites DEF Start
<1>9. CASE Succeed(c)
  BY <1>3, <1>4, <1>6, <1>9, StepWrites DEF Succeed, Inside
<1>10. CASE Fail(c)
  BY <1>3, <1>4, <1>6, <1>10, StepWrites DEF Fail, Inside
<1>11. CASE WorkerStops(c)
  BY <1>3, <1>4, <1>5, <1>11, StepWrites DEF WorkerStops, Inside
<1>12. CASE Park(c)
  <2> DEFINE to == [StepTo(doc, s, "stopped") EXCEPT !.parked = @ \cup {s}, !.waits[s] = @ + 1]
  <2>1. /\ to \in Run /\ to.state = doc.state
        /\ to.steps = [doc.steps EXCEPT ![s] = "stopped"]
    BY <1>2, <1>7, BlockedType
  <2>2. Write(c, to, "after", s, Notes(c) \cup {"parked"}) /\ exec[c].at = "inside"
    BY <1>12 DEF Park, Inside
  <2> HIDE DEF to
  <2>3. QED
    BY <1>3, <1>4, <2>1, <2>2, StepWrites
<1>13. CASE AtCapacity(c)
  <2> DEFINE again == [StepTo(doc, s, "stopped") EXCEPT !.waits[s] = @ + 1]
             never == Unblocked(StepTo(doc, s, "failed"), s)
  <2>1. again \in Run /\ again.state = doc.state /\ again.steps = [doc.steps EXCEPT ![s] = "stopped"]
    BY <1>2, <1>7, BlockedType
  <2>2. never \in Run /\ never.state = doc.state /\ never.steps = [doc.steps EXCEPT ![s] = "failed"]
    BY <1>6
  <2>3. /\ exec[c].at = "inside"
        /\ \/ Write(c, again, "after", s, Notes(c) \cup {"capacity"})
           \/ Write(c, never, "after", s, Notes(c) \cup {"capacity"})
    BY <1>13 DEF AtCapacity, Inside
  <2> HIDE DEF again, never
  <2>4. QED
    BY <1>3, <1>4, <2>1, <2>2, <2>3, StepWrites
<1>14. CASE StoppedInside(c)
  <2> DEFINE to == [StepTo(doc, s, "stopped") EXCEPT
                      !.parked = IF "park" \in May[s] THEN @ \cup {s} ELSE @]
  <2>1. to \in Run /\ to.state = doc.state /\ to.steps = [doc.steps EXCEPT ![s] = "stopped"]
    BY <1>2, <1>7, BlockedType
  <2>2. Write(c, to, "after", s, Notes(c) \cup {"stop"}) /\ exec[c].at = "inside"
    BY <1>14 DEF StoppedInside, Inside
  <2> HIDE DEF to
  <2>3. QED
    BY <1>3, <1>4, <2>1, <2>2, StepWrites
<1>15. QED
  BY <1>8, <1>9, <1>10, <1>11, <1>12, <1>13, <1>14

\* The end of the pass.
LEMMA EndWrites ==
  ASSUME TypeInv, NEW c \in Claims, exec[c].at \in {"loop", "after"},
         NEW state \in {"halted", "escalated", "waiting_human", "finished"}, NEW cause \in Causes,
         NEW noted \in SUBSET Flags,
         Write(c, To(exec[c].run, state, cause), "ended", exec[c].step, noted)
  PROVE  WritesSoundly(c)
<1> DEFINE doc == To(exec[c].run, state, cause)
<1>1. /\ exec[c].run \in Run /\ exec[c].step \in Steps \cup {NoStep} /\ state \in RunStates
      /\ "ended" \in Stands /\ exec[c].at \in Holding
  BY ExecFields DEF TypeInv, RunStates, Stands, Holding, Working
<1>2. doc \in Run /\ doc.state = state /\ doc.steps = exec[c].run.steps
  BY <1>1, ToType
<1> HIDE DEF doc
<1>3. ASSUME Sound(c)
      PROVE  Shape("ended", doc, exec[c].step) /\ Calm(doc) /\ Advances(run, doc)
  <2>1. exec[c].run = run /\ run.state = "running" /\ InFlight(run) = {}
    BY <1>3 DEF Sound, Shape
  <2>2. <<run.state, doc.state>> \in Lifecycle!RunTransitions
    BY <1>2, <2>1 DEF Lifecycle!RunTransitions
  <2>3. InFlight(doc) = {} /\ doc.steps = run.steps
    BY <1>2, <2>1 DEF InFlight
  <2>4. QED
    BY <2>1, <2>2, <2>3 DEF Shape, Calm, Advances
<1>4. QED
  BY <1>1, <1>2, <1>3 DEF WritesSoundly, doc

LEMMA ResumeActions ==
  ASSUME TypeInv, NEW c \in Claims, Read(c) \/ Begin(c) \/ Launch(c)
  PROVE  /\ WritesSoundly(c) \/ GoesOn(c)
         /\ UNCHANGED <<job, stopping, person, troubles>>
<1>0. /\ exec[c] \in Exec /\ exec[c].run \in Run /\ exec \in [Claims -> Exec] /\ run \in Run
      /\ flags \in [Runners -> SUBSET Flags] /\ WellPlaced(exec[c])
  BY ExecFields DEF TypeInv, TypeOK
<1>1. UNCHANGED <<job, stopping, person, troubles>>
  BY DEF Read, Begin, Launch, TypeInv, TypeOK
<1>2. /\ {"launching", "loop"} \subseteq Stands
      /\ {"read", "launching"} \subseteq Holding
      /\ {"admitted", "running"} \subseteq RunStates /\ "none" \in Causes
  BY DEF Stands, Holding, Working, RunStates, Causes
<1>3. CASE Read(c)
  <2> DEFINE e == [exec[c] EXCEPT !.run = run, !.at = IF EndedForClaim(run) THEN "ended" ELSE "read"]
  <2>1. /\ e \in Exec /\ WellPlaced(e) /\ e.run = run /\ e.at \in {"ended", "read"}
    BY <1>0, <1>3 DEF Exec, WellPlaced, Stands, Read
  <2>2. /\ exec' = [exec EXCEPT ![c] = e] /\ exec[c].at # "none"
        /\ run' = run /\ flags' = flags
    BY <1>0, <1>3 DEF Read
  <2> HIDE DEF e
  <2>3. e.at \in Holding => e.at = "read"
    BY <2>1 DEF Holding, Working
  <2>4. GoesOn(c)
    BY <1>0, <2>1, <2>2, <2>3 DEF GoesOn
  <2>5. QED
    BY <1>1, <2>4
<1>4. CASE Begin(c)
  <2>1. Notes(c) \in SUBSET Flags /\ exec[c].at = "read"
    BY <1>4, NotesType DEF Begin
  <2>2. CASE /\ exec[c].run.state \in {"halted", "escalated", "waiting_human"}
             /\ Write(c, To(exec[c].run, "running", "none"), "loop", NoStep, Notes(c))
    <3> DEFINE doc == To(exec[c].run, "running", "none")
    <3>1. doc \in Run /\ doc.state = "running" /\ doc.steps = exec[c].run.steps
      BY <1>0, <1>2, ToType
    <3> HIDE DEF doc
    <3>2. ASSUME Sound(c)
          PROVE  Shape("loop", doc, NoStep) /\ Calm(doc) /\ Advances(run, doc)
      <4>1. exec[c].run = run /\ InFlight(run) = {}
        BY <2>2, <3>2 DEF Sound, Calm
      <4>2. <<run.state, doc.state>> \in Lifecycle!RunTransitions
        BY <2>2, <3>1, <4>1 DEF Lifecycle!RunTransitions
      <4>3. InFlight(doc) = {} /\ doc.steps = run.steps
        BY <3>1, <4>1 DEF InFlight
      <4>4. QED
        BY <3>1, <4>1, <4>2, <4>3 DEF Shape, Calm, Advances
    <3>3. QED
      BY <1>1, <1>2, <2>1, <2>2, <3>1, <3>2 DEF WritesSoundly, doc
  <2>3. CASE /\ exec[c].run.state = "planned" /\ InFlight(exec[c].run) = {}
             /\ Write(c, To(exec[c].run, "admitted", "none"), "launching", NoStep, Notes(c))
    <3> DEFINE doc == To(exec[c].run, "admitted", "none")
    <3>1. doc \in Run /\ doc.state = "admitted" /\ doc.steps = exec[c].run.steps
      BY <1>0, <1>2, ToType
    <3> HIDE DEF doc
    <3>2. ASSUME Sound(c)
          PROVE  Shape("launching", doc, NoStep) /\ Calm(doc) /\ Advances(run, doc)
      <4>1. exec[c].run = run /\ InFlight(run) = {}
        BY <2>3, <3>2 DEF Sound
      <4>2. <<run.state, doc.state>> \in Lifecycle!RunTransitions
        BY <2>3, <3>1, <4>1 DEF Lifecycle!RunTransitions
      <4>3. InFlight(doc) = {} /\ doc.steps = run.steps
        BY <3>1, <4>1 DEF InFlight
      <4>4. QED
        BY <3>1, <4>1, <4>2, <4>3 DEF Shape, Calm, Advances
    <3>3. QED
      BY <1>1, <1>2, <2>1, <2>3, <3>1, <3>2 DEF WritesSoundly, doc
  <2>4. CASE /\ exec[c].run.state \in {"admitted", "running"}
             /\ Write(c, Recovered(exec[c].run), "loop", NoStep, Notes(c))
    <3> DEFINE doc == Recovered(exec[c].run)
    <3>1. /\ doc \in Run /\ doc.state = "running"
          /\ doc.steps = [s \in Steps |-> IF s \in InFlight(exec[c].run) THEN "stopped"
                                                                     ELSE exec[c].run.steps[s]]
      BY <1>0, RecoveredType
    <3> HIDE DEF doc
    <3>2. InFlight(doc) = {}
      BY <3>1 DEF InFlight
    <3>3. Sound(c) => Shape("loop", doc, NoStep) /\ Calm(doc) /\ Advances(run, doc)
      BY <2>4, <3>1, <3>2 DEF Sound, Shape, Calm, Advances
    <3>4. QED
      BY <1>1, <1>2, <2>1, <2>4, <3>1, <3>3 DEF WritesSoundly, doc
  <2>5. QED
    BY <1>4, <2>2, <2>3, <2>4 DEF Begin
<1>5. CASE Launch(c)
  <2> DEFINE doc == To(exec[c].run, "running", "none")
  <2>1. doc \in Run /\ doc.state = "running" /\ doc.steps = exec[c].run.steps
    BY <1>0, <1>2, ToType
  <2>2. Notes(c) \in SUBSET Flags /\ exec[c].at = "launching" /\ Write(c, doc, "loop", NoStep, Notes(c))
    BY <1>5, NotesType DEF Launch
  <2> HIDE DEF doc
  <2>3. ASSUME Sound(c)
        PROVE  Shape("loop", doc, NoStep) /\ Calm(doc) /\ Advances(run, doc)
    <3>1. exec[c].run = run /\ run.state = "admitted" /\ InFlight(run) = {}
      BY <2>2, <2>3 DEF Sound, Shape
    <3>2. <<run.state, doc.state>> \in Lifecycle!RunTransitions
      BY <2>1, <3>1 DEF Lifecycle!RunTransitions
    <3>3. InFlight(doc) = {} /\ doc.steps = run.steps
      BY <2>1, <3>1 DEF InFlight
    <3>4. QED
      BY <2>1, <3>1, <3>2, <3>3 DEF Shape, Calm, Advances
  <2>4. QED
    BY <1>1, <1>2, <2>1, <2>2, <2>3 DEF WritesSoundly
<1>6. QED
  BY <1>3, <1>4, <1>5

LEMMA RaisingActions ==
  ASSUME TypeInv, NEW c \in Claims, NEW s \in Steps, Raise(c, s) \/ RaiseAtLast(c, s)
  PROVE  /\ WritesSoundly(c) \/ GoesOn(c)
         /\ UNCHANGED <<job, stopping, person, troubles>>
<1>0. /\ exec[c] \in Exec /\ exec[c].run \in Run /\ exec \in [Claims -> Exec] /\ run \in Run
      /\ flags \in [Runners -> SUBSET Flags] /\ WellPlaced(exec[c])
  BY ExecFields DEF TypeInv, TypeOK
<1>1. UNCHANGED <<job, stopping, person, troubles>>
  BY DEF Raise, RaiseAtLast, TypeInv, TypeOK
<1>2. Raising(c, s)
  BY DEF Raise, RaiseAtLast
<1>3. \/ exec[c].at = "loop" /\ s \in Runnable(exec[c].run)
      \/ exec[c].at = "inside" /\ s = exec[c].step
  BY <1>2 DEF Raising, AtBoundary, Inside
<1>4. exec[c].at \in Holding /\ exec[c].at # "none"
  BY <1>3 DEF Holding, Working
<1>5. ASSUME exec' = [exec EXCEPT ![c].at = "raising"], UNCHANGED run,
             flags' \in [Runners -> SUBSET Flags]
      PROVE  GoesOn(c)
  <2> DEFINE e == [exec[c] EXCEPT !.at = "raising"]
  <2>1. e \in Exec /\ WellPlaced(e) /\ e.at = "raising"
    BY <1>0, <1>4 DEF Exec, WellPlaced, Stands
  <2>2. exec' = [exec EXCEPT ![c] = e]
    BY <1>0, <1>5
  <2> HIDE DEF e
  <2>3. e.at \notin Holding
    BY <2>1 DEF Holding, Working
  <2>4. QED
    BY <1>4, <1>5, <2>1, <2>2, <2>3 DEF GoesOn
<1>6. CASE Raise(c, s)
  <2>1. flags' \in [Runners -> SUBSET Flags]
    BY <1>0, <1>6 DEF Raise
  <2>2. QED
    BY <1>1, <1>5, <1>6, <2>1 DEF Raise
<1>7. CASE RaiseAtLast(c, s) /\ run.steps[s] \in {"succeeded", "waiting_human"}
  <2>1. flags' \in [Runners -> SUBSET Flags]
    BY <1>0, <1>7 DEF RaiseAtLast
  <2>2. QED
    BY <1>1, <1>5, <1>7, <2>1 DEF RaiseAtLast
<1>8. CASE RaiseAtLast(c, s) /\ run.steps[s] \notin {"succeeded", "waiting_human"}
  <2> DEFINE doc == StepTo(run, s, "failed")
             noted == Notes(c) \ {"parked", "capacity"}
  <2>1. doc \in Run /\ doc.state = run.state /\ doc.steps = [run.steps EXCEPT ![s] = "failed"]
    BY <1>0, StepToType DEF StepStates
  <2>2. Write(c, doc, "after", s, noted) /\ noted \in SUBSET Flags
    BY <1>4, <1>8, NotesType DEF RaiseAtLast
  <2> HIDE DEF doc, noted
  <2>3. ASSUME Sound(c)
        PROVE  Shape("after", doc, s) /\ Calm(doc) /\ Advances(run, doc)
    <3>1. /\ run.state = "running" /\ InFlight(run) \subseteq {s} /\ Ready(run, s)
          /\ run.steps[s] \in {"planned", "rejected", "failed", "stopped", "running"}
      <4>1. exec[c].run = run /\ Shape(exec[c].at, run, exec[c].step)
        BY <2>3 DEF Sound
      <4>2. CASE exec[c].at = "loop" /\ s \in Runnable(exec[c].run)
        <5>1. run.state = "running" /\ InFlight(run) = {} /\ s \in Runnable(run)
          BY <4>1, <4>2 DEF Shape
        <5>2. QED
          BY <1>0, <5>1, AtBoundaryStep
      <4>3. CASE exec[c].at = "inside" /\ s = exec[c].step
        BY <4>1, <4>3 DEF Shape
      <4>4. QED
        BY <1>3, <4>2, <4>3
    <3>2. <<run.steps[s], "failed">> \in Lifecycle!StepTransitions
      BY <3>1 DEF Lifecycle!StepTransitions
    <3>3. "failed" \in StepStates /\ doc.state = "running"
      BY <2>1, <3>1 DEF StepStates
    <3>4. /\ Advances(run, doc) /\ Calm(doc)
          /\ InFlight(doc) = IF "failed" \in {"admitted", "running"} THEN {s} ELSE {}
      BY <1>0, <2>1, <3>1, <3>2, <3>3, StepWrite
    <3>5. QED
      BY <3>3, <3>4 DEF Shape
  <2>4. "after" \in Stands
    BY DEF Stands
  <2>5. QED
    BY <1>1, <1>4, <2>1, <2>2, <2>3, <2>4 DEF WritesSoundly
<1>9. QED
  BY <1>6, <1>7, <1>8

\* What follows a step: the pass ends, goes on, or the step is healed and goes on.
LEMMA AfterActions ==
  ASSUME TypeInv, NEW c \in Claims, After(c) \/ Exhausted(c)
  PROVE  /\ WritesSoundly(c) \/ GoesOn(c)
         /\ UNCHANGED <<job, stopping, person, troubles>>
<1>0. /\ exec[c] \in Exec /\ exec[c].run \in Run /\ exec \in [Claims -> Exec]
      /\ flags \in [Runners -> SUBSET Flags] /\ WellPlaced(exec[c])
  BY ExecFields DEF TypeInv, TypeOK
<1>1. UNCHANGED <<job, stopping, person, troubles>>
  BY DEF After, Exhausted, TypeInv, TypeOK
<1>2. exec[c].at \in {"loop", "after"}
  BY DEF After, Exhausted
<1>3. Notes(c) \in SUBSET Flags
  BY <1>2, NotesType
<1>4. {"none", "stop", "capacity", "parked", "limit", "failure", "person"} \subseteq Causes
  BY DEF Causes
<1>5. ASSUME NEW state \in {"halted", "escalated", "waiting_human", "finished"},
             NEW cause \in {"none", "stop", "capacity", "parked", "limit", "failure", "person"},
             NEW noted \in SUBSET Flags,
             Write(c, To(exec[c].run, state, cause), "ended", exec[c].step, noted)
      PROVE  WritesSoundly(c)
  BY <1>2, <1>4, <1>5, EndWrites
<1>6. ASSUME NEW noted \in SUBSET Flags, exec[c].at = "after", Continue(c, noted)
      PROVE  GoesOn(c)
  <2> DEFINE e == [exec[c] EXCEPT !.at = "loop"]
  <2>1. e \in Exec /\ WellPlaced(e) /\ e.at = "loop" /\ e.run = exec[c].run
    BY <1>0, <1>6 DEF Exec, WellPlaced, Stands
  <2>2. exec' = [exec EXCEPT ![c] = e] /\ run' = run /\ flags' \in [Runners -> SUBSET Flags]
    BY <1>0, <1>6 DEF Continue
  <2> HIDE DEF e
  <2>3. Sound(c) => Shape(e.at, e.run, e.step)
    BY <1>6, <2>1 DEF Sound, Shape
  <2>4. exec[c].at \in Holding
    BY <1>6 DEF Holding, Working
  <2>5. QED
    BY <1>6, <2>1, <2>2, <2>3, <2>4 DEF GoesOn
<1>7. CASE Exhausted(c)
  <2>1. Notes(c) \ {"stop", "capacity"} \in SUBSET Flags
    BY <1>3
  <2>2. QED
    BY <1>1, <1>5, <1>7, <2>1 DEF Exhausted, End
<1>8. CASE exec[c].at = "after" /\ (AfterWaiting(c) \/ AfterRejected(c))
  <2>1. Notes(c) \ {"stop", "capacity"} \in SUBSET Flags
    BY <1>3
  <2>2. QED
    BY <1>1, <1>3, <1>5, <1>6, <1>8, <2>1 DEF AfterWaiting, AfterRejected, End
<1>9. CASE exec[c].at = "after" /\ AfterFailed(c)
  <2>1. CASE Healed(c)
    <3> DEFINE s == exec[c].step
               doc == [exec[c].run EXCEPT !.healed[s] = @ + 1]
    <3>1. s \in Steps
      BY <1>9 DEF TypeInv, WellPlaced
    <3>2. [exec[c].run.healed EXCEPT ![s] = exec[c].run.healed[s] + 1] \in [Steps -> Nat]
      BY <1>0, <3>1 DEF Run
    <3>3. doc \in Run /\ doc.state = exec[c].run.state /\ doc.steps = exec[c].run.steps
      BY <1>0, <3>2 DEF Run
    <3>4. Write(c, doc, "loop", s, Notes(c))
      BY <1>9, <2>1 DEF AfterFailed
    <3> HIDE DEF doc
    <3>5. Sound(c) => Shape("loop", doc, s) /\ Calm(doc) /\ Advances(run, doc)
      BY <1>9, <3>3 DEF Sound, Shape, Calm, Advances, InFlight
    <3>6. "loop" \in Stands /\ exec[c].at \in Holding
      BY <1>9 DEF Stands, Holding, Working
    <3>7. QED
      BY <1>1, <1>3, <3>1, <3>3, <3>4, <3>5, <3>6 DEF WritesSoundly
  <2>2. CASE ~Healed(c)
    <3>1. Notes(c) \ {"stop", "capacity"} \in SUBSET Flags
      BY <1>3
    <3>2. QED
      BY <1>1, <1>5, <1>9, <2>2, <3>1 DEF AfterFailed, End
  <2>3. QED
    BY <2>1, <2>2
<1>10. CASE exec[c].at = "after" /\ InANewUnit(c)
  BY <1>1, <1>3, <1>6, <1>10 DEF InANewUnit
<1>11. CASE exec[c].at = "after" /\ AfterStopped(c)
  <2>1. Notes(c) \ {"stop", "capacity", "parked"} \in SUBSET Flags
    BY <1>3
  <2>2. StopCause(c) \in {"capacity", "parked", "stop"}
    BY DEF StopCause
  <2>3. QED
    BY <1>1, <1>5, <1>11, <2>1, <2>2 DEF AfterStopped
<1>12. CASE exec[c].at = "after" /\ AfterSucceeded(c)
  <2> DEFINE noted == Notes(c) \ {"capacity", "parked"}
  <2>1. noted \in SUBSET Flags /\ noted \ {"stop"} \in SUBSET Flags
    BY <1>3
  <2>2. \/ Write(c, To(exec[c].run, "halted", "stop"), "ended", exec[c].step, noted \ {"stop"})
        \/ Continue(c, noted)
    BY <1>12 DEF AfterSucceeded
  <2> HIDE DEF noted
  <2>3. QED
    BY <1>1, <1>5, <1>6, <1>12, <2>1, <2>2
<1>13. QED
  BY <1>7, <1>8, <1>9, <1>10, <1>11, <1>12 DEF After

LEMMA EngineStepForm ==
  ASSUME TypeInv, NEW c \in Claims, EngineStep(c)
  PROVE  /\ WritesSoundly(c) \/ GoesOn(c)
         /\ UNCHANGED <<job, stopping, person, troubles>>
<1>1. CASE Read(c) \/ Begin(c) \/ Launch(c)
  BY <1>1, ResumeActions
<1>2. CASE \E s \in Steps : \/ Await(c, s) \/ Reject(c, s) \/ FailBefore(c, s)
                           \/ StoppedBefore(c, s) \/ Admit(c, s)
  BY <1>2, BoundaryActions
<1>3. CASE \E s \in Steps : Raise(c, s) \/ RaiseAtLast(c, s)
  BY <1>3, RaisingActions
<1>4. CASE \/ Start(c) \/ Succeed(c) \/ Fail(c) \/ Park(c) \/ AtCapacity(c)
           \/ StoppedInside(c) \/ WorkerStops(c)
  BY <1>4, InsideActions
<1>5. CASE After(c) \/ Exhausted(c)
  BY <1>5, AfterActions
<1>6. QED
  BY <1>1, <1>2, <1>3, <1>4, <1>5 DEF EngineStep

LEMMA EngineStepType ==
  ASSUME TypeInv, NEW c \in Claims, EngineStep(c)
  PROVE  TypeInv'
<1>1. UNCHANGED <<job, stopping, person, troubles>>
  BY EngineStepForm
<1>2. CASE WritesSoundly(c)
  <2>1. PICK doc \in Run, at \in Stands, s \in Steps \cup {NoStep}, noted \in SUBSET Flags :
          /\ exec[c].at \in Holding
          /\ at \in {"admitted", "inside", "after"} => s \in Steps
          /\ Write(c, doc, at, s, noted)
    BY <1>2 DEF WritesSoundly
  <2>2. exec[c].at # "none"
    BY <2>1 DEF Holding, Working
  <2>3. QED
    BY <1>1, <2>1, <2>2, WriteKeepsType
<1>3. CASE GoesOn(c)
  <2>1. PICK e \in Exec :
          /\ exec' = [exec EXCEPT ![c] = e] /\ WellPlaced(e)
          /\ run' = run /\ flags' \in [Runners -> SUBSET Flags]
    BY <1>3 DEF GoesOn
  <2>2. job' \in [Jobs -> Job] /\ UNCHANGED <<run, stopping, person, troubles>>
    BY <1>1, <2>1 DEF TypeInv, TypeOK
  <2>3. QED
    BY <1>1, <2>1, <2>2, OneExecKeepsType
<1>4. QED
  BY <1>2, <1>3, EngineStepForm

LEMMA PersonStepType ==
  ASSUME TypeInv, NEW p \in Persons, PersonStep(p)
  PROVE  TypeInv'
<1>0. /\ run \in Run /\ job \in [Jobs -> Job]
      /\ person \in [Persons -> Reading] /\ person[p].run \in Run
  BY DEF TypeInv, TypeOK, Reading
<1>1. UNCHANGED <<exec, flags, stopping, troubles>>
  BY DEF PersonStep, ReadRun, HaltDeclined, Confirm, Perform, Decline, Answer
<1>2. ASSUME run' \in Run, job' \in [Jobs -> Job], NEW reading \in Reading,
             person' = [person EXCEPT ![p] = reading]
      PROVE  TypeInv'
  <2>1. person' \in [Persons -> Reading]
    BY <1>0, <1>2
  <2>2. QED
    BY <1>1, <1>2, <2>1 DEF TypeInv, TypeOK, WellPlaced
<1>3. NoAnswer \in Reading
  BY NewRunType DEF NoAnswer, Reading
<1>4. CASE ReadRun(p)
  <2>1. [at |-> "read", run |-> run] \in Reading
    BY <1>0 DEF Reading
  <2>2. QED
    BY <1>0, <1>2, <1>4, <2>1 DEF ReadRun
<1>5. CASE HaltDeclined(p)
  <2>1. To(person[p].run, "halted", "declined") \in Run
    BY <1>0, ToType DEF RunStates, Causes
  <2>2. QED
    BY <1>0, <1>2, <1>3, <1>5, <2>1 DEF HaltDeclined
<1>6. ASSUME NEW s \in Steps, NEW state \in {"planned", "succeeded"}, NEW confirmed \in SUBSET Steps
      PROVE  [Unblocked(StepTo(person[p].run, s, state), s) EXCEPT !.confirmed = confirmed] \in Run
  <2>1. Unblocked(StepTo(person[p].run, s, state), s) \in Run
    BY <1>0, StepToType, UnblockedType DEF StepStates
  <2>2. QED
    BY <2>1 DEF Run
<1>7. ASSUME NEW s \in Steps, NEW state \in {"planned", "succeeded"}
      PROVE  /\ Unblocked(StepTo(person[p].run, s, state), s) \in Run
             /\ Unblocked(StepTo(person[p].run, s, state), s).confirmed \in SUBSET Steps
  <2>1. Unblocked(StepTo(person[p].run, s, state), s) \in Run
    BY <1>0, StepToType, UnblockedType DEF StepStates
  <2>2. QED
    BY <2>1 DEF Run
<1>8. ASSUME NEW doc \in Run, Answer(p, doc)
      PROVE  TypeInv'
  <2>1. PICK j \in Jobs : job' = [job EXCEPT ![j].phase = "queued"]
    BY <1>8 DEF Answer
  <2>2. [job[j] EXCEPT !.phase = "queued"] \in Job
    BY <1>0 DEF Job
  <2>3. job' \in [Jobs -> Job]
    BY <1>0, <2>1, <2>2
  <2>4. QED
    BY <1>2, <1>3, <1>8, <2>3 DEF Answer
<1>9. CASE \E s \in Steps : Confirm(p, s) \/ Perform(p, s)
  <2>1. PICK s \in Steps : Confirm(p, s) \/ Perform(p, s)
    BY <1>9
  <2>2. CASE Confirm(p, s)
    <3> DEFINE doc == Unblocked(StepTo(person[p].run, s, "planned"), s)
    <3>1. doc \in Run /\ doc.confirmed \cup {s} \in SUBSET Steps
      BY <1>7
    <3>2. [doc EXCEPT !.confirmed = doc.confirmed \cup {s}] \in Run
      BY <3>1, <1>6
    <3>3. QED
      BY <1>8, <2>2, <3>2 DEF Confirm
  <2>3. CASE Perform(p, s)
    <3> DEFINE doc == Unblocked(StepTo(person[p].run, s, "succeeded"), s)
    <3>1. doc \in Run /\ doc.confirmed \cup {s} \in SUBSET Steps
      BY <1>7
    <3>2. [doc EXCEPT !.confirmed = doc.confirmed \cup {s}] \in Run
      BY <3>1, <1>6
    <3>3. QED
      BY <1>8, <2>3, <3>2 DEF Perform
  <2>4. QED
    BY <2>1, <2>2, <2>3
<1>10. CASE \E s \in Steps : Decline(p, s)
  <2>1. PICK s \in Steps : Decline(p, s)
    BY <1>10
  <2> DEFINE doc == Unblocked(StepTo(person[p].run, s, "planned"), s)
             left == [doc EXCEPT !.confirmed = doc.confirmed \ {s}]
  <2>2. doc.confirmed \ {s} \in SUBSET Steps
    BY <1>7
  <2>3. left \in Run
    BY <2>2, <1>6
  <2>4. run' = left /\ person' = [person EXCEPT ![p] = [at |-> "ending", run |-> left]] /\ job' = job
    BY <2>1 DEF Decline
  <2> HIDE DEF left
  <2>5. [at |-> "ending", run |-> left] \in Reading
    BY <2>3 DEF Reading
  <2>6. QED
    BY <1>0, <1>2, <2>3, <2>4, <2>5
<1>11. QED
  BY <1>4, <1>5, <1>9, <1>10 DEF PersonStep

LEMMA NextType == TypeInv /\ [Next]_vars => TypeInv'
<1> SUFFICES ASSUME TypeInv, [Next]_vars PROVE TypeInv'
  OBVIOUS
<1>1. CASE \E r \in Runners, j \in Jobs : Claim(r, j)
  BY <1>1, ClaimType
<1>2. CASE \E c \in Claims : EngineStep(c)
  BY <1>2, EngineStepType
<1>3. CASE \E c \in Claims : RunnerStep(c) \/ Beat(c) \/ Relinquish(c) \/ StopHeld(c)
  BY <1>3, RunnerStepType
<1>4. CASE \E r \in Runners : ShutDown(r) \/ Restart(r) \/ Crash(r)
  BY <1>4, ProcessStepType
<1>5. CASE \E j \in Jobs : Lapse(j)
  BY <1>5, LapseType
<1>6. CASE \E p \in Persons : PersonStep(p)
  BY <1>6, PersonStepType
<1>7. CASE UNCHANGED vars
  BY <1>7 DEF vars, TypeInv, TypeOK, WellPlaced
<1>8. QED
  BY <1>1, <1>2, <1>3, <1>4, <1>5, <1>6, <1>7 DEF Next

\* Type correctness: whatever the runners, the persons and the processes' troubles do, every
\* variable of the execution keeps its type.
THEOREM TypeCorrect == Spec => []TypeOK
<1>1. TypeInv => TypeOK
  BY DEF TypeInv
<1>2. QED
  BY <1>1, InitType, NextType, PTL DEF Spec

-----------------------------------------------------------------------------
(* While nobody answers, the run has one job, and the fence orders all      *)
(* writes: of the executions that hold a copy of the document only the one  *)
(* under the job's latest claim may write, and its copy is the stored one.  *)

\* The submission's job is the only one that was ever enqueued.
OneJob == \A j \in Jobs : job[j].phase # "new" => j = 1

\* An execution is under a claim of that job, and none is ahead of the job's row.
Issued == \A c \in Claims : exec[c].at # "none" => c[1] = 1 /\ c[2] <= job[1].attempts

\* The execution under the latest claim holds the stored document, and stands where it says.
Current ==
  \A c \in Claims : exec[c].at \in Holding /\ c[2] = job[1].attempts
                     => exec[c].run = run /\ Shape(exec[c].at, run, exec[c].step)

IInv == TypeInv /\ OneJob /\ Issued /\ Current /\ Calm(run)

LEMMA InitInv == Init => IInv
<1> SUFFICES ASSUME Init PROVE IInv
  OBVIOUS
<1>1. \A c \in Claims : exec[c].at = "none"
  BY DEF Init, NoExec
<1>2. Issued /\ Current
  BY <1>1 DEF Issued, Current, Holding, Working
<1>3. OneJob
  BY DEF Init, OneJob, NewJob
<1>4. Calm(run)
  BY DEF Init, Calm, InFlight, NewRun
<1>5. QED
  BY <1>2, <1>3, <1>4, InitType DEF IInv

\* The execution holds what it held, or holds nothing any more.
SameOrDropped(c) ==
  \/ /\ exec'[c].at = exec[c].at /\ exec'[c].run = exec[c].run
     /\ exec'[c].step = exec[c].step
  \/ /\ exec'[c].at \notin Holding
     /\ exec'[c].at # "none" => exec[c].at # "none"

\* What the runner, the heartbeat, the clock and the processes do to an execution: nothing to
\* what it holds, or it holds nothing any more.
LEMMA HeldOrDropped ==
  ASSUME IInv, TypeInv', run' = run,
         \A j \in Jobs : job'[j].attempts = job[j].attempts,
         \A j \in Jobs : job'[j].phase # "new" => job[j].phase # "new",
         \A c \in Claims : SameOrDropped(c)
  PROVE  IInv'
<1>1. OneJob'
  BY DEF IInv, OneJob
<1>2. job'[1].attempts = job[1].attempts
  BY ExecutionAssumption
<1>3. Issued'
  BY <1>2 DEF IInv, Issued, SameOrDropped
<1>4. Current'
  BY <1>2 DEF IInv, Current, Shape, InFlight, Ready, SameOrDropped
<1>5. Calm(run)'
  BY DEF IInv, Calm, InFlight
<1>6. QED
  BY <1>1, <1>3, <1>4, <1>5 DEF IInv

LEMMA ClaimInv ==
  ASSUME IInv, NEW r \in Runners, NEW j \in Jobs, Claim(r, j)
  PROVE  IInv' /\ run' = run
<1>1. TypeInv'
  BY ClaimType DEF IInv
<1>2. j = 1 /\ job[1].attempts \in Nat
  BY DEF IInv, OneJob, Claim, Claimable, TypeInv, TypeOK, Job
<1> DEFINE n == job[1].attempts + 1
<1>3. /\ run' = run
      /\ job' = [job EXCEPT ![1].by = r, ![1].attempts = n, ![1].lapsed = FALSE]
      /\ exec' = [exec EXCEPT ![<<1, n>>] = [NoExec EXCEPT !.by = r, !.at = "claimed",
                                                !.last = LastAttempt(1), !.beat = "on"]]
  BY <1>2 DEF Claim
<1>4. job'[1].attempts = n /\ \A k \in Jobs : job'[k].phase = job[k].phase
  <2> DEFINE row == [job[1] EXCEPT !.by = r, !.attempts = n, !.lapsed = FALSE]
  <2>1. 1 \in Jobs /\ job \in [Jobs -> Job] /\ job[1] \in Job
    BY ExecutionAssumption DEF IInv, TypeInv, TypeOK
  <2>2. row.attempts = n /\ row.phase = job[1].phase
    BY <2>1 DEF Job
  <2>3. job' = [job EXCEPT ![1] = row]
    BY <1>3, <2>1
  <2> HIDE DEF row, n
  <2>4. QED
    BY <2>1, <2>2, <2>3
<1>5. /\ \A c \in Claims : c # <<1, n>> => exec'[c] = exec[c]
      /\ <<1, n>> \in Claims => exec'[<<1, n>>].at = "claimed"
  <2> DEFINE e == [NoExec EXCEPT !.by = r, !.at = "claimed", !.last = LastAttempt(1), !.beat = "on"]
  <2>1. e.at = "claimed"
    BY DEF NoExec
  <2>2. exec' = [exec EXCEPT ![<<1, n>>] = e] /\ exec \in [Claims -> Exec]
    BY <1>3 DEF IInv, TypeInv, TypeOK
  <2> HIDE DEF e, n
  <2>3. QED
    BY <2>1, <2>2
<1> HIDE DEF n
<1>6. OneJob'
  BY <1>4 DEF IInv, OneJob
<1>7. ASSUME NEW c \in Claims, exec'[c].at # "none"
      PROVE  /\ c[1] = 1 /\ c[2] <= n
             /\ c[2] = n => exec'[c].at = "claimed"
  <2>1. CASE c = <<1, n>>
    BY <1>2, <1>5, <2>1 DEF n
  <2>2. CASE c # <<1, n>>
    <3>1. exec[c].at # "none" /\ c[1] = 1 /\ c[2] <= job[1].attempts /\ c[2] \in Nat
      BY <1>5, <1>7, <2>2, ExecFields DEF IInv, Issued, TypeInv
    <3>2. QED
      BY <1>2, <3>1 DEF n
  <2>3. QED
    BY <2>1, <2>2
<1>8. Issued'
  BY <1>4, <1>7 DEF Issued
<1>9. Current'
  BY <1>4, <1>7 DEF Current, Holding, Working
<1>10. Calm(run)'
  BY <1>3 DEF IInv, Calm, InFlight
<1>11. QED
  BY <1>1, <1>3, <1>6, <1>8, <1>9, <1>10 DEF IInv

\* The fence lets only the latest claim write.
LEMMA OnlyTheLatestPasses ==
  ASSUME IInv, NEW c \in Claims, exec[c].at \in Holding
  PROVE  /\ c[1] = 1
         /\ Passes(c) => c[2] = job[1].attempts
         /\ \A d \in Claims : exec[d].at # "none" /\ d[2] = c[2] => d = c
<1>1. exec[c].at # "none"
  BY DEF Holding, Working
<1>2. \A d \in Claims : exec[d].at # "none" => d[1] = 1 /\ d = <<d[1], d[2]>>
  BY DEF IInv, Issued, Claims
<1>3. QED
  BY <1>1, <1>2 DEF Passes

LEMMA EngineStepInv ==
  ASSUME IInv, NEW c \in Claims, EngineStep(c)
  PROVE  IInv' /\ (run' = run \/ Advances(run, run'))
<1>1. TypeInv /\ TypeInv' /\ job' = job
  BY EngineStepType, EngineStepForm DEF IInv
<1>2. exec \in [Claims -> Exec] /\ exec[c] \in Exec
  BY <1>1 DEF TypeInv, TypeOK
<1>3. CASE WritesSoundly(c)
  <2>1. PICK doc \in Run, at \in Stands, s \in Steps \cup {NoStep}, noted \in SUBSET Flags :
          /\ exec[c].at \in Holding
          /\ Write(c, doc, at, s, noted)
          /\ Sound(c) => Shape(at, doc, s) /\ Calm(doc) /\ Advances(run, doc)
    BY <1>3 DEF WritesSoundly
  <2>2. exec[c].at # "none"
    BY <2>1 DEF Holding, Working
  <2>3. CASE Passes(c)
    <3> DEFINE e == [exec[c] EXCEPT !.run = doc, !.at = at, !.step = s]
    <3>1. run' = doc /\ exec' = [exec EXCEPT ![c] = e]
      BY <1>2, <2>1, <2>3 DEF Write
    <3>2. e.run = doc /\ e.at = at /\ e.step = s
      BY <1>2 DEF Exec
    <3> HIDE DEF e
    <3>3. exec'[c] = e /\ \A d \in Claims : d # c => exec'[d] = exec[d]
      BY <1>2, <3>1
    <3>4. /\ c[1] = 1 /\ c[2] = job[1].attempts
          /\ \A d \in Claims : exec[d].at # "none" /\ d[2] = c[2] => d = c
      BY <2>1, <2>3, OnlyTheLatestPasses
    <3>5. Sound(c)
      BY <2>1, <3>4 DEF IInv, Current, Sound
    <3>6. Shape(at, doc, s) /\ Calm(doc) /\ Advances(run, doc)
      BY <2>1, <3>5
    <3>7. OneJob' /\ Calm(run)'
      BY <1>1, <3>1, <3>6 DEF IInv, OneJob, Calm, InFlight
    <3>8. Issued'
      BY <1>1, <2>2, <3>3 DEF IInv, Issued
    <3>9. ASSUME NEW d \in Claims, exec'[d].at \in Holding, d[2] = job'[1].attempts
          PROVE  exec'[d].run = run' /\ Shape(exec'[d].at, run', exec'[d].step)
      <4>1. d = c
        <5>1. exec'[d].at # "none"
          BY <3>9 DEF Holding, Working
        <5>2. QED
          BY <1>1, <3>3, <3>4, <3>9, <5>1
      <4>2. QED
        BY <3>1, <3>2, <3>3, <3>6, <4>1
    <3>10. Current'
      BY <3>9 DEF Current, Shape, InFlight, Ready
    <3>11. QED
      BY <1>1, <3>1, <3>6, <3>7, <3>8, <3>10 DEF IInv
  <2>4. CASE ~Passes(c)
    <3> DEFINE e == [exec[c] EXCEPT !.at = "lost"]
    <3>1. run' = run /\ exec' = [exec EXCEPT ![c] = e]
      BY <1>2, <2>1, <2>4 DEF Write
    <3>2. e.at = "lost"
      BY <1>2 DEF Exec
    <3> HIDE DEF e
    <3>3. \A d \in Claims : exec'[d] = IF d = c THEN e ELSE exec[d]
      BY <1>2, <3>1
    <3>4. \A d \in Claims : SameOrDropped(d)
      BY <2>2, <3>2, <3>3 DEF SameOrDropped, Holding, Working
    <3>5. QED
      BY <1>1, <3>1, <3>4, HeldOrDropped
  <2>5. QED
    BY <2>3, <2>4
<1>4. CASE GoesOn(c)
  <2>1. PICK e \in Exec :
          /\ exec' = [exec EXCEPT ![c] = e]
          /\ run' = run /\ exec[c].at # "none"
          /\ e.at \in Holding => \/ e.run = run /\ e.at = "read"
                                \/ /\ exec[c].at \in Holding /\ e.run = exec[c].run
                                   /\ Sound(c) => Shape(e.at, e.run, e.step)
    BY <1>4 DEF GoesOn
  <2>2. exec'[c] = e /\ \A d \in Claims : d # c => exec'[d] = exec[d]
    BY <1>2, <2>1
  <2>3. OneJob' /\ Calm(run)'
    BY <1>1, <2>1 DEF IInv, OneJob, Calm, InFlight
  <2>4. Issued'
    BY <1>1, <2>1, <2>2 DEF IInv, Issued
  <2>5. ASSUME e.at \in Holding, c[2] = job[1].attempts
        PROVE  e.run = run /\ Shape(e.at, run, e.step)
    <3>1. CASE e.run = run /\ e.at = "read"
      BY <3>1 DEF Shape
    <3>2. CASE /\ exec[c].at \in Holding /\ e.run = exec[c].run
               /\ Sound(c) => Shape(e.at, e.run, e.step)
      <4>1. Sound(c)
        BY <2>5, <3>2 DEF IInv, Current, Sound
      <4>2. QED
        BY <3>2, <4>1 DEF Sound
    <3>3. QED
      BY <2>1, <2>5, <3>1, <3>2
  <2>6. ASSUME NEW d \in Claims, exec'[d].at \in Holding, d[2] = job'[1].attempts
        PROVE  exec'[d].run = run' /\ Shape(exec'[d].at, run', exec'[d].step)
    <3>1. CASE d = c
      BY <1>1, <2>1, <2>2, <2>5, <2>6, <3>1
    <3>2. CASE d # c
      BY <1>1, <2>1, <2>2, <2>6, <3>2 DEF IInv, Current
    <3>3. QED
      BY <3>1, <3>2
  <2>7. Current'
    BY <2>6 DEF Current, Shape, InFlight, Ready
  <2>8. QED
    BY <1>1, <2>1, <2>3, <2>4, <2>7 DEF IInv
<1>5. QED
  BY <1>1, <1>3, <1>4, EngineStepForm

LEMMA DisposedRows ==
  ASSUME TypeInv, NEW c \in Claims, NEW how, NEW j \in Jobs
  PROVE  /\ Disposed(c, how)[j].attempts = job[j].attempts
         /\ Disposed(c, how)[j].phase # "new" => job[j].phase # "new"
<1>1. job \in [Jobs -> Job] /\ job[c[1]] \in Job /\ c[1] \in Jobs
  BY ExecFields DEF TypeInv, TypeOK
<1>2. CASE ~Names(c)
  BY <1>2 DEF Disposed
<1>3. CASE Names(c)
  <2> DEFINE deferrals == IF how = "deferred" THEN job[c[1]].deferrals + 1 ELSE job[c[1]].deferrals
             phase == IF how = "completed" THEN "gone" ELSE job[c[1]].phase
             row == [job[c[1]] EXCEPT !.by = NoOne, !.lapsed = FALSE,
                                      !.deferrals = deferrals, !.phase = phase]
  <2>1. Disposed(c, how) = [job EXCEPT ![c[1]] = row]
    BY <1>1, <1>3 DEF Disposed, Job
  <2> HIDE DEF deferrals, phase
  <2>2. row.attempts = job[c[1]].attempts
    BY <1>1 DEF Job
  <2> HIDE DEF row
  <2>3. job[c[1]].phase # "new"
    BY <1>3 DEF Names
  <2>4. QED
    BY <1>1, <2>1, <2>2, <2>3
<1>4. QED
  BY <1>2, <1>3

LEMMA RunnerStepInv ==
  ASSUME IInv, NEW c \in Claims,
         RunnerStep(c) \/ Beat(c) \/ Relinquish(c) \/ StopHeld(c)
  PROVE  IInv' /\ run' = run
<1>1. TypeInv /\ TypeInv'
  BY RunnerStepType DEF IInv
<1>2. run' = run
  BY DEF RunnerStep, Dispose, Release, Leave, Beat, Relinquish, StopHeld
<1>3. \/ job' = job
      \/ \E how : job' = Disposed(c, how)
  BY DEF RunnerStep, Dispose, Release, Leave, Beat, Relinquish, StopHeld
<1>4. \A j \in Jobs : job'[j].attempts = job[j].attempts
  BY <1>1, <1>3, DisposedRows
<1>5. \A j \in Jobs : job'[j].phase # "new" => job[j].phase # "new"
  BY <1>1, <1>3, DisposedRows
<1>6. exec \in [Claims -> Exec] /\ exec[c] \in Exec
  BY <1>1 DEF TypeInv, TypeOK
<1>7. \E e : /\ exec' = [exec EXCEPT ![c] = e]
             /\ \/ e.at = exec[c].at /\ e.run = exec[c].run /\ e.step = exec[c].step
                \/ exec[c].at # "none" /\ e.at \in {"leaving", "gone"}
  <2>1. CASE Dispose(c) \/ Release(c)
    <3>1. exec' = [exec EXCEPT ![c] = [exec[c] EXCEPT !.at = "leaving"]] /\ exec[c].at # "none"
      BY <1>6, <2>1 DEF Dispose, Release
    <3>2. [exec[c] EXCEPT !.at = "leaving"].at = "leaving"
      BY <1>6 DEF Exec
    <3>3. QED
      BY <3>1, <3>2
  <2>2. CASE Leave(c)
    <3>1. /\ exec' = [exec EXCEPT ![c] = [NoExec EXCEPT !.by = exec[c].by, !.at = "gone"]]
          /\ exec[c].at # "none"
      BY <2>2 DEF Leave
    <3>2. [NoExec EXCEPT !.by = exec[c].by, !.at = "gone"].at = "gone"
      BY DEF NoExec
    <3>3. QED
      BY <3>1, <3>2
  <2>3. CASE Beat(c)
    <3> DEFINE e == [exec[c] EXCEPT !.beat = "refused"]
    <3>1. e.at = exec[c].at /\ e.run = exec[c].run /\ e.step = exec[c].step
      BY <1>6 DEF Exec
    <3>2. exec' = [exec EXCEPT ![c] = e]
      BY <1>6, <2>3 DEF Beat
    <3> HIDE DEF e
    <3>3. QED
      BY <3>1, <3>2
  <2>4. CASE Relinquish(c)
    <3> DEFINE e == [exec[c] EXCEPT !.beat = "off", !.lost = TRUE, !.stop = TRUE]
    <3>1. e.at = exec[c].at /\ e.run = exec[c].run /\ e.step = exec[c].step
      BY <1>6 DEF Exec
    <3>2. exec' = [exec EXCEPT ![c] = e]
      BY <1>6, <2>4 DEF Relinquish
    <3> HIDE DEF e
    <3>3. QED
      BY <3>1, <3>2
  <2>5. CASE StopHeld(c)
    <3>1. exec' = [exec EXCEPT ![c] = exec[c]]
      BY <1>6, <2>5 DEF StopHeld
    <3>2. QED
      BY <3>1
  <2>6. QED
    BY <2>1, <2>2, <2>3, <2>4, <2>5 DEF RunnerStep
<1>8. \A d \in Claims : SameOrDropped(d)
  BY <1>6, <1>7 DEF SameOrDropped, Holding, Working
<1>9. QED
  BY <1>1, <1>2, <1>4, <1>5, <1>8, HeldOrDropped

LEMMA ProcessStepInv ==
  ASSUME IInv, NEW r \in Runners, ShutDown(r) \/ Restart(r) \/ Crash(r)
  PROVE  IInv' /\ run' = run
<1>1. TypeInv /\ TypeInv'
  BY ProcessStepType DEF IInv
<1>2. run' = run /\ job' = job
  BY DEF ShutDown, Restart, Crash
<1>3. \A c \in Claims : exec[c] \in Exec
  BY <1>1 DEF TypeInv, TypeOK
<1>4. CASE ShutDown(r)
  <2>1. \A c \in Claims : exec'[c] \in {exec[c], [exec[c] EXCEPT !.stop = TRUE]}
    BY <1>4 DEF ShutDown
  <2>2. \A c \in Claims : /\ exec'[c].at = exec[c].at /\ exec'[c].run = exec[c].run
                         /\ exec'[c].step = exec[c].step
    BY <1>3, <2>1 DEF Exec
  <2>3. QED
    BY <1>1, <1>2, <2>2, HeldOrDropped DEF SameOrDropped
<1>5. CASE Restart(r)
  <2>1. exec' = exec
    BY <1>5 DEF Restart
  <2>2. QED
    BY <1>1, <1>2, <2>1, HeldOrDropped DEF SameOrDropped
<1>6. CASE Crash(r)
  <2> DEFINE e == [NoExec EXCEPT !.by = r, !.at = "gone"]
  <2>1. e.at = "gone" /\ \A c \in Claims : exec'[c] = IF exec[c].by = r /\ Alive(c) THEN e ELSE exec[c]
    BY <1>6 DEF Crash, NoExec
  <2> HIDE DEF e
  <2>2. \A c \in Claims : exec'[c] = exec[c] \/ (exec[c].at # "none" /\ exec'[c].at = "gone")
    BY <2>1 DEF Alive
  <2>3. \A c \in Claims : SameOrDropped(c)
    BY <2>2 DEF SameOrDropped, Holding, Working
  <2>4. QED
    BY <1>1, <1>2, <2>3, HeldOrDropped
<1>7. QED
  BY <1>4, <1>5, <1>6

LEMMA LapseInv ==
  ASSUME IInv, NEW j \in Jobs, Lapse(j)
  PROVE  IInv' /\ run' = run
<1>1. TypeInv /\ TypeInv' /\ job[j] \in Job /\ job \in [Jobs -> Job]
  BY LapseType DEF IInv, TypeInv, TypeOK
<1>2. run' = run /\ exec' = exec /\ job' = [job EXCEPT ![j].lapsed = TRUE]
  BY DEF Lapse
<1>3. \A k \in Jobs : job'[k].attempts = job[k].attempts
  BY <1>1, <1>2 DEF Job
<1>4. \A k \in Jobs : job'[k].phase # "new" => job[k].phase # "new"
  BY <1>1, <1>2 DEF Job
<1>5. QED
  BY <1>1, <1>2, <1>3, <1>4, HeldOrDropped DEF SameOrDropped

\* While nobody answers, every step keeps the invariant and moves the run as its lifecycle
\* allows, or not at all.
LEMMA NextInv ==
  ASSUME Persons = {}, IInv, [Next]_vars
  PROVE  IInv' /\ (run' = run \/ Advances(run, run'))
<1>1. CASE \E r \in Runners, j \in Jobs : Claim(r, j)
  BY <1>1, ClaimInv
<1>2. CASE \E c \in Claims : EngineStep(c)
  BY <1>2, EngineStepInv
<1>3. CASE \E c \in Claims : RunnerStep(c) \/ Beat(c) \/ Relinquish(c) \/ StopHeld(c)
  BY <1>3, RunnerStepInv
<1>4. CASE \E r \in Runners : ShutDown(r) \/ Restart(r) \/ Crash(r)
  BY <1>4, ProcessStepInv
<1>5. CASE \E j \in Jobs : Lapse(j)
  BY <1>5, LapseInv
<1>6. CASE UNCHANGED vars
  <2>1. TypeInv'
    BY <1>6 DEF vars, IInv, TypeInv, TypeOK, WellPlaced
  <2>2. run' = run /\ job' = job /\ exec' = exec
    BY <1>6 DEF vars
  <2>3. QED
    BY <2>1, <2>2, HeldOrDropped DEF SameOrDropped
<1>7. QED
  BY <1>1, <1>2, <1>3, <1>4, <1>5, <1>6 DEF Next

-----------------------------------------------------------------------------
(* What follows.                                                           *)

\* While nobody answers the run, no write of any execution is lost to another's: the execution
\* that passes the fence holds the stored document, however many runners, crashes and lapsed
\* leases there are (RunEngine._commit, _fence; NTC-0044).
THEOREM NothingOverwritten ==
  ASSUME Persons = {}
  PROVE  Spec => []NoLostUpdate
<1>1. IInv => NoLostUpdate
  <2> SUFFICES ASSUME IInv, NEW c \in Claims, exec[c].at \in Working, Passes(c)
               PROVE  exec[c].run = run
    BY DEF NoLostUpdate
  <2>1. exec[c].at \in Holding
    BY DEF Holding
  <2>2. c[2] = job[1].attempts
    BY <2>1, OnlyTheLatestPasses
  <2>3. QED
    BY <2>1, <2>2 DEF IInv, Current
<1>2. IInv /\ [Next]_vars => IInv'
  BY NextInv
<1>3. QED
  BY <1>1, <1>2, InitInv, PTL DEF Spec

\* While nobody answers the run, a step that succeeded is never set back (ADR-0005).
THEOREM DoneIsKept ==
  ASSUME Persons = {}
  PROVE  Spec => DoneStaysDone
<1>1. ASSUME IInv, [Next]_vars
      PROVE  [\A s \in Steps : run.steps[s] = "succeeded" => run'.steps[s] = "succeeded"]_vars
  <2> SUFFICES ASSUME NEW s \in Steps, run.steps[s] = "succeeded"
               PROVE  run'.steps[s] = "succeeded"
    OBVIOUS
  <2>1. run \in Run
    BY <1>1 DEF IInv, TypeInv, TypeOK
  <2>2. run' = run \/ Advances(run, run')
    BY <1>1, NextInv
  <2>3. CASE StepAdvances(run, run')
    <3>1. PICK t \in Steps, state \in StepStates :
            /\ <<run.steps[t], state>> \in Lifecycle!StepTransitions
            /\ run'.steps = [run.steps EXCEPT ![t] = state]
      BY <2>3 DEF StepAdvances
    <3>2. run.steps[t] # "succeeded"
      BY <3>1 DEF Lifecycle!StepTransitions
    <3>3. QED
      BY <2>1, <3>1, <3>2 DEF Run
  <2>4. CASE run'.steps = [t \in Steps |-> IF t \in InFlight(run) THEN "stopped" ELSE run.steps[t]]
    BY <2>4 DEF InFlight
  <2>5. CASE run'.steps = run.steps
    BY <2>5
  <2>6. QED
    BY <2>2, <2>3, <2>4, <2>5 DEF Advances
<1>2. IInv /\ [Next]_vars => IInv'
  BY NextInv
<1>3. QED
  BY <1>1, <1>2, InitInv, PTL DEF Spec, DoneStaysDone

\* While nobody answers the run, the stored run implements the run's lifecycle.
THEOREM ImplementsLifecycle ==
  ASSUME Persons = {}
  PROVE  Spec => FollowsLifecycle
<1>1. Init => Lifecycle!Init
  BY DEF Init, Lifecycle!Init, NewRun
<1>2. ASSUME IInv, [Next]_vars
      PROVE  [Lifecycle!Next]_(Lifecycle!vars)
  <2>1. run \in Run /\ run' \in Run
    BY <1>1, <1>2, NextInv DEF IInv, TypeInv, TypeOK
  <2>2. run' = run \/ Advances(run, run')
    BY <1>2, NextInv
  <2>3. Lifecycle!InFlight = InFlight(run)
    BY DEF Lifecycle!InFlight, InFlight
  <2>4. CASE run' = run \/ (run'.state = run.state /\ run'.steps = run.steps)
    BY <2>4 DEF Lifecycle!vars
  <2>5. CASE /\ <<run.state, run'.state>> \in Lifecycle!RunTransitions
             /\ InFlight(run) = {} /\ run'.steps = run.steps
    BY <2>3, <2>5 DEF Lifecycle!Next, Lifecycle!Move
  <2>6. CASE StepAdvances(run, run')
    <3>1. PICK s \in Steps, state \in StepStates :
            /\ run.state = "running" /\ run'.state = "running"
            /\ InFlight(run) \subseteq {s} /\ Ready(run, s)
            /\ <<run.steps[s], state>> \in Lifecycle!StepTransitions
            /\ run'.steps = [run.steps EXCEPT ![s] = state]
      BY <2>6 DEF StepAdvances
    <3>2. state \in {t[2] : t \in {u \in Lifecycle!StepTransitions : u[1] = run.steps[s]}}
      BY <3>1
    <3>3. Lifecycle!StepMoves(s)
      BY <2>3, <3>1, <3>2 DEF Lifecycle!StepMoves, Ready
    <3>4. QED
      BY <3>3 DEF Lifecycle!Next
  <2>7. CASE /\ run.state \in {"admitted", "running"} /\ run'.state = "running"
             /\ run'.steps = [s \in Steps |-> IF s \in InFlight(run) THEN "stopped" ELSE run.steps[s]]
    BY <2>3, <2>7 DEF Lifecycle!Next, Lifecycle!Recover
  <2>8. QED
    BY <2>2, <2>4, <2>5, <2>6, <2>7 DEF Advances
<1>3. IInv /\ [Next]_vars => IInv'
  BY NextInv
<1>4. QED
  BY <1>1, <1>2, <1>3, InitInv, PTL DEF Spec, FollowsLifecycle, Lifecycle!Spec

\* While nobody answers the run, at most one step of it is in flight, whoever died or was cut
\* off (ADR-0005): what the run's lifecycle promises of one step at a time holds of the run.
THEOREM OneStepAtATime ==
  ASSUME Persons = {}
  PROVE  Spec => []Lifecycle!OneStepInFlight
<1> DEFINE One(doc) == \A s, t \in InFlight(doc) : s = t
<1>1. Init => One(run)
  BY DEF Init, NewRun, InFlight
<1>2. ASSUME IInv, One(run), [Next]_vars
      PROVE  One(run)'
  <2>1. run \in Run /\ (run' = run \/ Advances(run, run'))
    BY <1>2, NextInv DEF IInv, TypeInv, TypeOK
  <2>2. CASE run'.steps = run.steps
    BY <1>2, <2>2 DEF InFlight
  <2>3. CASE StepAdvances(run, run')
    <3>1. PICK s \in Steps, state \in StepStates :
            InFlight(run) \subseteq {s} /\ run'.steps = [run.steps EXCEPT ![s] = state]
      BY <2>3 DEF StepAdvances
    <3>2. \A t \in Steps : t # s => run'.steps[t] = run.steps[t]
      BY <2>1, <3>1 DEF Run
    <3>3. InFlight(run') \subseteq {s}
      BY <3>1, <3>2 DEF InFlight
    <3>4. QED
      BY <3>3 DEF InFlight
  <2>4. CASE run'.steps = [t \in Steps |-> IF t \in InFlight(run) THEN "stopped" ELSE run.steps[t]]
    BY <2>4 DEF InFlight
  <2>5. QED
    BY <2>1, <2>2, <2>3, <2>4 DEF Advances
<1>3. One(run) => Lifecycle!OneStepInFlight
  BY DEF Lifecycle!OneStepInFlight, Lifecycle!InFlight, InFlight
<1>4. IInv /\ [Next]_vars => IInv'
  BY NextInv
<1> HIDE DEF One
<1>5. QED
  BY <1>1, <1>2, <1>3, <1>4, InitInv, PTL DEF Spec

\* While nobody answers the run, at most one execution passes the fence and works on the run,
\* however many runners claimed it (Queue.fence, RunEngine._commit).
THEOREM OneCommits ==
  ASSUME Persons = {}
  PROVE  Spec => []OneRunnerCommits
<1>1. IInv => OneRunnerCommits
  <2> SUFFICES ASSUME IInv, NEW c \in Claims, NEW d \in Claims,
                      exec[c].at \in Working, exec[d].at \in Working, Passes(c), Passes(d)
               PROVE  c = d
    BY DEF OneRunnerCommits
  <2>1. exec[c].at \in Holding /\ exec[d].at \in Holding /\ exec[d].at # "none"
    BY DEF Holding, Working
  <2>2. c[2] = job[1].attempts /\ d[2] = job[1].attempts
    BY <2>1, OnlyTheLatestPasses
  <2>3. QED
    BY <2>1, <2>2, OnlyTheLatestPasses
<1>2. IInv /\ [Next]_vars => IInv'
  BY NextInv
<1>3. QED
  BY <1>1, <1>2, InitInv, PTL DEF Spec

-----------------------------------------------------------------------------
(* A runner with one place is at one execution at a time, its latest: what  *)
(* it completes is the job of the run as it is stored.                      *)

Over == {"finished", "escalated", "waiting_human", "halted"}

NeedsJob(doc) ==
  \/ doc.state \in {"planned", "admitted", "running"}
  \/ doc.state = "halted" /\ doc.cause \in {"capacity", "parked"}

Blank == \A c \in Claims : exec[c].at = "none" => exec[c].by = NoOne

\* No execution of a runner is older than a claim the runner made since.
OwnLatest ==
  \A c, d \in Claims :
    Alive(c) /\ exec[d].at # "none" /\ exec[d].by = exec[c].by => d[2] <= c[2]

RowNamesLatest ==
  job[1].by # NoOne =>
    \E c \in Claims : /\ c = <<1, job[1].attempts>>
                      /\ exec[c].at # "none" /\ exec[c].by = job[1].by

\* An execution that ended under the latest claim read or wrote the document that is stored.
EndedHolds ==
  \A c \in Claims : exec[c].at = "ended" /\ c[2] = job[1].attempts =>
                      exec[c].run = run /\ run.state \in Over

JobKept == job[1].phase = "queued" \/ (job[1].phase = "gone" /\ ~NeedsJob(run))

PlaceInv == Blank /\ OwnLatest /\ RowNamesLatest /\ EndedHolds /\ JobKept

\* What a step of the engine does to its execution.
EngineFrame(c) ==
  /\ Alive(c)
  /\ run' = run \/ Passes(c)
  /\ \E e : /\ exec' = [exec EXCEPT ![c] = e]
            /\ e.by = exec[c].by /\ e.at \notin {"none", "gone"}
            /\ e.at = "ended" => e.run = run' /\ run'.state \in Over

LEMMA WriteFrame ==
  ASSUME TypeInv, NEW c \in Claims, Alive(c), NEW doc, NEW at, NEW s, NEW noted,
         at \notin {"none", "gone"}, at = "ended" => doc.state \in Over,
         Write(c, doc, at, s, noted)
  PROVE  EngineFrame(c)
<1>1. exec[c] \in Exec /\ exec \in [Claims -> Exec]
  BY DEF TypeInv, TypeOK
<1>2. CASE Passes(c)
  <2> DEFINE e == [exec[c] EXCEPT !.run = doc, !.at = at, !.step = s]
  <2>1. e.by = exec[c].by /\ e.at = at /\ e.run = doc
    BY <1>1 DEF Exec
  <2>2. exec' = [exec EXCEPT ![c] = e] /\ run' = doc
    BY <1>1, <1>2 DEF Write
  <2> HIDE DEF e
  <2>3. QED
    BY <1>2, <2>1, <2>2 DEF EngineFrame
<1>3. CASE ~Passes(c)
  <2> DEFINE e == [exec[c] EXCEPT !.at = "lost"]
  <2>1. e.by = exec[c].by /\ e.at = "lost"
    BY <1>1 DEF Exec
  <2>2. exec' = [exec EXCEPT ![c] = e] /\ run' = run
    BY <1>1, <1>3 DEF Write
  <2> HIDE DEF e
  <2>3. QED
    BY <2>1, <2>2 DEF EngineFrame
<1>4. QED
  BY <1>2, <1>3

LEMMA MoveFrame ==
  ASSUME TypeInv, NEW c \in Claims, Alive(c), NEW at, at \notin {"none", "gone", "ended"},
         exec' = [exec EXCEPT ![c].at = at], run' = run
  PROVE  EngineFrame(c)
<1>1. exec[c] \in Exec
  BY DEF TypeInv, TypeOK
<1> DEFINE e == [exec[c] EXCEPT !.at = at]
<1>2. e.by = exec[c].by /\ e.at = at
  BY <1>1 DEF Exec
<1>3. exec' = [exec EXCEPT ![c] = e]
  OBVIOUS
<1> HIDE DEF e
<1>4. QED
  BY <1>2, <1>3 DEF EngineFrame

LEMMA EndFrame ==
  ASSUME TypeInv, NEW c \in Claims, Alive(c), NEW state \in Over, NEW cause \in Causes,
         NEW s, NEW noted, Write(c, To(exec[c].run, state, cause), "ended", s, noted)
  PROVE  EngineFrame(c)
<1>0. exec[c].run \in Run /\ state \in RunStates
  BY ExecFields DEF TypeInv, Over, RunStates
<1>1. To(exec[c].run, state, cause).state = state
  BY <1>0, ToType
<1>2. QED
  BY <1>1, WriteFrame

LEMMA EngineStepFrame ==
  ASSUME TypeInv, NEW c \in Claims, EngineStep(c)
  PROVE  EngineFrame(c)
<1>0. exec[c] \in Exec /\ exec \in [Claims -> Exec]
  BY DEF TypeInv, TypeOK
<1>1. CASE Read(c)
  <2> DEFINE at == IF EndedForClaim(run) THEN "ended" ELSE "read"
             e == [exec[c] EXCEPT !.run = run, !.at = at]
  <2>1. e.by = exec[c].by /\ e.at = at /\ e.run = run
    BY <1>0 DEF Exec
  <2>2. exec' = [exec EXCEPT ![c] = e] /\ run' = run /\ Alive(c)
    BY <1>0, <1>1 DEF Read, Alive
  <2>3. at = "ended" => run.state \in Over
    BY DEF EndedForClaim, Over
  <2>4. at \in {"ended", "read"}
    OBVIOUS
  <2> HIDE DEF e, at
  <2>5. QED
    BY <2>1, <2>2, <2>3, <2>4 DEF EngineFrame
<1>2. CASE Begin(c) \/ Launch(c)
  BY <1>2, WriteFrame DEF Begin, Launch, Alive
<1>3. ASSUME NEW s \in Steps, \/ Await(c, s) \/ Reject(c, s) \/ FailBefore(c, s)
                              \/ StoppedBefore(c, s) \/ Admit(c, s)
      PROVE  EngineFrame(c)
  BY <1>3, WriteFrame DEF Await, Reject, FailBefore, StoppedBefore, Admit, AtBoundary, Alive
<1>4. ASSUME NEW s \in Steps, Raise(c, s) \/ RaiseAtLast(c, s)
      PROVE  EngineFrame(c)
  <2>1. Alive(c)
    BY <1>4 DEF Raise, RaiseAtLast, Raising, AtBoundary, Inside, Alive
  <2>2. \/ exec' = [exec EXCEPT ![c].at = "raising"] /\ run' = run
        \/ Write(c, StepTo(run, s, "failed"), "after", s, Notes(c) \ {"parked", "capacity"})
    BY <1>4 DEF Raise, RaiseAtLast
  <2>3. QED
    BY <2>1, <2>2, WriteFrame, MoveFrame
<1>5. CASE \/ Start(c) \/ Succeed(c) \/ Fail(c) \/ Park(c) \/ AtCapacity(c)
           \/ StoppedInside(c) \/ WorkerStops(c)
  BY <1>5, WriteFrame
     DEF Start, Succeed, Fail, Park, AtCapacity, StoppedInside, WorkerStops, Inside, Alive
<1>6. CASE After(c)
  <2>0. Alive(c)
    BY <1>6 DEF After, Alive
  <2>1. ASSUME NEW noted, Continue(c, noted) PROVE EngineFrame(c)
    <3>1. exec' = [exec EXCEPT ![c].at = "loop"] /\ run' = run
      BY <2>1 DEF Continue
    <3>2. "loop" \notin {"none", "gone", "ended"}
      OBVIOUS
    <3>3. QED
      BY <2>0, <3>1, <3>2, MoveFrame
  <2>2. ASSUME NEW state \in Over, NEW cause \in Causes, End(c, state, cause)
        PROVE  EngineFrame(c)
    BY <2>0, <2>2, EndFrame DEF End
  <2>3. CASE AfterWaiting(c)
    BY <2>1, <2>2, <2>3 DEF AfterWaiting, Over, Causes
  <2>4. CASE AfterRejected(c)
    BY <2>2, <2>4 DEF AfterRejected, Over, Causes
  <2>5. CASE AfterFailed(c)
    <3>1. CASE Healed(c)
      BY <2>0, <2>5, <3>1, WriteFrame DEF AfterFailed
    <3>2. CASE ~Healed(c)
      BY <2>2, <2>5, <3>2 DEF AfterFailed, Over, Causes
    <3>3. QED
      BY <3>1, <3>2
  <2>6. CASE InANewUnit(c)
    BY <2>1, <2>6 DEF InANewUnit
  <2>7. CASE AfterStopped(c)
    BY <2>0, <2>7, EndFrame DEF AfterStopped, StopCause, Over, Causes
  <2>8. CASE AfterSucceeded(c)
    BY <2>0, <2>1, <2>8, EndFrame DEF AfterSucceeded, Over, Causes
  <2>9. QED
    BY <1>6, <2>3, <2>4, <2>5, <2>6, <2>7, <2>8 DEF After
<1>7. CASE Exhausted(c)
  <2>1. Alive(c)
    BY <1>7 DEF Exhausted, Alive
  <2>2. QED
    BY <1>7, <2>1, EndFrame DEF Exhausted, End, Over, Causes
<1>8. QED
  BY <1>1, <1>2, <1>3, <1>4, <1>5, <1>6, <1>7 DEF EngineStep

LEMMA EngineStepPlace ==
  ASSUME IInv, PlaceInv, NEW c \in Claims, EngineStep(c)
  PROVE  PlaceInv'
<1>1. job' = job /\ exec \in [Claims -> Exec]
  BY EngineStepForm DEF IInv, TypeInv, TypeOK
<1>2. Alive(c) /\ (run' = run \/ Passes(c))
  BY EngineStepFrame DEF IInv, EngineFrame
<1>3. PICK e : /\ exec' = [exec EXCEPT ![c] = e]
               /\ e.by = exec[c].by /\ e.at \notin {"none", "gone"}
               /\ e.at = "ended" => e.run = run' /\ run'.state \in Over
  BY EngineStepFrame DEF IInv, EngineFrame
<1>4. \A d \in Claims : exec'[d] = IF d = c THEN e ELSE exec[d]
  BY <1>1, <1>3
<1>5. /\ \A d \in Claims : exec'[d].by = exec[d].by
      /\ \A d \in Claims : exec'[d].at = "none" <=> exec[d].at = "none"
      /\ \A d \in Claims : exec'[d].at \notin {"none", "gone"} <=> Alive(d)
  BY <1>2, <1>3, <1>4 DEF Alive
<1>6. Blank' /\ OwnLatest' /\ RowNamesLatest'
  BY <1>1, <1>5 DEF PlaceInv, Blank, OwnLatest, RowNamesLatest, Alive
<1>7. Passes(c) => c = <<1, job[1].attempts>> /\ job[1].phase = "queued"
  BY <1>2 DEF Alive, IInv, Issued, Passes, Names, Claims
<1>8. ASSUME NEW d \in Claims, exec'[d].at = "ended", d[2] = job[1].attempts
      PROVE  exec'[d].run = run' /\ run'.state \in Over
  <2>1. CASE d = c
    BY <1>3, <1>4, <1>8, <2>1
  <2>2. CASE d # c
    <3>1. exec[d].at = "ended" /\ exec'[d] = exec[d]
      BY <1>4, <1>8, <2>2
    <3>2. exec[d].run = run /\ run.state \in Over
      BY <1>8, <3>1 DEF PlaceInv, EndedHolds
    <3>3. d[1] = 1
      BY <3>1 DEF IInv, Issued
    <3>4. ~Passes(c)
      BY <1>7, <1>8, <2>2, <3>3 DEF Claims
    <3>5. QED
      BY <1>2, <3>1, <3>2, <3>4
  <2>3. QED
    BY <2>1, <2>2
<1>9. EndedHolds'
  BY <1>1, <1>8 DEF EndedHolds
<1>10. JobKept'
  BY <1>1, <1>2, <1>7 DEF PlaceInv, JobKept, NeedsJob
<1>11. QED
  BY <1>6, <1>9, <1>10 DEF PlaceInv

\* A step that leaves the run alone, starts no execution and ends none in the engine.
KeptQuietly(c) ==
  /\ exec'[c].by = exec[c].by
  /\ exec'[c].at = "none" <=> exec[c].at = "none"
  /\ exec'[c].at # "gone" => exec[c].at # "gone"
  /\ exec'[c].at = "ended" => exec[c].at = "ended" /\ exec'[c].run = exec[c].run

LEMMA QuietPlace ==
  ASSUME PlaceInv, run' = run, \A c \in Claims : KeptQuietly(c),
         job'[1].by \in {job[1].by, NoOne}, job'[1].attempts = job[1].attempts, JobKept'
  PROVE  PlaceInv'
<1>1. Blank'
  BY DEF PlaceInv, Blank, KeptQuietly
<1>2. OwnLatest'
  BY DEF PlaceInv, OwnLatest, KeptQuietly, Alive
<1>3. RowNamesLatest'
  BY DEF PlaceInv, RowNamesLatest, KeptQuietly
<1>4. EndedHolds'
  BY DEF PlaceInv, EndedHolds, KeptQuietly
<1>5. QED
  BY <1>1, <1>2, <1>3, <1>4 DEF PlaceInv

LEMMA ClaimPlace ==
  ASSUME Places = 1, IInv, PlaceInv, NEW r \in Runners, NEW j \in Jobs, Claim(r, j)
  PROVE  PlaceInv'
<1>1. j = 1 /\ job[1].attempts \in Nat /\ job[1] \in Job /\ 1 \in Jobs /\ r # NoOne
  BY ExecutionAssumption DEF IInv, OneJob, Claim, Claimable, TypeInv, TypeOK, Job
<1>2. PICK n : n = job[1].attempts + 1
  OBVIOUS
<1>3. /\ run' = run /\ Claimable(1) /\ n <= MaxClaims /\ Cardinality(Entries(r)) < 1
      /\ job' = [job EXCEPT ![1].by = r, ![1].attempts = n, ![1].lapsed = FALSE]
      /\ exec' = [exec EXCEPT ![<<1, n>>] = [NoExec EXCEPT !.by = r, !.at = "claimed",
                                                !.last = LastAttempt(1), !.beat = "on"]]
  BY <1>1, <1>2 DEF Claim
<1>4. <<1, n>> \in Claims
  BY <1>1, <1>2, <1>3 DEF Claims
<1>5. job'[1].by = r /\ job'[1].attempts = n /\ job'[1].phase = "queued"
  <2> DEFINE row == [job[1] EXCEPT !.by = r, !.attempts = n, !.lapsed = FALSE]
  <2>1. row.by = r /\ row.attempts = n /\ row.phase = job[1].phase
    BY <1>1 DEF Job
  <2>2. job' = [job EXCEPT ![1] = row] /\ job \in [Jobs -> Job]
    BY <1>1, <1>3 DEF IInv, TypeInv, TypeOK
  <2>3. job[1].phase = "queued"
    BY <1>3 DEF Claimable
  <2> HIDE DEF row
  <2>4. QED
    BY <1>1, <2>1, <2>2, <2>3
<1>6. /\ \A c \in Claims : c # <<1, n>> => exec'[c] = exec[c]
      /\ exec'[<<1, n>>].by = r /\ exec'[<<1, n>>].at = "claimed"
  <2> DEFINE e == [NoExec EXCEPT !.by = r, !.at = "claimed", !.last = LastAttempt(1), !.beat = "on"]
  <2>1. e.by = r /\ e.at = "claimed"
    BY DEF NoExec
  <2>2. exec' = [exec EXCEPT ![<<1, n>>] = e] /\ exec \in [Claims -> Exec]
    BY <1>3 DEF IInv, TypeInv, TypeOK
  <2> HIDE DEF e
  <2>3. QED
    BY <1>4, <2>1, <2>2
<1>7. \A c \in Claims : exec[c].at # "none" => c[1] = 1 /\ c[2] \in Nat /\ c[2] < n
  <2> SUFFICES ASSUME NEW c \in Claims, exec[c].at # "none"
               PROVE  c[1] = 1 /\ c[2] \in Nat /\ c[2] < n
    OBVIOUS
  <2>1. c[1] = 1 /\ c[2] <= job[1].attempts /\ c[2] \in Nat
    BY ExecFields DEF IInv, Issued, TypeInv
  <2>2. QED
    BY <1>1, <1>2, <2>1
\* A runner with one place claims only while it executes nothing.
<1>8. \A c \in Claims : Alive(c) => exec[c].by # r
  <2>1. IsFiniteSet(Entries(r))
    <3>1. \A c \in Entries(r) : c \in Claims /\ exec[c].at # "none"
      BY DEF Entries, Alive
    <3>2. Entries(r) \subseteq {1} \X (1 .. MaxClaims)
      BY <1>7, <3>1 DEF Claims
    <3>3. IsFiniteSet({1})
      BY FS_Singleton
    <3>4. IsFiniteSet(1 .. MaxClaims)
      <4>1. 1 \in Int /\ MaxClaims \in Int
        BY ExecutionAssumption
      <4>2. QED
        BY <4>1, FS_Interval
    <3>5. IsFiniteSet({1} \X (1 .. MaxClaims))
      BY <3>3, <3>4, FS_Product
    <3>6. QED
      BY <3>2, <3>5, FS_Subset
  <2>2. Entries(r) = {}
    <3>1. Cardinality(Entries(r)) \in Nat
      BY <2>1, FS_CardinalityType
    <3>2. Cardinality(Entries(r)) = 0
      BY <1>3, <3>1
    <3>3. QED
      BY <2>1, <3>2, FS_EmptySet
  <2>3. SUFFICES ASSUME NEW c \in Claims, Alive(c), exec[c].by = r
                 PROVE  c \in Entries(r)
    BY <2>2
  <2>4. ASSUME NEW d \in Claims, d[2] > c[2]
        PROVE  exec[d].by # r
    <3>1. CASE exec[d].at = "none"
      BY <1>1, <3>1 DEF PlaceInv, Blank
    <3>2. CASE exec[d].at # "none"
      <4>1. c[2] \in Nat /\ d[2] \in Nat
        BY ExecFields DEF IInv, TypeInv
      <4>2. exec[d].by = exec[c].by => d[2] <= c[2]
        BY <2>3, <3>2 DEF PlaceInv, OwnLatest
      <4>3. QED
        BY <2>3, <2>4, <4>1, <4>2
    <3>3. QED
      BY <3>1, <3>2
  <2>5. QED
    BY <2>3, <2>4 DEF Entries
<1>9. n \in Nat /\ <<1, n>>[2] = n
  BY <1>1, <1>2
<1>10. Blank'
  BY <1>6 DEF PlaceInv, Blank
<1>11. ASSUME NEW c \in Claims, NEW d \in Claims,
              exec'[c].at \notin {"none", "gone"}, exec'[d].at # "none", exec'[d].by = exec'[c].by
       PROVE  d[2] <= c[2]
  <2>1. CASE c = <<1, n>>
    <3>1. CASE d = c
      BY <1>9, <2>1, <3>1
    <3>2. CASE d # c
      BY <1>6, <1>7, <1>9, <1>11, <2>1, <3>2
    <3>3. QED
      BY <3>1, <3>2
  <2>2. CASE c # <<1, n>>
    <3>1. exec'[c] = exec[c] /\ Alive(c)
      BY <1>6, <1>11, <2>2 DEF Alive
    <3>2. d # <<1, n>>
      BY <1>6, <1>8, <1>11, <3>1
    <3>3. exec'[d] = exec[d]
      BY <1>6, <3>2
    <3>4. QED
      BY <1>11, <3>1, <3>3 DEF PlaceInv, OwnLatest
  <2>3. QED
    BY <2>1, <2>2
<1>12. OwnLatest'
  BY <1>11 DEF OwnLatest, Alive
<1>13. RowNamesLatest'
  BY <1>4, <1>5, <1>6 DEF RowNamesLatest
<1>14. EndedHolds'
  <2> SUFFICES ASSUME NEW c \in Claims, exec'[c].at = "ended", c[2] = n PROVE FALSE
    BY <1>5 DEF EndedHolds
  <2>1. c # <<1, n>>
    BY <1>6
  <2>2. exec[c].at = "ended"
    BY <1>6, <2>1
  <2>3. QED
    BY <1>7, <1>9, <2>2
<1>15. JobKept'
  BY <1>5 DEF JobKept
<1>16. QED
  BY <1>10, <1>12, <1>13, <1>14, <1>15 DEF PlaceInv

\* What a disposition does to the row.
LEMMA DisposedRow ==
  ASSUME TypeInv, NEW c \in Claims, c[1] = 1, NEW how
  PROVE  /\ ~Names(c) => Disposed(c, how) = job
         /\ Disposed(c, how)[1].by \in {job[1].by, NoOne}
         /\ Disposed(c, how)[1].phase = IF Names(c) /\ how = "completed" THEN "gone" ELSE job[1].phase
<1>1. job \in [Jobs -> Job] /\ job[1] \in Job /\ 1 \in Jobs
  BY ExecutionAssumption DEF TypeInv, TypeOK
<1>2. CASE ~Names(c)
  BY <1>2 DEF Disposed
<1>3. CASE Names(c)
  <2> DEFINE deferrals == IF how = "deferred" THEN job[1].deferrals + 1 ELSE job[1].deferrals
             phase == IF how = "completed" THEN "gone" ELSE job[1].phase
             row == [job[1] EXCEPT !.by = NoOne, !.lapsed = FALSE,
                                   !.deferrals = deferrals, !.phase = phase]
  <2>1. Disposed(c, how) = [job EXCEPT ![1] = row]
    BY <1>1, <1>3 DEF Disposed, Job
  <2> HIDE DEF deferrals
  <2>2. row.by = NoOne /\ row.phase = phase
    BY <1>1 DEF Job
  <2> HIDE DEF row
  <2>3. QED
    BY <1>1, <1>3, <2>1, <2>2
<1>4. QED
  BY <1>2, <1>3

LEMMA RunnerStepPlace ==
  ASSUME IInv, PlaceInv, NEW c \in Claims,
         RunnerStep(c) \/ Beat(c) \/ Relinquish(c) \/ StopHeld(c)
  PROVE  PlaceInv'
<1>1. TypeInv /\ exec \in [Claims -> Exec] /\ exec[c] \in Exec
  BY DEF IInv, TypeInv, TypeOK
<1>2. run' = run /\ exec[c].at # "none" /\ c[1] = 1 /\ 1 \in Jobs
  BY ExecutionAssumption
     DEF RunnerStep, Dispose, Release, Leave, Beat, Relinquish, StopHeld, Alive, IInv, Issued
<1>3. \/ job' = job
      \/ \E how : /\ job' = Disposed(c, how)
                  /\ how = "completed" => /\ exec[c].at = "ended"
                                          /\ how = Disposition(exec[c])
  BY DEF RunnerStep, Dispose, Release, Leave, Beat, Relinquish, StopHeld
<1>4. \E e : /\ exec' = [exec EXCEPT ![c] = e] /\ e.by = exec[c].by /\ e.at # "none"
             /\ \/ e.at = exec[c].at /\ e.run = exec[c].run
                \/ e.at = "leaving" /\ exec[c].at # "gone"
                \/ e.at = "gone"
  <2>1. CASE Dispose(c) \/ Release(c)
    <3> DEFINE e == [exec[c] EXCEPT !.at = "leaving"]
    <3>1. e.by = exec[c].by /\ e.at = "leaving"
      BY <1>1 DEF Exec
    <3>2. exec' = [exec EXCEPT ![c] = e] /\ exec[c].at # "gone"
      BY <1>1, <2>1 DEF Dispose, Release
    <3> HIDE DEF e
    <3>3. QED
      BY <3>1, <3>2
  <2>2. CASE Leave(c)
    <3> DEFINE e == [NoExec EXCEPT !.by = exec[c].by, !.at = "gone"]
    <3>1. e.by = exec[c].by /\ e.at = "gone"
      BY DEF NoExec
    <3>2. exec' = [exec EXCEPT ![c] = e]
      BY <2>2 DEF Leave
    <3> HIDE DEF e
    <3>3. QED
      BY <3>1, <3>2
  <2>3. CASE Beat(c)
    <3> DEFINE e == [exec[c] EXCEPT !.beat = "refused"]
    <3>1. e.by = exec[c].by /\ e.at = exec[c].at /\ e.run = exec[c].run
      BY <1>1 DEF Exec
    <3>2. exec' = [exec EXCEPT ![c] = e]
      BY <1>1, <2>3 DEF Beat
    <3> HIDE DEF e
    <3>3. QED
      BY <1>2, <3>1, <3>2
  <2>4. CASE Relinquish(c)
    <3> DEFINE e == [exec[c] EXCEPT !.beat = "off", !.lost = TRUE, !.stop = TRUE]
    <3>1. e.by = exec[c].by /\ e.at = exec[c].at /\ e.run = exec[c].run
      BY <1>1 DEF Exec
    <3>2. exec' = [exec EXCEPT ![c] = e]
      BY <1>1, <2>4 DEF Relinquish
    <3> HIDE DEF e
    <3>3. QED
      BY <1>2, <3>1, <3>2
  <2>5. CASE StopHeld(c)
    <3>1. exec' = [exec EXCEPT ![c] = exec[c]]
      BY <1>1, <2>5 DEF StopHeld
    <3>2. QED
      BY <1>2, <3>1
  <2>6. QED
    BY <2>1, <2>2, <2>3, <2>4, <2>5 DEF RunnerStep
<1>5. \A d \in Claims : KeptQuietly(d)
  <2>1. PICK e : /\ exec' = [exec EXCEPT ![c] = e] /\ e.by = exec[c].by /\ e.at # "none"
                 /\ \/ e.at = exec[c].at /\ e.run = exec[c].run
                    \/ e.at = "leaving" /\ exec[c].at # "gone"
                    \/ e.at = "gone"
    BY <1>4
  <2>2. \A d \in Claims : exec'[d] = IF d = c THEN e ELSE exec[d]
    BY <1>1, <2>1
  <2>3. QED
    BY <1>2, <2>1, <2>2 DEF KeptQuietly
<1>6. job'[1].by \in {job[1].by, NoOne} /\ job'[1].attempts = job[1].attempts
  BY <1>1, <1>2, <1>3, DisposedRow, DisposedRows
<1>7. JobKept'
  <2>1. CASE job' = job
    BY <1>2, <2>1 DEF PlaceInv, JobKept
  <2>2. ASSUME NEW how, job' = Disposed(c, how),
               how = "completed" => exec[c].at = "ended" /\ how = Disposition(exec[c])
        PROVE  JobKept'
    <3>1. job'[1].phase = IF Names(c) /\ how = "completed" THEN "gone" ELSE job[1].phase
      BY <1>1, <1>2, <2>2, DisposedRow
    <3>2. CASE ~(Names(c) /\ how = "completed")
      BY <1>2, <3>1, <3>2 DEF PlaceInv, JobKept
\* The row names the runner, whose latest claim of it is this one: what it ended with is stored.
    <3>3. CASE Names(c) /\ how = "completed"
      <4>1. job[1].by = exec[c].by /\ exec[c].by # NoOne
        BY <1>1, <1>2, <3>3, ExecutionAssumption DEF Names, TypeInv, WellPlaced
      <4>2. PICK d \in Claims : /\ d = <<1, job[1].attempts>>
                                /\ exec[d].at # "none" /\ exec[d].by = job[1].by
        BY <4>1 DEF PlaceInv, RowNamesLatest
      <4>3. Alive(c) /\ exec[c].at = "ended"
        BY <2>2, <3>3 DEF Alive
      <4>4. d[2] <= c[2] /\ c[2] <= job[1].attempts /\ d[2] = job[1].attempts
        BY <1>2, <4>1, <4>2, <4>3 DEF PlaceInv, OwnLatest, IInv, Issued
      <4>5. c[2] = job[1].attempts
        <5>1. c[2] \in Nat /\ d[2] \in Nat
          BY <1>1, ExecFields DEF TypeInv
        <5>2. QED
          BY <4>4, <5>1
      <4>6. exec[c].run = run /\ run.state \in Over
        BY <4>3, <4>5 DEF PlaceInv, EndedHolds
      <4>7. ~NeedsJob(run)
        BY <2>2, <3>3, <4>6 DEF NeedsJob, Over, Disposition
      <4>8. QED
        BY <1>2, <3>1, <3>3, <4>7 DEF JobKept
    <3>4. QED
      BY <3>2, <3>3
  <2>3. QED
    BY <1>3, <2>1, <2>2
<1>8. QED
  BY <1>2, <1>5, <1>6, <1>7, QuietPlace

LEMMA ProcessStepPlace ==
  ASSUME IInv, PlaceInv, NEW r \in Runners, ShutDown(r) \/ Restart(r) \/ Crash(r)
  PROVE  PlaceInv'
<1>1. run' = run /\ job' = job /\ \A c \in Claims : exec[c] \in Exec
  BY DEF ShutDown, Restart, Crash, IInv, TypeInv, TypeOK
<1>2. CASE ShutDown(r)
  <2>1. \A c \in Claims : exec'[c] \in {exec[c], [exec[c] EXCEPT !.stop = TRUE]}
    BY <1>2 DEF ShutDown
  <2>2. \A c \in Claims : /\ exec'[c].by = exec[c].by /\ exec'[c].at = exec[c].at
                          /\ exec'[c].run = exec[c].run
    BY <1>1, <2>1 DEF Exec
  <2>3. \A c \in Claims : KeptQuietly(c)
    BY <2>2 DEF KeptQuietly
  <2>4. QED
    BY <1>1, <2>3, QuietPlace DEF PlaceInv, JobKept
<1>3. CASE Restart(r)
  <2>1. \A c \in Claims : KeptQuietly(c)
    BY <1>3 DEF Restart, KeptQuietly
  <2>2. QED
    BY <1>1, <2>1, QuietPlace DEF PlaceInv, JobKept
<1>4. CASE Crash(r)
  <2> DEFINE e == [NoExec EXCEPT !.by = r, !.at = "gone"]
  <2>1. /\ e.at = "gone" /\ e.by = r
        /\ \A c \in Claims : exec'[c] = IF exec[c].by = r /\ Alive(c) THEN e ELSE exec[c]
    BY <1>4 DEF Crash, NoExec
  <2> HIDE DEF e
  <2>2. \A c \in Claims : KeptQuietly(c)
    BY <2>1 DEF KeptQuietly, Alive
  <2>3. QED
    BY <1>1, <2>2, QuietPlace DEF PlaceInv, JobKept
<1>5. QED
  BY <1>2, <1>3, <1>4

LEMMA LapsePlace ==
  ASSUME IInv, PlaceInv, NEW j \in Jobs, Lapse(j)
  PROVE  PlaceInv'
<1>1. /\ run' = run /\ exec' = exec /\ job' = [job EXCEPT ![j].lapsed = TRUE]
      /\ job \in [Jobs -> Job] /\ job[j] \in Job
  BY DEF Lapse, IInv, TypeInv, TypeOK
<1> DEFINE row == [job[j] EXCEPT !.lapsed = TRUE]
<1>2. row.by = job[j].by /\ row.attempts = job[j].attempts /\ row.phase = job[j].phase
  BY <1>1 DEF Job
<1>3. job' = [job EXCEPT ![j] = row]
  BY <1>1
<1> HIDE DEF row
<1>4. /\ job'[1].by = job[1].by /\ job'[1].attempts = job[1].attempts
      /\ job'[1].phase = job[1].phase
  BY <1>1, <1>2, <1>3, ExecutionAssumption
<1>5. \A c \in Claims : KeptQuietly(c)
  BY <1>1 DEF KeptQuietly
<1>6. QED
  BY <1>1, <1>4, <1>5, QuietPlace DEF PlaceInv, JobKept

\* While nobody answers and every runner has one place, a run that is executed, or waits at a
\* boundary for capacity or its next check, has a job in the queue: no sequence of crashes,
\* shutdowns, cut-offs and lapsed leases leaves it for nobody (Runner._dispose, Queue.complete).
THEOREM NeverLeft ==
  ASSUME Persons = {}, Places = 1
  PROVE  Spec => []NeverWithoutJob
<1>1. Init => PlaceInv
  <2> SUFFICES ASSUME Init PROVE PlaceInv
    OBVIOUS
  <2>1. \A c \in Claims : exec[c].at = "none" /\ exec[c].by = NoOne
    BY DEF Init, NoExec
  <2>2. job[1].by = NoOne /\ job[1].phase = "queued"
    BY ExecutionAssumption DEF Init, NewJob
  <2>3. QED
    BY <2>1, <2>2 DEF PlaceInv, Blank, OwnLatest, RowNamesLatest, EndedHolds, JobKept, Alive
<1>2. ASSUME IInv, PlaceInv, [Next]_vars
      PROVE  PlaceInv'
  <2>1. CASE \E r \in Runners, j \in Jobs : Claim(r, j)
    BY <1>2, <2>1, ClaimPlace
  <2>2. CASE \E c \in Claims : EngineStep(c)
    BY <1>2, <2>2, EngineStepPlace
  <2>3. CASE \E c \in Claims : RunnerStep(c) \/ Beat(c) \/ Relinquish(c) \/ StopHeld(c)
    BY <1>2, <2>3, RunnerStepPlace
  <2>4. CASE \E r \in Runners : ShutDown(r) \/ Restart(r) \/ Crash(r)
    BY <1>2, <2>4, ProcessStepPlace
  <2>5. CASE \E j \in Jobs : Lapse(j)
    BY <1>2, <2>5, LapsePlace
  <2>6. CASE UNCHANGED vars
    BY <1>2, <2>6, QuietPlace DEF vars, KeptQuietly, PlaceInv, JobKept
  <2>7. QED
    BY <1>2, <2>1, <2>2, <2>3, <2>4, <2>5, <2>6 DEF Next
<1>3. IInv /\ [Next]_vars => IInv'
  BY NextInv
<1>4. PlaceInv => NeverWithoutJob
  BY ExecutionAssumption DEF PlaceInv, JobKept, NeedsJob, NeverWithoutJob
<1>5. QED
  BY <1>1, <1>2, <1>3, <1>4, InitInv, PTL DEF Spec

=============================================================================
