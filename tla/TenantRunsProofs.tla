-------------------------- MODULE TenantRunsProofs --------------------------
(***************************************************************************)
(* Theorems of a tenant's runs between the cap on open work and the stops  *)
(* of adapters, and their proofs.                                          *)
(***************************************************************************)
EXTENDS TenantRuns, FiniteSetTheorems, TLAPS

\* Where an execution stands once its run is counted, and once its step is inside the adapter.
Counted == {"step", "admit", "admitted", "checking", "calling", "assigned", "recheck", "follow"}
AtAdapter == {"checking", "calling", "recheck", "follow"}
Going == Counted \cup {"cap", "count", "decide", "capped", "after"}

\* No more runs are in flight than the cap, and who started or is about to is among them,
\* unless it escalated before.
Capped ==
  /\ IsFiniteSet(flying) /\ Cardinality(flying) <= Cap
  /\ \A r \in Runs : Started(r) \/ exec[r].at \in Counted => r \in flying \cup reopened

\* The document says where its execution stands.
Shown ==
  \A r \in Runs : /\ exec[r].at \in Going => run[r].state = "running"
                  /\ exec[r].at \in AtAdapter => run[r].step = "running"

\* A step in a call, or one a worker was not asked to stop and somebody follows.
Calls(r) == At(r, "calling") \/ (At(r, "follow") /\ work[r] = "working")

\* A stop is looked at once a confirmer found nobody inside its adapter, and stays so until it
\* is lifted.
LookedAt(s) == \E c \in Confirmers : confirmer[c].at # "idle" /\ confirmer[c].stop = s
Quiet(s) == stops[s].state = "confirmed" \/ (stops[s].state = "holding" /\ LookedAt(s))
NoneInside ==
  \A s \in Stops : Quiet(s) => \A r \in Runs : AdapterOf[r] = stops[s].adapter => ~Calls(r)

\* Nobody looks at a stop that is not requested yet.
OnlyRequested ==
  \A c \in Confirmers :
    confirmer[c].at # "idle" => /\ confirmer[c].stop \in Stops
                                /\ stops[confirmer[c].stop].state \notin {"none", "asked"}

TenantInv == TypeOK /\ Capped /\ Shown /\ NoneInside /\ OnlyRequested

-----------------------------------------------------------------------------
(* What an action may do to one run.                                       *)

\* Nothing of another run.
OnlyOf(r) ==
  /\ exec' = [exec EXCEPT ![r] = exec'[r]] /\ exec'[r] \in Exec
  /\ run' = [run EXCEPT ![r] = run'[r]] /\ run'[r] \in Run
  /\ work' = [work EXCEPT ![r] = work'[r]] /\ work'[r] \in Work
  /\ queued' \subseteq Runs /\ UNCHANGED stopVars
  /\ resumes' \in 0 .. MaxResumes /\ losses' \in 0 .. MaxLosses
  /\ reopened' \subseteq Runs /\ \A q \in Runs \ {r} : q \in reopened => q \in reopened'

\* What the step leaves said of the run.
Said(r) ==
  /\ exec'[r].at \in Going => run'[r].state = "running"
  /\ exec'[r].at \in AtAdapter => run'[r].step = "running"

\* The runs in flight stay as they are, and the run is among them where it must be.
KeepsPlace(r) ==
  /\ flying' = flying /\ outside' = outside
  /\ Started(r)' \/ exec'[r].at \in Counted => r \in flying \cup reopened'

\* No call begins at a stopped adapter.
Asks(r) == Calls(r)' => Calls(r) \/ ~IsStopped(r)

Sound(r) == OnlyOf(r) /\ Said(r) /\ Asks(r)

LEMMA NoExecType == NoExec \in Exec /\ NoExec.at = "off" /\ NoCount.made = 0
  BY TenantAssumption, CapAssumption DEF NoExec, Exec, NoCount

LEMMA SoundKeepsMost ==
  ASSUME TenantInv, NEW r \in Runs, Sound(r), flying' \subseteq Runs, outside' \in 0 .. MaxOutside
  PROVE  TypeOK' /\ Shown' /\ NoneInside' /\ OnlyRequested'
<1>1. /\ exec' \in [Runs -> Exec] /\ run' \in [Runs -> Run] /\ work' \in [Runs -> Work]
      /\ \A q \in Runs \ {r} : exec'[q] = exec[q] /\ run'[q] = run[q] /\ work'[q] = work[q]
  BY DEF TenantInv, TypeOK, Sound, OnlyOf
<1>2. UNCHANGED <<stops, confirmer>>
  BY DEF Sound, OnlyOf, stopVars
<1>3. TypeOK'
  BY <1>1, <1>2 DEF TenantInv, TypeOK, Sound, OnlyOf
<1>4. Shown'
  BY <1>1 DEF TenantInv, Shown, Sound, Said
<1>5. OnlyRequested'
  BY <1>2 DEF TenantInv, OnlyRequested
<1>6. NoneInside'
  <2> SUFFICES ASSUME NEW s \in Stops, Quiet(s)',
                      NEW q \in Runs, AdapterOf[q] = stops[s].adapter, Calls(q)'
               PROVE  FALSE
    BY <1>2 DEF NoneInside
  <2>1. Quiet(s) /\ stops[s].adapter \in Held
    BY <1>2 DEF Quiet, LookedAt, Held, IsHeld
  <2>2. ~Calls(q)
    BY <2>1 DEF TenantInv, NoneInside
  <2>3. CASE q = r
    BY <2>1, <2>2, <2>3 DEF Sound, Asks, IsStopped
  <2>4. CASE q # r
    BY <1>1, <2>2, <2>4 DEF Calls, At
  <2>5. QED
    BY <2>3, <2>4
<1>7. QED
  BY <1>3, <1>4, <1>5, <1>6

LEMMA SoundKeeps ==
  ASSUME TenantInv, NEW r \in Runs, Sound(r), KeepsPlace(r)
  PROVE  TenantInv'
<1>1. flying' \subseteq Runs /\ outside' \in 0 .. MaxOutside
  BY DEF TenantInv, TypeOK, KeepsPlace
<1>2. TypeOK' /\ Shown' /\ NoneInside' /\ OnlyRequested'
  BY <1>1, SoundKeepsMost
<1>3. \A q \in Runs \ {r} : /\ exec'[q] = exec[q] /\ run'[q] = run[q]
                            /\ q \in reopened => q \in reopened'
  BY DEF TenantInv, TypeOK, Sound, OnlyOf
<1>4. \A q \in Runs : Started(q)' \/ exec'[q].at \in Counted => q \in flying' \cup reopened'
  <2> SUFFICES ASSUME NEW q \in Runs, Started(q)' \/ exec'[q].at \in Counted
               PROVE  q \in flying' \cup reopened'
    OBVIOUS
  <2>1. CASE q = r
    BY <2>1 DEF KeepsPlace
  <2>2. CASE q # r
    <3>1. exec'[q] = exec[q] /\ run'[q] = run[q] /\ (q \in reopened => q \in reopened')
      BY <1>3, <2>2
    <3>2. Started(q)' <=> Started(q)
      BY <3>1 DEF Started
    <3>3. q \in flying \cup reopened
      BY <3>1, <3>2 DEF TenantInv, Capped
    <3>4. QED
      BY <3>1, <3>3 DEF KeepsPlace
  <2>3. QED
    BY <2>1, <2>2
<1>5. Capped'
  BY <1>4 DEF TenantInv, Capped, KeepsPlace
<1>6. QED
  BY <1>2, <1>5 DEF TenantInv

\* What writing the step's record does to the run's document.
LEMMA StepToWrites ==
  ASSUME run \in [Runs -> Run], NEW r \in Runs, NEW step \in StepStates, run' = StepTo(r, step)
  PROVE  /\ run' = [run EXCEPT ![r] = run'[r]] /\ run'[r] \in Run
         /\ run'[r].step = step /\ run'[r].state = run[r].state
<1> DEFINE since == IF step \in {"succeeded", "failed", "stopped"}
                    THEN {s \in Stops : stops[s].state # "none"} ELSE run[r].since
<1>1. run' = [run EXCEPT ![r] = [run[r] EXCEPT !.step = step, !.since = since]]
  BY DEF StepTo
<1>2. since \in SUBSET Stops
  BY DEF Run
<1>3. run[r] \in Run
  OBVIOUS
<1> HIDE DEF since
<1>4. [run[r] EXCEPT !.step = step, !.since = since] \in Run
  BY <1>2, <1>3 DEF Run
<1>5. run'[r] = [run[r] EXCEPT !.step = step, !.since = since]
  BY <1>1
<1>6. QED
  BY <1>1, <1>3, <1>4, <1>5 DEF Run

-----------------------------------------------------------------------------
(* The actions of a run's execution, one after the other.                  *)

LEMMA ClaimKeeps ==
  ASSUME TenantInv, NEW r \in Runs, Claim(r)
  PROVE  TenantInv'
<1>1. Sound(r) /\ KeepsPlace(r)
  BY NoExecType DEF TenantInv, TypeOK, Capped, Claim, Sound, KeepsPlace, OnlyOf, Said, Asks, Calls,
     At, Going, Counted, AtAdapter, Started, Exec, NoExec, NoCount, stopVars, capVars, beside
<1>2. QED
  BY <1>1, SoundKeeps

LEMMA ReadOutsideKeeps ==
  ASSUME TenantInv, NEW r \in Runs, ReadOutside(r)
  PROVE  TenantInv'
<1> DEFINE read == IF Reader \in Held THEN Unread ELSE outside
           count == [exec[r].count EXCEPT !.read = read]
<1>1. exec' = [exec EXCEPT ![r] = [exec[r] EXCEPT !.at = "decide", !.count = count]]
  BY DEF TenantInv, TypeOK, ReadOutside
<1>2. exec[r] \in Exec /\ read \in 0 .. MaxOutside \cup {Unread}
  BY DEF TenantInv, TypeOK
<1> HIDE DEF read
<1>3. count \in [seen : SUBSET Runs, read : 0 .. MaxOutside \cup {Unread}, made : 0 .. Recounts]
  BY <1>2 DEF Exec
<1> HIDE DEF count
<1>4. exec' = [exec EXCEPT ![r] = exec'[r]] /\ exec'[r] \in Exec /\ exec'[r].at = "decide"
  BY <1>1, <1>2, <1>3 DEF TenantInv, TypeOK, Exec
<1>5. Sound(r) /\ KeepsPlace(r)
  BY <1>4 DEF TenantInv, TypeOK, Capped, Shown, ReadOutside, Sound, KeepsPlace, OnlyOf, Said, Asks,
     Calls, At, Goes, Going, Counted, AtAdapter, Started, stopVars, capVars, beside
<1>6. QED
  BY <1>5, SoundKeeps

LEMMA AdmitKeeps ==
  ASSUME TenantInv, NEW r \in Runs, Admit(r)
  PROVE  TenantInv'
<1>1. exec \in [Runs -> Exec] /\ run \in [Runs -> Run] /\ work \in [Runs -> Work] /\ exec[r] \in Exec
  BY DEF TenantInv, TypeOK
<1>2. ASSUME run' = StepTo(r, "admitted")
      PROVE  /\ run' = [run EXCEPT ![r] = run'[r]] /\ run'[r] \in Run
             /\ run'[r].step = "admitted" /\ run'[r].state = run[r].state
  BY <1>1, <1>2, StepToWrites DEF StepStates
<1>9. Sound(r) /\ KeepsPlace(r)
  BY <1>1, <1>2 DEF TenantInv, TypeOK, Capped, Shown, Admit, Sound, KeepsPlace, OnlyOf, Said,
     Asks, Calls, At, Goes, Going, Counted, AtAdapter, Started, Exec, NoExec, stopVars, capVars,
     beside
<1>10. QED
  BY <1>9, SoundKeeps

LEMMA StartKeeps ==
  ASSUME TenantInv, NEW r \in Runs, Start(r)
  PROVE  TenantInv'
<1>1. exec \in [Runs -> Exec] /\ run \in [Runs -> Run] /\ work \in [Runs -> Work] /\ exec[r] \in Exec
  BY DEF TenantInv, TypeOK
<1>2. ASSUME run' = StepTo(r, "running")
      PROVE  /\ run' = [run EXCEPT ![r] = run'[r]] /\ run'[r] \in Run
             /\ run'[r].step = "running" /\ run'[r].state = run[r].state
  BY <1>1, <1>2, StepToWrites DEF StepStates
<1>9. Sound(r) /\ KeepsPlace(r)
  BY <1>1, <1>2 DEF TenantInv, TypeOK, Capped, Shown, Start, Sound, KeepsPlace, OnlyOf, Said,
     Asks, Calls, At, Goes, Going, Counted, AtAdapter, Started, Exec, NoExec, stopVars, capVars,
     beside
<1>10. QED
  BY <1>9, SoundKeeps

LEMMA CheckKeeps ==
  ASSUME TenantInv, NEW r \in Runs, Check(r)
  PROVE  TenantInv'
<1>1. exec \in [Runs -> Exec] /\ run \in [Runs -> Run] /\ work \in [Runs -> Work] /\ exec[r] \in Exec
  BY DEF TenantInv, TypeOK
<1>2. ASSUME run' = StepTo(r, "stopped")
      PROVE  /\ run' = [run EXCEPT ![r] = run'[r]] /\ run'[r] \in Run
             /\ run'[r].step = "stopped" /\ run'[r].state = run[r].state
  BY <1>1, <1>2, StepToWrites DEF StepStates
<1>9. Sound(r) /\ KeepsPlace(r)
  BY <1>1, <1>2, SMTT(30) DEF TenantInv, TypeOK, Capped, Shown, Check, NotStopped, AtStoppedAdapter, Sound,
     KeepsPlace, OnlyOf, Said, Asks, Calls, At, Goes, Going, Counted, AtAdapter, Started, Exec,
     NoExec, stopVars, capVars, beside
<1>10. QED
  BY <1>9, SoundKeeps

LEMMA CallEndsKeeps ==
  ASSUME TenantInv, NEW r \in Runs, CallEnds(r)
  PROVE  TenantInv'
<1>1. exec \in [Runs -> Exec] /\ run \in [Runs -> Run] /\ work \in [Runs -> Work] /\ exec[r] \in Exec
  BY DEF TenantInv, TypeOK
<1>2. ASSUME run' = StepTo(r, "succeeded")
      PROVE  /\ run' = [run EXCEPT ![r] = run'[r]] /\ run'[r] \in Run
             /\ run'[r].step = "succeeded" /\ run'[r].state = run[r].state
  BY <1>1, <1>2, StepToWrites DEF StepStates
<1>3. ASSUME run' = StepTo(r, "failed")
      PROVE  /\ run' = [run EXCEPT ![r] = run'[r]] /\ run'[r] \in Run
             /\ run'[r].step = "failed" /\ run'[r].state = run[r].state
  BY <1>1, <1>3, StepToWrites DEF StepStates
<1>9. Sound(r) /\ KeepsPlace(r)
  BY <1>1, <1>2, <1>3 DEF TenantInv, TypeOK, Capped, Shown, CallEnds, Sound, KeepsPlace, OnlyOf,
     Said, Asks, Calls, At, Goes, Going, Counted, AtAdapter, Started, Exec, NoExec, stopVars,
     capVars, beside
<1>10. QED
  BY <1>9, SoundKeeps

LEMMA RecordAssignmentKeeps ==
  ASSUME TenantInv, NEW r \in Runs, RecordAssignment(r)
  PROVE  TenantInv'
<1>1. Sound(r) /\ KeepsPlace(r)
  BY DEF TenantInv, TypeOK, Capped, Shown, RecordAssignment, Work, Sound, KeepsPlace, OnlyOf,
     Said, Asks, Calls, At, Goes, Going, Counted, AtAdapter, Started, Exec, NoExec, stopVars,
     capVars, beside
<1>2. QED
  BY <1>1, SoundKeeps

LEMMA HandOverKeeps ==
  ASSUME TenantInv, NEW r \in Runs, HandOver(r)
  PROVE  TenantInv'
<1>1. Sound(r) /\ KeepsPlace(r)
  BY DEF TenantInv, TypeOK, Capped, Shown, HandOver, Work, Sound, KeepsPlace, OnlyOf, Said, Asks,
     Calls, At, Goes, Going, Counted, AtAdapter, Started, Exec, NoExec, stopVars, capVars,
     beside
<1>2. QED
  BY <1>1, SoundKeeps

LEMMA StartFollowingKeeps ==
  ASSUME TenantInv, NEW r \in Runs, StartFollowing(r)
  PROVE  TenantInv'
<1>1. exec \in [Runs -> Exec] /\ run \in [Runs -> Run] /\ work \in [Runs -> Work] /\ exec[r] \in Exec
  BY DEF TenantInv, TypeOK
<1>2. ASSUME run' = StepTo(r, "running")
      PROVE  /\ run' = [run EXCEPT ![r] = run'[r]] /\ run'[r] \in Run
             /\ run'[r].step = "running" /\ run'[r].state = run[r].state
  BY <1>1, <1>2, StepToWrites DEF StepStates
<1>9. Sound(r) /\ KeepsPlace(r)
  BY <1>1, <1>2 DEF TenantInv, TypeOK, Capped, Shown, StartFollowing, Sound, KeepsPlace, OnlyOf,
     Said, Asks, Calls, At, Goes, Going, Counted, AtAdapter, Started, Exec, NoExec, stopVars,
     capVars, beside
<1>10. QED
  BY <1>9, SoundKeeps

LEMMA RecheckKeeps ==
  ASSUME TenantInv, NEW r \in Runs, Recheck(r)
  PROVE  TenantInv'
<1>1. Sound(r) /\ KeepsPlace(r)
  BY DEF TenantInv, TypeOK, Capped, Shown, Recheck, RecheckStops, AskedToStop, Work, Sound,
     KeepsPlace, OnlyOf, Said, Asks, Calls, At, Goes, Going, Counted, AtAdapter, Started, Exec,
     NoExec, stopVars, capVars, beside
<1>2. QED
  BY <1>1, SoundKeeps

LEMMA BeatKeeps ==
  ASSUME TenantInv, NEW r \in Runs, Beat(r)
  PROVE  TenantInv'
<1>1. Sound(r) /\ KeepsPlace(r)
  BY DEF TenantInv, TypeOK, Capped, Shown, Beat, HearStop, AskedToStop, Work, Sound, KeepsPlace,
     OnlyOf, Said, Asks, Calls, At, Goes, Going, Counted, AtAdapter, Started, Exec, NoExec,
     stopVars, capVars, beside
<1>2. QED
  BY <1>1, SoundKeeps

LEMMA FollowEndsKeeps ==
  ASSUME TenantInv, NEW r \in Runs, FollowEnds(r)
  PROVE  TenantInv'
<1>1. exec \in [Runs -> Exec] /\ run \in [Runs -> Run] /\ work \in [Runs -> Work] /\ exec[r] \in Exec
  BY DEF TenantInv, TypeOK
<1>2. ASSUME run' = StepTo(r, "succeeded")
      PROVE  /\ run' = [run EXCEPT ![r] = run'[r]] /\ run'[r] \in Run
             /\ run'[r].step = "succeeded" /\ run'[r].state = run[r].state
  BY <1>1, <1>2, StepToWrites DEF StepStates
<1>3. ASSUME run' = StepTo(r, "failed")
      PROVE  /\ run' = [run EXCEPT ![r] = run'[r]] /\ run'[r] \in Run
             /\ run'[r].step = "failed" /\ run'[r].state = run[r].state
  BY <1>1, <1>3, StepToWrites DEF StepStates
<1>4. ASSUME run' = StepTo(r, "stopped")
      PROVE  /\ run' = [run EXCEPT ![r] = run'[r]] /\ run'[r] \in Run
             /\ run'[r].step = "stopped" /\ run'[r].state = run[r].state
  BY <1>1, <1>4, StepToWrites DEF StepStates
<1>9. Sound(r) /\ KeepsPlace(r)
  BY <1>1, <1>2, <1>3, <1>4 DEF TenantInv, TypeOK, Capped, Shown, FollowEnds, Work, Sound,
     KeepsPlace, OnlyOf, Said, Asks, Calls, At, Goes, Going, Counted, AtAdapter, Started, Exec,
     NoExec, stopVars, capVars, beside
<1>10. QED
  BY <1>9, SoundKeeps

LEMMA WorkerEndsKeeps ==
  ASSUME TenantInv, NEW r \in Runs, WorkerEnds(r)
  PROVE  TenantInv'
<1>1. Sound(r) /\ KeepsPlace(r)
  BY DEF TenantInv, TypeOK, Capped, Shown, WorkerEnds, Work, Sound, KeepsPlace, OnlyOf, Said,
     Asks, Calls, At, Goes, Going, Counted, AtAdapter, Started, Exec, NoExec, stopVars, capVars,
     beside
<1>2. QED
  BY <1>1, SoundKeeps

LEMMA DisposeKeeps ==
  ASSUME TenantInv, NEW r \in Runs, Dispose(r)
  PROVE  TenantInv'
<1>1. Sound(r) /\ KeepsPlace(r)
  BY NoExecType DEF TenantInv, TypeOK, Capped, Shown, Dispose, Sound, KeepsPlace, OnlyOf, Said,
     Asks, Calls, At, Goes, Going, Counted, AtAdapter, Started, Exec, NoExec, stopVars, capVars,
     beside
<1>2. QED
  BY <1>1, SoundKeeps

LEMMA ResumeKeeps ==
  ASSUME TenantInv, NEW r \in Runs, Resume(r)
  PROVE  TenantInv'
<1>1. resumes' \in 0 .. MaxResumes /\ losses' \in 0 .. MaxLosses
  <2>1. /\ resumes \in 0 .. MaxResumes /\ losses \in 0 .. MaxLosses /\ MaxResumes \in Nat
        /\ resumes < MaxResumes /\ resumes' = resumes + 1 /\ losses' = losses
    BY TenantAssumption DEF TenantInv, TypeOK, Resume
  <2>2. QED
    BY <2>1
<1>2. Sound(r) /\ KeepsPlace(r)
  BY <1>1, NoExecType DEF TenantInv, TypeOK, Capped, Shown, Resume, Sound, KeepsPlace, OnlyOf,
     Said, Asks, Calls, At, Going, Counted, AtAdapter, Started, Exec, NoExec, stopVars, capVars
<1>3. QED
  BY <1>2, SoundKeeps

LEMMA LoseKeeps ==
  ASSUME TenantInv, NEW r \in Runs, Lose(r)
  PROVE  TenantInv'
<1>1. resumes' \in 0 .. MaxResumes /\ losses' \in 0 .. MaxLosses
  BY TenantAssumption DEF TenantInv, TypeOK, Lose
<1>2. Sound(r) /\ KeepsPlace(r)
  BY <1>1, NoExecType DEF TenantInv, TypeOK, Capped, Shown, Lose, Sound, KeepsPlace, OnlyOf, Said,
     Asks, Calls, At, Going, Counted, AtAdapter, Started, Exec, NoExec, stopVars, capVars
<1>3. QED
  BY <1>2, SoundKeeps

LEMMA WaitAtCapKeeps ==
  ASSUME TenantInv, NEW r \in Runs, WaitAtCap(r)
  PROVE  TenantInv'
<1>1. Sound(r) /\ KeepsPlace(r)
  BY ZenonT(60) DEF TenantInv, TypeOK, Capped, Shown, WaitAtCap, Run, RunStates, Sound, KeepsPlace, OnlyOf,
     Said, Asks, Calls, At, Goes, Going, Counted, AtAdapter, Started, Exec, NoExec, stopVars,
     capVars, beside
<1>2. QED
  BY <1>1, SoundKeeps

LEMMA BeginKeeps ==
  ASSUME TenantInv, NEW r \in Runs, Begin(r)
  PROVE  TenantInv'
<1>1. exec \in [Runs -> Exec] /\ run \in [Runs -> Run] /\ work \in [Runs -> Work] /\ exec[r] \in Exec
  BY DEF TenantInv, TypeOK
<1>2. CASE run[r].state = "finished" \/ (run[r].state = "escalated" /\ r \in queued)
  <2>1. Sound(r) /\ KeepsPlace(r)
    BY <1>1, <1>2 DEF Exec, TenantInv, TypeOK, Capped, Shown, Begin, Sound, KeepsPlace, OnlyOf,
       Said, Asks,
     Calls, At, Goes, Going, Counted, AtAdapter, Started, stopVars, capVars, bounds
  <2>2. QED
    BY <2>1, SoundKeeps
<1>3. CASE ~(run[r].state = "finished" \/ (run[r].state = "escalated" /\ r \in queued))
  <2> DEFINE base == IF run[r].step \in {"admitted", "running"} THEN StepTo(r, "stopped") ELSE run
  <2>1. /\ base = [run EXCEPT ![r] = base[r]] /\ base[r] \in Run
        /\ run[r].step = "planned" => base[r].step = "planned"
    <3>1. CASE run[r].step \in {"admitted", "running"}
      <4> DEFINE d == [run[r] EXCEPT !.step = "stopped",
                                     !.since = {s \in Stops : stops[s].state # "none"}]
      <4>1. base = [run EXCEPT ![r] = d]
        BY <1>1, <3>1 DEF StepTo
      <4>2. d \in Run
        BY <1>1 DEF Run, StepStates
      <4> HIDE DEF d, base
      <4>3. QED
        BY <1>1, <3>1, <4>1, <4>2
    <3>2. CASE run[r].step \notin {"admitted", "running"}
      BY <1>1, <3>2
    <3>3. QED
      BY <3>1, <3>2
  <2>2. run' = [base EXCEPT ![r].state = "running"] /\ Goes(r, "cap")
    BY <1>3 DEF Begin
  <2> HIDE DEF base
  <2>3. /\ run' = [run EXCEPT ![r] = run'[r]] /\ run'[r] \in Run /\ run'[r].state = "running"
        /\ run[r].step = "planned" => run'[r].step = "planned"
    BY <1>1, <2>1, <2>2 DEF Run, RunStates
  <2>4. reopened' = IF run[r].state = "escalated" THEN reopened \cup {r} ELSE reopened
    BY <1>3 DEF Begin
  <2>5. Started(r)' => r \in flying \cup reopened'
    <3>1. CASE run[r].state = "escalated"
      BY <2>4, <3>1
    <3>2. CASE run[r].state # "escalated"
      BY <1>3, <2>3, <2>4, <3>2 DEF TenantInv, Capped, Started
    <3>3. QED
      BY <3>1, <3>2
  <2>6. exec' = [exec EXCEPT ![r] = exec'[r]] /\ exec'[r] \in Exec /\ exec'[r].at = "cap"
    BY <1>1, <2>2 DEF Goes, Exec
  <2>7. UNCHANGED <<stopVars, flying, outside, queued, work, resumes, losses>>
    BY DEF Begin, capVars, bounds
  <2>8. reopened' \subseteq Runs /\ reopened \subseteq reopened'
    BY <2>4 DEF TenantInv, TypeOK
  <2>9. Sound(r)
    BY <1>1, <2>3, <2>6, <2>7, <2>8 DEF TenantInv, TypeOK, Sound, OnlyOf, Said, Asks, Calls, At,
       Going, AtAdapter
  <2>10. KeepsPlace(r)
    BY <2>5, <2>6, <2>7 DEF KeepsPlace, Counted
  <2>11. QED
    BY <2>9, <2>10, SoundKeeps
<1>4. QED
  BY <1>2, <1>3

LEMMA ReadInFlightKeeps ==
  ASSUME TenantInv, NEW r \in Runs, ReadInFlight(r)
  PROVE  TenantInv'
<1> DEFINE count == [NoCount EXCEPT !.seen = flying]
<1>1. exec[r] \in Exec /\ run[r].state = "running"
  BY DEF TenantInv, TypeOK, Shown, Going, ReadInFlight, At
<1>2. count \in [seen : SUBSET Runs, read : 0 .. MaxOutside \cup {Unread}, made : 0 .. Recounts]
  BY CapAssumption DEF NoCount, TenantInv, TypeOK
<1> HIDE DEF count
<1>3. CASE run[r].step # "planned" \/ r \in flying
  <2>1. r \in flying \cup reopened
    BY <1>1, <1>3 DEF TenantInv, Capped, Started
  <2>2. Sound(r) /\ KeepsPlace(r)
    BY <1>1, <1>3, <2>1 DEF Exec, TenantInv, TypeOK, Capped, Shown, ReadInFlight, Sound,
       KeepsPlace, OnlyOf, Said, Asks,
     Calls, At, Goes, Going, Counted, AtAdapter, Started, stopVars, capVars, beside
  <2>3. QED
    BY <2>2, SoundKeeps
<1>4. CASE ~(run[r].step # "planned" \/ r \in flying)
  <2>1. exec' = [exec EXCEPT ![r] = [exec[r] EXCEPT !.at = "count", !.count = count]]
    BY <1>4 DEF TenantInv, TypeOK, ReadInFlight, count
  <2>2. exec' = [exec EXCEPT ![r] = exec'[r]] /\ exec'[r] \in Exec /\ exec'[r].at = "count"
    BY <1>1, <1>2, <2>1 DEF TenantInv, TypeOK, Exec
  <2>3. Sound(r) /\ KeepsPlace(r)
    BY <1>1, <2>2 DEF TenantInv, TypeOK, Capped, Shown, ReadInFlight, Sound, KeepsPlace, OnlyOf,
       Said, Asks,
     Calls, At, Goes, Going, Counted, AtAdapter, Started, stopVars, capVars, beside
  <2>4. QED
    BY <2>3, SoundKeeps
<1>5. QED
  BY <1>3, <1>4

LEMMA BeginStepKeeps ==
  ASSUME TenantInv, NEW r \in Runs, BeginStep(r)
  PROVE  TenantInv'
<1>1. exec \in [Runs -> Exec] /\ run \in [Runs -> Run] /\ work \in [Runs -> Work] /\ exec[r] \in Exec
  BY DEF TenantInv, TypeOK
<1>2. ASSUME run' = StepTo(r, "running")
      PROVE  /\ run' = [run EXCEPT ![r] = run'[r]] /\ run'[r] \in Run
             /\ run'[r].step = "running" /\ run'[r].state = run[r].state
  BY <1>1, <1>2, StepToWrites DEF StepStates
<1>3. ASSUME run' = StepTo(r, "stopped")
      PROVE  /\ run' = [run EXCEPT ![r] = run'[r]] /\ run'[r] \in Run
             /\ run'[r].step = "stopped" /\ run'[r].state = run[r].state
  BY <1>1, <1>3, StepToWrites DEF StepStates
<1>9. Sound(r) /\ KeepsPlace(r)
  BY <1>1, <1>2, <1>3 DEF TenantInv, TypeOK, Capped, Shown, BeginStep, AtStoppedAdapter, Sound,
     KeepsPlace, OnlyOf, Said, Asks, Calls, At, Goes, Going, Counted, AtAdapter, Started, Exec,
     NoExec, stopVars, capVars, beside
<1>10. QED
  BY <1>9, SoundKeeps

\* The run passes under the tenant's chain: the runs in flight are those it counted.
LEMMA DecideKeeps ==
  ASSUME TenantInv, NEW r \in Runs, Decide(r)
  PROVE  TenantInv'
<1> DEFINE count == exec[r].count
<1>1. /\ exec[r] \in Exec /\ run[r].state = "running" /\ At(r, "decide")
      /\ count.made \in 0 .. Recounts /\ count.seen \in SUBSET Runs
      /\ count.read \in 0 .. MaxOutside \cup {Unread}
  BY DEF TenantInv, TypeOK, Shown, Going, Decide, At, Exec
<1>2. UNCHANGED <<run, stops, confirmer, outside, queued, work, resumes, losses, reopened>>
  BY DEF Decide, stopVars, beside
<1>3. CASE Goes(r, "capped") /\ UNCHANGED flying
  <2>1. Sound(r) /\ KeepsPlace(r)
    BY <1>1, <1>2, <1>3 DEF Exec, TenantInv, TypeOK, Capped, Sound, KeepsPlace, OnlyOf, Said, Asks,
       Calls, At, Goes, Going, Counted, AtAdapter, Started, stopVars
  <2>2. QED
    BY <2>1, SoundKeeps
<1>4. CASE /\ exec' = [exec EXCEPT ![r].count = [count EXCEPT !.seen = flying \ {r}, !.made = @ + 1]]
           /\ count.made < Recounts /\ UNCHANGED flying
  <2> DEFINE again == [count EXCEPT !.seen = flying \ {r}, !.made = @ + 1]
  <2>1. flying \ {r} \in SUBSET Runs
    BY DEF TenantInv, TypeOK
  <2>2. count.made + 1 \in 0 .. Recounts
    BY <1>1, <1>4, CapAssumption
  <2>3. again \in [seen : SUBSET Runs, read : 0 .. MaxOutside \cup {Unread}, made : 0 .. Recounts]
    BY <1>1, <2>1, <2>2 DEF Exec
  <2>4. exec' = [exec EXCEPT ![r].count = again]
    BY <1>4
  <2> HIDE DEF again
  <2>5. exec' = [exec EXCEPT ![r] = exec'[r]] /\ exec'[r] \in Exec /\ exec'[r].at = "decide"
    BY <1>1, <2>3, <2>4 DEF TenantInv, TypeOK, Exec, At
  <2>6. Sound(r) /\ KeepsPlace(r)
    BY <1>1, <1>2, <1>4, <2>5 DEF TenantInv, TypeOK, Capped, Sound, KeepsPlace, OnlyOf, Said, Asks,
       Calls, At, Going, Counted, AtAdapter, Started, stopVars
  <2>7. QED
    BY <2>6, SoundKeeps
<1>5. CASE ~Reached(count) /\ Unchanged(r, count) /\ Passed(r) /\ Goes(r, "step")
  <2>1. flying' = flying \cup {r} /\ flying \ {r} = count.seen
    BY <1>5 DEF Unchanged, Passed
  <2>2. Sound(r) /\ flying' \subseteq Runs /\ outside' \in 0 .. MaxOutside
    BY <1>1, <1>2, <1>5, <2>1 DEF Exec, TenantInv, TypeOK, Sound, OnlyOf, Said, Asks, Calls, At,
       Goes, Going, Counted, AtAdapter, stopVars
  <2>3. TypeOK' /\ Shown' /\ NoneInside' /\ OnlyRequested'
    BY <2>2, SoundKeepsMost
  <2>4. IsFiniteSet(flying \ {r}) /\ Cardinality(flying \ {r}) \in Nat
    BY FS_RemoveElement, FS_CardinalityType DEF TenantInv, Capped
  <2>5. Cardinality(flying \ {r}) < Cap
    <3>1. count.read \in Nat /\ ~(count.read + Cardinality(count.seen) >= Cap)
      BY <1>1, <1>5, CapAssumption DEF Reached
    <3>2. ~(count.read + Cardinality(flying \ {r}) >= Cap)
      BY <2>1, <3>1
    <3> HIDE DEF count
    <3>3. QED
      BY <2>4, <3>1, <3>2, CapAssumption
  <2>6. flying' = (flying \ {r}) \cup {r}
    BY <2>1
  <2>7. IsFiniteSet(flying') /\ Cardinality(flying') = Cardinality(flying \ {r}) + 1
    BY <2>4, <2>6, FS_AddElement
  <2>8. Cardinality(flying') <= Cap
    BY <2>4, <2>5, <2>7, CapAssumption
  <2>9. \A q \in Runs \ {r} : exec'[q] = exec[q] /\ run'[q] = run[q]
    BY <1>2, <1>5 DEF Goes, TenantInv, TypeOK
  <2>10. Capped'
    <3>1. \A q \in Runs \ {r} :
            Started(q)' \/ exec'[q].at \in Counted => q \in flying \cup reopened
      BY <2>9 DEF TenantInv, Capped, Started
    <3>2. reopened' = reopened /\ r \in flying' /\ flying \subseteq flying'
      BY <1>2, <2>1
    <3>3. QED
      BY <2>7, <2>8, <3>1, <3>2 DEF Capped
  <2>11. QED
    BY <2>3, <2>10 DEF TenantInv
<1>6. QED
  BY <1>3, <1>4, <1>5 DEF Decide

LEMMA EndKeeps ==
  ASSUME TenantInv, NEW r \in Runs, End(r)
  PROVE  TenantInv'
<1> DEFINE step == run[r].step
           stays == step = "stopped" \/ (step = "succeeded" /\ exec[r].stop)
           state == IF stays THEN "halted stop"
                    ELSE IF step = "succeeded" THEN "finished" ELSE "escalated"
<1>1. /\ run \in [Runs -> Run] /\ run' = [run EXCEPT ![r] = run'[r]] /\ run'[r] \in Run
      /\ run'[r] = [run[r] EXCEPT !.state = state]
  BY DEF TenantInv, TypeOK, End, Run, RunStates
<1>2. exec' = [exec EXCEPT ![r] = exec'[r]] /\ exec'[r] \in Exec /\ exec'[r].at = "ended"
  BY NoExecType DEF TenantInv, TypeOK, End, Exec
<1>3. UNCHANGED <<stops, confirmer, queued, work, resumes, losses>>
  BY DEF End, stopVars, bounds
<1>4. Sound(r)
  <2>1. reopened' \subseteq Runs /\ \A q \in Runs \ {r} : q \in reopened => q \in reopened'
    BY DEF End, TenantInv, TypeOK
  <2>2. QED
    BY <1>1, <1>2, <1>3, <2>1 DEF TenantInv, TypeOK, Sound, OnlyOf, Said, Asks, Calls, At, Going,
       Counted, AtAdapter, stopVars
<1>5. CASE stays
  <2>1. UNCHANGED <<flying, outside, reopened>>
    BY <1>5 DEF End, capVars
  <2>2. run[r].step # "planned" /\ run[r].state = "running"
    BY <1>5 DEF TenantInv, Shown, Going, Counted, At, End
  <2>3. r \in flying \cup reopened
    BY <2>2 DEF TenantInv, Capped, Started
  <2>4. KeepsPlace(r)
    BY <2>1, <2>3 DEF KeepsPlace
  <2>5. QED
    BY <1>4, <2>4, SoundKeeps
<1>6. CASE ~stays
  <2>1. /\ flying' = flying \ {r} /\ reopened' = reopened \ {r}
        /\ outside' \in {outside, outside + 1} /\ outside' <= MaxOutside
    BY <1>6 DEF End, Ended
  <2>2. flying' \subseteq Runs /\ outside' \in 0 .. MaxOutside
    BY <2>1, CapAssumption DEF TenantInv, TypeOK
  <2>3. TypeOK' /\ Shown' /\ NoneInside' /\ OnlyRequested'
    BY <1>4, <2>2, SoundKeepsMost
  <2>4. IsFiniteSet(flying') /\ Cardinality(flying') <= Cardinality(flying)
    BY <2>1, FS_Subset DEF TenantInv, Capped
  <2>5. Cardinality(flying') \in Nat /\ Cardinality(flying) \in Nat /\ Cardinality(flying) <= Cap
    BY <2>4, FS_CardinalityType DEF TenantInv, Capped
  <2>6. Cardinality(flying') <= Cap
    BY <2>4, <2>5, CapAssumption
  <2>7. ~Started(r)' /\ exec'[r].at \notin Counted
    BY <1>1, <1>2, <1>6 DEF Started, Counted
  <2>8. \A q \in Runs \ {r} : exec'[q] = exec[q] /\ run'[q] = run[q]
    BY <1>1, <1>2 DEF TenantInv, TypeOK
  <2>9. Capped'
    BY <2>1, <2>4, <2>6, <2>7, <2>8 DEF TenantInv, Capped, Started
  <2>10. QED
    BY <2>3, <2>9 DEF TenantInv
<1>7. QED
  BY <1>5, <1>6

-----------------------------------------------------------------------------
(* Persons, those who confirm, and what is closed outside.                 *)

\* The runs are left alone by what a stop's record and those who confirm it go through.
LEMMA StopsKeep ==
  ASSUME TenantInv, UNCHANGED <<run, NotRuns>>,
         stops' \in [Stops -> Stop], confirmer' \in [Confirmers -> Confirmer],
         NoneInside', OnlyRequested'
  PROVE  TenantInv'
BY DEF TenantInv, TypeOK, Capped, Shown, Started, NotRuns, capVars, beside

LEMMA PersonsKeep ==
  ASSUME TenantInv, NEW s \in Stops, Persons(s), UNCHANGED NotRuns
  PROVE  TenantInv'
<1> DEFINE states == {"asked", "returned", "holding", "lifted"}
<1>1. UNCHANGED <<run, confirmer, exec, work>>
  BY DEF Persons, Ask, Request, Lift, NotRuns
<1>2. stops' \in [Stops -> Stop] /\ \A t \in Stops \ {s} : stops'[t] = stops[t]
  BY DEF TenantInv, TypeOK, Persons, Ask, Request, Lift, Stop
<1>3. /\ stops'[s].state \in states /\ (stops[s].state = "none" => stops'[s].state = "asked")
      /\ (stops'[s].state = "holding" => stops[s].state = "asked")
      /\ (stops'[s].state = "asked" => stops[s].state = "none")
  <2>1. CASE \E a \in Adapters : Ask(s, a)
    BY <2>1 DEF Ask, TenantInv, TypeOK, Stop
  <2>2. CASE Request(s)
    BY <2>2 DEF Request, TenantInv, TypeOK, Stop
  <2>3. CASE Lift(s)
    BY <2>3 DEF Lift, IsHeld, TenantInv, TypeOK, Stop
  <2>4. QED
    BY <2>1, <2>2, <2>3 DEF Persons
<1>4. ~Quiet(s)'
  BY <1>1, <1>3 DEF Quiet, LookedAt, TenantInv, OnlyRequested
<1>5. NoneInside'
  BY <1>1, <1>2, <1>4 DEF TenantInv, NoneInside, Quiet, LookedAt, Calls, At
<1>6. OnlyRequested'
  BY <1>1, <1>2, <1>3 DEF TenantInv, OnlyRequested
<1>7. QED
  BY <1>1, <1>2, <1>5, <1>6, StopsKeep DEF TenantInv, TypeOK

LEMMA ConfirmingKeeps ==
  ASSUME TenantInv, NEW s \in Stops, NEW c \in Confirmers, Confirming(c, s), UNCHANGED NotRuns
  PROVE  TenantInv'
<1>1. UNCHANGED <<run, exec, work>>
  BY DEF Confirming, FindStanding, ReadHalted, Confirm, NotRuns
<1>2. ASSUME NEW r \in Runs, Calls(r)
      PROVE  run[r].state = "running" /\ run[r].step = "running"
  BY <1>2 DEF TenantInv, Shown, Calls, At, Going, Counted, AtAdapter
<1>3. CASE FindStanding(c, s)
  <2>1. stops' = stops /\ stops[s].state = "holding"
    BY <1>3 DEF FindStanding
  <2> DEFINE standing == [Idle EXCEPT !.at = "standing", !.stop = s]
  <2>2. standing \in Confirmer /\ standing.at = "standing" /\ standing.stop = s
    BY DEF Idle, Confirmer
  <2> HIDE DEF standing
  <2>3. /\ confirmer' = [confirmer EXCEPT ![c] = standing]
        /\ confirmer' \in [Confirmers -> Confirmer] /\ confirmer'[c] = standing
    BY <1>3, <2>2 DEF FindStanding, standing, TenantInv, TypeOK
  <2>4. \A r \in Runs : AdapterOf[r] = stops[s].adapter => ~Calls(r)
    BY <1>2, <1>3 DEF FindStanding, StandingInside, Inside
  <2>5. \A t \in Stops \ {s} : Quiet(t)' => Quiet(t)
    BY <2>1, <2>2, <2>3 DEF Quiet, LookedAt, TenantInv, TypeOK
  <2>6. NoneInside'
    BY <1>1, <2>1, <2>4, <2>5 DEF TenantInv, NoneInside, Calls, At
  <2>7. OnlyRequested'
    BY <2>1, <2>2, <2>3 DEF TenantInv, TypeOK, OnlyRequested
  <2>8. QED
    BY <1>1, <2>1, <2>3, <2>6, <2>7, StopsKeep DEF TenantInv, TypeOK
<1>4. CASE ReadHalted(c, s)
  <2>1. stops' = stops
    BY <1>4 DEF ReadHalted
  <2>2. /\ confirmer' \in [Confirmers -> Confirmer]
        /\ \A b \in Confirmers : confirmer'[b].stop = confirmer[b].stop
        /\ \A b \in Confirmers : confirmer'[b].at # "idle" <=> confirmer[b].at # "idle"
    BY <1>4 DEF ReadHalted, Halted, TenantInv, TypeOK, Confirmer
  <2>3. NoneInside'
    BY <1>1, <2>1, <2>2 DEF TenantInv, NoneInside, Quiet, LookedAt, Calls, At
  <2>4. OnlyRequested'
    BY <2>1, <2>2 DEF TenantInv, OnlyRequested
  <2>5. QED
    BY <1>1, <2>1, <2>2, <2>3, <2>4, StopsKeep DEF TenantInv, TypeOK
<1>5. CASE Confirm(c, s)
  <2>1. confirmer[c].at = "named" /\ confirmer[c].stop = s /\ confirmer[c] \in Confirmer
    BY <1>5 DEF Confirm, TenantInv, TypeOK
  <2>2. confirmer' = [confirmer EXCEPT ![c] = Idle]
    BY <1>5 DEF Confirm
  <2>3. confirmer' \in [Confirmers -> Confirmer] /\ confirmer'[c].at = "idle"
    BY <2>2 DEF TenantInv, TypeOK, Confirmer, Idle
  <2>4. /\ stops' \in [Stops -> Stop]
        /\ \A t \in Stops : stops'[t].adapter = stops[t].adapter
        /\ \A t \in Stops \ {s} : stops'[t] = stops[t]
        /\ stops'[s].state = IF stops[s].state = "holding" THEN "confirmed" ELSE stops[s].state
    <3>1. CASE stops[s].state = "holding"
      <4> DEFINE confirmed == [stops[s] EXCEPT !.state = "confirmed", !.stopped = confirmer[c].named]
      <4>1. stops' = [stops EXCEPT ![s] = confirmed]
        BY <1>5, <3>1 DEF Confirm, StillHolding, TenantInv, TypeOK
      <4>2. confirmed \in Stop /\ confirmed.adapter = stops[s].adapter /\ confirmed.state = "confirmed"
        <5>1. stops[s] \in Stop /\ confirmer[c].named \in SUBSET Runs
          BY <2>1 DEF TenantInv, TypeOK, Confirmer
        <5>2. QED
          BY <5>1 DEF Stop
      <4> HIDE DEF confirmed
      <4>3. QED
        BY <3>1, <4>1, <4>2 DEF TenantInv, TypeOK
    <3>2. CASE stops[s].state # "holding"
      BY <1>5, <3>2 DEF Confirm, StillHolding, TenantInv, TypeOK
    <3>3. QED
      BY <3>1, <3>2
  <2>5. Quiet(s)' => Quiet(s)
    BY <2>1, <2>4 DEF Quiet, LookedAt
  <2>6. \A t \in Stops \ {s} : Quiet(t)' => Quiet(t)
    BY <2>2, <2>3, <2>4 DEF Quiet, LookedAt, TenantInv, TypeOK
  <2>7. NoneInside'
    BY <1>1, <2>4, <2>5, <2>6 DEF TenantInv, NoneInside, Calls, At
  <2>8. OnlyRequested'
    BY <2>2, <2>3, <2>4 DEF TenantInv, TypeOK, OnlyRequested
  <2>9. QED
    BY <1>1, <2>3, <2>4, <2>7, <2>8, StopsKeep DEF TenantInv, TypeOK
<1>6. QED
  BY <1>3, <1>4, <1>5 DEF Confirming

LEMMA ClosesKeeps == ASSUME TenantInv, Closes PROVE TenantInv'
<1>1. outside' \in 0 .. MaxOutside /\ UNCHANGED <<flying, run, stops, confirmer, queued, exec, work,
                                                 resumes, losses, reopened>>
  BY CapAssumption DEF Closes, OutcomeCloses, TenantInv, TypeOK, stopVars, beside
<1>2. QED
  BY <1>1 DEF TenantInv, TypeOK, Capped, Shown, Started, NoneInside, Quiet, LookedAt, Calls, At,
     OnlyRequested

LEMMA InitTenantInv == Init => TenantInv
<1> SUFFICES ASSUME Init PROVE TenantInv
  OBVIOUS
<1>1. TypeOK
  BY NoExecType, StopsAssumption, CapAssumption, TenantAssumption
     DEF Init, StopsInit, CapInit, TypeOK, Run, RunStates, StepStates, Stop, Confirmer, Idle, Work
<1>2. Capped
  BY NoExecType, FS_EmptySet, CapAssumption
     DEF Init, StopsInit, CapInit, Capped, Started, Counted
<1>3. Shown /\ NoneInside /\ OnlyRequested
  BY NoExecType DEF Init, StopsInit, Shown, Going, Counted, AtAdapter, NoneInside, Quiet, LookedAt,
     OnlyRequested, Idle
<1>4. QED
  BY <1>1, <1>2, <1>3 DEF TenantInv

LEMMA NextKeeps == ASSUME TenantInv, [Next]_vars PROVE TenantInv'
<1>1. ASSUME NEW r \in Runs, Executes(r) PROVE TenantInv'
  BY <1>1, BeginKeeps, ReadInFlightKeeps, ReadOutsideKeeps, DecideKeeps, WaitAtCapKeeps,
     BeginStepKeeps, AdmitKeeps, StartKeeps, CheckKeeps, CallEndsKeeps, RecordAssignmentKeeps,
     HandOverKeeps, StartFollowingKeeps, RecheckKeeps, FollowEndsKeeps, EndKeeps, DisposeKeeps
     DEF Executes
<1>2. ASSUME NEW r \in Runs,
             Claim(r) \/ Executes(r) \/ Beat(r) \/ WorkerEnds(r) \/ Resume(r) \/ Lose(r)
      PROVE  TenantInv'
  BY <1>1, <1>2, ClaimKeeps, BeatKeeps, WorkerEndsKeeps, ResumeKeeps, LoseKeeps
<1>3. ASSUME NEW s \in Stops, (Persons(s) \/ Confirms(s)) /\ UNCHANGED NotRuns
      PROVE  TenantInv'
  BY <1>3, PersonsKeep, ConfirmingKeeps DEF Confirms
<1>4. CASE UNCHANGED vars
  BY <1>4 DEF vars, stopVars, capVars, TenantInv, TypeOK, Capped, Shown, Started, NoneInside, Quiet,
     LookedAt, Calls, At, OnlyRequested
<1>5. QED
  BY <1>2, <1>3, <1>4, ClosesKeeps DEF Next

\* The invariant the theorems below rest on: what is in flight, what is said and who is asked.
THEOREM TenantInvHolds == Spec => []TenantInv
<1>1. TenantInv /\ [Next]_vars => TenantInv'
  BY NextKeeps
<1>2. QED
  BY <1>1, InitTenantInv, PTL DEF Spec

-----------------------------------------------------------------------------
(* What a reader should know.                                              *)

\* The documents, the stops, the counts and the executions keep their types.
THEOREM TenantTypeCorrect == Spec => []TypeOK
BY TenantInvHolds, PTL DEF TenantInv

\* Of the runs that started and have not ended there are never more than the cap, however many
\* count at once, die, or are resumed (ADR-0132).  Beside them run those that escalated and that
\* persons resumed, which nothing counts.
THEOREM NeverBeyondCap == Spec => []StartedWithinCap
<1>1. TenantInv => StartedWithinCap
  <2> SUFFICES ASSUME TenantInv PROVE StartedWithinCap
    OBVIOUS
  <2> DEFINE started == {r \in Runs : Started(r) /\ r \notin reopened}
  <2>1. started \subseteq flying /\ IsFiniteSet(flying) /\ Cardinality(flying) <= Cap
    BY DEF TenantInv, Capped
  <2>2. IsFiniteSet(started) /\ Cardinality(started) <= Cardinality(flying)
    BY <2>1, FS_Subset
  <2>3. Cardinality(started) \in Nat /\ Cardinality(flying) \in Nat
    BY <2>1, <2>2, FS_CardinalityType
  <2>4. QED
    BY <2>1, <2>2, <2>3, CapAssumption DEF StartedWithinCap
<1>2. QED
  BY <1>1, TenantInvHolds, PTL

\* Once a stop is confirmed no call to its connector is under way or begins, for any number of
\* runs, stops and confirmers (ADR-0138).
THEOREM ConfirmedIsQuiet == Spec => []QuietWhenConfirmed
<1>1. TenantInv => QuietWhenConfirmed
  BY DEF TenantInv, NoneInside, Quiet, Calls, QuietWhenConfirmed
<1>2. QED
  BY <1>1, TenantInvHolds, PTL

\* Nor does an execution follow a step of its worker that it did not ask to stop.
THEOREM ConfirmedIsAsked == Spec => []FollowedIsAsked
<1>1. TenantInv => FollowedIsAsked
  BY DEF TenantInv, NoneInside, Quiet, Calls, FollowedIsAsked
<1>2. QED
  BY <1>1, TenantInvHolds, PTL

=============================================================================
