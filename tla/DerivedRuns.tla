---------------------------- MODULE DerivedRuns -----------------------------
(***************************************************************************)
(* Creating a run under an identifier derived from what starts it, so that *)
(* whoever starts it again names the same run.  The transaction that       *)
(* creates it looks for the run, then writes it, and inserts its job,      *)
(* whose identifier is derived too: a statement sees what was committed    *)
(* before it, the write of a run replaces the run, and only the job is     *)
(* refused where there is one.  A runner executes the run and completes    *)
(* the job, which deletes it, once the run is over and as well once it     *)
(* halts or waits for a person.  With the person's word the run goes on    *)
(* under a job of a drawn identifier, which refuses nothing.               *)
(***************************************************************************)
EXTENDS Naturals

CONSTANTS
  Starts,       \* what a run may be started for: each names one run
  Creators,     \* who may be inside a transaction that creates a run
  NoStart,
  MayWait,      \* the runs whose execution may halt or wait for a person (a bound)
  MaxCreated    \* bound on the times a run is created

ASSUME RunsAssumption == NoStart \notin Starts /\ MayWait \subseteq Starts /\ MaxCreated \in Nat

VARIABLES
  run,          \* each run: to be executed under its first job, or again under one of a drawn
                \* identifier; waiting for a person; over
  jobs,         \* the runs whose first job, of a derived identifier, is there
  creating,     \* the run each creator looked for and did not find
  created       \* how often each run was created

runVars == <<run, jobs, creating, created>>

RunsInit ==
  /\ run = [s \in Starts |-> "none"] /\ jobs = {}
  /\ creating = [c \in Creators |-> NoStart]
  /\ created = [s \in Starts |-> 0]

RunsTypeOK ==
  /\ run \in [Starts -> {"none", "planned", "waits", "again", "over"}] /\ jobs \subseteq Starts
  /\ creating \in [Creators -> Starts \cup {NoStart}]
  /\ created \in [Starts -> 0 .. MaxCreated]

Exists(s) == run[s] # "none"

\* RunExists: the run is there.
FindsRun(c, s) == creating[c] = NoStart /\ Exists(s) /\ UNCHANGED runVars

FindsNone(c, s) ==
  /\ creating[c] = NoStart /\ ~Exists(s)
  /\ creating' = [creating EXCEPT ![c] = s]
  /\ UNCHANGED <<run, jobs, created>>

\* The job's identifier is the run's: it is refused where the run's first job is there.
Collides_Drawn(s) == FALSE
Collides(s) == s \in jobs

Creates(c) ==
  LET s == creating[c]
  IN  /\ s # NoStart
      /\ creating' = [creating EXCEPT ![c] = NoStart]
      /\ IF Collides(s)
         THEN UNCHANGED <<run, jobs, created>>
         ELSE /\ created[s] < MaxCreated
              /\ run' = [run EXCEPT ![s] = "planned"]
              /\ jobs' = jobs \cup {s}
              /\ created' = [created EXCEPT ![s] = @ + 1]

\* The transaction is rolled back: it failed, or its process died.
GivesUp(c) == creating' = [creating EXCEPT ![c] = NoStart] /\ UNCHANGED <<run, jobs, created>>

\* A runner executes the run until it is over or waits, and completes its first job in a
\* transaction of its own either way.
Outcomes(s) == {"over"} \cup {w \in {"waits"} : s \in MayWait}
Executes(s) ==
  /\ s \in jobs /\ run[s] = "planned"
  /\ \E to \in Outcomes(s) : run' = [run EXCEPT ![s] = to]
  /\ UNCHANGED <<jobs, creating, created>>
CompletesJob(s) ==
  /\ s \in jobs /\ run[s] # "planned"
  /\ jobs' = jobs \ {s}
  /\ UNCHANGED <<run, creating, created>>

\* A person lets the run go on, and a runner executes it again.
Continues(s) ==
  /\ run[s] = "waits" /\ run' = [run EXCEPT ![s] = "again"]
  /\ UNCHANGED <<jobs, creating, created>>
ExecutesAgain(s) ==
  /\ run[s] = "again"
  /\ \E to \in Outcomes(s) : run' = [run EXCEPT ![s] = to]
  /\ UNCHANGED <<jobs, creating, created>>

Runs == \E s \in Starts : Executes(s) \/ CompletesJob(s) \/ ExecutesAgain(s)

\* A run that is created again replaces no run that is executed under its first job: where two
\* creators missed each other's run, the second lands only once that execution ended and the
\* job is gone (ADR-0035 4).  It may replace a run that waits, or that a person let go on and a
\* runner executes again: nothing holds there.
NeverUnderItsRunner ==
  [][\A s \in Starts : created'[s] # created[s] => run[s] # "planned"]_runVars

=============================================================================
