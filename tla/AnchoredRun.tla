---------------------------- MODULE AnchoredRun ----------------------------
(***************************************************************************)
(* A run whose act is anchored: it asks about the act before the act       *)
(* starts (DecisionRequests), waits, and goes on or halts as the decisions *)
(* say.                                                                    *)
(*                                                                         *)
(* The run's document is written whole by whoever last read it: by the     *)
(* execution of a job, by the command of a decider that hands a confirmed  *)
(* decision over, and by the command of a person who resumes the run.      *)
(* Nothing orders the last two.  A round of questions is one request per   *)
(* anchor; a run declined and resumed asks in a new round.                 *)
(***************************************************************************)
EXTENDS DecisionRequests

CONSTANTS
  Jobs,      \* the jobs that may come to name the run; the first is its submission
  Resumer    \* the person who resumes a run

ASSUME RunAssumption ==
  /\ Jobs \subseteq Nat /\ 1 \in Jobs
  /\ (Jobs \cup {Resumer}) \cap Deciders = {} /\ Resumer \notin Jobs

VARIABLES
  run,         \* the stored document
  job,         \* the queue's rows
  engine,      \* what the engine does with the run, in each process that holds it
  performed,   \* the rounds whose decisions the act was performed on
  missed       \* the rounds of which a decision found the run not waiting, or its command died

vars == <<decisionVars, run, job, engine, performed, missed>>

Actors == Jobs \cup Deciders \cup {Resumer}

Run == [state : {"planned", "running", "waiting_human", "halted", "finished"},
        step : {"planned", "waiting_human", "rejected", "succeeded"},
        round : Nat, proceeds : BOOLEAN]
Submitted == [state |-> "planned", step |-> "planned", round |-> 0, proceeds |-> FALSE]

Engine == [at : {"off", "claimed", "enter", "loop", "asked", "apply", "declined", "enqueue"},
           run : Run, raised : SUBSET Anchors]
Off == [at |-> "off", run |-> Submitted, raised |-> {}]

Init ==
  /\ DecisionInit
  /\ run = Submitted
  /\ job = [j \in Jobs |-> IF j = 1 THEN "queued" ELSE "new"]
  /\ engine = [x \in Actors |-> Off]
  /\ performed = {} /\ missed = {}

-----------------------------------------------------------------------------

Stands(x, stand) == engine[x].at = stand
Doc(x) == engine[x].run

Goes(x, stand, doc) == engine' = [engine EXCEPT ![x] = [at |-> stand, run |-> doc, raised |-> {}]]
Leaves(x) == engine' = [engine EXCEPT ![x] = Off]

\* The document is committed, and the actor goes on with it.
Commits(x, stand, doc) == run' = doc /\ Goes(x, stand, doc)

Done(j) == job' = [job EXCEPT ![j] = "gone"]

AllApplied(round) == \A a \in Anchors : Applied(About(a, round))
SaysPerform_ByOne(round) ==
  \E a \in Anchors : request[About(a, round)].reading.option = "A"
SaysPerform(round) == \A a \in Anchors : request[About(a, round)].reading.option = "A"

\* The step as the decisions of its round leave it.
Decided(doc) ==
  IF SaysPerform(doc.round)
  THEN [doc EXCEPT !.step = "planned", !.proceeds = TRUE]
  ELSE [doc EXCEPT !.step = "rejected"]

WaitsUndecided_Whatever(doc) == doc.state = "waiting_human"
WaitsUndecided(doc) == doc.state = "waiting_human" /\ doc.step = "waiting_human"

-----------------------------------------------------------------------------
(* A runner's claim, and a person's resume.                                *)

Claims(j) ==
  /\ job[j] = "queued" /\ job' = [job EXCEPT ![j] = "claimed"]
  /\ Goes(j, "claimed", Submitted)
  /\ UNCHANGED <<decisionVars, run, performed, missed>>

\* A claim leaves alone what has ended or waits for a person.
Reads(j) ==
  /\ Stands(j, "claimed")
  /\ IF run.state \in {"halted", "finished"} \/ WaitsUndecided(run)
     THEN Leaves(j) /\ Done(j)
     ELSE Goes(j, "enter", run) /\ UNCHANGED job
  /\ UNCHANGED <<decisionVars, run, performed, missed>>

\* Whether the run waits although everything it asked is decided and nobody is on the way.
LeftWaiting ==
  /\ WaitsUndecided(run) /\ AllApplied(run.round)
  /\ \A p \in Deciders : command[p].at \in {"idle", "answering", "confirming"}
  /\ \A x \in Actors : Stands(x, "off")

\* A person resumes a run that halted, or one that is left waiting; the decisions of the latter
\* are applied first.
Resumes ==
  /\ Stands(Resumer, "off")
  /\ \/ run.state = "halted" /\ Goes(Resumer, "enter", run)
     \/ LeftWaiting /\ Goes(Resumer, "apply", run)
  /\ UNCHANGED <<decisionVars, run, job, performed, missed>>

Enters(x) ==
  /\ Stands(x, "enter") /\ Commits(x, "loop", [Doc(x) EXCEPT !.state = "running"])
  /\ UNCHANGED <<decisionVars, job, performed, missed>>

-----------------------------------------------------------------------------
(* The step loop, at the anchored step.                                    *)

Asks_DecidedToo(doc) == doc.step \in {"planned", "rejected"}
Asks(doc) == doc.step \in {"planned", "rejected"} /\ ~doc.proceeds

\* One request per anchor, each raised in a transaction of its own.
Raises(x, a) ==
  /\ Stands(x, "loop") /\ Asks(Doc(x)) /\ Doc(x).round < MaxRounds
  /\ a \notin engine[x].raised
  /\ Raise(About(a, Doc(x).round + 1))
  /\ engine' = [engine EXCEPT ![x].raised = @ \cup {a}]
  /\ UNCHANGED <<run, job, performed, missed>>

\* Only then does the step wait for the decisions.
Anchored(x) ==
  /\ Stands(x, "loop") /\ Asks(Doc(x)) /\ engine[x].raised = Anchors
  /\ Commits(x, "asked", [Doc(x) EXCEPT !.step = "waiting_human", !.round = @ + 1])
  /\ UNCHANGED <<decisionVars, job, performed, missed>>

\* What took effect meanwhile decides the step at once; else the step waits and the loop goes on.
AnsweredAtOnce(x) ==
  /\ Stands(x, "asked")
  /\ IF AllApplied(Doc(x).round)
     THEN LET doc == Decided(Doc(x))
          IN Commits(x, IF doc.proceeds THEN "loop" ELSE "declined", doc)
     ELSE Goes(x, "loop", Doc(x)) /\ UNCHANGED run
  /\ UNCHANGED <<decisionVars, job, performed, missed>>

Performs(x) ==
  /\ Stands(x, "loop") /\ Doc(x).step = "planned" /\ Doc(x).proceeds
  /\ Commits(x, "loop", [Doc(x) EXCEPT !.step = "succeeded"])
  /\ performed' = performed \cup {Doc(x).round}
  /\ UNCHANGED <<decisionVars, job, missed>>

\* An execution ends with the run's end, and its job with it.
EndsRun(x, state) ==
  /\ run' = [Doc(x) EXCEPT !.state = state] /\ Leaves(x)
  /\ IF x \in Jobs THEN Done(x) ELSE UNCHANGED job
  /\ UNCHANGED <<decisionVars, performed, missed>>

\* Nothing is left to execute: the run waits for the decisions, or is finished.
Waits(x) == Stands(x, "loop") /\ Doc(x).step = "waiting_human" /\ EndsRun(x, "waiting_human")
Finishes(x) == Stands(x, "loop") /\ Doc(x).step = "succeeded" /\ EndsRun(x, "finished")

-----------------------------------------------------------------------------
(* The decisions are taken up: by the decider's command, or by a resume.   *)

\* The rounds a command hands a decision over for.
HandedOver(p) == {k \in 1 .. MaxRounds : \/ On(p).of = "act" /\ On(p).no = k
                                         \/ ~Stands(p, "off") /\ Doc(p).round = k}

\* A run that does not wait is left as it is, and so is one decided already.
HandsOver(p) ==
  /\ At(p, "handing") /\ Stands(p, "off")
  /\ IF WaitsUndecided(run)
     THEN /\ Goes(p, "apply", run)
          /\ UNCHANGED <<decisionVars, missed>>
     ELSE /\ Ends(p) /\ UNCHANGED engine
          /\ missed' = IF run.state = "waiting_human" THEN missed ELSE missed \cup HandedOver(p)
  /\ UNCHANGED <<run, job, performed>>

\* The verdict of a round of which every decision took effect.
Applies(x) ==
  /\ Stands(x, "apply") /\ AllApplied(Doc(x).round)
  /\ LET doc == Decided(Doc(x))
     IN Commits(x, IF ~doc.proceeds THEN "declined"
                   ELSE IF x \in Deciders THEN "enqueue" ELSE "enter", doc)
  /\ UNCHANGED <<decisionVars, job, performed, missed>>

\* One is open still: its own decision will be handed over.
AppliesNothing(x) ==
  /\ Stands(x, "apply") /\ ~AllApplied(Doc(x).round)
  /\ IF x \in Deciders THEN Leaves(x) /\ Ends(x)
     ELSE Goes(x, "enter", Doc(x)) /\ UNCHANGED decisionVars
  /\ UNCHANGED <<run, job, performed, missed>>

\* A decision to go on is handed to a runner.
Enqueues(p) ==
  /\ Stands(p, "enqueue") /\ run' = Doc(p)
  /\ \E j \in Jobs : job[j] = "new" /\ job' = [job EXCEPT ![j] = "queued"]
  /\ Leaves(p) /\ Ends(p)
  /\ UNCHANGED <<performed, missed>>

\* A declined run halts, in a transaction after the one that declined its step.
Halts(x) ==
  /\ Stands(x, "declined")
  /\ run' = [Doc(x) EXCEPT !.state = "halted"] /\ Leaves(x)
  /\ IF x \in Deciders THEN Ends(x) ELSE UNCHANGED decisionVars
  /\ IF x \in Jobs THEN Done(x) ELSE UNCHANGED job
  /\ UNCHANGED <<performed, missed>>

-----------------------------------------------------------------------------

\* A decider's command dies wherever it stands; the engine's work in it with it.
CommandDies(p) ==
  /\ Dies(p) /\ Leaves(p)
  /\ missed' = IF At(p, "answering") \/ At(p, "confirming") THEN missed ELSE missed \cup HandedOver(p)
  /\ UNCHANGED <<run, job, performed>>

\* A runner's process dies: the job's lease passes and it is claimed again.
RunnerDies(j) ==
  /\ job[j] = "claimed" /\ crashes < MaxCrashes /\ crashes' = crashes + 1
  /\ Leaves(j) /\ job' = [job EXCEPT ![j] = "queued"]
  /\ UNCHANGED <<request, register, rule, command, moment, history, answers, run, performed,
                 missed>>

Executes(x) ==
  \/ Enters(x) \/ Anchored(x) \/ AnsweredAtOnce(x) \/ Performs(x) \/ Waits(x) \/ Finishes(x)
  \/ Applies(x) \/ AppliesNothing(x) \/ Halts(x)
  \/ \E a \in Anchors : Raises(x, a)

Persons ==
  /\ \E p \in Deciders : Decides(p)
  /\ UNCHANGED <<run, job, engine, performed, missed>>

Retirement ==
  /\ \E n \in DOMAIN rule : Retires(n)
  /\ UNCHANGED <<run, job, engine, performed, missed>>

Next ==
  \/ Persons \/ Retirement \/ Resumes
  \/ \E x \in Actors : Executes(x)
  \/ \E p \in Deciders : HandsOver(p) \/ Enqueues(p) \/ CommandDies(p)
  \/ \E j \in Jobs : Claims(j) \/ Reads(j) \/ RunnerDies(j)

\* A command that began goes on, a job is claimed and executed; what persons decide, and when,
\* nothing drives.
Fairness ==
  /\ \A x \in Actors : WF_vars(Executes(x))
  /\ \A p \in Deciders :
       /\ WF_vars(LooksAtPrecedents(p) /\ UNCHANGED <<run, job, engine, performed, missed>>)
       /\ WF_vars(HandsOver(p)) /\ WF_vars(Enqueues(p))
  /\ \A j \in Jobs : WF_vars(Claims(j)) /\ WF_vars(Reads(j))

Spec == Init /\ [][Next]_vars /\ Fairness

TypeOK ==
  /\ DecisionTypeOK
  /\ run \in Run
  /\ job \in [Jobs -> {"new", "queued", "claimed", "gone"}]
  /\ engine \in [Actors -> Engine]
  /\ performed \subseteq Nat /\ missed \subseteq 1 .. MaxRounds

-----------------------------------------------------------------------------

\* The act is performed only on a round of which every request took effect with the option to
\* perform it, whoever answers, resumes or dies in between (ADR-0042: an anchored act is
\* decided by the person the anchor names).
PerformedAsDecided ==
  \A k \in performed : \A a \in Anchors :
    \E e \in effects : e.on = About(a, k) /\ e.reading.option = "A"

\* Nobody is asked in a new round before every request of the one before took effect and one of
\* them declined the act: an answered question is not put again (ADR-0042, a resume raises the
\* request again, in a new round).
AskedAgainWhenDeclined ==
  \A q \in DOMAIN request :
    q.of = "act" /\ q.no > 1 =>
      /\ \A a \in Anchors : \E e \in effects : e.on = About(a, q.no - 1)
      /\ \E e \in effects : e.on.of = "act" /\ e.on.no = q.no - 1 /\ e.reading.option # "A"

\* The run waits although all it asked is decided.
Undelivered == run.state = "waiting_human" /\ AllApplied(run.round)

\* The run is taken up once the last of its decisions took effect, by a runner or by its halt,
\* unless one of them found the run not waiting yet, or its command died (daemon.py,
\* decided; RunEngine.decide).
DecisionsAreTakenUp ==
  []<>(Undelivered => run.round \in missed)

\* "A decision that took effect is never lost" (execute_run.py, RunEngine.decide): a run does
\* not go on waiting once all it asked is decided.
DecisionNeverLost == []<>~Undelivered

=============================================================================
