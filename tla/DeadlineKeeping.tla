-------------------------- MODULE DeadlineKeeping --------------------------
(***************************************************************************)
(* The deadlines of a run, the case: the engine starts and meets them in   *)
(* the transaction of the entry that says so, and the instance that leads  *)
(* as the scheduler (Leadership) takes the action of each one's lead time  *)
(* and of its limit, once.                                                 *)
(*                                                                         *)
(* Both write the entry first, which takes the claim on the case's chain   *)
(* until their transaction ends, and read the deadline under it.  A start  *)
(* is made before it is taken, in transactions of its own (DerivedRuns).   *)
(***************************************************************************)
EXTENDS Leadership, DerivedRuns, Sequences, FiniteSets

CONSTANTS
  Deadlines,    \* the rules the case carries
  LastStage,    \* the entries of the case that may start or meet one, in their order: the first
                \* creates it, the last finishes it, those between are of its steps
  Begins,       \* the stage each deadline starts at
  Until,        \* the stage that meets it
  Action,       \* what each does at its lead time and at its limit: "none", "remind" or "start"
  Engine

Moments == {"lead", "limit"}

ASSUME DeadlinesAssumption ==
  /\ IsFiniteSet(Deadlines)
  /\ LastStage \in Nat
  /\ Begins \in [Deadlines -> 1 .. LastStage] /\ Until \in [Deadlines -> 1 .. LastStage]
  /\ Action \in [Deadlines -> [Moments -> {"none", "remind", "start"}]]
  /\ \A d \in Deadlines : Action[d]["limit"] # "none"
  /\ Starts = Deadlines \X Moments
  /\ Creators = Instances
  /\ Engine \notin Instances \cup {NoOne}

VARIABLES
  stage,        \* how far the case came
  chain,        \* who holds the claim on the case's chain
  come,         \* the moments of each deadline that came
  record,       \* the deadlines kept
  book,         \* the entries that name each deadline, in the order of the case's chain
  active,       \* whether the process a deadline starts has an active version
  round         \* where each instance's tick stands

vars == <<leadVars, runVars, stage, chain, come, record, book, active, round>>
caseVars == <<stage, come, active>>

Deadline == [state : {"none", "open", "met"}, taken : SUBSET Moments]
Unstarted == [state |-> "none", taken |-> {}]

Entry == [kind : {"started", "met"} \cup Moments, outcome : {"none", "remind", "start", "refused"}]

Round == [at : {"idle", "take", "start", "enter", "read", "write"}, due : Seq(Deadlines \X Moments),
          outcome : {"none", "remind", "start", "refused"}, seen : Deadline]
NoRound == [at |-> "idle", due |-> <<>>, outcome |-> "none", seen |-> Unstarted]

Init ==
  /\ LeadInit /\ RunsInit
  /\ stage = 0 /\ chain = NoOne
  /\ come = [d \in Deadlines |-> {}]
  /\ record = [d \in Deadlines |-> Unstarted]
  /\ book = [d \in Deadlines |-> <<>>]
  /\ active = TRUE
  /\ round = [i \in Instances |-> NoRound]

-----------------------------------------------------------------------------
(* The engine's transactions on the case.                                  *)

\* The claim on the chain: a second transaction waits for the first.
Claims(who) == chain = NoOne /\ chain' = who
Frees(who) == chain' = IF chain = who THEN NoOne ELSE chain

Noted(entries, kind, outcome) == Append(entries, [kind |-> kind, outcome |-> outcome])

\* The entry of a stage starts a deadline where there is none, and meets it where it is open:
\* that of a step only with an answer, that of the run's end always.
Starting(d, s, answers) == s = Begins[d] /\ answers /\ record[d].state = "none"
Meeting(d, s, answers) ==
  /\ record[d].state = "open" \/ Starting(d, s, answers)
  /\ (s = Until[d] /\ answers) \/ s = LastStage

RecordEntry ==
  /\ stage < LastStage /\ Claims(Engine)
  /\ UNCHANGED <<leadVars, runVars, caseVars, record, book, round>>

\* A step may finish again; the run is created and finished once.
Stages == {stage + 1} \cup ({stage} \ {0, 1})
Observe(s, answers) ==
  LET Begun(d) == IF Starting(d, s, answers) THEN Noted(book[d], "started", "none") ELSE book[d]
  IN  /\ chain = Engine /\ Frees(Engine)
      /\ s \in {1, LastStage} => answers
      /\ stage' = s
      /\ record' = [d \in Deadlines |->
           IF Meeting(d, s, answers) THEN [record[d] EXCEPT !.state = "met"]
           ELSE IF Starting(d, s, answers) THEN [Unstarted EXCEPT !.state = "open"]
           ELSE record[d]]
      /\ book' = [d \in Deadlines |->
           IF Meeting(d, s, answers) THEN Noted(Begun(d), "met", "none") ELSE Begun(d)]
      /\ UNCHANGED <<leadVars, runVars, come, active, round>>
ObserveEntry == \E s \in Stages, answers \in BOOLEAN : Observe(s, answers)

\* The transaction is rolled back; the execution, or the next one, records the entry again.
RollBack ==
  /\ chain = Engine /\ Frees(Engine) /\ Trouble
  /\ UNCHANGED <<holder, leading, runVars, caseVars, record, book, round>>

-----------------------------------------------------------------------------
(* A tick.                                                                 *)

\* The actions due on what is read: the lead's once its time began, unless the limit's is taken.
Due(d, r) ==
  IF r.state # "open" THEN {}
  ELSE {m \in come[d] : Action[d][m] # "none" /\ m \notin r.taken /\ "limit" \notin r.taken}

\* All of them, a lead before its limit.
AllDue == {s \in Starts : s[2] \in Due(s[1], record[s[1]])}
InOrder(due) ==
  \A n, k \in DOMAIN due : n < k /\ due[n][1] = due[k][1] => due[n][2] = "lead" /\ due[k][2] = "limit"

At(i, stand) == round[i].at = stand
Head_(i) == Head(round[i].due)
Becomes(i, r) == round' = [round EXCEPT ![i] = r]
Goes(i, stand, outcome) == Becomes(i, [round[i] EXCEPT !.at = stand, !.outcome = outcome])

NextDue(r) == IF Tail(r.due) = <<>> THEN NoRound
              ELSE [NoRound EXCEPT !.at = "take", !.due = Tail(r.due)]

\* The lead is asked for before the tick, and not again within it.
Begin(i) ==
  /\ IsHeld(i) /\ At(i, "idle") /\ AllDue # {}
  /\ \E due \in [1 .. Cardinality(AllDue) -> AllDue] :
       InOrder(due) /\ Becomes(i, [NoRound EXCEPT !.at = "take", !.due = due])
  /\ UNCHANGED <<leadVars, runVars, caseVars, chain, record, book>>

Remind(i) ==
  /\ At(i, "take") /\ Action[Head_(i)[1]][Head_(i)[2]] = "remind"
  /\ Goes(i, "enter", "remind")
  /\ UNCHANGED <<leadVars, runVars, caseVars, chain, record, book>>

\* A start runs the active version; where there is none it is refused, whatever an earlier
\* tick started.
LookForProcess_TakesFirst(i) ==
  /\ At(i, "take") /\ Action[Head_(i)[1]][Head_(i)[2]] = "start"
  /\ Goes(i, "enter", IF active THEN "start" ELSE "refused")
  /\ UNCHANGED <<leadVars, runVars, caseVars, chain, record, book>>
LookForProcess(i) ==
  /\ At(i, "take") /\ Action[Head_(i)[1]][Head_(i)[2]] = "start"
  /\ IF active THEN Goes(i, "start", "none") ELSE Goes(i, "enter", "refused")
  /\ UNCHANGED <<leadVars, runVars, caseVars, chain, record, book>>

\* A run that exists was started by an earlier tick: what is left is to take the action.
LookForRun_TakenFor(i) ==
  /\ At(i, "start")
  /\ \/ FindsNone(i, Head_(i)) /\ UNCHANGED round
     \/ FindsRun(i, Head_(i)) /\ Becomes(i, NextDue(round[i]))
  /\ UNCHANGED <<leadVars, caseVars, chain, record, book>>
LookForRun(i) ==
  /\ At(i, "start")
  /\ \/ FindsNone(i, Head_(i)) /\ UNCHANGED round
     \/ FindsRun(i, Head_(i)) /\ Goes(i, "enter", "start")
  /\ UNCHANGED <<leadVars, caseVars, chain, record, book>>
Start(i) ==
  /\ At(i, "start") /\ creating[i] # NoStart
  /\ Creates(i)
  /\ Goes(i, "enter", "start")
  /\ UNCHANGED <<leadVars, caseVars, chain, record, book>>

\* The entry first; then the record is read under its claim.
Enter_OtherChain(i) ==
  /\ At(i, "enter")
  /\ Becomes(i, [round[i] EXCEPT !.at = "read"])
  /\ UNCHANGED <<leadVars, runVars, caseVars, chain, record, book>>
Enter(i) ==
  /\ At(i, "enter") /\ Claims(i)
  /\ Becomes(i, [round[i] EXCEPT !.at = "read"])
  /\ UNCHANGED <<leadVars, runVars, caseVars, record, book>>

ReadRecord(i) ==
  /\ At(i, "read")
  /\ LET d == Head_(i)[1] IN
     IF Head_(i)[2] \in Due(d, record[d])
     THEN Becomes(i, [round[i] EXCEPT !.at = "write", !.seen = record[d]]) /\ UNCHANGED chain
     ELSE Becomes(i, NextDue(round[i])) /\ Frees(i)
  /\ UNCHANGED <<leadVars, runVars, caseVars, record, book>>

Take(i) ==
  /\ At(i, "write") /\ Frees(i)
  /\ LET d == Head_(i)[1] IN
     /\ record' = [record EXCEPT ![d] = [round[i].seen EXCEPT !.taken = @ \cup {Head_(i)[2]}]]
     /\ book' = [book EXCEPT ![d] = Noted(@, Head_(i)[2], round[i].outcome)]
  /\ Becomes(i, NextDue(round[i]))
  /\ UNCHANGED <<leadVars, runVars, caseVars>>

\* Whatever fails ends the tick of the tenant: what was listed after it waits for the next.
Fail(i) ==
  /\ ~At(i, "idle") /\ Trouble
  /\ GivesUp(i) /\ Frees(i) /\ Becomes(i, NoRound)
  /\ UNCHANGED <<holder, leading, caseVars, record, book>>

Tick(i) ==
  \/ Begin(i) \/ Remind(i) \/ LookForProcess(i) \/ LookForRun(i) \/ Start(i)
  \/ Enter(i) \/ ReadRecord(i) \/ Take(i)

-----------------------------------------------------------------------------
(* Around it.                                                              *)

Elect(i) ==
  /\ TryLead(i) \/ SessionOver(i) \/ (At(i, "idle") /\ StepDown(i))
  /\ UNCHANGED <<runVars, caseVars, chain, record, book, round>>

Lose(i) ==
  /\ \/ SessionLost(i) /\ UNCHANGED <<runVars, chain, round>>
     \/ Ends(i) /\ GivesUp(i) /\ Frees(i) /\ Becomes(i, NoRound)
  /\ UNCHANGED <<caseVars, record, book>>

\* A lead time never begins after its limit.
Comes(d, m) ==
  /\ m \notin come[d] /\ (m = "limit" /\ Action[d]["lead"] # "none" => "lead" \in come[d])
  /\ Action[d][m] # "none"
  /\ come' = [come EXCEPT ![d] = @ \cup {m}]
  /\ UNCHANGED <<leadVars, runVars, stage, active, chain, record, book, round>>

\* The process the deadlines start loses its active version, or a version is registered.
Activate ==
  /\ Trouble
  /\ active' = ~active
  /\ UNCHANGED <<holder, leading, runVars, stage, come, chain, record, book, round>>

Run == Runs /\ UNCHANGED <<leadVars, caseVars, chain, record, book, round>>
Answer ==
  /\ \E s \in Starts : Continues(s)
  /\ UNCHANGED <<leadVars, caseVars, chain, record, book, round>>

Next ==
  \/ RecordEntry \/ ObserveEntry \/ RollBack
  \/ \E i \in Instances : Tick(i) \/ Fail(i) \/ Elect(i) \/ Lose(i)
  \/ \E d \in Deadlines, m \in Moments : Comes(d, m)
  \/ Activate \/ Run \/ Answer

Spec == Init /\ [][Next]_vars

\* Whoever runs tries to lead and ticks while it leads; a transaction of the engine ends, and
\* the claim on a chain goes to whoever waits longest for it.
Fairness ==
  /\ \A i \in Instances : WF_vars(Elect(i)) /\ WF_vars(Tick(i)) /\ SF_vars(Enter(i))
  /\ WF_vars(ObserveEntry)

FairSpec == Spec /\ Fairness

-----------------------------------------------------------------------------
(* Properties.                                                             *)

TypeOK ==
  /\ LeadTypeOK /\ RunsTypeOK
  /\ stage \in 0 .. LastStage /\ active \in BOOLEAN
  /\ chain \in Instances \cup {Engine, NoOne}
  /\ come \in [Deadlines -> SUBSET Moments]
  /\ record \in [Deadlines -> Deadline]
  /\ book \in [Deadlines -> Seq(Entry)]
  /\ round \in [Instances -> Round]
  /\ \A i \in Instances : /\ At(i, "idle") => round[i] = NoRound
                          /\ creating[i] # NoStart => At(i, "start")

Kinds(d) == {book[d][n].kind : n \in DOMAIN book[d]}
\* What the ledger says of a deadline and what its record says are one story, told once: it
\* starts, its lead time is taken before its limit, each once, and nothing is taken once it is
\* met, whoever took, met or took it at the same moment (ADR-0133 2, 3).
RecordIsBook ==
  \A d \in Deadlines :
    /\ \A n, k \in DOMAIN book[d] : n # k => book[d][n].kind # book[d][k].kind
    /\ \A n \in DOMAIN book[d] :
         /\ n = 1 <=> book[d][n].kind = "started"
         /\ book[d][n].kind = "met" => n = Len(book[d])
         /\ book[d][n].kind = "lead" => \A k \in DOMAIN book[d] : k < n => book[d][k].kind # "limit"
    /\ record[d].taken = Kinds(d) \cap Moments
    /\ record[d].state = IF "met" \in Kinds(d) THEN "met"
                         ELSE IF "started" \in Kinds(d) THEN "open" ELSE "none"

\* An entry that says a run was started names a run there is, though it was started before, in
\* another transaction, and perhaps by another instance.
StartedRunExists ==
  \A s \in Starts : \A n \in DOMAIN book[s[1]] :
    book[s[1]][n] = [kind |-> s[2], outcome |-> "start"] => Exists(s)

\* No moment that came is passed over: its action is taken in the end, by whoever leads then,
\* unless the case met the deadline first.
EveryMomentTaken ==
  \A d \in Deadlines, m \in Moments :
    (record[d].state = "open" /\ m \in come[d]) ~> (record[d].state = "met" \/ m \in record[d].taken)

=============================================================================
