--------------------------- MODULE EventReactions ---------------------------
(***************************************************************************)
(* The automation role: what is kept at the intake (IntakeOutbox) starts   *)
(* the processes whose triggers match it (DerivedRuns), by the instance    *)
(* that leads (Leadership).                                                *)
(*                                                                         *)
(* A round reads a batch of the outbox and reacts to its entries one after *)
(* the other, each in several transactions: which processes react, which   *)
(* of their runs exist, whether the condition of the others holds, the     *)
(* event's command, the runs, and that the entry is published.  Whatever   *)
(* fails leaves the entry for the next round.                              *)
(***************************************************************************)
EXTENDS Leadership, IntakeOutbox, DerivedRuns

CONSTANTS
  Processes,          \* the processes of the tenant
  ReactsTo,           \* the events each one's trigger matches
  Conditional,        \* those whose trigger asks for room (capacity.available)
  Unrunnable          \* those whose version the engine may refuse to run

ASSUME ReactionsAssumption ==
  /\ ReactsTo \in [Processes -> SUBSET Events]
  /\ Conditional \cup Unrunnable \subseteq Processes
  /\ Starts = Events \X Processes
  /\ Creators = Instances

VARIABLES
  before,       \* the deliveries received before each process's active version was registered
  round,        \* where each instance's round stands
  refused,      \* the starts recorded as refused
  unplaced      \* the events found to have a sender the tenant knows no more

vars == <<leadVars, intakeVars, runVars, before, round, refused, unplaced>>
noted == <<refused, unplaced>>

Round == [at : {"idle", "find", "check", "event", "complete", "start", "publish"},
          batch : Seq(Nat), found : SUBSET Processes, ready : SUBSET Processes,
          waiting : BOOLEAN, placed : BOOLEAN, by : Deliveries \cup {"none"}]
NoRound == [at |-> "idle", batch |-> <<>>, found |-> {}, ready |-> {},
            waiting |-> FALSE, placed |-> FALSE, by |-> "none"]

Init ==
  /\ LeadInit /\ IntakeInit /\ RunsInit
  /\ before = [p \in Processes |-> {}]
  /\ round = [i \in Instances |-> NoRound]
  /\ refused = {} /\ unplaced = {}

-----------------------------------------------------------------------------

At(i, stand) == round[i].at = stand
Entry(i) == Head(round[i].batch)
Event(i) == entries[Entry(i)]

\* The processes the event starts: not those registered after it was received.
Matching(e) == {p \in Processes : e \in ReactsTo[p] /\ event[e].by \notin before[p]}

\* The round goes on with the next entry, or is over.
Next_(r) ==
  IF Tail(r.batch) = <<>> THEN NoRound
  ELSE [NoRound EXCEPT !.at = "find", !.batch = Tail(r.batch), !.placed = r.placed]

\* Every process is looked at: those ready are started, and the entry is published unless one
\* waits.
Decided_Published(r) == [r EXCEPT !.at = IF r.ready # {} THEN "event" ELSE "publish"]
Decided_OnlyStarted(r) == IF r.ready # {} THEN [r EXCEPT !.at = "event"] ELSE Next_(r)
Decided(r) ==
  IF r.ready # {} THEN [r EXCEPT !.at = "event"]
  ELSE IF r.waiting THEN Next_(r) ELSE [r EXCEPT !.at = "publish"]

Becomes(i, r) == round' = [round EXCEPT ![i] = r]

-----------------------------------------------------------------------------
(* A round.                                                                *)

\* The lead is asked for before the round, and not again within it.
Begin(i) ==
  /\ IsHeld(i) /\ At(i, "idle")
  /\ \E batch \in NextBatches : Becomes(i, [NoRound EXCEPT !.at = "find", !.batch = batch])
  /\ UNCHANGED <<leadVars, intakeVars, runVars, before, noted>>

Find(i) ==
  /\ At(i, "find")
  /\ LET found == Matching(Event(i)) IN
     Becomes(i, [round[i] EXCEPT !.at = IF found = {} THEN "publish" ELSE "check", !.found = found])
  /\ UNCHANGED <<leadVars, intakeVars, runVars, before, noted>>

\* A run that exists needs nothing.  The condition asks the platform for room, for one start
\* per round.
Looked(r, p, room) ==
  LET s == <<entries[Head(r.batch)], p>>
      waits == p \in Conditional /\ (r.placed \/ ~room)
  IN  [r EXCEPT !.found = @ \ {p},
                !.ready = IF ~Exists(s) /\ ~waits THEN @ \cup {p} ELSE @,
                !.waiting = @ \/ (~Exists(s) /\ waits)]
Check(i, p, room) ==
  /\ At(i, "check") /\ p \in round[i].found
  /\ LET r == Looked(round[i], p, room)
     IN  Becomes(i, IF r.found = {} THEN Decided(r) ELSE r)
  /\ UNCHANGED <<leadVars, intakeVars, runVars, before, noted>>

\* The event's command is there, or is made now.
ReadEvent(i) ==
  /\ At(i, "event")
  /\ Becomes(i, IF event[Event(i)].completed
                THEN [round[i] EXCEPT !.at = "start"]
                ELSE [round[i] EXCEPT !.at = "complete", !.by = event[Event(i)].by])
  /\ UNCHANGED <<leadVars, intakeVars, runVars, before, noted>>

\* A sender the tenant knows no more starts nothing.
FindUnplaced(i) ==
  /\ At(i, "event") /\ ~event[Event(i)].completed
  /\ unplaced' = unplaced \cup {Event(i)}
  /\ Becomes(i, [round[i] EXCEPT !.at = "publish"])
  /\ UNCHANGED <<leadVars, intakeVars, runVars, before, refused>>

MakeCommand(i) ==
  /\ At(i, "complete")
  /\ Complete(Event(i), round[i].by)
  /\ Becomes(i, [round[i] EXCEPT !.at = "start", !.by = "none"])
  /\ UNCHANGED <<leadVars, runVars, before, noted>>

\* What is left to start after p, and whether a start under the condition was made.
Done(r, p, started) ==
  LET left == r.ready \ {p}
  IN  [r EXCEPT !.ready = left, !.placed = @ \/ (started /\ p \in Conditional),
                !.at = IF left # {} THEN "start" ELSE "publish"]
After(r) == IF r.at = "publish" /\ r.waiting THEN Next_(r) ELSE r

Refuse(i, p) ==
  /\ At(i, "start") /\ p \in round[i].ready \cap Unrunnable /\ creating[i] = NoStart
  /\ refused' = refused \cup {<<Event(i), p>>}
  /\ Becomes(i, After(Done(round[i], p, FALSE)))
  /\ UNCHANGED <<leadVars, intakeVars, runVars, before, unplaced>>

LookForRun(i, p) ==
  /\ At(i, "start") /\ p \in round[i].ready
  /\ \/ FindsNone(i, <<Event(i), p>>) /\ UNCHANGED round
     \/ FindsRun(i, <<Event(i), p>>) /\ Becomes(i, After(Done(round[i], p, FALSE)))
  /\ UNCHANGED <<leadVars, intakeVars, before, noted>>

Start(i, p) ==
  /\ At(i, "start") /\ creating[i] = <<Event(i), p>>
  /\ Creates(i)
  /\ Becomes(i, After(Done(round[i], p, created' # created)))
  /\ UNCHANGED <<leadVars, intakeVars, before, noted>>

PublishEntry(i) ==
  /\ At(i, "publish")
  /\ Publish(Entry(i))
  /\ Becomes(i, Next_(round[i]))
  /\ UNCHANGED <<leadVars, runVars, before, noted>>

\* A transaction of the entry fails: it stays, and the round goes on.
Fail(i) ==
  /\ ~At(i, "idle") /\ Trouble
  /\ GivesUp(i)
  /\ Becomes(i, Next_(round[i]))
  /\ UNCHANGED <<holder, leading, intakeVars, before, noted>>

React(i) ==
  \/ Begin(i) \/ Find(i) \/ ReadEvent(i) \/ FindUnplaced(i) \/ MakeCommand(i) \/ PublishEntry(i)
  \/ \E p \in Processes : (\E room \in BOOLEAN : Check(i, p, room)) \/ Refuse(i, p) \/ LookForRun(i, p) \/ Start(i, p)

-----------------------------------------------------------------------------
(* Around it.                                                              *)

Elect(i) ==
  /\ TryLead(i) \/ SessionOver(i) \/ (At(i, "idle") /\ StepDown(i))
  /\ UNCHANGED <<intakeVars, runVars, before, round, noted>>

Lose(i) ==
  /\ \/ SessionLost(i) /\ UNCHANGED <<runVars, round>>
     \/ Ends(i) /\ GivesUp(i) /\ Becomes(i, NoRound)
  /\ UNCHANGED <<intakeVars, before, noted>>

\* A version is registered: what was received before it starts nothing of the process.
Activate(p) ==
  /\ Trouble
  /\ before' = [before EXCEPT ![p] = Received]
  /\ UNCHANGED <<holder, leading, intakeVars, runVars, round, noted>>

Arrive == Intakes /\ UNCHANGED <<leadVars, runVars, before, round, noted>>
Run == Runs /\ UNCHANGED <<leadVars, intakeVars, before, round, noted>>
Answer ==
  /\ \E s \in Starts : Continues(s)
  /\ UNCHANGED <<leadVars, intakeVars, before, round, noted>>

Next ==
  \/ \E i \in Instances : React(i) \/ Fail(i) \/ Elect(i) \/ Lose(i)
  \/ Arrive \/ Run \/ Answer
  \/ \E p \in Processes : Activate(p)

Spec == Init /\ [][Next]_vars

\* Whoever runs tries to lead and reacts while it leads, runners take what they find, and the
\* platform has room again and again.
Fairness ==
  /\ \A i \in Instances : /\ WF_vars(Elect(i)) /\ WF_vars(React(i))
                          /\ \A p \in Conditional : SF_vars(Check(i, p, TRUE))
  /\ WF_vars(Run)

FairSpec == Spec /\ Fairness

-----------------------------------------------------------------------------
(* Properties.                                                             *)

TypeOK ==
  /\ LeadTypeOK /\ IntakeTypeOK /\ RunsTypeOK
  /\ before \in [Processes -> SUBSET Deliveries]
  /\ round \in [Instances -> Round]
  /\ \A i \in Instances : At(i, "idle") => round[i] = NoRound
  /\ \A i \in Instances : creating[i] # NoStart => At(i, "start")
  /\ refused \subseteq Starts /\ unplaced \subseteq Events

\* The processes that were registered before any delivery of the event was received.
Entitled(e) ==
  {p \in Processes : e \in ReactsTo[p] /\ \A d \in before[p] : EventOf[d] # e}

\* Nothing kept at the intake is lost: once no entry of an event waits, every process the event
\* starts has its run or its refusal, whoever died, lost the lead or reacted beside another
\* (ADR-0048 4, 6).
NothingLost ==
  \A e \in Events \ unplaced :
    IsKept(e) /\ (\A n \in Waiting : entries[n] # e) =>
      \A p \in Entitled(e) : Exists(<<e, p>>) \/ <<e, p>> \in refused

\* Every entry is reacted to in the end, one whose condition does not hold among them: what is
\* written runs out again and again.
EveryEntryPublished == []<>(Waiting = {})

=============================================================================
