------------------------- MODULE AssignmentHandover -------------------------
(***************************************************************************)
(* One worker step of a run, from the claim of the run's job to the end of *)
(* the step's assignment: what the engine commits before and after it      *)
(* hands the assignment over, how it finds an assignment handed over       *)
(* earlier, how it follows the worker's events, and how a person takes the *)
(* step over while it runs and hands their result back.                    *)
(*                                                                         *)
(* The worker is CodingWorker.  The engine's executions are those of the   *)
(* runners' claims.  A runner whose lease lapsed is not told: its          *)
(* execution goes on with the document it read, its requests reach the     *)
(* worker, and its commits are refused.                                    *)
(*                                                                         *)
(* An action is one transaction or one request with the code up to the     *)
(* next.  What no property tells apart is left out: the estimate and the   *)
(* budget, the trace, the messages, the blocks other than a take-over's.   *)
(***************************************************************************)
EXTENDS CodingWorker

CONSTANTS
  Runners,      \* the runner processes
  NoOne,        \* no claimant
  Person,       \* the claimant of a take-over
  MaxClaims,    \* bound on the claims of the job, two more for every take-over asked
  MaxAsks,      \* bound on the take-overs asked
  Troubles,     \* the kinds of trouble that may happen
  MaxTroubles   \* bound on how much of it happens

ASSUME HandoverAssumption ==
  /\ NoOne \notin Runners /\ Person \notin Runners /\ NoOne # Person
  /\ {MaxAsks, MaxTroubles} \subseteq Nat /\ MaxClaims \in Nat \ {0}
  /\ Troubles \subseteq {"lapse", "crash", "restart", "refusal", "rejection", "no answer",
                         "stream"}

VARIABLES
  doc,      \* the stored document: the run's state and the step's record
  job,      \* the queue's row
  exec,     \* what is executed under every claim
  taking,   \* the take-over each process has noted for the run
  told,     \* the take-overs each process has answered
  asks,     \* the take-overs asked so far
  ids,      \* the identifiers minted so far
  troubles, \* the troubles so far
  late      \* the lives the worker began for a runner that no longer held the run

vars == <<workerVars, doc, job, exec, taking, told, asks, ids, troubles, late>>
counters == <<asks, ids, troubles, late>>
notes == <<taking, told>>

NoAsk == 0
Asks == 1 .. MaxAsks
Claims == 1 .. (MaxClaims + 2 * MaxAsks)

NoHold == 0       \* no take-over holds the step
NoLife == <<NoId, 0>>

RunStates == {"planned", "running", "waiting human", "halted stop", "halted capacity",
              "halted limit", "escalated", "finished"}
StepStates == {"planned", "rejected", "admitted", "running", "succeeded", "failed", "stopped",
               "waiting human"}

\* The run's state, with the cause of a halt in it, and the record of its step.
Doc == [run : RunStates, step : StepStates, id : Ids \cup {NoId}, open : BOOLEAN,
        seq : Nat,                                   \* the last event the record holds
        ckpt : Refs \cup {NoRef},
        kept : [1 .. Closing -> Lives \cup {NoLife}],  \* who made the artifact of each unit
        used : Seq(Lives \X (1 .. Closing)),         \* the consumption counted, in order
        again : SUBSET {"failed", "rejected"},       \* after what it was gone on with
        held : Claims \cup {NoHold},                  \* the claim of the take-over holding it
        handed : Claims \cup {NoHold}]                \* and of the one that handed its result back

NewDoc == [run |-> "planned", step |-> "planned", id |-> NoId, open |-> FALSE, seq |-> 0,
           ckpt |-> NoRef, kept |-> [u \in 1 .. Closing |-> NoLife], used |-> <<>>,
           again |-> {}, held |-> NoHold, handed |-> NoHold]

Job == [queued : BOOLEAN, claim : Claims \cup {0}, by : Runners \cup {NoOne, Person}, lapsed : BOOLEAN,
        held : BOOLEAN, ask : {NoAsk} \cup Asks]

\* Where an execution stands, and why its step ended as it did.
Exec == [by : Runners \cup {NoOne},
         at : {"off", "begin", "loop", "admit", "assign", "post", "accepted", "rejected", "exists",
               "full", "broken", "follow", "after", "ended"},
         doc : Doc, from : Refs \cup {NoRef}, adopted : BOOLEAN,
         why : {"none", "capacity", "limit"}]
NoExec == [by |-> NoOne, at |-> "off", doc |-> NewDoc, from |-> NoRef, adopted |-> FALSE,
           why |-> "none"]

Init ==
  /\ WorkerInit
  /\ doc = NewDoc
  /\ job = [queued |-> TRUE, claim |-> 0, by |-> NoOne, lapsed |-> FALSE, held |-> FALSE,
            ask |-> NoAsk]
  /\ exec = [c \in Claims |-> NoExec]
  /\ taking = [r \in Runners |-> NoAsk]
  /\ told = [r \in Runners |-> {}]
  /\ asks = 0 /\ ids = 0 /\ troubles = 0 /\ late = {}

-----------------------------------------------------------------------------
(* Claims, commits and what the documents say.                             *)

At(c, stand) == exec[c].at = stand
Following(r) == {c \in Claims : exec[c].by = r /\ At(c, "follow")}

\* What the release and the completion of a job ask of its row: the claimant.
Names(c) == ~At(c, "off") /\ job.queued /\ job.by = exec[c].by

\* The fence: the row still names the claimant and the attempt.
Passes(c) == Names(c) /\ job.claim = c

\* The take-over the execution's process has noted.
Noted(c) == taking[exec[c].by]

\* An execution writes its document and goes on as next says, or learns that it lost the
\* claim and ends.
Commit(c, next) ==
  IF Passes(c) THEN doc' = next.doc /\ exec' = [exec EXCEPT ![c] = next]
               ELSE doc' = doc /\ exec' = [exec EXCEPT ![c] = NoExec]

\* The execution with its step's record changed, standing elsewhere.
Goes(c, d, stand) == [exec[c] EXCEPT !.doc = d, !.at = stand]

InFlight(d) == d.step \in {"admitted", "running"}

\* Whether the run has ended in a way a runner's claim does not continue.
EndedForClaim(d) ==
  \/ d.run \in {"finished", "escalated", "halted limit"}
  \/ d.run = "waiting human" /\ d.step = "waiting human"

Trouble(kind) == kind \in Troubles /\ troubles < MaxTroubles /\ troubles' = troubles + 1

-----------------------------------------------------------------------------
(* From the claim to the step.                                             *)

\* A process begins an execution of the run knowing of no take-over.
NotedOnClaim(r) == [taking EXCEPT ![r] = NoAsk]

\* A claim is kept for the person whose ask is pending, and with it one for the runner after
\* them: the bound never comes between an ask and its answer.
Claim(r) ==
  LET c == job.claim + 1
  IN  /\ job.queued
      /\ job.by = NoOne \/ job.lapsed
      /\ job.claim + (IF job.ask = NoAsk THEN 0 ELSE 1) < MaxClaims + 2 * asks
      /\ job' = [job EXCEPT !.claim = c, !.by = r, !.lapsed = FALSE, !.held = FALSE]
      /\ exec' = [exec EXCEPT ![c] = [NoExec EXCEPT !.by = r, !.at = "begin"]]
      /\ taking' = NotedOnClaim(r)
      /\ UNCHANGED <<workerVars, doc, told, counters>>

\* The step of a take-over whose lease passed goes back to its worker's checkpoint.
TakeoverLapsed(c) ==
  /\ At(c, "begin")
  /\ doc.held # NoHold
  /\ Commit(c, Goes(c, [doc EXCEPT !.step = "stopped", !.held = NoHold], "begin"))
  /\ UNCHANGED <<workerVars, job, notes, counters>>

\* The step that was in flight when its execution ended goes back to its boundary; its
\* assignment stays open.
Recovered_Closes(d) == [d EXCEPT !.run = "running", !.open = FALSE,
                                 !.step = IF InFlight(d) THEN "stopped" ELSE @]
Recovered_FromStart(d) == [d EXCEPT !.run = "running", !.seq = 0,
                                    !.step = IF InFlight(d) THEN "stopped" ELSE @]
Recovered(d) == [d EXCEPT !.run = "running", !.step = IF InFlight(d) THEN "stopped" ELSE @]

\* The run is read, and continued unless it has ended.
Begin(c) ==
  /\ At(c, "begin")
  /\ doc.held = NoHold
  /\ IF EndedForClaim(doc)
     THEN exec' = [exec EXCEPT ![c] = Goes(c, doc, "ended")] /\ UNCHANGED doc
     ELSE Commit(c, Goes(c, Recovered(doc), "loop"))
  /\ UNCHANGED <<workerVars, job, notes, counters>>

-----------------------------------------------------------------------------
(* The hand-over.                                                          *)

Failed_Closes(c) == Goes(c, [exec[c].doc EXCEPT !.step = "failed", !.open = FALSE], "after")
Failed(c) == Goes(c, [exec[c].doc EXCEPT !.step = "failed"], "after")

\* The worker holds the step's assignment: it is followed from the last event the record
\* holds, and stopped at once for the person who asked to take the step over.
HandedOver(c, adopted) ==
  LET d == exec[c].doc
      begun == [d EXCEPT !.again = @ \cup ({d.step} \cap {"failed", "rejected"})]
      next == [Goes(c, [begun EXCEPT !.step = "running"], "follow") EXCEPT !.adopted = adopted]
  IN  /\ Commit(c, next)
      /\ assignment' = IF Passes(c) /\ Noted(c) # NoAsk THEN Stopped(d.id) ELSE assignment

RejectedByWorker(c) ==
  /\ Commit(c, Goes(c, [exec[c].doc EXCEPT !.step = "rejected", !.open = FALSE], "after"))
  /\ UNCHANGED assignment

\* What the worker says of an assignment it holds.
Adopted(c) == IF assignment[exec[c].doc.id].status = "finished" /\ Outcome(exec[c].doc.id) = "rejected"
              THEN RejectedByWorker(c) ELSE HandedOver(c, TRUE)

\* An open assignment is asked about before another is handed over: one the worker holds is
\* adopted, one it does not know is posted again, and a worker that cannot be asked fails
\* the step.
Reclaim(c) ==
  \/ /\ Known(exec[c].doc.id)
     /\ Adopted(c)
     /\ UNCHANGED troubles
  \/ /\ ~Known(exec[c].doc.id)
     /\ exec' = [exec EXCEPT ![c].at = "admit"]
     /\ UNCHANGED <<doc, assignment, troubles>>
  \/ /\ Trouble("no answer")
     /\ Commit(c, Failed(c))
     /\ UNCHANGED assignment

BeginStep(c) ==
  /\ At(c, "loop")
  /\ exec[c].doc.step # "succeeded"
  /\ IF exec[c].doc.open THEN Reclaim(c)
     ELSE exec' = [exec EXCEPT ![c].at = "admit"] /\ UNCHANGED <<doc, assignment, troubles>>
  /\ UNCHANGED <<disk, job, notes, asks, ids, late>>

\* Only a step that stopped continues from its checkpoint.
ContinuesFrom_AfterAdmission(d) == IF d.step = "admitted" THEN d.ckpt ELSE NoRef
ContinuesFrom(d) == IF d.step = "stopped" THEN d.ckpt ELSE NoRef

\* Admission reserves the step's estimate, or refuses it for want of budget or of room.
Admit(c) ==
  LET d == exec[c].doc
      begun == [d EXCEPT !.again = @ \cup ({d.step} \cap {"failed", "rejected"})]
  IN  /\ At(c, "admit")
      /\ \/ /\ Commit(c, [Goes(c, [begun EXCEPT !.step = "admitted"], "assign")
                           EXCEPT !.from = ContinuesFrom(d)])
            /\ UNCHANGED troubles
         \/ /\ Trouble("rejection")
            /\ Commit(c, Goes(c, [begun EXCEPT !.step = "rejected"], "after"))
      /\ UNCHANGED <<workerVars, job, notes, asks, ids, late>>

\* The identifier is committed before the assignment is posted; an open one keeps its own.
AssignedId(d) == IF d.open THEN d.id ELSE ids + 1
Assign(c) ==
  LET d == exec[c].doc
      i == AssignedId(d)
  IN  /\ At(c, "assign")
      /\ i \in Ids
      /\ Commit(c, Goes(c, [d EXCEPT !.id = i, !.open = TRUE, !.seq = 0], "post"))
      /\ ids' = IF Passes(c) /\ i > ids THEN i ELSE ids
      /\ UNCHANGED <<workerVars, job, notes, asks, troubles, late>>

\* The worker takes the assignment, and is told whether it fits.
Takes(c, rejected) ==
  LET i == exec[c].doc.id
  IN  /\ Answer(i) = "accepted"
      /\ assignment[i].life < MaxLives
      /\ assignment' = [assignment EXCEPT ![i] = Accepted(i, exec[c].from, rejected)]
      /\ late' = IF Passes(c) THEN late ELSE late \cup {<<i, assignment[i].life + 1>>}

\* The request reaches the worker, whoever holds the run by then.
Post(c) ==
  LET i == exec[c].doc.id
      answered(stand) == exec' = [exec EXCEPT ![c].at = stand]
  IN  /\ At(c, "post")
      /\ \/ Takes(c, FALSE) /\ answered("accepted") /\ UNCHANGED troubles
         \/ Takes(c, TRUE) /\ answered("rejected") /\ Trouble("rejection")
         \/ Takes(c, FALSE) /\ answered("broken") /\ Trouble("no answer")
         \/ Answer(i) = "exists" /\ answered("exists") /\ UNCHANGED <<assignment, late, troubles>>
         \/ Answer(i) = "full" /\ answered("full") /\ UNCHANGED <<assignment, late, troubles>>
         \/ ~Known(i) /\ answered("full") /\ Trouble("refusal") /\ UNCHANGED <<assignment, late>>
         \/ answered("broken") /\ Trouble("no answer") /\ UNCHANGED <<assignment, late>>
      /\ UNCHANGED <<disk, doc, job, notes, asks, ids>>

\* The worker did not take it: the step goes back to where it was admitted from and waits,
\* or ends once its ceiling has passed.  The assignment is closed.
Full(c) ==
  LET closed == [exec[c].doc EXCEPT !.open = FALSE]
      waits == Goes(c, [closed EXCEPT !.step = "stopped", !.ckpt = exec[c].from], "after")
      ends == Goes(c, [closed EXCEPT !.step = "failed"], "after")
  IN  /\ \E next \in {waits, ends} : Commit(c, [next EXCEPT !.why = "capacity"])
      /\ UNCHANGED assignment

\* What the answer to the POST leads to.
Answered(c) ==
  LET i == exec[c].doc.id
  IN  /\ \/ At(c, "accepted") /\ HandedOver(c, FALSE)
         \/ At(c, "rejected") /\ RejectedByWorker(c)
         \/ At(c, "exists") /\ Known(i) /\ Adopted(c)
         \/ At(c, "exists") /\ ~Known(i) /\ Commit(c, Failed(c)) /\ UNCHANGED assignment
         \/ At(c, "full") /\ Full(c)
         \/ At(c, "broken") /\ Commit(c, Failed(c)) /\ UNCHANGED assignment
      /\ UNCHANGED <<disk, job, notes, counters>>

-----------------------------------------------------------------------------
(* Following the worker's events.                                          *)

\* The record with the effect of an event, its number included.  An artifact whose name the
\* record holds is skipped.
Holds(d, unit) == d.kept[unit] # NoLife
With(d, e) ==
  CASE e.kind = "artifact" /\ ~Holds(d, e.unit) -> [d EXCEPT !.kept[e.unit] = e.by, !.seq = @ + 1]
    [] e.kind = "report" -> [d EXCEPT !.used = Append(@, <<e.by, e.unit>>), !.seq = @ + 1]
    [] e.kind = "boundary" -> [d EXCEPT !.ckpt = e.ref, !.seq = @ + 1]
    [] OTHER -> [d EXCEPT !.seq = @ + 1]

\* The assignment's end is read: it is closed.
Closed(d, e) ==
  CASE e.outcome = "succeeded" -> [d EXCEPT !.open = FALSE, !.step = "succeeded"]
    [] e.outcome \in {"stopped", "limit"} ->
         [d EXCEPT !.open = FALSE, !.step = "stopped", !.ckpt = IF e.ref # NoRef THEN e.ref ELSE @]
    [] OTHER -> [d EXCEPT !.open = FALSE, !.step = "failed"]

\* Where an execution goes once its assignment ended.  An adopted assignment that stopped at
\* a request of the runner before is continued at once.
AfterEnd(c, e) ==
  IF exec[c].adopted /\ e.outcome = "stopped" /\ Noted(c) = NoAsk THEN "loop" ELSE "after"

\* The next event arrives: a boundary and the end are committed, the others only noted.
ReadEvent(c) ==
  LET d == exec[c].doc
      e == assignment[d.id].events[d.seq + 1]
      next == Goes(c, With(d, e), "follow")
  IN  /\ At(c, "follow")
      /\ d.seq < Len(assignment[d.id].events)
      /\ CASE e.kind \in {"artifact", "report"} ->
                exec' = [exec EXCEPT ![c] = next] /\ UNCHANGED doc
           [] e.kind = "boundary" -> Commit(c, next)
           [] e.kind = "finished" ->
                Commit(c, [Goes(c, Closed(With(d, e), e), AfterEnd(c, e))
                             EXCEPT !.why = IF e.outcome = "limit" THEN "limit" ELSE @])
      /\ UNCHANGED <<workerVars, job, notes, counters>>

\* The stream breaks off, or the worker knows the assignment no more, or has nothing more to
\* say of it: the worker is asked to stop it, and the assignment stays open.
StreamEnds(c) ==
  LET i == exec[c].doc.id
  IN  /\ At(c, "follow")
      /\ \/ ~Known(i) /\ UNCHANGED troubles
         \/ assignment[i].status = "finished" /\ exec[c].doc.seq >= Len(assignment[i].events)
              /\ UNCHANGED troubles
         \/ Trouble("stream")
      /\ assignment' = Stopped(i)
      /\ Commit(c, Failed(c))
      /\ UNCHANGED <<disk, job, notes, asks, ids, late>>

-----------------------------------------------------------------------------
(* After the step.                                                         *)

\* What the run comes to with the step, when nobody takes it over.
RunAfter(c) ==
  CASE exec[c].doc.step = "succeeded" -> "finished"
    [] exec[c].doc.step = "rejected" -> "halted limit"
    [] exec[c].doc.step = "failed" -> "escalated"
    [] exec[c].doc.step = "stopped" ->
         IF exec[c].why = "none" THEN "halted stop"
         ELSE IF exec[c].why = "capacity" THEN "halted capacity" ELSE "halted limit"

EndsStep(c) == At(c, "after") \/ (At(c, "loop") /\ exec[c].doc.step = "succeeded")

\* The run ends as its step did.
End(c) ==
  /\ EndsStep(c)
  /\ At(c, "after") => Noted(c) = NoAsk
  /\ Commit(c, Goes(c, [exec[c].doc EXCEPT !.run = RunAfter(c)], "ended"))
  /\ UNCHANGED <<workerVars, job, notes, counters>>

\* The job after the execution: given back for later, or deleted with what is asked on it.
Dispose(c) ==
  /\ At(c, "ended")
  /\ job' = IF ~Names(c) THEN job
            ELSE IF exec[c].doc.run = "halted capacity"
                 THEN [job EXCEPT !.by = NoOne, !.lapsed = FALSE]
                 ELSE [job EXCEPT !.queued = FALSE, !.by = NoOne, !.ask = NoAsk]
  /\ exec' = [exec EXCEPT ![c] = NoExec]
  /\ UNCHANGED <<workerVars, doc, notes, counters>>

-----------------------------------------------------------------------------
(* Taking a step over.                                                     *)

\* A person asks for the step while it runs, on the row a runner holds.
AskTakeover ==
  /\ doc.run = "running" /\ InFlight(doc)
  /\ job.queued /\ job.by \in Runners /\ job.ask = NoAsk
  /\ asks < MaxAsks
  /\ asks' = asks + 1
  /\ job' = [job EXCEPT !.ask = asks + 1]
  /\ UNCHANGED <<workerVars, doc, exec, notes, ids, troubles, late>>

\* The heartbeat of an execution renews the lease and reads the ask: the worker is told to
\* stop the assignment at its next boundary.
Hear(c) ==
  LET r == exec[c].by
  IN  /\ Names(c) /\ ~job.lapsed
      /\ job.ask \notin told[r] \cup {NoAsk}
      /\ taking[r] = NoAsk
      /\ taking' = [taking EXCEPT ![r] = job.ask]
      /\ assignment' = IF Following(r) = {} THEN assignment
                       ELSE Stopped(exec[CHOOSE f \in Following(r) :
                                           \A g \in Following(r) : g <= f].doc.id)
      /\ UNCHANGED <<disk, doc, job, exec, told, counters>>

\* The step stopped at its worker's boundary: the step and the run wait for the person and
\* the claim passes to them, in one transaction.
Servable_Anyhow(c) == exec[c].doc.step \in {"stopped", "failed"}
Servable(c) == exec[c].doc.step = "stopped" /\ exec[c].why = "none"
TakenOver(c) ==
  LET r == exec[c].by
      passes == Passes(c) /\ job.ask = taking[r]
      held == job.claim + 1
  IN  /\ At(c, "after")
      /\ Noted(c) # NoAsk
      /\ Servable(c)
      /\ IF passes
         THEN /\ doc' = [exec[c].doc EXCEPT !.step = "waiting human", !.run = "waiting human",
                                            !.held = held]
              /\ job' = [job EXCEPT !.claim = held, !.by = Person, !.lapsed = FALSE, !.held = TRUE,
                                    !.ask = NoAsk]
              /\ taking' = [taking EXCEPT ![r] = NoAsk]
              /\ told' = [told EXCEPT ![r] = @ \cup {taking[r]}]
         ELSE UNCHANGED <<doc, job, taking, told>>
      /\ exec' = [exec EXCEPT ![c] = NoExec]
      /\ UNCHANGED <<workerVars, counters>>

\* The step ended another way: the ask is withdrawn, and the run goes on.
RefuseTakeover(c) ==
  LET r == exec[c].by
  IN  /\ At(c, "after")
      /\ Noted(c) # NoAsk
      /\ ~Servable(c)
      /\ taking' = [taking EXCEPT ![r] = NoAsk]
      /\ told' = [told EXCEPT ![r] = @ \cup {taking[r]}]
      /\ IF Passes(c)
         THEN /\ job' = [job EXCEPT !.ask = IF @ = taking[r] THEN NoAsk ELSE @]
              /\ UNCHANGED exec
         ELSE UNCHANGED job /\ exec' = [exec EXCEPT ![c] = NoExec]
      /\ UNCHANGED <<workerVars, doc, counters>>

\* The person's time is over.
HoldEnds ==
  /\ job.held /\ ~job.lapsed
  /\ job' = [job EXCEPT !.lapsed = TRUE]
  /\ UNCHANGED <<workerVars, doc, exec, notes, counters>>

\* The person hands the result back, under the claim the record names, and the job is
\* released for the next runner.
HolderPasses == job.queued /\ job.by = Person /\ job.claim = doc.held
HandBack ==
  /\ doc.held # NoHold
  /\ HolderPasses
  /\ doc' = [doc EXCEPT !.step = "succeeded", !.held = NoHold, !.handed = doc.held]
  /\ job' = [job EXCEPT !.by = NoOne, !.lapsed = FALSE, !.held = FALSE]
  /\ UNCHANGED <<workerVars, exec, notes, counters>>

-----------------------------------------------------------------------------
(* Troubles, and the worker at work.                                       *)

\* The lease of a runner that goes on working lapses.
LeaseLapses ==
  /\ Trouble("lapse")
  /\ job.by \in Runners /\ ~job.lapsed
  /\ job' = [job EXCEPT !.lapsed = TRUE]
  /\ UNCHANGED <<workerVars, doc, exec, notes, asks, ids, late>>

\* A runner's process dies, and is started again.
Crash(r) ==
  /\ Trouble("crash")
  /\ \E c \in Claims : exec[c].by = r
  /\ exec' = [c \in Claims |-> IF exec[c].by = r THEN NoExec ELSE exec[c]]
  /\ job' = IF job.by = r THEN [job EXCEPT !.lapsed = TRUE] ELSE job
  /\ taking' = [taking EXCEPT ![r] = NoAsk]
  /\ told' = [told EXCEPT ![r] = {}]
  /\ UNCHANGED <<workerVars, doc, asks, ids, late>>

WorkerTrouble ==
  /\ Trouble("restart")
  /\ WorkerRestarts
  /\ UNCHANGED <<doc, job, exec, notes, asks, ids, late>>

AgentWorks(i) ==
  \/ \E wall \in {"none", "limit", "stopped"} : AgentUnit(i, wall)
  \/ \E outcome \in {"succeeded", "failed"} : AgentCloses(i, outcome)
  \/ AgentFails(i)
Worker(i) == AgentWorks(i) /\ UNCHANGED <<doc, job, exec, notes, counters>>

-----------------------------------------------------------------------------

Executes(c) ==
  \/ TakeoverLapsed(c) \/ Begin(c)
  \/ BeginStep(c) \/ Admit(c) \/ Assign(c) \/ Post(c) \/ Answered(c)
  \/ ReadEvent(c) \/ StreamEnds(c)
  \/ End(c) \/ Dispose(c)
  \/ TakenOver(c) \/ RefuseTakeover(c)

Next ==
  \/ \E r \in Runners : Claim(r) \/ Crash(r)
  \/ \E c \in Claims : Executes(c)
  \/ \E c \in Claims : Hear(c)
  \/ AskTakeover \/ HoldEnds \/ HandBack
  \/ LeaseLapses \/ WorkerTrouble
  \/ \E i \in Ids : Worker(i)

Spec == Init /\ [][Next]_vars

-----------------------------------------------------------------------------
(* Properties.                                                             *)

\* Every variable keeps its type.
TypeOK ==
  /\ assignment \in [Ids -> Assignment]
  /\ disk \in [Refs -> Seq(Lives)]
  /\ doc \in Doc /\ job \in Job
  /\ exec \in [Claims -> Exec]
  /\ taking \in [Runners -> {NoAsk} \cup Asks]
  /\ told \in [Runners -> SUBSET Asks]
  /\ asks \in 0 .. MaxAsks /\ troubles \in 0 .. MaxTroubles /\ ids \in Ids \cup {0}
  /\ late \subseteq Lives

\* Nothing an assignment reports is counted twice, however often it is adopted, followed from
\* an earlier event or posted again (ADR-0038).
Counted(d) == {d.used[n] : n \in 1 .. Len(d.used)}
CountedOnce == Len(doc.used) = Cardinality(Counted(doc))

\* Whether what works or worked under the identifier was begun for a runner that had lost the
\* run: a request of its own, under way when its lease lapsed.
IsLate(i) == Life(i) \in late

\* When the worker's step has succeeded, all that the assignments the worker still knows have
\* reported is counted, those of earlier runners included.
Reports(i) == {<<assignment[i].events[n].by, assignment[i].events[n].unit>> :
                 n \in {m \in 1 .. Len(assignment[i].events) : assignment[i].events[m].kind = "report"}}
NothingUncounted ==
  doc.step = "succeeded" /\ doc.handed = NoHold =>
    \A i \in Ids : IsLate(i) \/ Reports(i) \subseteq Counted(doc)

\* What is at work for the step is the assignment its record names as open: no runner that
\* holds the run sets a second to work, and none is forgotten while it works (ADR-0038,
\* StepRun.assignment_open).
WorkIsNamed == \A i \in AtWork : IsLate(i) \/ (doc.open /\ doc.id = i)

\* While a person holds the step, no agent works on it (ADR-0128), but one a runner that had
\* lost the run set to work.
PersonWorksAlone == doc.held # NoHold => \A i \in AtWork : IsLate(i)

\* The artifacts of a step that succeeded are those its last assignment produced or brought
\* along from its checkpoint: "produced before the checkpoint: never recorded twice"
\* (execute_run.py:6480).  Here for a step never begun again, and a worker no runner that had
\* lost the run set to work.
KeptIsProduced ==
  doc.step = "succeeded" /\ doc.handed = NoHold /\ Known(doc.id) =>
     \A u \in 1 .. Closing : doc.kept[u] = assignment[doc.id].made[u]
KeptUnlessBegunAgain == doc.again = {} /\ late = {} => KeptIsProduced

\* The step's checkpoint never falls back, and an assignment taken for the step begins there.
GoesOnFromBoundary ==
  /\ doc'.ckpt[2] >= doc.ckpt[2]
  /\ \A i \in Ids : ~Known(i) /\ Known(i)' => Len(assignment'[i].made) >= doc.ckpt[2]

\* A step never begun again goes on from its last boundary, through crashes, cut-off runners
\* whose requests come to nothing, refusals and take-overs: at most one unit of work is lost
\* (ADR-0005).
AtMostOneUnitLost == [][doc'.again = {} /\ late' = {} => GoesOnFromBoundary]_vars
=============================================================================
