---------------------------- MODULE CodingWorker ----------------------------
(***************************************************************************)
(* The coding worker as its adapter meets it: the assignments it holds in  *)
(* memory, the events each of them has emitted, and the checkpoints it     *)
(* keeps on disk.  A restart forgets the assignments and keeps the         *)
(* checkpoints; an identifier it forgot may be posted to it again and      *)
(* begins another life.                                                    *)
(*                                                                         *)
(* An assignment works unit by unit.  A unit is a call of the agent that   *)
(* changed the workspace: its patch, its consumption, its boundary with    *)
(* the checkpoint.  The last unit is the agent's closing message with the  *)
(* change as a whole.  The artifact of a unit has a fixed name, here the   *)
(* unit's number, whichever assignment produced it.                        *)
(***************************************************************************)
EXTENDS Integers, Sequences, FiniteSets

CONSTANTS
  Ids,        \* the assignment identifiers, numbered as the engine mints them
  NoId,       \* no assignment
  Units,      \* how many units the work has before its closing one
  Capacity,   \* how many assignments the worker works on at once
  MaxLives    \* bound on how often one identifier is accepted

ASSUME WorkerAssumption ==
  /\ Ids \subseteq Nat /\ IsFiniteSet(Ids) /\ NoId \notin Ids
  /\ Units \in Nat
  /\ {Capacity, MaxLives} \subseteq Nat \ {0}

VARIABLES
  assignment,  \* what the worker holds under each identifier
  disk         \* what is kept with each checkpoint: the makers of the units up to it

workerVars == <<assignment, disk>>

Closing == Units + 1

\* One acceptance of an identifier: who makes an artifact and reports consumption.
Lives == Ids \X (1 .. MaxLives)

\* A checkpoint, by the lineage and how many units are done at it.
Refs == Ids \X (1 .. Closing)
NoRef == <<NoId, 0>>

Event == [kind : {"artifact", "report", "boundary", "finished"}, by : Lives, unit : 0 .. Closing,
          ref : Refs \cup {NoRef},
          outcome : {"none", "succeeded", "failed", "stopped", "limit", "rejected"}]

Assignment == [status : {"unknown", "running", "stopping", "finished"}, life : 0 .. MaxLives,
               lineage : Ids \cup {NoId},
               made : Seq(Lives),              \* by whom each unit done in the lineage was made
               last : Refs \cup {NoRef},       \* its last checkpoint, or the one it continued from
               events : Seq(Event)]

Unknown(life) == [status |-> "unknown", life |-> life, lineage |-> NoId, made |-> <<>>,
                  last |-> NoRef, events |-> <<>>]

WorkerInit ==
  /\ assignment = [i \in Ids |-> Unknown(0)]
  /\ disk = [r \in Refs |-> <<>>]

Known(i) == assignment[i].status # "unknown"
AtWork == {i \in Ids : assignment[i].status \in {"running", "stopping"}}
Life(i) == <<i, assignment[i].life>>

\* An event as the assignment emits it.
Emit(i, kind, unit, ref, outcome) ==
  [kind |-> kind, by |-> Life(i), unit |-> unit, ref |-> ref, outcome |-> outcome]
Finished(i, ref, outcome) == Emit(i, "finished", 0, ref, outcome)

\* How a finished assignment ended.
Outcome(i) == assignment[i].events[Len(assignment[i].events)].outcome

-----------------------------------------------------------------------------
(* The requests.                                                           *)

\* What the answer to a POST of the identifier says.
Answer(i) ==
  CASE Known(i) -> "exists"
    [] ~Known(i) /\ Cardinality(AtWork) >= Capacity -> "full"
    [] OTHER -> "accepted"

\* An accepted assignment continues the checkpoint's lineage with all it had produced, or
\* begins one of its own.  One that does not fit is finished at once, rejected.
Accepted_Afresh(i, ref, rejected) ==
  [Unknown(assignment[i].life + 1) EXCEPT !.status = "running", !.lineage = i]
Accepted(i, ref, rejected) ==
  LET life == assignment[i].life + 1
      new == [Unknown(life) EXCEPT
                !.lineage = IF ref = NoRef THEN i ELSE ref[1],
                !.made = IF ref = NoRef THEN <<>> ELSE disk[ref],
                !.last = ref]
      refusal == [kind |-> "finished", by |-> <<i, life>>, unit |-> 0, ref |-> NoRef,
                  outcome |-> "rejected"]
  IN  IF rejected THEN [new EXCEPT !.status = "finished", !.events = <<refusal>>]
                  ELSE [new EXCEPT !.status = "running"]

\* A stop of a finished assignment changes nothing.
Stopped(i) == IF i \in AtWork THEN [assignment EXCEPT ![i].status = "stopping"] ELSE assignment

-----------------------------------------------------------------------------
(* The work.                                                               *)

\* The boundary of a unit: its artifact unless the checkpoint brought it along, its
\* consumption, the checkpoint on disk, the boundary; and the end, if it is here.
Reach(i, unit, end) ==
  LET a == assignment[i]
      inherited == unit <= Len(a.made)
      made == IF inherited THEN a.made ELSE Append(a.made, Life(i))
      ref == <<a.lineage, unit>>
  IN  /\ disk' = [disk EXCEPT ![ref] = made]
      /\ assignment' = [assignment EXCEPT ![i] =
           [a EXCEPT !.made = made, !.last = ref,
                     !.status = IF end = "none" THEN @ ELSE "finished",
                     !.events = @ \o (IF inherited THEN <<>>
                                      ELSE <<Emit(i, "artifact", unit, NoRef, "none")>>)
                                  \o <<Emit(i, "report", unit, NoRef, "none"),
                                       Emit(i, "boundary", unit, ref, "none")>>
                                  \o (IF end = "none" THEN <<>>
                                      ELSE <<Finished(i, IF end \in {"stopped", "limit"}
                                                         THEN ref ELSE NoRef, end)>>)]]

\* The agent's call ends at its boundary: a stop asked for ends the assignment there, and so
\* does a ceiling it has reached, or a wall of its own - its turns, its unit's time.
AgentUnit(i, wall) ==
  LET unit == Len(assignment[i].made) + 1
  IN  /\ i \in AtWork
      /\ unit <= Units
      /\ wall \in {"none", "limit", "stopped"}
      /\ Reach(i, unit, IF assignment[i].status = "stopping" THEN "stopped" ELSE wall)

\* The agent's work is done: the change as a whole, and the command after the work, which
\* may fail the assignment with its artifacts produced.  A stop asked for comes too late.
AgentCloses(i, outcome) ==
  /\ i \in AtWork
  /\ Len(assignment[i].made) >= Units
  /\ outcome \in {"succeeded", "failed"}
  /\ Reach(i, Closing, outcome)

\* The agent ends without a result.
AgentFails(i) ==
  /\ i \in AtWork
  /\ assignment' = [assignment EXCEPT ![i].status = "finished",
                                      ![i].events = Append(@, Finished(i, NoRef, "failed"))]
  /\ UNCHANGED disk

\* The process is gone and back: no assignment is known, every checkpoint is.
WorkerRestarts ==
  /\ \E i \in Ids : Known(i)
  /\ assignment' = [i \in Ids |-> Unknown(assignment[i].life)]
  /\ UNCHANGED disk

=============================================================================
