---------------------------- MODULE IntakeOutbox ----------------------------
(***************************************************************************)
(* The intake of events and the outbox: a delivery whose event is kept     *)
(* already changes nothing; else the event is kept and an entry written    *)
(* for it, in one transaction.  An event becomes a command in two: it is   *)
(* read, and written back with its command.                                *)
(***************************************************************************)
EXTENDS Naturals, Sequences, FiniteSets

CONSTANTS
  Events,       \* identifiers the sources give their deliveries
  Deliveries,   \* arrivals at the intake, a source's own redeliveries among them
  EventOf,      \* the event each of them delivers
  Batch         \* entries read at once (BATCH)

ASSUME IntakeAssumption ==
  /\ EventOf \in [Deliveries -> Events] /\ "none" \notin Deliveries
  /\ Batch \in Nat \ {0}

VARIABLES
  delivery,     \* where the intake of each delivery stands
  event,        \* the events kept: by which delivery, and whether completed
  entries,      \* the outbox in the order it was written: the event of each entry
  published     \* the entries that are published

intakeVars == <<delivery, event, entries, published>>

NoEvent == [by |-> "none", completed |-> FALSE]

IntakeInit ==
  /\ delivery = [d \in Deliveries |-> "away"]
  /\ event = [e \in Events |-> NoEvent]
  /\ entries = <<>> /\ published = {}

IntakeTypeOK ==
  /\ delivery \in [Deliveries -> {"away", "received", "absent", "over"}]
  /\ event \in [Events -> [by : Deliveries \cup {"none"}, completed : BOOLEAN]]
  /\ entries \in Seq(Events)
  /\ published \subseteq DOMAIN entries

IsKept(e) == event[e] # NoEvent

Received == {d \in Deliveries : delivery[d] # "away"}

Stands(d, stand) == delivery' = [delivery EXCEPT ![d] = stand]

\* The moment of its reception is the event's from here on.
Receive(d) ==
  /\ delivery[d] = "away" /\ Stands(d, "received")
  /\ UNCHANGED <<event, entries, published>>

LookForEvent(d) ==
  /\ delivery[d] = "received"
  /\ Stands(d, IF IsKept(EventOf[d]) THEN "over" ELSE "absent")
  /\ UNCHANGED <<event, entries, published>>

\* The event is written whole: one kept meanwhile is replaced.
Keep(d) ==
  /\ delivery[d] = "absent" /\ Stands(d, "over")
  /\ event' = [event EXCEPT ![EventOf[d]] = [by |-> d, completed |-> FALSE]]
  /\ entries' = Append(entries, EventOf[d])
  /\ UNCHANGED published

\* A request that dies goes no further.
Intakes == \E d \in Deliveries : Receive(d) \/ LookForEvent(d) \/ Keep(d)

-----------------------------------------------------------------------------
(* The outbox as the automation role reads and marks it.                   *)

Waiting == DOMAIN entries \ published

\* The first of the entries that wait, in the order they were written.
NextBatches ==
  {b \in UNION {[1 .. size -> Waiting] : size \in 1 .. Batch} :
     /\ \A m, n \in DOMAIN b : m < n => b[m] < b[n]
     /\ \A w \in Waiting : \/ \E n \in DOMAIN b : b[n] = w
                           \/ Len(b) = Batch /\ b[Batch] < w}

Publish(n) ==
  /\ published' = published \cup {n}
  /\ UNCHANGED <<delivery, event, entries>>

\* The command and the event that names it, written together; the event as it was read.
Complete(e, by) ==
  /\ event' = [event EXCEPT ![e] = [by |-> by, completed |-> TRUE]]
  /\ UNCHANGED <<delivery, entries, published>>

=============================================================================
