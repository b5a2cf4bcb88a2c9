---------------------------- MODULE AdapterStops ----------------------------
(***************************************************************************)
(* The stops of a tenant's adapters and the runs they look at: a person    *)
(* requests a stop, the scheduler and the surface that asked confirm it    *)
(* once no run is inside a step on the adapter, and a person lifts it.     *)
(*                                                                         *)
(* A transaction that records an entry of the tenant holds the tenant's    *)
(* chain to its commit, and what it reads after the entry is what every    *)
(* other such transaction committed: each is one action here.  A           *)
(* confirmation reads the runs in earlier transactions.                    *)
(*                                                                         *)
(* A run has one step, on one adapter, and of its document what the stops  *)
(* and the step's beginning read and write.                                *)
(***************************************************************************)
EXTENDS Integers, FiniteSets

CONSTANTS
  Runs,         \* the runs, all of one process
  Adapters,     \* the adapters a stop may be asked for
  AdapterOf,    \* the adapter of each run's step
  Stops,        \* the stops that may be requested
  Confirmers,   \* who confirms: the scheduler's tick, the surface that asked
  NoStop, NoAdapter

ASSUME StopsAssumption ==
  /\ AdapterOf \in [Runs -> Adapters]
  /\ NoStop \notin Stops /\ NoAdapter \notin Adapters

VARIABLES
  run,         \* the documents of the runs
  stops,       \* the record of each stop
  confirmer    \* what each confirmer has read

stopVars == <<stops, confirmer>>

RunStates == {"planned", "running", "halted stop", "halted parked", "escalated", "finished"}
StepStates == {"planned", "admitted", "running", "succeeded", "failed", "stopped"}

\* `since` holds the stops that were asked for by the time the step last ended.
Run == [state : RunStates, step : StepStates, since : SUBSET Stops]
Stop == [state : {"none", "asked", "returned", "holding", "confirmed", "lifted"},
         adapter : Adapters \cup {NoAdapter}, stopped : SUBSET Runs]
Confirmer == [at : {"idle", "standing", "named"}, stop : Stops \cup {NoStop}, named : SUBSET Runs]
Idle == [at |-> "idle", stop |-> NoStop, named |-> {}]

StopsInit ==
  /\ run = [r \in Runs |-> [state |-> "planned", step |-> "planned", since |-> {}]]
  /\ stops = [s \in Stops |-> [state |-> "none", adapter |-> NoAdapter, stopped |-> {}]]
  /\ confirmer = [c \in Confirmers |-> Idle]

-----------------------------------------------------------------------------
(* What the stops say.                                                     *)

\* A stop keeps steps from its adapter until it is lifted, confirmed or not.
IsHeld(s) == stops[s].state \in {"holding", "confirmed"}
Held == {stops[s].adapter : s \in {t \in Stops : IsHeld(t)}}

\* The runs still inside a step on the stop's adapter, or about to be handed to it.
Inside == {"admitted", "running"}
StandingInside(s) ==
  {r \in Runs : run[r].state = "running" /\ run[r].step \in Inside /\ AdapterOf[r] = stops[s].adapter}

\* The runs halted for a stop at a step on its adapter that ended after the request.
Halted(s) ==
  {r \in Runs : /\ run[r].state = "halted stop" /\ run[r].step = "stopped"
                /\ AdapterOf[r] = stops[s].adapter /\ s \in run[r].since}

-----------------------------------------------------------------------------
(* Requesting and lifting.                                                 *)

\* The clock is read before the transaction: the request counts from here.
Ask(s, a) ==
  /\ stops[s].state = "none"
  /\ stops' = [stops EXCEPT ![s].state = "asked", ![s].adapter = a]
  /\ UNCHANGED <<run, confirmer>>

\* A stop of the adapter that is held already is returned instead.
Request(s) ==
  /\ stops[s].state = "asked"
  /\ stops' = [stops EXCEPT ![s].state = IF stops[s].adapter \in Held THEN "returned" ELSE "holding"]
  /\ UNCHANGED <<run, confirmer>>

Lift(s) ==
  /\ IsHeld(s)
  /\ stops' = [stops EXCEPT ![s].state = "lifted"]
  /\ UNCHANGED <<run, confirmer>>

-----------------------------------------------------------------------------
(* Confirming: three transactions.                                         *)

\* The stop is holding, and no running run is inside its adapter.
FindStanding(c, s) ==
  /\ confirmer[c].at = "idle"
  /\ stops[s].state = "holding"
  /\ StandingInside(s) = {}
  /\ confirmer' = [confirmer EXCEPT ![c] = [Idle EXCEPT !.at = "standing", !.stop = s]]
  /\ UNCHANGED <<run, stops>>

ReadHalted(c, s) ==
  /\ confirmer[c].at = "standing" /\ confirmer[c].stop = s
  /\ confirmer' = [confirmer EXCEPT ![c].at = "named", ![c].named = Halted(s)]
  /\ UNCHANGED <<run, stops>>

\* The stop as it is read again under the tenant's chain.
StillHolding(s) == stops[s].state = "holding"
Confirm(c, s) ==
  /\ confirmer[c].at = "named" /\ confirmer[c].stop = s
  /\ stops' = IF StillHolding(s)
              THEN [stops EXCEPT ![s].state = "confirmed", ![s].stopped = confirmer[c].named]
              ELSE stops
  /\ confirmer' = [confirmer EXCEPT ![c] = Idle]
  /\ UNCHANGED run

Confirming(c, s) == FindStanding(c, s) \/ ReadHalted(c, s) \/ Confirm(c, s)

=============================================================================
