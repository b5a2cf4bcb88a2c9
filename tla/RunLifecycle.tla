---------------------------- MODULE RunLifecycle ----------------------------
(***************************************************************************)
(* What a run promises whoever executes it: its state and the state of its *)
(* steps move only along the transitions the model of the run lists, one   *)
(* step at a time and only after the steps it depends on, and what is done *)
(* is never undone.                                                        *)
(***************************************************************************)
EXTENDS Integers

CONSTANTS Steps, Dependencies

VARIABLES state, steps

vars == <<state, steps>>

RunTransitions == {
  <<"planned", "admitted">>, <<"admitted", "running">>,
  <<"running", "waiting_human">>, <<"waiting_human", "running">>,
  <<"waiting_human", "halted">>, <<"running", "halted">>,
  <<"running", "escalated">>, <<"running", "finished">>,
  <<"halted", "running">>, <<"escalated", "running">>}

StepTransitions == {
  <<"planned", "admitted">>, <<"planned", "rejected">>, <<"rejected", "admitted">>,
  <<"rejected", "rejected">>, <<"failed", "rejected">>, <<"stopped", "rejected">>,
  <<"admitted", "running">>, <<"admitted", "rejected">>, <<"admitted", "stopped">>,
  <<"running", "succeeded">>, <<"running", "failed">>, <<"running", "stopped">>,
  <<"stopped", "admitted">>, <<"failed", "admitted">>, <<"planned", "failed">>,
  <<"rejected", "failed">>, <<"stopped", "failed">>, <<"failed", "failed">>,
  <<"admitted", "failed">>, <<"planned", "stopped">>, <<"rejected", "stopped">>,
  <<"stopped", "stopped">>, <<"failed", "stopped">>, <<"stopped", "running">>,
  <<"failed", "running">>, <<"rejected", "running">>, <<"planned", "waiting_human">>,
  <<"waiting_human", "planned">>, <<"waiting_human", "succeeded">>,
  <<"running", "waiting_human">>, <<"stopped", "waiting_human">>,
  <<"waiting_human", "stopped">>, <<"waiting_human", "rejected">>,
  <<"rejected", "waiting_human">>, <<"planned", "succeeded">>, <<"rejected", "succeeded">>,
  <<"stopped", "succeeded">>, <<"failed", "succeeded">>}

InFlight == {s \in Steps : steps[s] \in {"admitted", "running"}}

Init == state = "planned" /\ steps = [s \in Steps |-> "planned"]

Move ==
  /\ <<state, state'>> \in RunTransitions
  /\ InFlight = {}
  /\ UNCHANGED steps

\* A step moves while the run runs, or by a person's answer while the run waits.
StepMoves(s) ==
  /\ state \in {"running", "waiting_human"}
  /\ InFlight \subseteq {s}
  /\ \A d \in Dependencies[s] : steps[d] = "succeeded"
  /\ \E to \in {t[2] : t \in {u \in StepTransitions : u[1] = steps[s]}} :
       steps' = [steps EXCEPT ![s] = to]
  /\ UNCHANGED state

\* The instance executing the run is gone: the step it was inside goes back to its boundary.
Recover ==
  /\ state \in {"admitted", "running"}
  /\ state' = "running"
  /\ steps' = [s \in Steps |-> IF s \in InFlight THEN "stopped" ELSE steps[s]]

Next == Move \/ (\E s \in Steps : StepMoves(s)) \/ Recover

Spec == Init /\ [][Next]_vars

\* At most one step is in flight, whoever died, was cut off or executes the run again: a
\* recovery sets back one step and no more (Run.in_flight, RunEngine._recover, ADR-0005).
OneStepInFlight == \A s, t \in InFlight : s = t

=============================================================================
