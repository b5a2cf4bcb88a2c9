-------------------------- MODULE MCEventReactions --------------------------
(* Two instances and one event delivered twice.                             *)
EXTENDS EventReactions, TLC

MCEventOf == [d \in Deliveries |-> "e"]
MCReactsTo == [p \in Processes |-> Events]
MCStarts == Events \X Processes
MCMayWait == {s \in MCStarts : s[2] \notin Conditional}

=============================================================================
