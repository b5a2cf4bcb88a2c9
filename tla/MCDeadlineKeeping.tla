------------------------- MODULE MCDeadlineKeeping -------------------------
(* A deadline that starts after a step, starts a process at its lead time, *)
(* reminds at its limit, and is met by a later step or with the case.      *)
EXTENDS DeadlineKeeping

MCBegins == [d \in Deadlines |-> 2]
MCUntil == [d \in Deadlines |-> 3]
MCAction ==
  [d \in Deadlines |-> [m \in Moments |-> IF m = "lead" THEN "start" ELSE "remind"]]
MCStarts == Deadlines \X Moments

=============================================================================
