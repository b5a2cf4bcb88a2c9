--------------------------- MODULE MCAnchoredRun ---------------------------
(* The act of one run, named by the anchors a and b; p holds both roles    *)
(* and q the second.                                                       *)
EXTENDS AnchoredRun, TLC

CONSTANTS a, b, p, q

MCHolders == (a :> {p}) @@ (b :> {p, q})
MCReadings == {[option |-> "A", modified |-> FALSE], [option |-> "B", modified |-> FALSE]}

=============================================================================
