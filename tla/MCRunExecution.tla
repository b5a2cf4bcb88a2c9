--------------------------- MODULE MCRunExecution ---------------------------
(* Plans of two steps, each by what its steps may come to.  Every .cfg of *)
(* this module names its plan, its runners and its bounds.                *)
EXTENDS RunExecution

InOrder == [s \in Steps |-> {t \in Steps : t < s}]

\* A step a person confirms and that may fail, then one that waits, is refused or raises.
MayAnything == [s \in Steps |-> IF s = 1 THEN {"await", "ok", "fail", "raise"}
                                         ELSE {"ok", "park", "reject", "raise"}]

\* Waits: for capacity, then for a check through an adapter a person may stop, or a worker
\* that stops at a checkpoint.
MayWait ==
  [s \in Steps |-> IF s = 1 THEN {"ok", "capacity"} ELSE {"ok", "park", "adapter", "worker"}]

HealNothing == [s \in Steps |-> 0]
HealOnce == [s \in Steps |-> 1]

=============================================================================
