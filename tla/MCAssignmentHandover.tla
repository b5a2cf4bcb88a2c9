------------------------ MODULE MCAssignmentHandover ------------------------
EXTENDS AssignmentHandover, TLC

IdsDef == 1 .. 3
RunnerSymmetry == Permutations(Runners)
=============================================================================
