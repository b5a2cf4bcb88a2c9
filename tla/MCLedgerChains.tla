--------------------------- MODULE MCLedgerChains ---------------------------
(* Two runs' chains and the tenant's, two sessions that record and anchor. *)
EXTENDS LedgerChains, TLC

MCSymmetry == Permutations(Recorders) \cup Permutations(Runs) \cup Permutations(Facts)

=============================================================================
