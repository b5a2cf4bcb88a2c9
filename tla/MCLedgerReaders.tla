-------------------------- MODULE MCLedgerReaders --------------------------
(* Small instances of the ledger's readers: two writers beside a stream,   *)
(* and beside the sessions that keep a projection and the checkpoint.      *)
EXTENDS LedgerReaders

=============================================================================
