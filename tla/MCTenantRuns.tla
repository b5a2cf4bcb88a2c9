---------------------------- MODULE MCTenantRuns ----------------------------
(* A run of a worker and one of a connector, which also reads the outcomes *)
(* outside.                                                                *)
EXTENDS TenantRuns, TLC

CONSTANTS coder, builder
MCAdapterOf == (coder :> "worker.coding") @@ (builder :> "connector.repository")
=============================================================================
