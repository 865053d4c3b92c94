----------------------------- MODULE MCProcMon -----------------------------
(* Bounded instances of ProcMon for TLC. *)
EXTENDS ProcMon
Both == {"srpc_worker", "spp_worker"}
=============================================================================
