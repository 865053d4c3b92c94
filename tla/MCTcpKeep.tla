----------------------------- MODULE MCTcpKeep -----------------------------
(* Small instances of TcpKeep: a few callers, connections and servers. *)
EXTENDS TcpKeep
=============================================================================
