------------------------------ MODULE MCShmMQ ------------------------------
(* Small instances of ShmMQ: one proxy and two workers. *)
EXTENDS ShmMQ, TLC

WorkerSymmetry == Permutations(Procs \ {Proxy})
=============================================================================
