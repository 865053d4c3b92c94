--------------------------- MODULE MCMicroThread ---------------------------
(* Small instances of MicroThread. *)
EXTENDS MicroThread, TLC

PoolSymmetry == Permutations(Threads \ {Daemon})
=============================================================================
