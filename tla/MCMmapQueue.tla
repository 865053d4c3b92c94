---------------------------- MODULE MCMmapQueue ----------------------------
(* Small instances of MmapQueue: rings of a few nodes. *)
EXTENDS MmapQueue
=============================================================================
