------------------------------- MODULE MCHeap -------------------------------
(* Small instances of Heap. *)
EXTENDS Heap, TLC

EntrySymmetry == Permutations(Entries)
=============================================================================
