------------------------------ MODULE MCAllocator ------------------------------
(* Small instances of Allocator for TLC; the .cfg files choose the values. *)
EXTENDS AllocatorRefinement, TLC

\* Callers are interchangeable: safety runs explore one of each permutation.
ProcSymmetry == Permutations(Procs)
================================================================================
