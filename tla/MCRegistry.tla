------------------------------- MODULE MCRegistry ------------------------------
(* Small instances of Registry for TLC. *)
EXTENDS Registry, TLC

\* Names and requests are interchangeable.
NameSymmetry == Permutations(Entities) \cup Permutations(Procs)
================================================================================
