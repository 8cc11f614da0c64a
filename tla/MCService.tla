------------------------------- MODULE MCService -------------------------------
(* Small instances of Service, which is Status with an orderly stop, for TLC. *)
EXTENDS Service, TLC

\* Callers are interchangeable; the reader and the stop are one of a kind.
ProcSymmetry == Permutations(Procs)
================================================================================
