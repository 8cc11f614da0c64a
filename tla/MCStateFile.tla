------------------------------ MODULE MCStateFile ------------------------------
(* Small instances of StateFile for TLC. *)
EXTENDS StateFile, TLC

\* The processes are interchangeable: each may be a service or a run of the tool.
UserSymmetry == Permutations(Users)
================================================================================
