------------------------------- MODULE AtomicFile ------------------------------
(***************************************************************************)
(* What the modules above the store take the state file for: nothing but   *)
(* the operations of DurableFile, one whole flush each.  StateFile, which  *)
(* runs the flush call by call, implements it.  A crash inside a flush is  *)
(* there a crash between two of these steps, so `writing' is empty.        *)
(***************************************************************************)
EXTENDS DurableFile

CONSTANT Contents     \* what a file can hold

Init == \E c \in Contents : StoreInit(c)

Next ==
  \/ \E c \in Contents : FlushOK(c) \/ FlushFails(c, "dirsync")
  \/ StoreKill({}) \/ StorePowerLoss({}) \/ OpenStore

Spec == Init /\ [][Next]_storeVars
================================================================================
