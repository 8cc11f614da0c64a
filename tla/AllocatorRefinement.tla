-------------------------- MODULE AllocatorRefinement --------------------------
(* Allocator, with its store, callers, refill and crashes, implements Counter. *)
EXTENDS Allocator

\* Where the sequence could go on from: any image a crash may leave, or the cursor.
Positions == Images \cup (IF up /\ loaded THEN {cursor} ELSE {})

Floor == CHOOSE f \in Positions : \A m \in Positions : f <= m

C == INSTANCE Counter WITH
  Origin <- StartMark, Sizes <- BatchSizes, Targets <- ResetTargets,
  Forcing <- (TRUE \in Forces),
  next <- Floor, given <- issued, again <- reissued

\* The allocator implements the counter: whatever callers, the refill, failing
\* writes and crashes do, the sequence seen from outside is one of Counter's.
CounterSpec == C!Spec
================================================================================
