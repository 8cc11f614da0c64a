------------------------------- MODULE WindowEdge ------------------------------
(***************************************************************************)
(* The allocator's window in 64-bit arithmetic: one caller, a disk that    *)
(* never fails, a refill that is done before the next call, and marks near *)
(* the end of the type long, where cursor + n, reservedEnd + grow and      *)
(* from + segmentSize can pass math.MaxInt64.  Allocator has the           *)
(* concurrency and the failures, with unbounded integers.                  *)
(***************************************************************************)
EXTENDS ShardMath

CONSTANTS
  Clusters,       \* the cluster sizes (total_shards) to look at
  SegmentSize,
  Threshold,
  BatchSizes,
  StartMarks,     \* the marks a start value or a reset may have set
  MaxCalls,       \* bound: calls of Next in a behaviour
  MaxRestarts     \* bound: restarts in a behaviour

ASSUME EdgeAssumption ==
  /\ Clusters \subseteq Nat \ {0}
  /\ SegmentSize \in Nat \ {0}
  /\ Threshold \in 1..SegmentSize
  /\ BatchSizes \subseteq Nat \ {0}
  /\ StartMarks \subseteq Nat
  /\ MaxCalls \in Nat /\ MaxRestarts \in Nat

VARIABLES
  layout,       \* Allocator.layout
  mark,         \* the durable mark; memory and file agree
  loaded, cursor, reservedEnd,
  want,         \* the n of the call in progress, 0 if none
  issued, reissued, calls, restarts

edgeVars == <<layout, mark, loaded, cursor, reservedEnd, want, issued, reissued,
              calls, restarts>>

\* The last iteration of the type long.
MaxIter == MaxIterOf(layout, MaxInt64)

Init ==
  /\ \E n \in Clusters : \E k \in 1..n : layout = [shardID |-> k, totalShards |-> n]
  /\ mark \in {m \in StartMarks : m <= MaxIter}
  /\ loaded = FALSE /\ cursor = 0 /\ reservedEnd = 0
  /\ want = 0 /\ issued = {} /\ reissued = {} /\ calls = 0 /\ restarts = 0

\* Mutated form of RaiseTo: a mark at the end of the type is not raised.
RaiseToWithinType(to) == mark' = IF to <= mark \/ to > MaxIter THEN mark ELSE to

\* RaiseMark: a lower mark is not an error and changes nothing.
RaiseTo(to) == mark' = IF to <= mark THEN mark ELSE to

\* Mutated form of Exhausted: one iteration too many is let through.
ExhaustedLate(c, n) == Wrap(c + n - 1) > MaxIter + 1

Exhausted(c, n) == Wrap(Wrap(c + n) - 1) > MaxIter

Remaining(end, c) == Wrap(end - c)

Grow(short) == Wrap(Quot(Wrap(Wrap(short + SegmentSize) - 1), SegmentSize) * SegmentSize)

\* Next up to its loop; ErrExhausted leaves want at 0.
Call ==
  /\ want = 0 /\ calls < MaxCalls
  /\ calls' = calls + 1
  /\ loaded' = TRUE
  /\ cursor' = IF loaded THEN cursor ELSE mark
  /\ reservedEnd' = IF loaded THEN reservedEnd ELSE mark
  /\ \E n \in BatchSizes : want' = IF Exhausted(cursor', n) THEN 0 ELSE n
  /\ UNCHANGED <<layout, mark, issued, reissued, restarts>>

ReserveInline ==
  /\ want > 0 /\ Remaining(reservedEnd, cursor) < want
  /\ LET to == Wrap(reservedEnd + Grow(Wrap(want - Remaining(reservedEnd, cursor))))
     IN  RaiseTo(to) /\ reservedEnd' = to
  /\ UNCHANGED <<layout, loaded, cursor, want, issued, reissued, calls, restarts>>

\* The block is handed out; a refill it starts has finished by the next call.
TakeBlock ==
  /\ want > 0 /\ Remaining(reservedEnd, cursor) >= want
  /\ LET block == {Wrap(cursor + k) : k \in 0..(want - 1)}
     IN  issued' = issued \cup block /\ reissued' = reissued \cup (issued \cap block)
  /\ cursor' = Wrap(cursor + want)
  /\ LET to == Wrap(reservedEnd + SegmentSize)
     IN  IF Remaining(reservedEnd, cursor') > Threshold
           THEN UNCHANGED <<mark, reservedEnd>>
           ELSE RaiseTo(to) /\ reservedEnd' = to
  /\ want' = 0
  /\ UNCHANGED <<layout, loaded, calls, restarts>>

Restart ==
  /\ restarts < MaxRestarts /\ restarts' = restarts + 1
  /\ loaded' = FALSE /\ cursor' = 0 /\ reservedEnd' = 0 /\ want' = 0
  /\ UNCHANGED <<layout, mark, issued, reissued, calls>>

Next == Call \/ ReserveInline \/ TakeBlock \/ Restart

Spec == Init /\ [][Next]_edgeVars

\* With two or more shards the end of the type lies far enough below the end of
\* int64: nothing is handed out twice (README.md:601).
NoReissueAtEdge == reissued = {}

\* ErrExhausted comes before the first value the type cannot hold, and every
\* value handed out is one of this shard's (allocator.go:84-86).
WithinTypeAtEdge ==
  \A i \in issued : i \in 0..MaxIter /\ Value(layout, i) \in 1..MaxInt64
================================================================================
