------------------------------- MODULE ShardMath -------------------------------
(***************************************************************************)
(* internal/shardmath in the arithmetic Go gives it: 64-bit integers that  *)
(* wrap, division and remainder that truncate towards zero.  The width is  *)
(* a constant, so that small instances reach the edge.                     *)
(***************************************************************************)
EXTENDS Integers

CONSTANT MaxInt64     \* math.MaxInt64, or a small stand-in for it

ASSUME MaxInt64Assumption == MaxInt64 \in Nat \ {0}

\* Two's complement: the int64 that has x's low bits.
Wrap(x) ==
  LET span == 2 * (MaxInt64 + 1)
  IN  IF x \in (-MaxInt64 - 1) .. MaxInt64
        THEN x
        ELSE ((x + MaxInt64 + 1) % span) - (MaxInt64 + 1)

\* Go's / and % for a positive divisor.
Quot(a, b) == IF a >= 0 THEN a \div b ELSE -((-a) \div b)
Rem(a, b) == a - b * Quot(a, b)

\* The layouts config.validate lets through, for clusters of up to n shards.
Layouts(n) == {l \in [shardID : 1..n, totalShards : 1..n] : l.shardID <= l.totalShards}

\* Mutated form of Value: every shard counts from zero.
ValueUnsharded(l, iter) == Wrap(iter * l.totalShards)

Value(l, iter) == Wrap(l.shardID + Wrap(iter * l.totalShards))

\* Mutated form of Iter: the shard's offset is left in.
IterUnshifted(l, v) == Quot(v, l.totalShards)

Iter(l, v) == Quot(Wrap(v - l.shardID), l.totalShards)

SnapForward(l, v) ==
  LET n == l.totalShards
      rem == Rem(Rem(v, n) + n, n)
      target == Rem(l.shardID, n)
      diff == target - rem
  IN  IF rem = target THEN v ELSE Wrap(v + (IF diff < 0 THEN diff + n ELSE diff))

\* Mutated form of MaxIterOf: counts the iterations instead of naming the last.
MaxIterCount(l, maxValue) ==
  IF maxValue < l.shardID THEN -1 ELSE Quot(maxValue - l.shardID, l.totalShards) + 1

\* Layout.MaxIter.
MaxIterOf(l, maxValue) ==
  IF maxValue < l.shardID THEN -1 ELSE Quot(maxValue - l.shardID, l.totalShards)

\* Mutated form of Accepted: the wrap at the top of int64 is not looked for.
AcceptedUnwrapped(l, maxValue, v) == v \in 1..maxValue /\ SnapForward(l, v) <= maxValue

\* parseCounterValue and the tool's snapValue: v is accepted as a start or reset
\* value of a type whose largest value is maxValue, and becomes SnapForward(l, v).
Accepted(l, maxValue, v) ==
  /\ v \in 1..maxValue
  /\ SnapForward(l, v) >= v /\ SnapForward(l, v) <= maxValue
================================================================================
