---------------------------- MODULE ShardMathProofs ----------------------------
(* What the interleaving arithmetic guarantees for every width of int64, every *)
(* cluster and every value, and what the allocator's window makes of it near   *)
(* the end of the type long when a cluster has two shards or more.             *)
EXTENDS MCWindowEdge, TLAPS

USE MaxInt64Assumption, EdgeAssumption

\* A layout config.validate accepts.
IsLayout(l) ==
  /\ l.shardID \in Nat \ {0} /\ l.totalShards \in Nat \ {0}
  /\ l.shardID <= l.totalShards /\ l.totalShards <= MaxInt64

\* The iterations of a type whose largest value is max.
InRange(l, i, max) == i \in Nat /\ l.shardID + i * l.totalShards <= max

LEMMA WrapIsIdentity ==
  ASSUME NEW x \in Int, -MaxInt64 - 1 <= x, x <= MaxInt64
  PROVE  Wrap(x) = x
BY DEF Wrap

\* Quotient and remainder of natural numbers, as multiplication and order.
LEMMA Division ==
  ASSUME NEW a \in Nat, NEW n \in Nat \ {0}
  PROVE  /\ Quot(a, n) \in Nat /\ Rem(a, n) \in 0..(n - 1)
         /\ Quot(a, n) = a \div n /\ Rem(a, n) = a % n
         /\ a = n * Quot(a, n) + Rem(a, n)
<1>a. a \div n \in Int /\ a % n \in 0..(n - 1)
  OBVIOUS
<1>b. a = n * (a \div n) + (a % n)
  BY Z3
<1>1. ~(a \div n < 0)
  <2> SUFFICES ASSUME NEW q \in Int, q < 0, NEW r \in 0..(n - 1), a = n * q + r
               PROVE  FALSE
    BY <1>a, <1>b
  <2>1. n * (-q) >= n
    OBVIOUS
  <2>2. n * (-q) = -(n * q)
    OBVIOUS
  <2> QED
    BY <2>1, <2>2
<1>2. Quot(a, n) = a \div n
  BY DEF Quot
<1>3. Rem(a, n) = a - n * (a \div n)
  BY <1>2 DEF Rem
<1>4. a - n * (a \div n) = a % n
  BY <1>a, <1>b
<1>5. a \div n \in Nat
  BY <1>a, <1>1
<1> QED
  BY <1>a, <1>b, <1>2, <1>3, <1>4, <1>5

\* A multiple plus a small rest determines both.
LEMMA DivisionUnique ==
  ASSUME NEW n \in Nat \ {0}, NEW q1 \in Int, NEW q2 \in Int,
         NEW r1 \in 0..(n - 1), NEW r2 \in 0..(n - 1),
         n * q1 + r1 = n * q2 + r2
  PROVE  q1 = q2 /\ r1 = r2
<1>1. ~(q1 < q2)
  <2> SUFFICES ASSUME q1 < q2 PROVE FALSE
    OBVIOUS
  <2>1. n * (q2 - q1) >= n
    OBVIOUS
  <2>2. n * (q2 - q1) = n * q2 - n * q1
    OBVIOUS
  <2> QED
    BY <2>1, <2>2
<1>2. ~(q2 < q1)
  <2> SUFFICES ASSUME q2 < q1 PROVE FALSE
    OBVIOUS
  <2>1. n * (q1 - q2) >= n
    OBVIOUS
  <2>2. n * (q1 - q2) = n * q1 - n * q2
    OBVIOUS
  <2> QED
    BY <2>1, <2>2
<1>3. q1 = q2
  BY <1>1, <1>2
<1> QED
  BY <1>3

\* Within range, Value is shardID + i * totalShards: nothing wraps.
LEMMA ValueInRange ==
  ASSUME NEW l, IsLayout(l), NEW i, InRange(l, i, MaxInt64)
  PROVE  /\ Value(l, i) = l.shardID + i * l.totalShards
         /\ i * l.totalShards \in Nat
<1>1. i * l.totalShards \in Nat
  BY DEF IsLayout, InRange
<1>2. Wrap(i * l.totalShards) = i * l.totalShards
  BY <1>1, WrapIsIdentity DEF IsLayout, InRange
<1>3. Wrap(l.shardID + i * l.totalShards) = l.shardID + i * l.totalShards
  BY <1>1, WrapIsIdentity DEF IsLayout, InRange
<1> QED
  BY <1>1, <1>2, <1>3 DEF Value

\* Iter undoes Value (shardmath.go:23).
THEOREM IterInvertsValue ==
  ASSUME NEW l, IsLayout(l), NEW i, InRange(l, i, MaxInt64)
  PROVE  Iter(l, Value(l, i)) = i
<1> DEFINE n == l.totalShards
           p == i * n
<1>1. p \in Nat /\ n \in Nat \ {0} /\ i \in Nat /\ Value(l, i) - l.shardID = p /\ p <= MaxInt64
  BY ValueInRange DEF IsLayout, InRange
<1>2. Wrap(Value(l, i) - l.shardID) = p
  BY <1>1, WrapIsIdentity
<1>3. Quot(p, n) = i
  <2>1. /\ Quot(p, n) \in Nat /\ Rem(p, n) \in 0..(n - 1)
        /\ p = n * Quot(p, n) + Rem(p, n)
    BY <1>1, Division
  <2>2. p = n * i + 0 /\ 0 \in 0..(n - 1)
    BY <1>1
  <2> HIDE DEF p, n
  <2> QED
    BY <1>1, <2>1, <2>2, DivisionUnique
<1> QED
  BY <1>2, <1>3 DEF Iter

\* Two shards of one cluster never give the same value (shardmath.go:4-5).
THEOREM ShardsNeverCollide ==
  ASSUME NEW k, IsLayout(k), NEW l, IsLayout(l),
         k.totalShards = l.totalShards, k.shardID # l.shardID,
         NEW i, InRange(k, i, MaxInt64), NEW j, InRange(l, j, MaxInt64)
  PROVE  Value(k, i) # Value(l, j)
<1> DEFINE n == l.totalShards
<1>1. /\ n \in Nat \ {0} /\ i \in Nat /\ j \in Nat
      /\ k.shardID - 1 \in 0..(n - 1) /\ l.shardID - 1 \in 0..(n - 1)
      /\ k.shardID \in Nat /\ l.shardID \in Nat
  BY DEF IsLayout, InRange
<1>2. Value(k, i) = k.shardID + i * n /\ Value(l, j) = l.shardID + j * n
  BY ValueInRange
<1> SUFFICES ASSUME Value(k, i) = Value(l, j) PROVE FALSE
  OBVIOUS
<1> HIDE DEF n
<1>3. n * i + (k.shardID - 1) = n * j + (l.shardID - 1)
  <2>1. i * n = n * i /\ j * n = n * j /\ i * n \in Nat /\ j * n \in Nat
    BY <1>1
  <2>2. k.shardID + i * n = l.shardID + j * n
    BY <1>2
  <2> QED
    BY <1>1, <2>1, <2>2
<1>4. k.shardID - 1 = l.shardID - 1
  BY <1>1, <1>3, DivisionUnique
<1> QED
  BY <1>1, <1>4

\* MaxIter names the last iteration whose value fits the type (shardmath.go:45-46).
THEOREM MaxIterIsLast ==
  ASSUME NEW l, IsLayout(l), NEW max \in 0..MaxInt64, NEW i \in Nat
  PROVE  i <= MaxIterOf(l, max) <=> l.shardID + i * l.totalShards <= max
<1> DEFINE n == l.totalShards
           s == l.shardID
           q == Quot(max - s, n)
           r == Rem(max - s, n)
<1>1. n \in Nat \ {0} /\ s \in Nat \ {0} /\ max \in Nat /\ i * n \in Nat
  BY DEF IsLayout
<1>2. CASE max < s
  BY <1>1, <1>2 DEF MaxIterOf
<1>3. CASE s <= max
  <2>1. MaxIterOf(l, max) = q
    BY <1>1, <1>3 DEF MaxIterOf
  <2>2. max - s \in Nat
    BY <1>1, <1>3
  <2>3. q \in Nat /\ r \in 0..(n - 1) /\ max - s = n * q + r
    BY <1>1, <2>2, Division
  <2> HIDE DEF n, s, q, r
  <2>4. ASSUME i <= q PROVE s + i * n <= max
    <3>1. i * n <= n * q
      BY <1>1, <2>3, <2>4
    <3> QED
      BY <1>1, <2>3, <3>1
  <2>5. ASSUME q < i PROVE max < s + i * n
    <3>1. n * (q + 1) <= i * n
      BY <1>1, <2>3, <2>5
    <3>2. n * (q + 1) = n * q + n
      BY <1>1, <2>3
    <3> QED
      BY <1>1, <2>3, <3>1, <3>2
  <2>6. i <= q <=> s + i * n <= max
    BY <1>1, <2>3, <2>4, <2>5
  <2> QED
    BY <2>1, <2>6 DEF n, s
<1> QED
  BY <1>1, <1>2, <1>3

\* SnapForward stays within one cluster round of its argument and lands on the
\* shard's residue: the least value at or above v that this shard owns
\* (shardmath.go:28-30), as long as a whole round fits below the top of int64.
THEOREM SnapForwardIsLeast ==
  ASSUME NEW l, IsLayout(l), NEW v \in Nat, v + l.totalShards <= MaxInt64
  PROVE  /\ SnapForward(l, v) \in v .. (v + l.totalShards - 1)
         /\ Rem(SnapForward(l, v), l.totalShards) = Rem(l.shardID, l.totalShards)
<1> DEFINE n == l.totalShards
           r == Rem(v, n)
           q == Quot(v, n)
           t == Rem(l.shardID, n)
           w == SnapForward(l, v)
<1>1. n \in Nat \ {0} /\ l.shardID \in Nat
  BY DEF IsLayout
<1>2. r \in 0..(n - 1) /\ q \in Nat /\ v = n * q + r
  BY <1>1, Division
<1>3. t \in 0..(n - 1)
  BY <1>1, Division
<1>4. Rem(r + n, n) = r
  <2> HIDE DEF n, r
  <2>1. r + n \in Nat /\ r + n = n * 1 + r
    BY <1>1, <1>2
  <2>2. /\ Quot(r + n, n) \in Nat /\ Rem(r + n, n) \in 0..(n - 1)
        /\ r + n = n * Quot(r + n, n) + Rem(r + n, n)
    BY <1>1, <2>1, Division
  <2> QED
    BY <1>1, <1>2, <2>1, <2>2, DivisionUnique
<1>5. w = IF r = t THEN v ELSE Wrap(v + (IF t - r < 0 THEN t - r + n ELSE t - r))
  BY <1>4 DEF SnapForward
<1> HIDE DEF n, r, q, t, w
<1>6. v + n <= MaxInt64
  BY DEF n
<1>7. \E k \in {q, q + 1} : w = n * k + t /\ w \in v .. (v + n - 1)
  <2>1. CASE r = t
    BY <1>1, <1>2, <1>3, <1>5, <2>1
  <2>2. CASE r < t
    <3>1. w = v + (t - r)
      BY <1>1, <1>2, <1>3, <1>5, <1>6, <2>2, WrapIsIdentity
    <3>2. n * q \in Nat
      BY <1>1, <1>2
    <3>3. w = n * q + t
      BY <1>1, <1>2, <1>3, <3>1, <3>2
    <3>4. w \in v .. (v + n - 1)
      BY <1>1, <1>2, <1>3, <2>2, <3>1, <3>2
    <3> QED
      BY <3>3, <3>4
  <2>3. CASE t < r
    <3>1. w = v + (t - r + n)
      BY <1>1, <1>2, <1>3, <1>5, <1>6, <2>3, WrapIsIdentity
    <3>2. n * q \in Nat /\ n * (q + 1) = n * q + n
      BY <1>1, <1>2
    <3>3. w = n * (q + 1) + t
      BY <1>1, <1>2, <1>3, <3>1, <3>2
    <3>4. w \in v .. (v + n - 1)
      BY <1>1, <1>2, <1>3, <2>3, <3>1, <3>2
    <3> QED
      BY <3>3, <3>4
  <2> QED
    BY <1>1, <1>2, <1>3, <2>1, <2>2, <2>3
<1>8. Rem(w, n) = t
  <2>1. PICK k \in {q, q + 1} : w = n * k + t
    BY <1>7
  <2>2. w \in Nat /\ k \in Nat
    BY <1>1, <1>2, <1>7, <2>1
  <2>3. /\ Quot(w, n) \in Nat /\ Rem(w, n) \in 0..(n - 1)
        /\ w = n * Quot(w, n) + Rem(w, n)
    BY <1>1, <2>2, Division
  <2>4. ASSUME NEW a \in Nat, NEW b \in Nat, NEW c \in 0..(n - 1), n * a + t = n * b + c
        PROVE  c = t
    BY <1>1, <1>3, <2>4, DivisionUnique
  <2> QED
    BY <2>1, <2>2, <2>3, <2>4
<1>9. w \in v .. (v + n - 1)
  BY <1>7
<1> QED
  BY <1>8, <1>9 DEF w, n, t

--------------------------------------------------------------------------------
(* The window near the end of the type. *)

\* A cluster has two shards or more, so the iterations of long end in the lower
\* half of int64; a shard's ID is an int64, too.
ManyShards == \A n \in Clusters : n \in 2..MaxInt64

\* A batch and two segments fit into the upper half.  MaxBatchSize (handlers.go:19)
\* and segments of any size that an operator would configure are far below it.
RoomAboveTypes == \A k \in BatchSizes : 2 * (k + 2 * SegmentSize + 1) <= MaxInt64 + 1

\* The farthest a window reaches: a refill starts with at most a segment left.
End == MaxIter + 1 + 2 * SegmentSize

LayoutInv == IsLayout(layout) /\ layout.totalShards >= 2

\* The window ends at the mark, all that was issued lies below it and below the
\* cursor, and a call that goes on stays within the type.
EdgeInv ==
  /\ LayoutInv
  /\ mark \in 0..End /\ want \in Nat
  /\ reissued = {}
  /\ \A i \in issued : i \in 0..MaxIter /\ i < mark
  /\ loaded => /\ cursor \in 0..reservedEnd /\ reservedEnd = mark
               /\ \A i \in issued : i < cursor
  /\ want > 0 => loaded /\ want \in BatchSizes /\ cursor + want - 1 <= MaxIter

\* No sum of the allocator passes the top of int64.
LEMMA RoomFacts ==
  ASSUME ManyShards, RoomAboveTypes, LayoutInv
  PROVE  /\ MaxIter \in Nat /\ End \in Nat /\ End = MaxIter + 1 + 2 * SegmentSize
         /\ \A k \in BatchSizes : k \in Nat \ {0} /\ End + k <= MaxInt64
<1> DEFINE q == MaxIter
           n == layout.totalShards
           s == layout.shardID
<1>1. n \in Nat /\ s \in Nat \ {0} /\ n >= 2 /\ s <= MaxInt64
  BY DEF LayoutInv, IsLayout
<1>2. q \in Nat
  <2>1. MaxInt64 - s \in Nat /\ n \in Nat \ {0}
    BY <1>1
  <2>2. Quot(MaxInt64 - s, n) \in Nat
    BY <2>1, Division
  <2>3. ~(MaxInt64 < s)
    BY <1>1
  <2> QED
    BY <2>2, <2>3 DEF MaxIter, MaxIterOf
<1>3. s + q * n <= MaxInt64
  <2>1. q <= MaxIterOf(layout, MaxInt64)
    BY <1>2 DEF MaxIter
  <2> QED
    BY <1>2, <2>1, MaxIterIsLast DEF LayoutInv
<1> HIDE DEF q, n, s
<1>4. 2 * q <= MaxInt64 - 1
  <2>1. q * n = 2 * q + q * (n - 2) /\ q * (n - 2) >= 0 /\ q * n \in Nat
    BY <1>1, <1>2
  <2> QED
    BY <1>1, <1>2, <1>3, <2>1
<1>5. ASSUME NEW k \in BatchSizes
      PROVE  k \in Nat \ {0} /\ q + 1 + 2 * SegmentSize + k <= MaxInt64
  <2>1. 2 * (k + 2 * SegmentSize + 1) <= MaxInt64 + 1
    BY DEF RoomAboveTypes
  <2> QED
    BY <1>2, <1>4, <2>1
<1> QED
  BY <1>2, <1>5 DEF q, End

\* What ReserveInline adds: the shortfall, rounded up to whole segments.
LEMMA GrowCovers ==
  ASSUME NEW short \in Nat \ {0}, short + SegmentSize <= MaxInt64
  PROVE  /\ Grow(short) \in Nat
         /\ short <= Grow(short) /\ Grow(short) <= short + SegmentSize - 1
<1> DEFINE a == short + SegmentSize - 1
           q == Quot(a, SegmentSize)
<1>1. Wrap(short + SegmentSize) = short + SegmentSize
  BY WrapIsIdentity
<1>2. a \in Nat /\ Wrap(a) = a
  BY WrapIsIdentity
<1>3. q \in Nat /\ Rem(a, SegmentSize) \in 0..(SegmentSize - 1)
      /\ a = SegmentSize * q + Rem(a, SegmentSize)
  BY <1>2, Division
<1>4. Grow(short) = Wrap(q * SegmentSize)
  BY <1>1, <1>2 DEF Grow
<1> HIDE DEF q
<1>5. q * SegmentSize = SegmentSize * q /\ SegmentSize * q \in Nat
  BY <1>3
<1>6. short <= q * SegmentSize /\ q * SegmentSize <= a
  BY <1>3, <1>5
<1>7. Wrap(q * SegmentSize) = q * SegmentSize
  BY <1>2, <1>5, <1>6, WrapIsIdentity
<1> QED
  BY <1>4, <1>5, <1>6, <1>7

\* The rest of a window that lies in int64.
LEMMA RemainingIsRest ==
  ASSUME NEW end \in 0..MaxInt64, NEW c \in 0..end
  PROVE  Remaining(end, c) = end - c
BY WrapIsIdentity DEF Remaining

LEMMA EdgeInit ==
  ASSUME ManyShards, RoomAboveTypes, Init
  PROVE  EdgeInv
<1>1. LayoutInv
  BY DEF Init, ManyShards, LayoutInv, IsLayout
<1>2. mark \in Nat /\ mark <= MaxIter
  BY DEF Init
<1>3. mark \in 0..End
  BY <1>1, <1>2, RoomFacts
<1> QED
  BY <1>1, <1>3 DEF Init, EdgeInv

LEMMA EdgeStep ==
  ASSUME ManyShards, RoomAboveTypes, EdgeInv, [Next]_edgeVars
  PROVE  EdgeInv'
<1>1. layout' = layout /\ LayoutInv /\ LayoutInv' /\ MaxIter' = MaxIter /\ End' = End
  BY DEF EdgeInv, LayoutInv, MaxIter, End, Next, Call, ReserveInline, TakeBlock, Restart, edgeVars
<1>2. PICK top \in Nat : top = MaxIter
  BY <1>1, RoomFacts
<1>3. PICK e \in Nat : e = End /\ e = top + 1 + 2 * SegmentSize
  BY <1>1, <1>2, RoomFacts
<1>4. \A k \in BatchSizes : k \in Nat \ {0} /\ e + k <= MaxInt64
  BY <1>1, <1>3, RoomFacts
<1>5. CASE Call
  <2>1. PICK n \in BatchSizes : want' = IF Exhausted(cursor', n) THEN 0 ELSE n
    BY <1>5 DEF Call
  <2>2. PICK m \in 0..e : m = mark
    BY <1>3 DEF EdgeInv
  <2>3. PICK c \in 0..m : c = IF loaded THEN cursor ELSE mark
    BY <2>2 DEF EdgeInv
  <2>4. \A i \in issued : i < c
    BY <2>2, <2>3 DEF EdgeInv
  <2>5. cursor' = c /\ reservedEnd' = m /\ mark' = m /\ loaded' = TRUE
        /\ issued' = issued /\ reissued' = reissued
    BY <1>5, <2>2, <2>3 DEF Call, EdgeInv
  <2>6. Exhausted(c, n) <=> c + n - 1 > top
    <3>1. c + n \in 0..MaxInt64 /\ c + n - 1 \in 0..MaxInt64
      BY <1>4, <2>2
    <3>2. Wrap(c + n) = c + n /\ Wrap(c + n - 1) = c + n - 1
      BY <3>1, WrapIsIdentity
    <3>3. Wrap(Wrap(c + n) - 1) = c + n - 1
      BY <3>2
    <3> QED
      BY <1>2, <3>3 DEF Exhausted
  <2>7. n \in Nat \ {0} /\ (want' = n => c + n - 1 <= top) /\ want' \in {0, n}
    BY <1>4, <2>1, <2>2, <2>3, <2>5, <2>6
  <2>8. \A i \in issued : i \in 0..MaxIter /\ i < m
    BY <2>2 DEF EdgeInv
  <2>9. want' \in Nat /\ (want' > 0 => want' = n) /\ reissued = {}
    BY <2>7 DEF EdgeInv
  <2> QED
    BY <1>1, <1>2, <1>3, <2>2, <2>3, <2>4, <2>5, <2>7, <2>8, <2>9 DEF EdgeInv
<1>6. CASE ReserveInline
  <2>1. PICK m \in 0..e, c \in Nat, n \in BatchSizes :
          /\ m = mark /\ m = reservedEnd /\ c = cursor /\ c <= m
          /\ n = want /\ c + n - 1 <= top /\ loaded
    BY <1>2, <1>3, <1>6 DEF EdgeInv, ReserveInline
  <2>2. n \in Nat \ {0} /\ e + n <= MaxInt64 /\ m <= MaxInt64
    BY <1>4, <2>1
  <2>3. Remaining(m, c) = m - c
    BY <2>1, <2>2, RemainingIsRest
  <2>4. m - c < n
    BY <1>6, <2>1, <2>3 DEF ReserveInline
  <2>5. PICK short \in Nat \ {0} : short = n - (m - c)
    BY <2>1, <2>2, <2>4
  <2>6. Wrap(want - Remaining(reservedEnd, cursor)) = short
    BY <2>1, <2>2, <2>3, <2>5, WrapIsIdentity
  <2>7. short + SegmentSize <= MaxInt64
    BY <1>3, <2>1, <2>2, <2>5
  <2>8. PICK g \in Nat : g = Grow(short) /\ short <= g /\ g <= short + SegmentSize - 1
    BY <2>7, GrowCovers
  <2>9. m + g <= e /\ m + g <= MaxInt64 /\ m < m + g /\ c <= m + g
    BY <1>3, <2>1, <2>2, <2>5, <2>8
  <2>10. Wrap(m + g) = m + g
    BY <2>1, <2>8, <2>9, WrapIsIdentity
  <2>11. mark' = m + g /\ reservedEnd' = m + g
    <3>1. Wrap(reservedEnd + Grow(Wrap(want - Remaining(reservedEnd, cursor)))) = m + g
      BY <2>1, <2>6, <2>8, <2>10
    <3> QED
      BY <1>6, <2>1, <2>8, <2>9, <3>1 DEF ReserveInline, RaiseTo
  <2>12. UNCHANGED <<loaded, cursor, want, issued, reissued>>
    BY <1>6 DEF ReserveInline
  <2>13. \A i \in issued : i \in 0..MaxIter /\ i < c
    BY <2>1 DEF EdgeInv
  <2>14. \A i \in issued : i < m + g
    BY <1>2, <2>1, <2>8, <2>9, <2>13
  <2>15. m + g \in 0..e /\ c \in 0..(m + g)
    BY <2>1, <2>8, <2>9
  <2>16. reissued = {} /\ want \in Nat /\ cursor + want - 1 <= MaxIter
    BY <2>1, <1>2 DEF EdgeInv
  <2> QED
    BY <1>1, <1>2, <1>3, <2>1, <2>11, <2>12, <2>13, <2>14, <2>15, <2>16 DEF EdgeInv
<1>7. CASE TakeBlock
  <2>1. PICK m \in 0..e, c \in Nat, n \in BatchSizes :
          /\ m = mark /\ m = reservedEnd /\ c = cursor /\ c <= m
          /\ n = want /\ c + n - 1 <= top /\ loaded
    BY <1>2, <1>3, <1>7 DEF EdgeInv, TakeBlock
  <2>2. n \in Nat \ {0} /\ e + n <= MaxInt64 /\ m <= MaxInt64
    BY <1>4, <2>1
  <2>3. m - c >= n
    <3>1. Remaining(m, c) = m - c
      BY <2>1, <2>2, RemainingIsRest
    <3> QED
      BY <1>7, <2>1, <3>1 DEF TakeBlock
  <2>4. \A k \in 0..(n - 1) : Wrap(c + k) = c + k
    BY <2>1, <2>2, WrapIsIdentity
  <2>5. Wrap(c + n) = c + n
    BY <2>1, <2>2, WrapIsIdentity
  <2>6. PICK block : block = {Wrap(cursor + k) : k \in 0..(want - 1)}
    OBVIOUS
  <2>7. issued' = issued \cup block /\ reissued' = reissued \cup (issued \cap block)
        /\ cursor' = c + n /\ want' = 0 /\ loaded' = loaded
    BY <1>7, <2>1, <2>5, <2>6 DEF TakeBlock
  <2>8. \A i \in block : i \in c..(c + n - 1)
    BY <2>1, <2>2, <2>4, <2>6
  <2>9. \A i \in issued : i \in 0..top /\ i < c
    BY <1>2, <2>1 DEF EdgeInv
  <2>10. issued \cap block = {}
    <3>1. \A i \in 0..top : ~(i < c /\ i \in c..(c + n - 1))
      BY <2>1
    <3> QED
      BY <2>8, <2>9, <3>1
  <2>11. \A i \in issued' : i \in 0..top /\ i < c + n
    <3>1. \A i \in c..(c + n - 1) : i \in 0..top /\ i < c + n
      BY <2>1, <2>2
    <3>2. \A i \in 0..top : i < c => i < c + n
      BY <2>1, <2>2
    <3> QED
      BY <2>7, <2>8, <2>9, <3>1, <3>2
  <2>12. c + n <= m /\ c + n \in Nat /\ Remaining(m, c + n) = m - (c + n)
    <3>1. c + n <= m /\ c + n \in Nat
      BY <2>1, <2>2, <2>3
    <3> QED
      BY <2>1, <2>2, <3>1, RemainingIsRest
  <2>13. \E f \in 0..e : mark' = f /\ reservedEnd' = f /\ m <= f
    <3>1. CASE Remaining(reservedEnd, cursor') > Threshold
      BY <1>7, <2>1, <3>1 DEF TakeBlock
    <3>2. CASE ~(Remaining(reservedEnd, cursor') > Threshold)
      <4>1. m - (c + n) <= Threshold
        BY <2>1, <2>7, <2>12, <3>2
      <4>2. m + SegmentSize <= e /\ m + SegmentSize \in Nat /\ m < m + SegmentSize
        BY <1>3, <2>1, <2>12, <4>1
      <4>3. Wrap(reservedEnd + SegmentSize) = m + SegmentSize
        BY <2>1, <2>2, <4>2, WrapIsIdentity
      <4>4. mark' = m + SegmentSize /\ reservedEnd' = m + SegmentSize
        BY <1>7, <2>1, <3>2, <4>2, <4>3 DEF TakeBlock, RaiseTo
      <4> QED
        BY <2>1, <4>2, <4>4
    <3> QED
      BY <3>1, <3>2
  <2>14. PICK f \in 0..e : mark' = f /\ reservedEnd' = f /\ m <= f
    BY <2>13
  <2>15. c + n \in 0..f /\ \A i \in issued' : i < f
    <3>1. \A i \in 0..top : i < c + n => i < f
      BY <2>1, <2>12, <2>14
    <3> QED
      BY <2>11, <2>12, <2>14, <3>1
  <2>16. reissued' = {}
    BY <2>7, <2>10 DEF EdgeInv
  <2> QED
    BY <1>1, <1>2, <1>3, <2>7, <2>11, <2>14, <2>15, <2>16 DEF EdgeInv
<1>8. CASE Restart
  BY <1>1, <1>8 DEF Restart, EdgeInv
<1>9. CASE UNCHANGED edgeVars
  BY <1>1, <1>9 DEF edgeVars, EdgeInv
<1> QED
  BY <1>5, <1>6, <1>7, <1>8, <1>9 DEF Next

\* With two or more shards no iteration is handed out twice at the end of the type,
\* whatever the width, the segment and the batches: the sums of Next and of the
\* refill stay within int64 (allocator.go:84-150, README.md:601).
THEOREM EdgeNeverReissues ==
  ASSUME ManyShards, RoomAboveTypes
  PROVE  Spec => []NoReissueAtEdge
<1>1. EdgeInv => NoReissueAtEdge
  BY DEF EdgeInv, NoReissueAtEdge
<1> QED
  BY <1>1, EdgeInit, EdgeStep, PTL DEF Spec

\* Next refuses before the first value that the type cannot hold; what it hands out
\* is a value of this shard, computed without a wrap (allocator.go:84-86).
THEOREM EdgeStaysInType ==
  ASSUME ManyShards, RoomAboveTypes
  PROVE  Spec => []WithinTypeAtEdge
<1>1. EdgeInv => WithinTypeAtEdge
  <2> SUFFICES ASSUME EdgeInv, NEW i \in issued
               PROVE  i \in 0..MaxIter /\ Value(layout, i) \in 1..MaxInt64
    BY DEF WithinTypeAtEdge
  <2>1. i \in 0..MaxIter /\ LayoutInv
    BY DEF EdgeInv
  <2>2. i \in Nat /\ i <= MaxIterOf(layout, MaxInt64)
    BY <2>1, RoomFacts DEF MaxIter
  <2>3. layout.shardID + i * layout.totalShards <= MaxInt64
    BY <2>1, <2>2, MaxIterIsLast DEF LayoutInv
  <2>4. /\ Value(layout, i) = layout.shardID + i * layout.totalShards
        /\ i * layout.totalShards \in Nat
    BY <2>1, <2>2, <2>3, ValueInRange DEF InRange, LayoutInv
  <2>5. layout.shardID \in Nat \ {0}
    BY <2>1 DEF LayoutInv, IsLayout
  <2> QED
    BY <2>1, <2>3, <2>4, <2>5
<1> QED
  BY <1>1, EdgeInit, EdgeStep, PTL DEF Spec

--------------------------------------------------------------------------------
(* Start and reset values. *)

\* A sum of two int64 beyond the top becomes a negative number.
LEMMA WrapsBelow ==
  ASSUME NEW x \in Nat, MaxInt64 < x, x <= 2 * MaxInt64
  PROVE  Wrap(x) \in Int /\ Wrap(x) < 0
<1> DEFINE span == 2 * (MaxInt64 + 1)
           a == x + MaxInt64 + 1
           r == x - MaxInt64 - 1
<1>1. a \in Nat /\ span \in Nat \ {0} /\ r \in 0..(span - 1) /\ a = span * 1 + r
  OBVIOUS
<1>2. /\ Quot(a, span) \in Nat /\ Rem(a, span) \in 0..(span - 1) /\ Rem(a, span) = a % span
      /\ a = span * Quot(a, span) + Rem(a, span)
  <2> HIDE DEF a, span
  <2> QED
    BY <1>1, Division
<1>3. a % span = r
  <2> HIDE DEF a, span, r
  <2> QED
    BY <1>1, <1>2, DivisionUnique
<1>4. Wrap(x) = (a % span) - (MaxInt64 + 1)
  BY DEF Wrap
<1>5. Wrap(x) = r - (MaxInt64 + 1)
  BY <1>3, <1>4
<1> QED
  BY <1>5

\* SnapForward looks for the least value that the shard owns at or above v, and
\* wraps only if that lies beyond the top of int64.
LEMMA SnapTarget ==
  ASSUME NEW l, IsLayout(l), NEW v \in 1..MaxInt64
  PROVE  \E i \in Nat : /\ v <= l.shardID + i * l.totalShards
                        /\ l.shardID + i * l.totalShards < v + l.totalShards
                        /\ SnapForward(l, v) = Wrap(l.shardID + i * l.totalShards)
<1> DEFINE n == l.totalShards
           s == l.shardID
           r == Rem(v, n)
           q == Quot(v, n)
           t == Rem(s, n)
           w == SnapForward(l, v)
<1>1. n \in Nat \ {0} /\ s \in Nat \ {0} /\ s <= n /\ v \in Nat /\ v <= MaxInt64
  BY DEF IsLayout
<1>2. r \in 0..(n - 1) /\ q \in Nat /\ v = n * q + r
  BY <1>1, Division
<1>3. t \in 0..(n - 1) /\ Quot(s, n) \in Nat /\ s = n * Quot(s, n) + t
  BY <1>1, Division
<1>4. Rem(r + n, n) = r
  <2> HIDE DEF n, r
  <2>1. r + n \in Nat /\ r + n = n * 1 + r
    BY <1>1, <1>2
  <2>2. /\ Quot(r + n, n) \in Nat /\ Rem(r + n, n) \in 0..(n - 1)
        /\ r + n = n * Quot(r + n, n) + Rem(r + n, n)
    BY <1>1, <2>1, Division
  <2> QED
    BY <1>1, <1>2, <2>1, <2>2, DivisionUnique
<1>5. w = IF r = t THEN v ELSE Wrap(v + (IF t - r < 0 THEN t - r + n ELSE t - r))
  BY <1>4 DEF SnapForward
<1>6. v = Wrap(v)
  BY <1>1, WrapIsIdentity
<1> HIDE DEF n, s, r, q, t, w
<1>7. (s < n /\ t = s) \/ (s = n /\ t = 0)
  <2>1. CASE s < n
    <3>1. s \in 0..(n - 1) /\ s = n * 0 + s
      BY <1>1, <2>1
    <3> QED
      BY <1>1, <1>3, <2>1, <3>1, DivisionUnique
  <2>2. CASE s = n
    <3>1. 0 \in 0..(n - 1) /\ s = n * 1 + 0
      BY <1>1, <2>2
    <3> QED
      BY <1>1, <1>3, <2>2, <3>1, DivisionUnique
  <2> QED
    BY <1>1, <2>1, <2>2
<1>8. PICK k \in Nat : w = Wrap(n * k + t) /\ v <= n * k + t /\ n * k + t < v + n
  <2>1. CASE r = t
    BY <1>1, <1>2, <1>5, <1>6, <2>1
  <2>2. CASE r < t
    <3>1. w = Wrap(v + (t - r))
      BY <1>2, <1>3, <1>5, <2>2
    <3>2. n * q \in Nat
      BY <1>1, <1>2
    <3>3. v + (t - r) = n * q + t /\ v <= n * q + t /\ n * q + t < v + n
      BY <1>1, <1>2, <1>3, <2>2, <3>2
    <3> QED
      BY <1>2, <3>1, <3>3
  <2>3. CASE t < r
    <3>1. w = Wrap(v + (t - r + n))
      BY <1>2, <1>3, <1>5, <2>3
    <3>2. n * q \in Nat /\ n * (q + 1) = n * q + n /\ q + 1 \in Nat
      BY <1>1, <1>2
    <3>3. /\ v + (t - r + n) = n * (q + 1) + t
          /\ v <= n * (q + 1) + t /\ n * (q + 1) + t < v + n
      BY <1>1, <1>2, <1>3, <2>3, <3>2
    <3> QED
      BY <3>1, <3>2, <3>3
  <2> QED
    BY <1>2, <1>3, <2>1, <2>2, <2>3
<1>9. \E i \in Nat : n * k + t = s + i * n
  <2>1. CASE t = s
    BY <1>1, <2>1
  <2>2. CASE s = n /\ t = 0
    <3>1. k >= 1
      <4>1. CASE k = 0
        <5>1. n * k + t = 0
          BY <1>1, <2>2, <4>1
        <5> QED
          BY <1>1, <1>8, <5>1
      <4> QED
        BY <4>1
    <3>2. n * k = n + (k - 1) * n /\ k - 1 \in Nat
      BY <1>1, <3>1
    <3> QED
      BY <1>1, <2>2, <3>2
  <2> QED
    BY <1>7, <2>1, <2>2
<1>10. \E i \in Nat : v <= s + i * n /\ s + i * n < v + n /\ w = Wrap(s + i * n)
  BY <1>8, <1>9
<1> QED
  BY <1>10 DEF n, s, w

\* parseCounterValue's two comparisons: what is accepted, and what it becomes.
LEMMA AcceptedIsOwned ==
  ASSUME NEW l, IsLayout(l), NEW max \in 0..MaxInt64, NEW v \in 1..MaxInt64
  PROVE  /\ Accepted(l, max, v) =>
              \E i \in Nat : /\ SnapForward(l, v) = l.shardID + i * l.totalShards
                            /\ v <= SnapForward(l, v) /\ SnapForward(l, v) <= max
         /\ \A j \in Nat :
              v <= l.shardID + j * l.totalShards /\ l.shardID + j * l.totalShards <= max =>
                /\ Accepted(l, max, v)
                /\ SnapForward(l, v) <= l.shardID + j * l.totalShards
<1> DEFINE n == l.totalShards
           s == l.shardID
           w == SnapForward(l, v)
<1>1. n \in Nat \ {0} /\ s \in Nat \ {0} /\ n <= MaxInt64
  BY DEF IsLayout
<1>2. PICK i \in Nat : v <= s + i * n /\ s + i * n < v + n /\ w = Wrap(s + i * n)
  BY SnapTarget
<1> HIDE DEF n, s, w
<1>3. PICK a \in Nat : a = s + i * n
  BY <1>1
<1>4. v <= a /\ a < v + n /\ w = Wrap(a) /\ a <= 2 * MaxInt64
  BY <1>1, <1>2, <1>3
<1>5. a <= MaxInt64 => w = a
  BY <1>4, WrapIsIdentity
<1>6. MaxInt64 < a => w < v
  BY <1>4, WrapsBelow
<1>7. ASSUME Accepted(l, max, v)
      PROVE  w = s + i * n /\ v <= w /\ w <= max
  <2>1. w >= v /\ w <= max
    BY <1>7 DEF Accepted, w
  <2>2. a <= MaxInt64
    <3>1. CASE MaxInt64 < a
      <4>1. Wrap(a) \in Int /\ Wrap(a) < 0
        BY <1>4, <3>1, WrapsBelow
      <4> QED
        BY <1>4, <2>1, <4>1
    <3> QED
      BY <3>1
  <2> QED
    BY <1>3, <1>4, <1>5, <2>1, <2>2
<1>8. ASSUME NEW j \in Nat, v <= s + j * n, s + j * n <= max
      PROVE  Accepted(l, max, v) /\ w <= s + j * n
  <2>1. PICK u \in Nat : u = s + j * n /\ v <= u /\ u <= max
    BY <1>1, <1>8
  <2>2. a <= u
    <3>1. CASE j < i
      <4>1. i * n = j * n + (i - j) * n /\ (i - j) * n >= n /\ j * n \in Nat
        BY <1>1, <3>1
      <4>2. u + n <= a
        BY <1>1, <1>3, <2>1, <4>1
      <4> QED
        BY <1>1, <1>4, <2>1, <4>2
    <3>2. CASE i <= j
      <4>1. j * n = i * n + (j - i) * n /\ (j - i) * n >= 0 /\ i * n \in Nat
        BY <1>1, <3>2
      <4> QED
        BY <1>1, <1>3, <2>1, <4>1
    <3> QED
      BY <3>1, <3>2
  <2>3. w = a /\ a <= max
    BY <1>5, <2>1, <2>2
  <2>4. w >= v /\ w <= max /\ v \in 1..max
    BY <1>4, <2>3
  <2> QED
    BY <2>1, <2>2, <2>3, <2>4 DEF Accepted, w
<1> QED
  BY <1>7, <1>8 DEF n, s, w

--------------------------------------------------------------------------------
(* The layouts of a behaviour. *)

\* A shard's ID and the cluster's size are int64 (config.go:71-79).
ClustersFit == \A n \in Clusters : n <= MaxInt64

LayoutChosen ==
  /\ IsLayout(layout)
  /\ layout = [shardID |-> layout.shardID, totalShards |-> layout.totalShards]

\* The layout is one that config.validate accepts, and never changes.
LEMMA LayoutStays ==
  ASSUME ClustersFit
  PROVE  Spec => []LayoutChosen
<1>1. Init => LayoutChosen
  BY DEF Init, ClustersFit, LayoutChosen, IsLayout
<1>2. LayoutChosen /\ [Next]_edgeVars => LayoutChosen'
  <2> SUFFICES ASSUME LayoutChosen, [Next]_edgeVars PROVE LayoutChosen'
    OBVIOUS
  <2>1. layout' = layout
    BY DEF Next, Call, ReserveInline, TakeBlock, Restart, edgeVars
  <2> QED
    BY <2>1 DEF LayoutChosen
<1> QED
  BY <1>1, <1>2, PTL DEF Spec

LEMMA MaximaFit == TypeMaxima \subseteq 0..MaxInt64
BY DEF TypeMaxima

\* What a shard owns, up to max, as its iterations.
LEMMA OwnedByIteration ==
  ASSUME NEW l, IsLayout(l), NEW max \in 0..MaxInt64, NEW w
  PROVE  w \in Owned(l, max) <=>
           \E i \in Nat : w = l.shardID + i * l.totalShards /\ w <= max
<1> DEFINE n == l.totalShards
           s == l.shardID
<1>1. n \in Nat \ {0} /\ s \in Nat \ {0}
  BY DEF IsLayout
<1>2. ASSUME NEW i \in Nat, w = s + i * n, w <= max
      PROVE  w \in 1..max /\ i \in 0..max
  <2>1. i * n = i + i * (n - 1) /\ i * (n - 1) >= 0
    BY <1>1
  <2> HIDE DEF n, s
  <2> QED
    BY <1>1, <1>2, <2>1
<1>3. w \in Owned(l, max) <=> \E i \in Nat : w = s + i * n /\ w <= max
  BY <1>2 DEF Owned
<1> QED
  BY <1>3

\* MaxIter is -1 or an iteration.
LEMMA MaxIterIsInt ==
  ASSUME NEW l, IsLayout(l), NEW max \in 0..MaxInt64
  PROVE  MaxIterOf(l, max) \in Int
<1>1. l.shardID \in Nat /\ l.totalShards \in Nat \ {0}
  BY DEF IsLayout
<1>2. CASE max < l.shardID
  BY <1>2 DEF MaxIterOf
<1>3. CASE ~(max < l.shardID)
  <2>1. max - l.shardID \in Nat
    BY <1>1, <1>3
  <2>2. Quot(max - l.shardID, l.totalShards) \in Nat
    BY <1>1, <2>1, Division
  <2> QED
    BY <1>3, <2>2 DEF MaxIterOf
<1> QED
  BY <1>2, <1>3

\* The iterations up to MaxIter are exactly those whose values the shard owns.
LEMMA IterationsGiveOwned ==
  ASSUME NEW l, IsLayout(l), NEW max \in 0..MaxInt64
  PROVE  {Value(l, i) : i \in 0..MaxIterOf(l, max)} = Owned(l, max)
<1>1. ASSUME NEW i \in 0..MaxIterOf(l, max)
      PROVE  Value(l, i) \in Owned(l, max)
  <2>1. i \in Nat /\ i <= MaxIterOf(l, max)
    BY <1>1
  <2>2. l.shardID + i * l.totalShards <= max
    BY <2>1, MaxIterIsLast
  <2>3. InRange(l, i, MaxInt64)
    BY <2>1, <2>2 DEF InRange, IsLayout
  <2>4. Value(l, i) = l.shardID + i * l.totalShards
    BY <2>3, ValueInRange
  <2> QED
    BY <2>1, <2>2, <2>4, OwnedByIteration
<1>2. ASSUME NEW w \in Owned(l, max)
      PROVE  \E i \in 0..MaxIterOf(l, max) : w = Value(l, i)
  <2>1. PICK i \in Nat : w = l.shardID + i * l.totalShards /\ w <= max
    BY <1>2, OwnedByIteration
  <2>2. i <= MaxIterOf(l, max)
    BY <2>1, MaxIterIsLast
  <2>3. InRange(l, i, MaxInt64)
    BY <2>1 DEF InRange, IsLayout
  <2>4. w = Value(l, i)
    BY <2>1, <2>3, ValueInRange
  <2>5. MaxIterOf(l, max) \in Int
    BY MaxIterIsInt
  <2> QED
    BY <2>2, <2>4, <2>5
<1> QED
  BY <1>1, <1>2

\* The iterations up to MaxIter give exactly the values the shard owns, for every
\* layout: none is lost at the end of a type, and none wraps (shardmath.go:45).
THEOREM IterationsAreOwned ==
  ASSUME ClustersFit
  PROVE  Spec => []IterationsCoverOwned
<1>1. LayoutChosen => IterationsCoverOwned
  BY MaximaFit, IterationsGiveOwned DEF LayoutChosen, IterationsCoverOwned
<1> QED
  BY <1>1, LayoutStays, PTL

\* Two shards of a cluster share no value, over all that int64 can hold
\* (shardmath.go:4-5).
THEOREM ClusterSharesNothing ==
  ASSUME ClustersFit
  PROVE  Spec => []ShardsDisjoint
<1>1. LayoutChosen => ShardsDisjoint
  <2> SUFFICES ASSUME LayoutChosen, NEW other \in Layouts(layout.totalShards),
                      other.totalShards = layout.totalShards, other # layout,
                      NEW i \in 0..MaxIterOf(layout, MaxInt64),
                      NEW j \in 0..MaxIterOf(other, MaxInt64)
               PROVE  Value(layout, i) # Value(other, j)
    BY DEF ShardsDisjoint
  <2>1. IsLayout(layout) /\ IsLayout(other)
    BY DEF LayoutChosen, IsLayout, Layouts
  <2>2. layout.shardID # other.shardID
    BY DEF LayoutChosen, Layouts
  <2>3. InRange(layout, i, MaxInt64) /\ InRange(other, j, MaxInt64)
    BY <2>1, MaxIterIsLast DEF InRange
  <2> QED
    BY <2>1, <2>2, <2>3, ShardsNeverCollide
<1> QED
  BY <1>1, LayoutStays, PTL

\* A value that parseCounterValue accepts goes to an iteration of the type and comes
\* back unchanged (handlers.go:128-145, shardmath.go:23).
THEOREM AcceptedIsKept ==
  ASSUME ClustersFit
  PROVE  Spec => []AcceptedComesBack
<1>1. LayoutChosen => AcceptedComesBack
  <2> SUFFICES ASSUME LayoutChosen, NEW max \in TypeMaxima, NEW v \in 1..MaxInt64,
                      Accepted(layout, max, v)
               PROVE  LET i == Iter(layout, SnapForward(layout, v))
                      IN  /\ i \in 0..MaxIterOf(layout, max)
                          /\ Value(layout, i) = SnapForward(layout, v)
    BY DEF AcceptedComesBack
  <2>1. IsLayout(layout) /\ max \in 0..MaxInt64
    BY MaximaFit DEF LayoutChosen
  <2>2. PICK i \in Nat : /\ SnapForward(layout, v) = layout.shardID + i * layout.totalShards
                         /\ SnapForward(layout, v) <= max
    BY <2>1, AcceptedIsOwned
  <2>3. i <= MaxIterOf(layout, max)
    BY <2>1, <2>2, MaxIterIsLast
  <2>4. InRange(layout, i, MaxInt64)
    BY <2>1, <2>2 DEF InRange, IsLayout
  <2>5. Value(layout, i) = SnapForward(layout, v)
    BY <2>1, <2>2, <2>4, ValueInRange
  <2>6. Iter(layout, SnapForward(layout, v)) = i
    BY <2>1, <2>4, <2>5, IterInvertsValue
  <2>7. MaxIterOf(layout, max) \in Int
    BY <2>1, MaxIterIsInt
  <2> QED
    BY <2>3, <2>5, <2>6, <2>7
<1> QED
  BY <1>1, LayoutStays, PTL

\* A start or reset value is accepted exactly when the shard owns a value at or above
\* it within the type, and becomes the least of these; a wrap at the top of int64 is
\* never taken for one (handlers.go:128-145, shardmath.go:28-43).
THEOREM SnapsToLeast ==
  ASSUME ClustersFit
  PROVE  Spec => []SnapsToLeastOwned
<1>1. LayoutChosen => SnapsToLeastOwned
  <2> SUFFICES ASSUME LayoutChosen, NEW max \in TypeMaxima, NEW v \in 1..MaxInt64
               PROVE  LET above == {w \in Owned(layout, max) : w >= v}
                      IN  /\ Accepted(layout, max, v) <=> v <= max /\ above # {}
                          /\ Accepted(layout, max, v)
                               => /\ SnapForward(layout, v) \in above
                                  /\ \A w \in above : SnapForward(layout, v) <= w
    BY DEF SnapsToLeastOwned
  <2> DEFINE above == {w \in Owned(layout, max) : w >= v}
  <2>1. IsLayout(layout) /\ max \in 0..MaxInt64
    BY MaximaFit DEF LayoutChosen
  <2>2. ASSUME Accepted(layout, max, v)
        PROVE  SnapForward(layout, v) \in above /\ v <= max
    <3>1. PICK i \in Nat : /\ SnapForward(layout, v) = layout.shardID + i * layout.totalShards
                           /\ v <= SnapForward(layout, v) /\ SnapForward(layout, v) <= max
      BY <2>1, <2>2, AcceptedIsOwned
    <3>2. SnapForward(layout, v) \in Owned(layout, max)
      BY <2>1, <3>1, OwnedByIteration
    <3>3. layout.shardID \in Nat /\ i * layout.totalShards \in Nat
      BY <2>1 DEF IsLayout
    <3>4. SnapForward(layout, v) >= v
      BY <3>1, <3>3
    <3>5. v \in 1..max
      BY <2>2 DEF Accepted
    <3> QED
      BY <2>1, <3>2, <3>4, <3>5
  <2>3. ASSUME NEW w \in above
        PROVE  Accepted(layout, max, v) /\ SnapForward(layout, v) <= w
    <3>1. PICK j \in Nat : w = layout.shardID + j * layout.totalShards /\ w <= max
      BY <2>1, <2>3, OwnedByIteration
    <3>2. layout.shardID \in Nat /\ j * layout.totalShards \in Nat
      BY <2>1 DEF IsLayout
    <3>3. v <= w
      BY <2>3, <3>1, <3>2
    <3> QED
      BY <2>1, <3>1, <3>3, AcceptedIsOwned
  <2> HIDE DEF above
  <2>4. Accepted(layout, max, v) <=> v <= max /\ above # {}
    BY <2>2, <2>3
  <2> QED
    BY <2>2, <2>3, <2>4 DEF above
<1> QED
  BY <1>1, LayoutStays, PTL
================================================================================
