------------------------------ MODULE MCWindowEdge -----------------------------
(***************************************************************************)
(* WindowEdge for TLC, and the shard arithmetic of the layouts it visits   *)
(* against reference definitions that use no modular arithmetic: a shard   *)
(* owns the values shardID, shardID + totalShards, ...  Layouts never      *)
(* change, so these are looked at in the initial states; every value of    *)
(* the small int64 and two type maxima are tried.                          *)
(***************************************************************************)
EXTENDS WindowEdge

AtStart == calls = 0 /\ restarts = 0

TypeMaxima == {MaxInt64 \div 2, MaxInt64}

\* What shard l owns, up to max.
Owned(l, max) ==
  {w \in 1..max : \E i \in 0..max : w = l.shardID + i * l.totalShards}

\* A start or reset value is accepted exactly when the shard owns one at or above
\* it, and it becomes the least of those (shardmath.go:28-30, handlers.go:126).
SnapsToLeastOwned ==
  AtStart => \A max \in TypeMaxima :
    LET owned == Owned(layout, max)
    IN  \A v \in 1..MaxInt64 :
          LET above == {w \in owned : w >= v}
          IN  /\ Accepted(layout, max, v) <=> v <= max /\ above # {}
              /\ Accepted(layout, max, v)
                   => /\ SnapForward(layout, v) \in above
                      /\ \A w \in above : SnapForward(layout, v) <= w

\* An accepted value goes to an iteration and comes back unchanged, and that
\* iteration is one the exhaustion check admits (shardmath.go:23).
AcceptedComesBack ==
  AtStart => \A max \in TypeMaxima, v \in 1..MaxInt64 :
    Accepted(layout, max, v) =>
      LET i == Iter(layout, SnapForward(layout, v))
      IN  i \in 0..MaxIterOf(layout, max) /\ Value(layout, i) = SnapForward(layout, v)

\* The iterations up to MaxIter give exactly the values the shard owns: none is
\* lost at the end of the type, and none wraps (shardmath.go:45).
IterationsCoverOwned ==
  AtStart => \A max \in TypeMaxima :
    {Value(layout, i) : i \in 0..MaxIterOf(layout, max)} = Owned(layout, max)

\* Two shards of a cluster never give the same value (shardmath.go:4-5).
ShardsDisjoint ==
  AtStart => \A other \in Layouts(layout.totalShards) :
    other.totalShards = layout.totalShards /\ other # layout =>
      {Value(layout, i) : i \in 0..MaxIterOf(layout, MaxInt64)}
        \cap {Value(other, i) : i \in 0..MaxIterOf(other, MaxInt64)} = {}
================================================================================
