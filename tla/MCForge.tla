--------------------------------- MODULE MCForge --------------------------------
(* The forge and the bits of the IDs it returns, on a machine whose clock runs *)
(* from before the epoch to past the end of the timestamp field.               *)
EXTENDS Forge, SnowflakeBits

CONSTANT Epoch     \* Config.SnowflakeEpochMs

Elapsed(pair) == pair[1] - Epoch

\* Two IDs are the same number only if they are the same pair of the same shard: over
\* all shards of a cluster, before the epoch, and until the clock has run through the
\* timestamp field (forge.go:11) twice.
IDsTellApart ==
  \A a, b \in minted : \A s, t \in ShardIDs :
    Pack(Elapsed(a), s, a[2]) = Pack(Elapsed(b), t, b[2]) => a = b /\ s = t

\* While the time since the epoch fits its field, an ID is parsed to what it was made
\* of and a later pair is a greater number.
IDsReadBack ==
  \A a \in minted : Elapsed(a) < TimestampSpan =>
    /\ \A s \in ShardIDs :
         Parse(Pack(Elapsed(a), s, a[2])) = [elapsed |-> Elapsed(a), shardID |-> s, sequence |-> a[2]]
    /\ \A b \in minted : Later(a, b) =>
         \A s \in ShardIDs : Pack(Elapsed(a), s, a[2]) > Pack(Elapsed(b), s, b[2])
================================================================================
