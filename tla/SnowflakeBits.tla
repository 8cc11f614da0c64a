------------------------------ MODULE SnowflakeBits -----------------------------
(***************************************************************************)
(* The 64 bits of a Snowflake ID: milliseconds since the epoch, shard and  *)
(* sequence number, packed with shifts and ORs into a Go int64 and taken   *)
(* apart by Forge.Parse.  The fields do not overlap, so that the OR of     *)
(* them is their sum; a shift right of an int64 rounds down, as \div does. *)
(***************************************************************************)
EXTENDS Integers

CONSTANTS
  TimestampSpan,   \* 2^TimestampBits
  ShardSpan,       \* 2^ShardIDBits, maxShardID + 1
  SequenceSpan     \* 2^SequenceBits, maxSequence + 1

ASSUME SpansAssumption ==
  TimestampSpan \in Nat \ {0} /\ ShardSpan \in Nat \ {0} /\ SequenceSpan \in Nat \ {0}

\* 2^timestampShift
Low == ShardSpan * SequenceSpan

Int64 == INSTANCE ShardMath WITH MaxInt64 <- TimestampSpan * Low - 1

\* The shards New accepts; below, what it keeps of one.
ShardIDs == 1..ShardSpan

\* Mutated form of ShardField: the field is the number of the shard.
ShardFieldOneBased(shardID) == shardID

ShardField(shardID) == shardID - 1

\* elapsed is ts - epochMs.
Pack(elapsed, shardID, seq) ==
  Int64!Wrap(elapsed * Low + ShardField(shardID) * SequenceSpan + seq)

Parse(id) ==
  [elapsed |-> id \div Low,
   shardID |-> ((id \div SequenceSpan) % ShardSpan) + 1,
   sequence |-> id % SequenceSpan]
================================================================================
