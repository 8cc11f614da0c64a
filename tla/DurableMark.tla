------------------------------ MODULE DurableMark ------------------------------
(***************************************************************************)
(* The state file seen by ONE counter: an image is abstracted to one       *)
(* entity's Record.CurrentIteration (or to the Snowflake mark), and the    *)
(* flushes on behalf of everything else write that mark again.             *)
(***************************************************************************)
EXTENDS DurableFile, Integers

\* RaiseMark, RaiseSnowflakeMark: a lower mark is a no-op, not an error.
RaiseMarkOK(to) == IF to <= mem THEN UNCHANGED storeVars ELSE FlushOK(to)
RaiseMarkFails(to) == to > mem /\ FlushFails(to, "dirsync")

SetMarkOK(to) == FlushOK(to)
SetMarkFails(to) == FlushFails(to, "resetsync")

\* A flush for another entity or for the Snowflake lease writes this entity's
\* mark again, as memory has it.
FlushForOthers == FlushOK(mem) \/ FlushFails(mem, "dirsync")
================================================================================
