------------------------------- MODULE DurableFile -----------------------------
(***************************************************************************)
(* The state file as Store.flush of internal/state treats it, whatever it  *)
(* holds: the content in the Store's memory, the image the path names, and *)
(* the images a power loss may leave under the path.                       *)
(*                                                                         *)
(* flush writes the whole content: temporary file, fsync, rename over the  *)
(* path, fsync of the directory.  The new content is on disk before the    *)
(* rename, so the path always names one complete image; which one survives *)
(* a power loss is open until the directory is synced.  Store.mu is held   *)
(* for a whole operation, so an operation is one step of its caller,       *)
(* except that a crash may fall inside it (`writing' below).               *)
(***************************************************************************)

CONSTANT Faults     \* which flush errors can happen, see FlushFails

ASSUME FaultsAssumption == Faults \subseteq {"io", "dirsync", "resetsync"}

VARIABLES
  mem,      \* the content in Store; while no process runs, what Open reads
  file,     \* the content of the image the path names now
  durable   \* the contents the path may name after a power loss

storeVars == <<mem, file, durable>>

Images == durable \cup {file}

StoreInit(c) == mem = c /\ file = c /\ durable = {c}

\* Mutated form of FlushOK: the directory is never synced.
FlushUnsynced(c) == mem' = c /\ file' = c /\ durable' = durable \cup {c}

\* Every step of flush succeeded, syncDir last: the new image is the only one.
FlushOK(c) == mem' = c /\ file' = c /\ durable' = {c}

\* Mutated form of FlushFails: the caller does not put the old content back.
FlushFailsKeeping(c, sync) ==
  /\ mem' = c
  /\ \/ "io" \in Faults /\ UNCHANGED <<file, durable>>
     \/ sync \in Faults /\ file' = c /\ durable' = durable \cup {c}

\* flush returned an error and the caller put the old content back in memory:
\* "io" - any step up to the rename, which leaves the path alone;
\* sync - syncDir, after the rename: the path already names the new image.  It is
\* "dirsync", or "resetsync" in SetMark, to tell a reset's failure from others.
FlushFails(c, sync) ==
  \/ /\ "io" \in Faults
     /\ UNCHANGED storeVars
  \/ /\ sync \in Faults
     /\ file' = c
     /\ durable' = durable \cup {c}
     /\ UNCHANGED mem

\* The process dies while images with the contents `writing' may be on their way
\* to the disk; the kernel survives, so a rename that happened is visible.
StoreKill(writing) ==
  /\ file' \in {file} \cup writing
  /\ durable' = durable \cup {file'}
  /\ mem' = file'

\* The machine loses power: any image not superseded by a synced one.
StorePowerLoss(writing) ==
  /\ file' \in durable \cup writing
  /\ durable' = {file'}
  /\ mem' = file'

\* Open reads the image the path names.
OpenStore == mem' = file /\ UNCHANGED <<file, durable>>
================================================================================
