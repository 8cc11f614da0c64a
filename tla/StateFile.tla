-------------------------------- MODULE StateFile ------------------------------
(***************************************************************************)
(* internal/state's Create, Open and flush, system call by system call,    *)
(* for the processes that use one state_path: services started with or     *)
(* without -init and runs of the command-line tool, each with the identity *)
(* its configuration gives it.                                             *)
(*                                                                         *)
(* The path names an image.  What a directory entry names after a power    *)
(* loss is open until the directory is synced, and an image whose data was *)
(* not synced comes back torn.  Store.mu is held through an operation, so  *)
(* each process has at most one flush in progress.                         *)
(***************************************************************************)
EXTENDS Integers

CONSTANTS
  Users,      \* the processes
  Shards,     \* shard_id of the configurations in use
  Rests,      \* the rest of an identity: total_shards, key fingerprint, epoch
  Contents    \* marks and records as far as the file goes; 0 for none

ASSUME FileAssumption == Shards \subseteq Nat \ {0} /\ 0 \in Contents

Identities == [shard : Shards, rest : Rests]

\* A version-1 file has no identity but the shard its records name, 0 for no shard.
NoImage == [ver |-> "none"]
Torn == [ver |-> "torn"]
OldImages == [ver : {"v1"}, shard : Shards \cup {0}, content : Contents, synced : {TRUE}]
NewImages == [ver : {"v2"}, id : Identities, content : Contents, synced : BOOLEAN]

\* What survives a power loss as it is.
Whole == {NoImage} \cup OldImages \cup {i \in NewImages : i.synced}

VARIABLES
  shared,    \* chosen at the start: two processes may use the file at once
  path,      \* the image state_path names
  entries,   \* the images it may name after a power loss
  store      \* the Store of each process, and where the process is

diskVars == <<path, entries>>
vars == <<shared, diskVars, store>>

\* pc: off, absent (Open has found no file), ready, or the call flush is about to make;
\* goal: what the flush is for; mem: sfMark and records; old: what an operation that
\* fails puts back; tmp: the temporary file.
Off == [pc |-> "off", goal |-> "op", id |-> [shard |-> 0, rest |-> "none"],
        mem |-> 0, old |-> 0, tmp |-> NoImage]

Init ==
  /\ shared \in BOOLEAN
  /\ path \in Whole
  /\ entries = {path}
  /\ store = [u \in Users |-> Off]

--------------------------------------------------------------------------------
(* Starting. *)

Running == {u \in Users : store[u].pc # "off"}

\* docs/cli.md:13-14 asks for one process at a time; nothing in the code does.
MayStart(u) == u \notin Running /\ (shared \/ Running = {})

\* Mutated form of Become: the Store does not get the configuration's identity.
BecomeNameless(u, pc, goal, i, c) ==
  store' = [store EXCEPT ![u] =
              [Off EXCEPT !.pc = pc, !.goal = goal, !.mem = c, !.old = c]]

Become(u, pc, goal, i, c) ==
  store' = [store EXCEPT ![u] =
              [Off EXCEPT !.pc = pc, !.goal = goal, !.id = i, !.mem = c, !.old = c]]

\* Open finds no file (without -init the service stops there), or init-state, which
\* goes to Create without an Open.
Begin(u) ==
  /\ MayStart(u)
  /\ \E i \in Identities : Become(u, "absent", "create", i, 0)
  /\ UNCHANGED <<shared, diskVars>>

\* Create's Stat: a file that is there, whatever it holds, is not replaced.
StatForCreate(u) ==
  /\ store[u].pc = "absent"
  /\ store' = [store EXCEPT ![u] =
                 IF path = NoImage THEN [@ EXCEPT !.pc = "write"] ELSE Off]
  /\ UNCHANGED <<shared, diskVars>>

\* Mutated form of Belongs: the shard is compared, the rest of the identity is not.
BelongsByShard(i) == path.id.shard = i.shard

\* checkIdentity finds no problem.
Belongs(i) == path.id = i

\* Open of a version-2 file that belongs to the configuration; any other is refused.
OpenCurrent(u) ==
  /\ MayStart(u) /\ path.ver = "v2"
  /\ \E i \in Identities : Belongs(i) /\ Become(u, "ready", "op", i, path.content)
  /\ UNCHANGED <<shared, diskVars>>

\* Mutated form of OldBelongs: the shard of the records is not looked at.
OldBelongsToAny(i) == path.shard \in Shards \cup {0}

\* The records of a version-1 file name this shard, or none.
OldBelongs(i) == path.shard \in {0, i.shard}

\* Open of a version-1 file that may be this shard's: it is rewritten, with the
\* configuration's identity, before Open returns.
OpenOld(u) ==
  /\ MayStart(u) /\ path.ver = "v1"
  /\ \E i \in Identities :
       OldBelongs(i) /\ Become(u, "write", "migrate", i, path.content)
  /\ UNCHANGED <<shared, diskVars>>

--------------------------------------------------------------------------------
(* An operation and its flush. *)

\* RaiseMark, SetMark, Register, Delete, Clear, RaiseSnowflakeMark: the change in memory.
Change(u) ==
  /\ store[u].pc = "ready"
  /\ \E c \in Contents \ {store[u].mem} :
       store' = [store EXCEPT ![u].pc = "write", ![u].mem = c]
  /\ UNCHANGED <<shared, diskVars>>

\* Mutated form of GiveUp: the operation leaves its change in memory.
GiveUpKeeping(u) ==
  store' = [store EXCEPT ![u] =
              IF store[u].goal = "op"
                THEN [@ EXCEPT !.pc = "ready", !.old = store[u].mem, !.tmp = NoImage]
                ELSE Off]

\* flush has failed: an operation puts the old content back and returns the error;
\* Create and Open return it, and the process ends.
GiveUp(u) ==
  store' = [store EXCEPT ![u] =
              IF store[u].goal = "op"
                THEN [@ EXCEPT !.pc = "ready", !.mem = store[u].old, !.tmp = NoImage]
                ELSE Off]

\* MkdirAll, CreateTemp (a name of its own for each flush), Write.
WriteTemp(u) ==
  /\ store[u].pc = "write"
  /\ \/ LET image == [ver |-> "v2", id |-> store[u].id, content |-> store[u].mem,
                      synced |-> FALSE]
        IN  store' = [store EXCEPT ![u].pc = "sync", ![u].tmp = image]
     \/ GiveUp(u)
  /\ UNCHANGED <<shared, diskVars>>

\* Mutated form of SyncTemp: the data is left to the kernel.
SyncTempSkipped(u) ==
  /\ store[u].pc = "sync"
  /\ store' = [store EXCEPT ![u].pc = "rename"]
  /\ UNCHANGED <<shared, diskVars>>

\* Sync and Close.
SyncTemp(u) ==
  /\ store[u].pc = "sync"
  /\ \/ store' = [store EXCEPT ![u].pc = "rename", ![u].tmp.synced = TRUE]
     \/ GiveUp(u)
  /\ UNCHANGED <<shared, diskVars>>

\* Rename: the path names the new image at once, the disk perhaps later.
RenameTemp(u) ==
  /\ store[u].pc = "rename"
  /\ \/ /\ path' = store[u].tmp /\ entries' = entries \cup {path'}
        /\ store' = [store EXCEPT ![u].pc = "syncdir", ![u].tmp = NoImage]
     \/ GiveUp(u) /\ UNCHANGED diskVars
  /\ UNCHANGED shared

\* syncDir: the entry the directory has now is the one it keeps.  The directory itself
\* is taken to be on disk: one that MkdirAll has just made (state.go:325) has an entry
\* in its parent, which is not synced.
SyncDirectory(u) ==
  /\ store[u].pc = "syncdir"
  /\ \/ /\ entries' = {path}
        /\ store' = [store EXCEPT ![u].pc = "ready", ![u].goal = "op", ![u].old = store[u].mem]
     \/ GiveUp(u) /\ UNCHANGED entries
  /\ UNCHANGED <<shared, path>>

--------------------------------------------------------------------------------
(* The end of a process, and of all of them. *)

\* It stops, or is killed, anywhere; its temporary file is of no use to anyone.
Gone(u) ==
  /\ u \in Running
  /\ store' = [store EXCEPT ![u] = Off]
  /\ UNCHANGED <<shared, diskVars>>

Reread(image) == IF image.ver = "v2" /\ ~image.synced THEN Torn ELSE image

PowerLoss ==
  /\ path' \in {Reread(image) : image \in entries}
  /\ entries' = {path'}
  /\ store' = [u \in Users |-> Off]
  /\ UNCHANGED shared

Flush(u) == WriteTemp(u) \/ SyncTemp(u) \/ RenameTemp(u) \/ SyncDirectory(u)

Use(u) ==
  \/ Begin(u) \/ StatForCreate(u) \/ OpenCurrent(u) \/ OpenOld(u)
  \/ Change(u) \/ Flush(u) \/ Gone(u)

Next == (\E u \in Users : Use(u)) \/ PowerLoss

Spec == Init /\ [][Next]_vars

--------------------------------------------------------------------------------
(* Properties. *)

Stores ==
  [pc : {"off", "absent", "ready", "write", "sync", "rename", "syncdir"},
   goal : {"create", "migrate", "op"}, id : Identities \cup {Off.id},
   mem : Contents, old : Contents, tmp : {NoImage} \cup NewImages]

FileImages == {NoImage, Torn} \cup OldImages \cup NewImages

\* Every variable keeps its type; in particular each image that is written carries the
\* identity of some configuration, and the path names one that the disk may keep.
TypeOK ==
  /\ shared \in BOOLEAN
  /\ path \in entries /\ entries \subseteq FileImages
  /\ store \in [Users -> Stores]

\* A start never finds half a file (state.go:8-9), whatever flush was under way when
\* the power failed, in how many processes.
NeverTorn == path # Torn

BoundTo(i) == \A image \in entries \cup {path} : image.ver = "v2" /\ image.id = i

\* Of version 1 or 2, or one before and the other after an unsettled rename.
OfShard(k) ==
  \A image \in entries \cup {path} :
    \/ image.ver = "v1" /\ image.shard = k
    \/ image.ver = "v2" /\ image.id.shard = k

\* A file that names an identity on disk names it for good (state.go:58-68), and one
\* whose records name a shard stays that shard's through its migration (state.go:119):
\* as long as one process at a time uses it, no start with another configuration, no
\* init-state, no failed flush or rewrite and no power loss between them makes it
\* another shard's, or a new file.
BoundForever ==
  [][~shared =>
       /\ \A i \in Identities : BoundTo(i) => BoundTo(i)'
       /\ \A k \in Shards : OfShard(k) => OfShard(k)']_vars

Content(image) == IF image.ver \in {"v1", "v2"} THEN image.content ELSE 0

\* What the process answers from: until flush has returned, the old content.
Memory ==
  IF Running = {} THEN Content(path)
  ELSE LET u == CHOOSE v \in Running : TRUE
       IN  IF store[u].pc = "absent" THEN Content(path) ELSE store[u].old

\* With one process at a time.  (Two would each have a memory of their own.)
Alone(x, otherwise) == IF shared THEN otherwise ELSE x

A == INSTANCE AtomicFile WITH
  Faults <- {"io", "dirsync"},
  mem <- Alone(Memory, 0), file <- Alone(Content(path), 0),
  durable <- Alone({Content(image) : image \in entries}, {0})

\* Each of flush's calls, failing or not, and a crash between any two of them, is a step
\* of the file the other modules are written over: creating and migrating change no
\* content, a failed flush is undone in memory, an acknowledged one is on disk.
FlushIsAtomic == A!Spec
================================================================================
