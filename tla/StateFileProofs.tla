----------------------------- MODULE StateFileProofs ----------------------------
(* Theorems about StateFile, for any processes, shards, identities and contents. *)
EXTENDS StateFile, TLAPS

\* A process has the identity of its configuration, and the temporary file flush is at
\* holds what it was called for.
ProcessInv(s) ==
  /\ s.pc # "off" => s.id \in Identities
  /\ s.pc \in {"sync", "rename"} =>
       /\ s.tmp \in NewImages /\ s.tmp.id = s.id /\ s.tmp.content = s.mem
  /\ s.pc = "rename" => s.tmp.synced

\* What holds of the disk and of every process, alone or not: no directory entry,
\* settled or not, names an image whose data could still be lost.
FileInv ==
  /\ TypeOK
  /\ entries \subseteq Whole
  /\ \A u \in Users : ProcessInv(store[u])

OneAtATime == \A u, v \in Running : u = v

\* The Store's identity is the one the file is bound to, or of the shard it is.
Owns(s) ==
  /\ \A i \in Identities : BoundTo(i) => s.id = i
  /\ \A k \in Shards : OfShard(k) => s.id.shard = k

\* A process that is past Open or Create's Stat owns the file; what it would put back
\* is what it has answered from so far.
Holds(s) ==
  /\ s.pc \notin {"off", "absent"} => Owns(s)
  /\ s.pc = "syncdir" => path.ver = "v2" /\ path.id = s.id /\ path.content = s.mem
  /\ s.pc = "absent" => s.old = 0
  /\ s.pc = "ready" => s.old = s.mem

AloneInv == ~shared => OneAtATime /\ \A u \in Users : Holds(store[u])

--------------------------------------------------------------------------------

\* Whole images are images.
LEMMA WholeAreImages == Whole \subseteq FileImages
BY DEF Whole, FileImages

\* The initial files are whole, and nobody has begun.
LEMMA FileInit == Init => FileInv
<1> SUFFICES ASSUME Init PROVE FileInv
  OBVIOUS
<1>1. Off \in Stores
  BY FileAssumption DEF Off, Stores
<1>2. TypeOK /\ entries \subseteq Whole
  BY <1>1, WholeAreImages DEF Init, TypeOK
<1>3. ASSUME NEW u \in Users PROVE ProcessInv(store[u])
  BY DEF Init, Off, ProcessInv
<1> QED
  BY <1>2, <1>3 DEF FileInv

\* The version tells what a whole image is.
LEMMA WholeByVersion ==
  ASSUME NEW image \in Whole
  PROVE  /\ image.ver = "v1" => image \in OldImages
         /\ image.ver = "v2" => image \in NewImages /\ image.synced
         /\ image = NoImage \/ image.ver \in {"v1", "v2"}
         /\ image = NoImage => image.ver = "none"
<1>1. CASE image = NoImage
  <2>1. image.ver = "none"
    BY <1>1 DEF NoImage
  <2> QED
    BY <1>1, <2>1
<1>2. CASE image \in OldImages
  <2>1. image.ver = "v1"
    BY <1>2 DEF OldImages
  <2>2. NoImage.ver = "none"
    BY DEF NoImage
  <2> QED
    BY <1>2, <2>1, <2>2
<1>3. CASE image \in NewImages /\ image.synced
  <2>1. image.ver = "v2"
    BY <1>3 DEF NewImages
  <2>2. NoImage.ver = "none"
    BY DEF NoImage
  <2> QED
    BY <1>3, <2>1, <2>2
<1> QED
  BY <1>1, <1>2, <1>3 DEF Whole

\* What flush does with an error keeps the types and leaves no temporary file to rename.
LEMMA GiveUpTypes ==
  ASSUME FileInv, NEW u \in Users, store[u].pc # "off", GiveUp(u)
  PROVE  /\ store' \in [Users -> Stores]
         /\ \A v \in Users : ProcessInv(store'[v])
<1>1. Off \in Stores /\ ProcessInv(Off)
  BY FileAssumption DEF Off, Stores, ProcessInv
<1>2. store \in [Users -> Stores] /\ store[u] \in Stores
  BY DEF FileInv, TypeOK
<1>3. CASE store[u].goal = "op"
  <2> DEFINE s == [store[u] EXCEPT !.pc = "ready", !.mem = store[u].old, !.tmp = NoImage]
  <2>1. store' = [store EXCEPT ![u] = s]
    BY <1>3 DEF GiveUp
  <2>2. s \in Stores /\ s.pc = "ready" /\ s.id = store[u].id
    BY <1>2 DEF Stores
  <2> HIDE DEF s
  <2>3. ProcessInv(s)
    BY <2>2 DEF ProcessInv, FileInv
  <2> QED
    BY <1>2, <2>1, <2>2, <2>3 DEF FileInv
<1>4. CASE store[u].goal # "op"
  <2>1. store' = [store EXCEPT ![u] = Off]
    BY <1>4 DEF GiveUp
  <2> QED
    BY <1>1, <1>2, <2>1 DEF FileInv
<1> QED
  BY <1>3, <1>4

\* A process that starts has a Store of the right type, and no temporary file yet.
LEMMA BecomeTypes ==
  ASSUME FileInv, NEW u \in Users, NEW i \in Identities, NEW c \in Contents,
         NEW pc \in {"absent", "ready", "write"}, NEW goal \in {"create", "migrate", "op"},
         Become(u, pc, goal, i, c)
  PROVE  /\ store' \in [Users -> Stores]
         /\ \A v \in Users : ProcessInv(store'[v])
<1> DEFINE s == [Off EXCEPT !.pc = pc, !.goal = goal, !.id = i, !.mem = c, !.old = c]
<1>1. s \in Stores /\ s.pc = pc /\ s.id = i
  BY DEF Stores, Off
<1>2. store' = [store EXCEPT ![u] = s]
  BY DEF Become
<1> HIDE DEF s
<1>3. ProcessInv(s)
  BY <1>1 DEF ProcessInv
<1> QED
  BY <1>1, <1>2, <1>3 DEF FileInv, TypeOK

\* Every step keeps the types, and what the temporary files are.
LEMMA FileStep == FileInv /\ [Next]_vars => FileInv'
<1> SUFFICES ASSUME FileInv, [Next]_vars PROVE FileInv'
  OBVIOUS
<1> DEFINE Stored == /\ store' \in [Users -> Stores]
                     /\ \A v \in Users : ProcessInv(store'[v])
           OnDisk == shared' \in BOOLEAN /\ path' \in entries' /\ entries' \subseteq Whole
<1>0. /\ shared \in BOOLEAN /\ path \in entries /\ entries \subseteq Whole
      /\ store \in [Users -> Stores]
      /\ \A v \in Users : ProcessInv(store[v])
  BY DEF FileInv, TypeOK
<1>off. Off \in Stores /\ ProcessInv(Off)
  BY FileAssumption DEF Off, Stores, ProcessInv
<1>1. ASSUME NEW u \in Users, Begin(u) PROVE Stored /\ OnDisk
  <2>1. PICK i \in Identities : Become(u, "absent", "create", i, 0)
    BY <1>1 DEF Begin
  <2>2. Stored
    BY <2>1, BecomeTypes, FileAssumption
  <2>3. OnDisk
    BY <1>0, <1>1 DEF Begin, diskVars
  <2> QED
    BY <2>2, <2>3
<1>2. ASSUME NEW u \in Users, StatForCreate(u) PROVE Stored /\ OnDisk
  <2> DEFINE s == [store[u] EXCEPT !.pc = "write"]
  <2>1. store' = [store EXCEPT ![u] = IF path = NoImage THEN s ELSE Off]
    BY <1>2 DEF StatForCreate
  <2>2. s \in Stores /\ s.pc = "write" /\ s.id = store[u].id
    BY <1>0 DEF Stores
  <2> HIDE DEF s
  <2>3. ProcessInv(s)
    BY <1>0, <1>2, <2>2 DEF StatForCreate, ProcessInv
  <2>4. Stored
    BY <1>0, <1>off, <2>1, <2>2, <2>3
  <2>5. OnDisk
    BY <1>0, <1>2 DEF StatForCreate, diskVars
  <2> QED
    BY <2>4, <2>5
<1>3. ASSUME NEW u \in Users, OpenCurrent(u) PROVE Stored /\ OnDisk
  <2>1. path \in NewImages
    BY <1>0, <1>3, WholeByVersion DEF OpenCurrent
  <2>2. PICK i \in Identities : Become(u, "ready", "op", i, path.content)
    BY <1>3 DEF OpenCurrent
  <2>3. path.content \in Contents
    BY <2>1 DEF NewImages
  <2>4. Stored
    BY <2>2, <2>3, BecomeTypes
  <2>5. OnDisk
    BY <1>0, <1>3 DEF OpenCurrent, diskVars
  <2> QED
    BY <2>4, <2>5
<1>4. ASSUME NEW u \in Users, OpenOld(u) PROVE Stored /\ OnDisk
  <2>1. path \in OldImages
    BY <1>0, <1>4, WholeByVersion DEF OpenOld
  <2>2. PICK i \in Identities : Become(u, "write", "migrate", i, path.content)
    BY <1>4 DEF OpenOld
  <2>3. path.content \in Contents
    BY <2>1 DEF OldImages
  <2>4. Stored
    BY <2>2, <2>3, BecomeTypes
  <2>5. OnDisk
    BY <1>0, <1>4 DEF OpenOld, diskVars
  <2> QED
    BY <2>4, <2>5
<1>5. ASSUME NEW u \in Users, Change(u) PROVE Stored /\ OnDisk
  <2>1. PICK c \in Contents : store' = [store EXCEPT ![u].pc = "write", ![u].mem = c]
    BY <1>5 DEF Change
  <2> DEFINE s == [store[u] EXCEPT !.pc = "write", !.mem = c]
  <2>2. s \in Stores /\ s.pc = "write" /\ s.id = store[u].id
    BY <1>0 DEF Stores
  <2>3. store' = [store EXCEPT ![u] = s]
    BY <1>0, <2>1
  <2> HIDE DEF s
  <2>4. ProcessInv(s)
    BY <1>0, <1>5, <2>2 DEF Change, ProcessInv
  <2>5. Stored
    BY <1>0, <2>2, <2>3, <2>4
  <2>6. OnDisk
    BY <1>0, <1>5 DEF Change, diskVars
  <2> QED
    BY <2>5, <2>6
<1>6. ASSUME NEW u \in Users, WriteTemp(u) PROVE Stored /\ OnDisk
  <2> DEFINE image == [ver |-> "v2", id |-> store[u].id, content |-> store[u].mem,
                       synced |-> FALSE]
             s == [store[u] EXCEPT !.pc = "sync", !.tmp = image]
  <2>1. ASSUME store' = [store EXCEPT ![u].pc = "sync", ![u].tmp = image] PROVE Stored
    <3>1. store[u] \in Stores
      BY <1>0
    <3>2. store[u].id \in Identities
      BY <1>0, <1>6 DEF WriteTemp, ProcessInv
    <3>3. image \in NewImages
      BY <3>1, <3>2 DEF NewImages, Stores
    <3>4. s \in Stores /\ s.pc = "sync"
      BY <3>1, <3>3 DEF Stores
    <3>5. ProcessInv(s)
      BY <3>1, <3>2, <3>3 DEF ProcessInv, Stores
    <3>6. store' = [store EXCEPT ![u] = s]
      BY <1>0, <2>1
    <3> HIDE DEF s
    <3> QED
      BY <1>0, <3>4, <3>5, <3>6
  <2>2. ASSUME GiveUp(u) PROVE Stored
    BY <1>6, <2>2, GiveUpTypes DEF WriteTemp
  <2>3. OnDisk
    BY <1>0, <1>6 DEF WriteTemp, diskVars
  <2>4. Stored
    BY <1>6, <2>1, <2>2 DEF WriteTemp
  <2> QED
    BY <2>3, <2>4
<1>7. ASSUME NEW u \in Users, SyncTemp(u) PROVE Stored /\ OnDisk
  <2> DEFINE s == [store[u] EXCEPT !.pc = "rename", !.tmp = [@ EXCEPT !.synced = TRUE]]
  <2>1. ASSUME store' = [store EXCEPT ![u].pc = "rename", ![u].tmp.synced = TRUE]
        PROVE  Stored
    <3>1. store[u] \in Stores /\ store[u].tmp \in NewImages
      BY <1>0, <1>7 DEF SyncTemp, ProcessInv
    <3>2. s.tmp \in NewImages /\ s.tmp.synced
      BY <3>1 DEF Stores, NewImages
    <3>3. s.tmp.id = store[u].tmp.id /\ s.tmp.content = store[u].tmp.content
      BY <3>1 DEF Stores, NewImages
    <3>4. s \in Stores /\ s.pc = "rename" /\ s.id = store[u].id /\ s.mem = store[u].mem
      BY <3>1, <3>2 DEF Stores
    <3>5. store' = [store EXCEPT ![u] = s]
      BY <1>0, <2>1
    <3>6. store[u].pc = "sync" /\ ProcessInv(store[u])
      BY <1>0, <1>7 DEF SyncTemp
    <3> HIDE DEF s
    <3>7. ProcessInv(s)
      BY <3>2, <3>3, <3>4, <3>6 DEF ProcessInv
    <3> QED
      BY <1>0, <3>4, <3>5, <3>7
  <2>2. ASSUME GiveUp(u) PROVE Stored
    BY <1>7, <2>2, GiveUpTypes DEF SyncTemp
  <2>3. OnDisk
    BY <1>0, <1>7 DEF SyncTemp, diskVars
  <2>4. Stored
    BY <1>7, <2>1, <2>2 DEF SyncTemp
  <2> QED
    BY <2>3, <2>4
<1>8. ASSUME NEW u \in Users, RenameTemp(u) PROVE Stored /\ OnDisk
  <2> DEFINE s == [store[u] EXCEPT !.pc = "syncdir", !.tmp = NoImage]
  <2>1. ASSUME path' = store[u].tmp, entries' = entries \cup {path'},
               store' = [store EXCEPT ![u].pc = "syncdir", ![u].tmp = NoImage]
        PROVE  Stored /\ OnDisk
    <3>1. store[u] \in Stores /\ store[u].tmp \in NewImages /\ store[u].tmp.synced
      BY <1>0, <1>8 DEF RenameTemp, ProcessInv
    <3>2. s \in Stores /\ s.pc = "syncdir" /\ s.id = store[u].id
      BY <3>1 DEF Stores
    <3>3. store' = [store EXCEPT ![u] = s]
      BY <1>0, <2>1
    <3> HIDE DEF s
    <3>4. ProcessInv(s)
      BY <1>0, <1>8, <3>2 DEF RenameTemp, ProcessInv
    <3>5. Stored
      BY <1>0, <3>2, <3>3, <3>4
    <3>6. path' \in Whole
      BY <2>1, <3>1 DEF Whole
    <3>7. OnDisk
      BY <1>0, <1>8, <2>1, <3>6 DEF RenameTemp
    <3> QED
      BY <3>5, <3>7
  <2>2. ASSUME GiveUp(u), UNCHANGED diskVars PROVE Stored /\ OnDisk
    <3>1. Stored
      BY <1>8, <2>2, GiveUpTypes DEF RenameTemp
    <3>2. OnDisk
      BY <1>0, <1>8, <2>2 DEF RenameTemp, diskVars
    <3> QED
      BY <3>1, <3>2
  <2> QED
    BY <1>8, <2>1, <2>2 DEF RenameTemp
<1>9. ASSUME NEW u \in Users, SyncDirectory(u) PROVE Stored /\ OnDisk
  <2> DEFINE s == [store[u] EXCEPT !.pc = "ready", !.goal = "op", !.old = store[u].mem]
  <2>1. ASSUME store' = [store EXCEPT ![u].pc = "ready", ![u].goal = "op",
                                      ![u].old = store[u].mem]
        PROVE  Stored
    <3>1. s \in Stores /\ s.pc = "ready" /\ s.id = store[u].id
      BY <1>0 DEF Stores
    <3>2. store' = [store EXCEPT ![u] = s]
      BY <1>0, <2>1
    <3> HIDE DEF s
    <3>3. ProcessInv(s)
      BY <1>0, <1>9, <3>1 DEF SyncDirectory, ProcessInv
    <3> QED
      BY <1>0, <3>1, <3>2, <3>3
  <2>2. ASSUME GiveUp(u) PROVE Stored
    BY <1>9, <2>2, GiveUpTypes DEF SyncDirectory
  <2>3. Stored
    BY <1>9, <2>1, <2>2 DEF SyncDirectory
  <2>4. OnDisk
    BY <1>0, <1>9 DEF SyncDirectory
  <2> QED
    BY <2>3, <2>4
<1>10. ASSUME NEW u \in Users, Gone(u) PROVE Stored /\ OnDisk
  <2>1. Stored
    BY <1>0, <1>off, <1>10 DEF Gone
  <2>2. OnDisk
    BY <1>0, <1>10 DEF Gone, diskVars
  <2> QED
    BY <2>1, <2>2
<1>11. ASSUME PowerLoss PROVE Stored /\ OnDisk
  <2>1. Stored
    BY <1>off, <1>11 DEF PowerLoss
  <2>2. path' \in entries /\ entries' = {path'}
    BY <1>0, <1>11, WholeByVersion DEF PowerLoss, Reread
  <2>3. OnDisk
    BY <1>0, <1>11, <2>2 DEF PowerLoss
  <2> QED
    BY <2>1, <2>3
<1>12. ASSUME UNCHANGED vars PROVE Stored /\ OnDisk
  BY <1>0, <1>12 DEF vars, diskVars
<1>13. Stored /\ OnDisk
  BY <1>1, <1>2, <1>3, <1>4, <1>5, <1>6, <1>7, <1>8, <1>9, <1>10, <1>11, <1>12
     DEF Next, Use, Flush
<1>14. TypeOK' /\ (entries \subseteq Whole)'
  <2>1. Whole' = Whole /\ FileImages' = FileImages
    BY DEF Whole, FileImages
  <2> QED
    BY <1>13, <2>1, WholeAreImages DEF TypeOK
<1>15. (\A u \in Users : ProcessInv(store[u]))'
  BY <1>13 DEF ProcessInv
<1> QED
  BY <1>14, <1>15 DEF FileInv

\* Types are kept, for any processes, identities and contents.
THEOREM FileTypes == Spec => []TypeOK
<1>1. Spec => []FileInv
  BY FileInit, FileStep, PTL DEF Spec
<1>2. FileInv => TypeOK
  BY DEF FileInv
<1> QED
  BY <1>1, <1>2, PTL

\* No start finds half a file, however many processes write it at once.
THEOREM FileNeverTorn == Spec => []NeverTorn
<1>1. FileInv => NeverTorn
  <2> SUFFICES ASSUME FileInv, path = Torn PROVE FALSE
    BY DEF NeverTorn
  <2>1. path \in Whole /\ path.ver = "torn"
    BY DEF FileInv, TypeOK, Torn
  <2>2. path = NoImage \/ path.ver \in {"v1", "v2"}
    BY <2>1, WholeByVersion
  <2>3. NoImage.ver = "none"
    BY DEF NoImage
  <2> QED
    BY <2>1, <2>2, <2>3
<1>2. Spec => []FileInv
  BY FileInit, FileStep, PTL DEF Spec
<1> QED
  BY <1>1, <1>2, PTL

--------------------------------------------------------------------------------
(* One process at a time. *)

\* A step of u alone leaves at most u running.
LEMMA StepAlone ==
  ASSUME TypeOK, AloneInv, UNCHANGED shared, NEW u \in Users,
         MayStart(u) \/ u \in Running,
         \A v \in Users \ {u} : store'[v] = store[v],
         ~shared => Holds(store[u])'
  PROVE  AloneInv'
<1> SUFFICES ASSUME ~shared PROVE (OneAtATime /\ \A v \in Users : Holds(store[v]))'
  BY DEF AloneInv
<1>1. \A v \in Users \ {u} : store[v].pc = "off"
  BY DEF AloneInv, OneAtATime, MayStart, Running
<1>2. \A v \in Users \ {u} : store'[v].pc = "off"
  BY <1>1
<1>3. OneAtATime'
  BY <1>2 DEF OneAtATime, Running
<1>4. ASSUME NEW v \in Users PROVE Holds(store[v])'
  BY <1>2, <1>4 DEF Holds
<1> QED
  BY <1>3, <1>4

\* A flush that fails leaves the disk as it found it, and the old content in memory.
LEMMA GiveUpHolds ==
  ASSUME FileInv, NEW u \in Users, store[u].pc \notin {"off", "absent"},
         Holds(store[u]), GiveUp(u), UNCHANGED diskVars
  PROVE  Holds(store[u])' /\ (store'[u].pc # "off" => store'[u].old = store[u].old)
<1>1. store \in [Users -> Stores] /\ store[u] \in Stores
  BY DEF FileInv, TypeOK
<1>2. \/ /\ store'[u].pc = "ready" /\ store'[u].old = store[u].old
         /\ store'[u].mem = store[u].old /\ store'[u].id = store[u].id
      \/ store'[u].pc = "off"
  <2>1. CASE store[u].goal = "op"
    <3>1. store'[u] = [store[u] EXCEPT !.pc = "ready", !.mem = store[u].old, !.tmp = NoImage]
      BY <1>1, <2>1 DEF GiveUp
    <3> QED
      BY <1>1, <3>1 DEF Stores
  <2>2. CASE store[u].goal # "op"
    BY <1>1, <2>2 DEF GiveUp, Off
  <2> QED
    BY <2>1, <2>2
<1>3. /\ \A i \in Identities : BoundTo(i)' <=> BoundTo(i)
      /\ \A k \in Shards : OfShard(k)' <=> OfShard(k)
  BY DEF BoundTo, OfShard, diskVars
<1> QED
  BY <1>2, <1>3 DEF Holds, Owns

\* At the start nobody runs.
LEMMA AloneInit == Init => AloneInv
  BY DEF Init, Off, AloneInv, OneAtATime, Running, Holds

\* Every step keeps what holds of a process that is alone.
LEMMA AloneStep == FileInv /\ AloneInv /\ [Next]_vars => AloneInv'
<1> SUFFICES ASSUME FileInv, AloneInv, [Next]_vars PROVE AloneInv'
  OBVIOUS
<1>0. /\ TypeOK /\ store \in [Users -> Stores] /\ path \in entries
      /\ entries \subseteq Whole /\ path \in Whole
      /\ \A v \in Users : ProcessInv(store[v])
  BY DEF FileInv, TypeOK
<1>a. ASSUME NEW v \in Users, ~shared PROVE Holds(store[v])
  BY <1>a DEF AloneInv
<1>b. ASSUME UNCHANGED diskVars
      PROVE  /\ \A i \in Identities : BoundTo(i)' <=> BoundTo(i)
             /\ \A k \in Shards : OfShard(k)' <=> OfShard(k)
  BY <1>b DEF BoundTo, OfShard, diskVars
<1>1. ASSUME NEW u \in Users, Begin(u) PROVE AloneInv'
  <2>1. PICK i \in Identities : Become(u, "absent", "create", i, 0)
    BY <1>1 DEF Begin
  <2>2. store'[u].pc = "absent" /\ store'[u].old = 0
    BY <1>0, <2>1 DEF Become, Off
  <2>3. Holds(store[u])'
    BY <2>2 DEF Holds
  <2> QED
    BY <1>0, <1>1, <2>1, <2>3, StepAlone DEF Begin, Become
<1>2. ASSUME NEW u \in Users, StatForCreate(u) PROVE AloneInv'
  <2>1. ASSUME path = NoImage PROVE Holds(store[u])'
    <3>1. store'[u] = [store[u] EXCEPT !.pc = "write"]
      BY <1>0, <1>2, <2>1 DEF StatForCreate
    <3>2. store'[u].pc = "write"
      BY <1>0, <3>1 DEF Stores
    <3>3. path'.ver = "none" /\ path' \in entries'
      BY <1>0, <1>2, <2>1 DEF StatForCreate, diskVars, NoImage
    <3>4. (\A i \in Identities : ~BoundTo(i)') /\ (\A k \in Shards : ~OfShard(k)')
      BY <3>3 DEF BoundTo, OfShard
    <3> QED
      BY <3>2, <3>4 DEF Holds, Owns
  <2>2. ASSUME path # NoImage PROVE Holds(store[u])'
    <3>1. store'[u].pc = "off"
      BY <1>0, <1>2, <2>2 DEF StatForCreate, Off
    <3> QED
      BY <3>1 DEF Holds
  <2>3. Holds(store[u])'
    BY <2>1, <2>2
  <2> QED
    BY <1>0, <1>2, <2>3, StepAlone DEF StatForCreate, Running
<1>3. ASSUME NEW u \in Users, OpenCurrent(u) PROVE AloneInv'
  <2>1. PICK i \in Identities : Belongs(i) /\ Become(u, "ready", "op", i, path.content)
    BY <1>3 DEF OpenCurrent
  <2>2. /\ store'[u].pc = "ready" /\ store'[u].old = store'[u].mem
        /\ store'[u].id = i
    BY <1>0, <2>1 DEF Become, Off
  <2>3. /\ \A j \in Identities : BoundTo(j)' => path.id = j
        /\ \A k \in Shards : OfShard(k)' => path.id.shard = k
    BY <1>3 DEF OpenCurrent, diskVars, BoundTo, OfShard
  <2>4. Holds(store[u])'
    BY <2>1, <2>2, <2>3 DEF Holds, Owns, Belongs
  <2> QED
    BY <1>0, <1>3, <2>1, <2>4, StepAlone DEF OpenCurrent, Become
<1>4. ASSUME NEW u \in Users, OpenOld(u) PROVE AloneInv'
  <2>1. PICK i \in Identities :
          OldBelongs(i) /\ Become(u, "write", "migrate", i, path.content)
    BY <1>4 DEF OpenOld
  <2>2. store'[u].pc = "write" /\ store'[u].id = i
    BY <1>0, <2>1 DEF Become, Off
  <2>3. \A j \in Identities : ~BoundTo(j)'
    BY <1>4 DEF OpenOld, diskVars, BoundTo
  <2>4. ASSUME NEW k \in Shards, OfShard(k)' PROVE i.shard = k
    <3>1. path.shard = k
      BY <1>4, <2>4 DEF OpenOld, diskVars, OfShard
    <3> QED
      BY <2>1, <3>1, FileAssumption DEF OldBelongs
  <2>5. Holds(store[u])'
    BY <2>2, <2>3, <2>4 DEF Holds, Owns
  <2> QED
    BY <1>0, <1>4, <2>1, <2>5, StepAlone DEF OpenOld, Become
<1>5. ASSUME NEW u \in Users, Change(u) PROVE AloneInv'
  <2>1. PICK c \in Contents : store' = [store EXCEPT ![u].pc = "write", ![u].mem = c]
    BY <1>5 DEF Change
  <2>2. store'[u] = [store[u] EXCEPT !.pc = "write", !.mem = c]
    BY <1>0, <2>1
  <2>3. store'[u].pc = "write" /\ store'[u].id = store[u].id
    BY <1>0, <2>2 DEF Stores
  <2>4. ASSUME ~shared PROVE Holds(store[u])'
    BY <1>5, <1>a, <1>b, <2>3, <2>4 DEF Change, Holds, Owns
  <2> QED
    BY <1>0, <1>5, <2>1, <2>4, StepAlone DEF Change, Running
<1>6. ASSUME NEW u \in Users,
             \/ WriteTemp(u) \/ SyncTemp(u)
             \/ RenameTemp(u) /\ GiveUp(u) /\ UNCHANGED diskVars
      PROVE  AloneInv'
  <2>1. /\ store[u].pc \in {"write", "sync", "rename"} /\ UNCHANGED <<shared, diskVars>>
        /\ \A v \in Users \ {u} : store'[v] = store[v]
    BY <1>0, <1>6 DEF WriteTemp, SyncTemp, RenameTemp, GiveUp
  <2>2. \/ GiveUp(u)
        \/ store'[u].pc \in {"sync", "rename"} /\ store'[u].id = store[u].id
    <3>1. ASSUME NEW image, store' = [store EXCEPT ![u].pc = "sync", ![u].tmp = image]
          PROVE  store'[u].pc = "sync" /\ store'[u].id = store[u].id
      BY <1>0, <3>1 DEF Stores
    <3>2. ASSUME store' = [store EXCEPT ![u].pc = "rename", ![u].tmp.synced = TRUE]
          PROVE  store'[u].pc = "rename" /\ store'[u].id = store[u].id
      BY <1>0, <3>2 DEF Stores
    <3> QED
      BY <1>6, <3>1, <3>2 DEF WriteTemp, SyncTemp
  <2>3. ASSUME ~shared PROVE Holds(store[u])'
    <3>1. CASE GiveUp(u)
      BY <1>a, <2>1, <2>3, <3>1, GiveUpHolds
    <3>2. CASE store'[u].pc \in {"sync", "rename"} /\ store'[u].id = store[u].id
      BY <1>a, <1>b, <2>1, <2>3, <3>2 DEF Holds, Owns
    <3> QED
      BY <2>2, <3>1, <3>2
  <2> QED
    BY <1>0, <2>1, <2>3, StepAlone DEF Running
<1>8. ASSUME NEW u \in Users, RenameTemp(u), ~(GiveUp(u) /\ UNCHANGED diskVars)
      PROVE  AloneInv'
  <2>1. /\ store[u].pc = "rename" /\ path' = store[u].tmp /\ entries' = entries \cup {path'}
        /\ store' = [store EXCEPT ![u].pc = "syncdir", ![u].tmp = NoImage]
        /\ UNCHANGED shared
    BY <1>8 DEF RenameTemp
  <2>2. /\ store'[u].pc = "syncdir" /\ store'[u].id = store[u].id
        /\ store'[u].mem = store[u].mem
    BY <1>0, <2>1 DEF Stores
  <2>3. path'.ver = "v2" /\ path'.id = store[u].id /\ path'.content = store[u].mem
    BY <1>0, <2>1 DEF ProcessInv, NewImages
  <2>4. /\ \A i \in Identities : BoundTo(i)' => path'.id = i
        /\ \A k \in Shards : OfShard(k)' => path'.id.shard = k
    BY <2>3 DEF BoundTo, OfShard
  <2>5. Holds(store[u])'
    BY <2>2, <2>3, <2>4 DEF Holds, Owns
  <2> QED
    BY <1>0, <2>1, <2>5, StepAlone DEF Running
<1>9. ASSUME NEW u \in Users, SyncDirectory(u) PROVE AloneInv'
  <2>1. /\ store[u].pc = "syncdir" /\ UNCHANGED <<shared, path>>
        /\ \A v \in Users \ {u} : store'[v] = store[v]
    BY <1>0, <1>9 DEF SyncDirectory, GiveUp
  <2>2. ASSUME ~shared, GiveUp(u), UNCHANGED entries PROVE Holds(store[u])'
    BY <1>a, <2>1, <2>2, GiveUpHolds DEF diskVars
  <2>3. ASSUME ~shared,
               store' = [store EXCEPT ![u].pc = "ready", ![u].goal = "op",
                                      ![u].old = store[u].mem]
        PROVE  Holds(store[u])'
    <3>1. /\ store'[u].pc = "ready" /\ store'[u].id = store[u].id
          /\ store'[u].old = store'[u].mem
      BY <1>0, <2>3 DEF Stores
    <3>2. path.id = store[u].id /\ path.ver = "v2"
      BY <1>a, <2>1, <2>3 DEF Holds
    <3>3. /\ \A i \in Identities : BoundTo(i)' => path.id = i
          /\ \A k \in Shards : OfShard(k)' => path.id.shard = k
      BY <2>1, <3>2 DEF BoundTo, OfShard
    <3> QED
      BY <3>1, <3>2, <3>3 DEF Holds, Owns
  <2> QED
    BY <1>0, <1>9, <2>1, <2>2, <2>3, StepAlone DEF SyncDirectory, Running
<1>10. ASSUME NEW u \in Users, Gone(u) PROVE AloneInv'
  <2>1. store'[u].pc = "off"
    BY <1>0, <1>10 DEF Gone, Off
  <2>2. Holds(store[u])'
    BY <2>1 DEF Holds
  <2> QED
    BY <1>0, <1>10, <2>2, StepAlone DEF Gone
<1>11. ASSUME PowerLoss PROVE AloneInv'
  BY <1>11 DEF PowerLoss, Off, AloneInv, OneAtATime, Running, Holds
<1>12. ASSUME UNCHANGED vars PROVE AloneInv'
  <2>1. UNCHANGED <<shared, path, entries, store>>
    BY <1>12 DEF vars, diskVars
  <2> QED
    BY <2>1 DEF AloneInv, OneAtATime, Running, Holds, Owns, BoundTo, OfShard
<1> QED
  BY <1>1, <1>2, <1>3, <1>4, <1>5, <1>6, <1>8, <1>9, <1>10, <1>11, <1>12
     DEF Next, Use, Flush

\* What a step does to the disk, for the two theorems below.
LEMMA DiskStep ==
  ASSUME FileInv, [Next]_vars
  PROVE  \/ UNCHANGED diskVars
         \/ \E u \in Users :
              /\ store[u].pc = "rename" /\ path' = store[u].tmp
              /\ entries' = entries \cup {path'}
         \/ UNCHANGED path /\ entries' = {path}
         \/ path' \in entries /\ entries' = {path'}
<1>0. path \in entries /\ entries \subseteq Whole
  BY DEF FileInv, TypeOK
<1>1. CASE PowerLoss
  BY <1>0, <1>1, WholeByVersion DEF PowerLoss, Reread
<1>2. CASE UNCHANGED vars
  BY <1>2 DEF vars
<1>3. ASSUME NEW u \in Users, Begin(u) \/ StatForCreate(u) \/ OpenCurrent(u) \/ OpenOld(u)
                              \/ Change(u) \/ WriteTemp(u) \/ SyncTemp(u) \/ Gone(u)
      PROVE  UNCHANGED diskVars
  BY <1>3 DEF Begin, StatForCreate, OpenCurrent, OpenOld, Change, WriteTemp, SyncTemp, Gone
<1>4. ASSUME NEW u \in Users, RenameTemp(u)
      PROVE  \/ UNCHANGED diskVars
             \/ /\ store[u].pc = "rename" /\ path' = store[u].tmp
                /\ entries' = entries \cup {path'}
  BY <1>4 DEF RenameTemp
<1>5. ASSUME NEW u \in Users, SyncDirectory(u)
      PROVE  UNCHANGED diskVars \/ (UNCHANGED path /\ entries' = {path})
  BY <1>5 DEF SyncDirectory, diskVars
<1> QED
  BY <1>1, <1>2, <1>3, <1>4, <1>5 DEF Next, Use, Flush

\* A file that belongs to one identity, or one shard, on disk belongs to it for good, as
\* long as one process at a time uses it.
THEOREM FileStaysBound == Spec => BoundForever
<1>1. ASSUME FileInv, AloneInv, [Next]_vars, ~shared
      PROVE  /\ \A i \in Identities : BoundTo(i) => BoundTo(i)'
             /\ \A k \in Shards : OfShard(k) => OfShard(k)'
  <2>0. path \in entries
    BY <1>1 DEF FileInv, TypeOK
  <2>1. ASSUME NEW u \in Users, store[u].pc = "rename"
        PROVE  store[u].tmp.ver = "v2" /\ Owns(store[u].tmp)
    <3>1. ProcessInv(store[u]) /\ Holds(store[u])
      BY <1>1 DEF FileInv, AloneInv
    <3>2. store[u].tmp \in NewImages /\ store[u].tmp.id = store[u].id
      BY <2>1, <3>1 DEF ProcessInv
    <3>3. Owns(store[u])
      BY <2>1, <3>1 DEF Holds
    <3> QED
      BY <3>2, <3>3 DEF NewImages, Owns
  <2>2. ASSUME NEW i \in Identities, BoundTo(i) PROVE BoundTo(i)'
    <3>1. \A u \in Users : store[u].pc = "rename" =>
             store[u].tmp.ver = "v2" /\ store[u].tmp.id = i
      BY <2>1, <2>2 DEF Owns
    <3> QED
      BY <1>1, <2>0, <2>2, <3>1, DiskStep DEF BoundTo, diskVars
  <2>3. ASSUME NEW k \in Shards, OfShard(k) PROVE OfShard(k)'
    <3>1. \A u \in Users : store[u].pc = "rename" =>
             store[u].tmp.ver = "v2" /\ store[u].tmp.id.shard = k
      BY <2>1, <2>3 DEF Owns
    <3> QED
      BY <1>1, <2>0, <2>3, <3>1, DiskStep DEF OfShard, diskVars
  <2> QED
    BY <2>2, <2>3
<1>2. FileInv /\ AloneInv /\ [Next]_vars
        => [~shared =>
              /\ \A i \in Identities : BoundTo(i) => BoundTo(i)'
              /\ \A k \in Shards : OfShard(k) => OfShard(k)']_vars
  BY <1>1
<1>3. Init => FileInv /\ AloneInv
  BY FileInit, AloneInit
<1>4. FileInv /\ AloneInv /\ [Next]_vars => (FileInv /\ AloneInv)'
  BY FileStep, AloneStep
<1> QED
  BY <1>2, <1>3, <1>4, PTL DEF Spec, BoundForever

--------------------------------------------------------------------------------
(* The refinement of AtomicFile. *)

\* Of one process alone, CHOOSE leaves no choice.
LEMMA MemoryOfOne ==
  OneAtATime =>
    /\ Running = {} => Memory = Content(path)
    /\ \A u \in Running :
         Memory = IF store[u].pc = "absent" THEN Content(path) ELSE store[u].old
<1> SUFFICES ASSUME OneAtATime, NEW u \in Running
             PROVE  Memory = IF store[u].pc = "absent" THEN Content(path) ELSE store[u].old
  BY DEF Memory
<1>1. (CHOOSE v \in Running : TRUE) = u
  BY DEF OneAtATime
<1> QED
  BY <1>1 DEF Memory

Kept == {Content(image) : image \in entries}

\* A step that keeps all three of AtomicFile's variables, or is the crash of a process.
Quiet ==
  /\ UNCHANGED <<Content(path), Kept>>
  /\ Memory' \in {Memory, Content(path)}

\* Every step of the one process that uses the file is a step of AtomicFile, or none.
LEMMA AtomicStep ==
  ASSUME FileInv, AloneInv, AloneInv', [Next]_vars, ~shared
  PROVE  A!Next \/ UNCHANGED A!storeVars
<1>0. /\ store \in [Users -> Stores] /\ path \in entries /\ entries \subseteq Whole
      /\ path \in Whole /\ shared' = shared
      /\ \A v \in Users : ProcessInv(store[v]) /\ Holds(store[v])
  <2>1. shared' = shared
    BY DEF Next, Use, Flush, Begin, StatForCreate, OpenCurrent, OpenOld, Change, WriteTemp,
           SyncTemp, RenameTemp, SyncDirectory, Gone, PowerLoss, vars
  <2> QED
    BY <2>1 DEF FileInv, TypeOK, AloneInv
<1>m. /\ Running = {} => Memory = Content(path)
      /\ \A u \in Running :
           Memory = IF store[u].pc = "absent" THEN Content(path) ELSE store[u].old
  BY MemoryOfOne DEF AloneInv
<1>n. /\ Running' = {} => Memory' = Content(path')
      /\ \A u \in Running' :
           Memory' = IF store'[u].pc = "absent" THEN Content(path') ELSE store'[u].old
  <2>1. (OneAtATime =>
          /\ Running = {} => Memory = Content(path)
          /\ \A u \in Running :
               Memory = IF store[u].pc = "absent" THEN Content(path) ELSE store[u].old)'
    BY MemoryOfOne, PTL
  <2>2. OneAtATime'
    BY <1>0 DEF AloneInv
  <2> QED
    BY <2>1, <2>2 DEF Content
<1>k. Content(path) \in Kept
  BY <1>0 DEF Kept
<1>q. ASSUME Quiet PROVE A!Next \/ UNCHANGED A!storeVars
  <2>1. CASE Memory' = Memory
    <3>1. UNCHANGED <<Memory, Content(path), Kept, shared>>
      BY <1>0, <1>q, <2>1 DEF Quiet
    <3> QED
      BY <3>1 DEF A!storeVars, Alone, Kept
  <2>2. CASE Memory' = Content(path)
    <3>1. A!StoreKill({})
      BY <1>0, <1>k, <1>q, <2>2 DEF Quiet, A!StoreKill, Alone, Kept
    <3> QED
      BY <3>1 DEF A!Next
  <2> QED
    BY <1>q, <2>1, <2>2 DEF Quiet
<1>d. ASSUME UNCHANGED diskVars PROVE UNCHANGED <<Content(path), Kept>>
  BY <1>d DEF diskVars, Content, Kept
<1>1. ASSUME NEW u \in Users, MayStart(u), UNCHANGED diskVars,
             store'[u].pc # "off",
             store'[u].pc = "absent" \/ store'[u].old = Content(path)
      PROVE  Quiet
  <2>1. u \in Running' /\ Running = {}
    BY <1>0, <1>1 DEF MayStart, Running
  <2>2. Memory = Content(path) /\ Memory' = Content(path)
    BY <1>1, <1>d, <1>m, <1>n, <2>1
  <2> QED
    BY <1>1, <1>d, <2>2 DEF Quiet
<1>2. ASSUME NEW u \in Users, store[u].pc \notin {"off", "absent", "ready"},
             GiveUp(u), UNCHANGED diskVars
      PROVE  Quiet
  <2>1. store'[u].pc # "absent" /\ (store'[u].pc # "off" => store'[u].old = store[u].old)
    <3>1. store[u].goal = "op" => store'[u].pc = "ready"
      BY <1>0, <1>2 DEF GiveUp, Stores
    <3>2. store[u].goal # "op" => store'[u].pc = "off"
      BY <1>0, <1>2 DEF GiveUp, Off
    <3> QED
      BY <1>0, <1>2, <3>1, <3>2, GiveUpHolds
  <2>2. u \in Running /\ Memory = store[u].old
    BY <1>2, <1>m DEF Running
  <2>3. CASE store'[u].pc = "off"
    <3>1. \A v \in Users \ {u} : store'[v] = store[v]
      BY <1>0, <1>2 DEF GiveUp
    <3>2. Running' = {}
      BY <2>2, <2>3, <3>1 DEF AloneInv, OneAtATime, Running
    <3>3. Memory' = Content(path)
      BY <1>2, <1>d, <1>n, <3>2
    <3> QED
      BY <1>2, <1>d, <3>3 DEF Quiet
  <2>4. CASE store'[u].pc # "off"
    <3>1. u \in Running'
      BY <2>4 DEF Running
    <3>2. Memory' = Memory
      BY <1>n, <2>1, <2>2, <2>4, <3>1
    <3> QED
      BY <1>2, <1>d, <3>2 DEF Quiet
  <2> QED
    BY <2>3, <2>4
<1>3. ASSUME NEW u \in Users, store[u].pc \notin {"off", "absent"},
             store'[u].pc \notin {"off", "absent"}, store'[u].old = store[u].old,
             UNCHANGED diskVars
      PROVE  Quiet
  <2>1. u \in Running /\ u \in Running'
    BY <1>3 DEF Running
  <2>2. Memory' = Memory
    BY <1>3, <1>m, <1>n, <2>1
  <2> QED
    BY <1>3, <1>d, <2>2 DEF Quiet
<1>4. ASSUME NEW u \in Users, Begin(u) PROVE Quiet
  <2>1. PICK i \in Identities : Become(u, "absent", "create", i, 0)
    BY <1>4 DEF Begin
  <2>2. store'[u].pc = "absent"
    BY <1>0, <2>1 DEF Become, Off
  <2> QED
    BY <1>1, <1>4, <2>2 DEF Begin
<1>5. ASSUME NEW u \in Users, OpenCurrent(u) \/ OpenOld(u) PROVE Quiet
  <2>1. PICK i \in Identities :
          \/ Become(u, "ready", "op", i, path.content)
          \/ Become(u, "write", "migrate", i, path.content)
    BY <1>5 DEF OpenCurrent, OpenOld
  <2>2. store'[u].pc \in {"ready", "write"} /\ store'[u].old = path.content
    BY <1>0, <2>1 DEF Become, Off
  <2>3. path.content = Content(path)
    BY <1>5 DEF OpenCurrent, OpenOld, Content
  <2> QED
    BY <1>1, <1>5, <2>2, <2>3 DEF OpenCurrent, OpenOld
<1>6. ASSUME NEW u \in Users, StatForCreate(u) PROVE Quiet
  <2>1. u \in Running /\ Memory = Content(path) /\ UNCHANGED diskVars
    BY <1>6, <1>m DEF StatForCreate, Running
  <2>2. CASE path = NoImage
    <3>1. store'[u] = [store[u] EXCEPT !.pc = "write"]
      BY <1>0, <1>6, <2>2 DEF StatForCreate
    <3>2. store'[u].pc = "write" /\ store'[u].old = 0
      BY <1>0, <1>6, <3>1 DEF Stores, StatForCreate, Holds
    <3>3. Content(path) = 0
      BY <2>2 DEF Content, NoImage
    <3>4. Memory' = 0
      BY <1>n, <3>2 DEF Running
    <3> QED
      BY <1>d, <2>1, <3>3, <3>4 DEF Quiet
  <2>3. CASE path # NoImage
    <3>1. store'[u].pc = "off" /\ \A v \in Users \ {u} : store'[v] = store[v]
      BY <1>0, <1>6, <2>3 DEF StatForCreate, Off
    <3>2. Running' = {}
      BY <2>1, <3>1 DEF AloneInv, OneAtATime, Running
    <3>3. Memory' = Content(path)
      BY <1>d, <1>n, <2>1, <3>2
    <3> QED
      BY <1>d, <2>1, <3>3 DEF Quiet
  <2> QED
    BY <2>2, <2>3
<1>7. ASSUME NEW u \in Users, Change(u) PROVE Quiet
  <2>1. PICK c \in Contents : store' = [store EXCEPT ![u].pc = "write", ![u].mem = c]
    BY <1>7 DEF Change
  <2>2. store'[u].pc = "write" /\ store'[u].old = store[u].old
    BY <1>0, <2>1 DEF Stores
  <2> QED
    BY <1>3, <1>7, <2>2 DEF Change
<1>8. ASSUME NEW u \in Users, WriteTemp(u) \/ SyncTemp(u) PROVE Quiet
  <2>1. store[u].pc \in {"write", "sync"} /\ UNCHANGED diskVars
    BY <1>8 DEF WriteTemp, SyncTemp
  <2>2. \/ GiveUp(u)
        \/ store'[u].pc \in {"sync", "rename"} /\ store'[u].old = store[u].old
    <3>1. ASSUME NEW image, store' = [store EXCEPT ![u].pc = "sync", ![u].tmp = image]
          PROVE  store'[u].pc = "sync" /\ store'[u].old = store[u].old
      BY <1>0, <3>1 DEF Stores
    <3>2. ASSUME store' = [store EXCEPT ![u].pc = "rename", ![u].tmp.synced = TRUE]
          PROVE  store'[u].pc = "rename" /\ store'[u].old = store[u].old
      BY <1>0, <3>2 DEF Stores
    <3> QED
      BY <1>8, <3>1, <3>2 DEF WriteTemp, SyncTemp
  <2> QED
    BY <1>2, <1>3, <2>1, <2>2
<1>9. ASSUME NEW u \in Users, RenameTemp(u) PROVE A!Next \/ UNCHANGED A!storeVars
  <2>1. CASE GiveUp(u) /\ UNCHANGED diskVars
    BY <1>2, <1>9, <1>q, <2>1 DEF RenameTemp
  <2>2. CASE /\ path' = store[u].tmp /\ entries' = entries \cup {path'}
             /\ store' = [store EXCEPT ![u].pc = "syncdir", ![u].tmp = NoImage]
    <3> DEFINE c == store[u].mem
    <3>1. /\ store[u].tmp.content = c /\ store[u].tmp.ver = "v2" /\ c \in Contents
      BY <1>0, <1>9 DEF RenameTemp, ProcessInv, NewImages, Stores
    <3>2. Content(path') = c
      BY <2>2, <3>1 DEF Content
    <3>3. Kept' = Kept \cup {c}
      BY <2>2, <3>2 DEF Kept, Content
    <3>4. store'[u].pc = "syncdir" /\ store'[u].old = store[u].old
      BY <1>0, <2>2 DEF Stores
    <3>5. Memory' = Memory
      BY <1>9, <1>m, <1>n, <3>4 DEF RenameTemp, Running
    <3>6. A!FlushFails(c, "dirsync")
      BY <1>0, <3>2, <3>3, <3>5 DEF A!FlushFails, Alone, Kept, Content
    <3> QED
      BY <3>1, <3>6 DEF A!Next
  <2> QED
    BY <1>9, <2>1, <2>2 DEF RenameTemp
<1>10. ASSUME NEW u \in Users, SyncDirectory(u) PROVE A!Next \/ UNCHANGED A!storeVars
  <2>1. CASE GiveUp(u) /\ UNCHANGED entries
    BY <1>2, <1>10, <1>q, <2>1 DEF SyncDirectory, diskVars
  <2>2. CASE /\ entries' = {path}
             /\ store' = [store EXCEPT ![u].pc = "ready", ![u].goal = "op",
                                       ![u].old = store[u].mem]
    <3> DEFINE c == store[u].mem
    <3>1. Content(path) = c /\ c \in Contents /\ path' = path
      BY <1>0, <1>10 DEF SyncDirectory, Holds, Content, Stores
    <3>2. Kept' = {c} /\ Content(path') = c
      BY <2>2, <3>1 DEF Kept, Content
    <3>3. store'[u].pc = "ready" /\ store'[u].old = c
      BY <1>0, <2>2 DEF Stores
    <3>4. Memory' = c
      BY <1>n, <3>3 DEF Running
    <3>5. A!FlushOK(c)
      BY <1>0, <3>2, <3>4 DEF A!FlushOK, Alone, Kept, Content
    <3> QED
      BY <3>1, <3>5 DEF A!Next
  <2> QED
    BY <1>10, <2>1, <2>2 DEF SyncDirectory
<1>11. ASSUME NEW u \in Users, Gone(u) PROVE Quiet
  <2>1. store'[u].pc = "off" /\ \A v \in Users \ {u} : store'[v] = store[v]
    BY <1>0, <1>11 DEF Gone, Off
  <2>2. Running' = {}
    BY <1>11, <2>1 DEF Gone, AloneInv, OneAtATime, Running
  <2> QED
    BY <1>11, <1>d, <1>n, <2>2 DEF Gone, Quiet
<1>12. ASSUME PowerLoss PROVE A!Next
  <2>1. path' \in entries /\ entries' = {path'} /\ Running' = {}
    BY <1>0, <1>12, WholeByVersion DEF PowerLoss, Reread, Running, Off
  <2>2. Content(path') \in Kept /\ Kept' = {Content(path')} /\ Memory' = Content(path')
    BY <1>n, <2>1 DEF Kept, Content
  <2>3. A!StorePowerLoss({})
    BY <1>0, <2>2 DEF A!StorePowerLoss, Alone, Kept, Content
  <2> QED
    BY <2>3 DEF A!Next
<1>13. ASSUME UNCHANGED vars PROVE UNCHANGED A!storeVars
  <2>1. UNCHANGED <<shared, path, entries, store>>
    BY <1>13 DEF vars, diskVars
  <2> QED
    BY <2>1 DEF A!storeVars, Alone, Memory, Content, Running
<1> QED
  BY <1>4, <1>5, <1>6, <1>7, <1>8, <1>9, <1>10, <1>11, <1>12, <1>13, <1>q
     DEF Next, Use, Flush

\* The call-by-call flush, under every failure and crash between its calls, is the
\* atomic file the modules above the store are written over.
THEOREM FlushAtomic == Spec => FlushIsAtomic
<1>1. Init => A!Init
  <2> SUFFICES ASSUME Init PROVE A!Init
    OBVIOUS
  <2>1. Running = {} /\ entries = {path} /\ path \in Whole
    BY DEF Init, Running, Off
  <2>2. Memory = Content(path) /\ Kept = {Content(path)}
    BY <2>1 DEF Memory, Kept
  <2>3. Content(path) \in Contents
    BY <2>1, WholeByVersion, FileAssumption DEF Content, OldImages, NewImages
  <2>4. CASE shared
    <3>1. A!StoreInit(0)
      BY <2>4 DEF A!StoreInit, Alone
    <3> QED
      BY <3>1, FileAssumption DEF A!Init
  <2>5. CASE ~shared
    <3>1. A!StoreInit(Content(path))
      BY <2>2, <2>5 DEF A!StoreInit, Alone, Kept
    <3> QED
      BY <2>3, <3>1 DEF A!Init
  <2> QED
    BY <2>4, <2>5 DEF Init
<1>2. FileInv /\ AloneInv /\ AloneInv' /\ [Next]_vars => [A!Next]_A!storeVars
  <2> SUFFICES ASSUME FileInv, AloneInv, AloneInv', [Next]_vars
               PROVE  A!Next \/ UNCHANGED A!storeVars
    OBVIOUS
  <2>1. CASE shared
    <3>1. shared' = shared
      BY DEF Next, Use, Flush, Begin, StatForCreate, OpenCurrent, OpenOld, Change, WriteTemp,
             SyncTemp, RenameTemp, SyncDirectory, Gone, PowerLoss, vars
    <3> QED
      BY <2>1, <3>1 DEF A!storeVars, Alone
  <2> QED
    BY <2>1, AtomicStep
<1>3. Init => FileInv /\ AloneInv
  BY FileInit, AloneInit
<1>4. FileInv /\ AloneInv /\ [Next]_vars => (FileInv /\ AloneInv)'
  BY FileStep, AloneStep
<1> QED
  BY <1>1, <1>2, <1>3, <1>4, PTL DEF Spec, FlushIsAtomic, A!Spec
================================================================================
