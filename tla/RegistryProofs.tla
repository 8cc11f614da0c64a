----------------------------- MODULE RegistryProofs -----------------------------
(***************************************************************************)
(* Theorems about Registry, for any entities, requests, start values and   *)
(* bounds: what a name is bound to, and where its marks lie, survives the  *)
(* flushes, failures and crashes on behalf of every other name.            *)
(***************************************************************************)
EXTENDS Registry, TLAPS

USE RegistryAssumption, FaultsAssumption

\* What a request holds, by its operation.
LEMMA RequestFields ==
  ASSUME NEW r \in Requests \cup {NoReq}
  PROVE  /\ r.op \in {"none", "next", "init", "reset"}
         /\ r.op # "none" => r.name \in Entities
         /\ r.op \in {"next", "init"} => r.type \in Types
         /\ r.op = "init" => r.start \in Nat /\ (r.type # "numeric" => r.start = 0)
         /\ r.op = "reset" => r.target \in Nat /\ r.force \in BOOLEAN
<1>1. CASE r \in [op : {"next"}, name : Entities, type : Types]
  BY <1>1
<1>2. CASE r \in [op : {"init"}, name : Entities, type : Types, start : {0}]
  BY <1>2
<1>3. CASE r \in [op : {"init"}, name : Entities, type : Types \cap {"numeric"}, start : Starts]
  BY <1>3
<1>4. CASE r \in [op : {"reset"}, name : Entities, target : Starts, force : BOOLEAN]
  BY <1>4
<1>5. CASE r = NoReq
  BY <1>5 DEF NoReq
<1> QED
  BY <1>1, <1>2, <1>3, <1>4, <1>5 DEF Requests

\* A record with another mark is a record of the same type.
LEMMA Remarked ==
  ASSUME NEW r \in Records, NEW m \in Nat
  PROVE  LET s == [r EXCEPT !.mark = m]
         IN  s \in Records /\ s.type = r.type /\ s.mark = m
BY DEF Records

\* With changes one record.
LEMMA WithFacts ==
  ASSUME IsContent(mem), NEW e \in Entities, NEW r \in Records
  PROVE  /\ IsContent(With(e, r)) /\ With(e, r)[e] = r
         /\ \A f \in Entities \ {e} : With(e, r)[f] = mem[f]
BY DEF IsContent, With

--------------------------------------------------------------------------------
(* The store's operations. *)

\* What Open would read, and what memory holds, is among the images that may survive.
StoreInv == mem \in durable /\ file \in durable

\* A flush that succeeded leaves its content in memory and as the only image.
LEMMA FlushOKEffect ==
  ASSUME NEW c, FlushOK(c)
  PROVE  mem' = c /\ Images' = {c} /\ StoreInv'
BY DEF FlushOK, Images, StoreInv

\* A flush that failed leaves memory as it was, and perhaps one more image.
LEMMA FlushFailsEffect ==
  ASSUME StoreInv, NEW c, NEW sync, FlushFails(c, sync)
  PROVE  mem' = mem /\ Images' \subseteq Images \cup {c} /\ StoreInv'
BY DEF FlushFails, Images, StoreInv, storeVars

\* After a crash, memory is what the path names, an old image or one being written.
LEMMA CrashEffect ==
  ASSUME StoreInv, NEW W, StoreKill(W) \/ StorePowerLoss(W)
  PROVE  mem' \in Images' /\ Images' \subseteq Images \cup W /\ StoreInv'
BY DEF StoreKill, StorePowerLoss, Images, StoreInv

\* Nothing of the store changes when its variables do not.
LEMMA SameStore ==
  ASSUME UNCHANGED storeVars
  PROVE  mem' = mem /\ Images' = Images /\ (StoreInv => StoreInv')
BY DEF storeVars, Images, StoreInv

\* A flush of c ended, well or not.
Wrote(c) ==
  \/ mem' = c /\ Images' = {c}
  \/ mem' = mem /\ Images' \subseteq Images \cup {c}

--------------------------------------------------------------------------------
(* The inductive invariant. *)

\* A request that goes on was let through by the type of the record it goes on with,
\* and nothing changes that type while the service runs.
RequestsFit ==
  \A p \in Procs :
    /\ pc[p] = "register" => req[p].op \in {"next", "init"}
    /\ pc[p] = "mint" => /\ req[p].op = "next"
                         /\ mem[req[p].name].type = req[p].type
    /\ pc[p] \in {"get", "set"} => req[p].op = "reset"
    /\ pc[p] = "set" => mem[req[p].name].type = "numeric"

DownIsQuiet ==
  ~up => /\ ~leased
         /\ \A p \in Procs : pc[p] = "idle"
         /\ \A e \in Entities : window[e] = NoWindow

Base == TypeOK /\ RequestsFit /\ DownIsQuiet /\ StoreInv

\* Every reset that happened is on disk: no flush of one failed after its rename.
ResetsSynced == "resetsync" \notin Faults

\* A record that e may be restored from: of the type that was told, not below the
\* start that was promised, and above what was handed out if resets are synced.
RecordFits(r, e) ==
  /\ r.type \in {"absent", "snowflake"} => r.mark = 0
  /\ promised[e] <= r.mark
  /\ told[e] # "absent" => r.type = told[e]
  /\ ResetsSynced => \A h \in handed[e] : h[1] # "snowflake" => h[2] < r.mark

ImagesFit(e) == \A img \in Images : RecordFits(img[e], e)

\* A window that still holds something is covered by every image.
WindowFits(e) ==
  window[e] # NoWindow =>
    /\ window[e].type = mem[e].type /\ window[e].type # "absent"
    /\ window[e].end = mem[e].mark /\ window[e].cursor <= window[e].end
    /\ promised[e] <= window[e].cursor
    /\ ResetsSynced =>
         \A h \in handed[e] : h[1] # "snowflake" => h[2] < window[e].cursor
    /\ window[e].cursor < window[e].end =>
         \A img \in Images : /\ img[e].type = window[e].type
                             /\ ResetsSynced => img[e].mark >= window[e].end

\* The lease's flush wrote the records of all entities.
LeaseFits(e) ==
  leased /\ Known(e) => \A img \in Images : img[e].type = mem[e].type

HandedFits(e) ==
  \A h \in handed[e] : h[1] = told[e] /\ told[e] # "absent" /\ h[2] >= promised[e]

Fits(e) == ImagesFit(e) /\ WindowFits(e) /\ LeaseFits(e) /\ HandedFits(e)

RegistryInv == Base /\ \A e \in Entities : Fits(e)

--------------------------------------------------------------------------------
(* What the invariant says of one name. *)

\* Types of what is kept for e, and that memory's record of it is one that fits.
LEMMA NameFacts ==
  ASSUME RegistryInv, NEW e \in Entities
  PROVE  /\ mem \in Images /\ mem[e] \in Records /\ RecordFits(mem[e], e)
         /\ \A img \in Images : img[e] \in Records
         /\ window[e] \in Windows /\ promised[e] \in Nat /\ handed[e] \subseteq Types \X Nat
         /\ told[e] \in Types \cup {"absent"}
         /\ Known(e) <=> mem[e].type # "absent"
<1>1. mem \in Images /\ mem[e] \in Records /\ \A img \in Images : img[e] \in Records
  BY DEF RegistryInv, Base, StoreInv, Images, TypeOK, StoreTypes, IsContent
<1>2. RecordFits(mem[e], e)
  BY <1>1 DEF RegistryInv, Fits, ImagesFit
<1>3. Known(e) <=> mem[e].type # "absent"
  BY <1>1, <1>2 DEF RecordFits, Known, Absent, Records
<1>4. /\ window[e] \in Windows /\ promised[e] \in Nat /\ handed[e] \subseteq Types \X Nat
      /\ told[e] \in Types \cup {"absent"}
  BY DEF RegistryInv, Base, TypeOK, NameTypes
<1> QED
  BY <1>1, <1>2, <1>3, <1>4

\* A name that memory does not know has no history.
LEMMA UnknownIsFresh ==
  ASSUME RegistryInv, NEW e \in Entities, ~Known(e)
  PROVE  /\ told[e] = "absent" /\ handed[e] = {} /\ promised[e] = 0
         /\ window[e] = NoWindow /\ mem[e].mark = 0 /\ mem[e].type = "absent"
<1>1. mem[e].type = "absent" /\ mem[e].mark = 0
  BY DEF Known, Absent
<1>2. told[e] = "absent" /\ promised[e] = 0
  BY <1>1, NameFacts DEF RecordFits
<1>3. handed[e] = {}
  BY <1>2 DEF RegistryInv, Fits, HandedFits
<1>4. window[e] = NoWindow
  BY <1>1 DEF RegistryInv, Fits, WindowFits
<1> QED
  BY <1>1, <1>2, <1>3, <1>4

\* The window that Next and Reset work on, loaded first or not.
LEMMA LoadedFits ==
  ASSUME RegistryInv, NEW e \in Entities, Known(e)
  PROVE  /\ Loaded(e) \in Windows
         /\ Loaded(e).type = mem[e].type /\ Loaded(e).type # "absent"
         /\ Loaded(e).end = mem[e].mark /\ Loaded(e).cursor <= Loaded(e).end
         /\ promised[e] <= Loaded(e).cursor
         /\ ResetsSynced =>
              \A h \in handed[e] : h[1] # "snowflake" => h[2] < Loaded(e).cursor
         /\ Loaded(e).cursor < Loaded(e).end =>
              \A img \in Images : /\ img[e].type = Loaded(e).type
                                  /\ ResetsSynced => img[e].mark >= Loaded(e).end
<1>1. CASE window[e] # NoWindow
  <2>1. Loaded(e) = window[e]
    BY <1>1 DEF Loaded
  <2> QED
    BY <1>1, <2>1, NameFacts DEF RegistryInv, Fits, WindowFits
<1>2. CASE window[e] = NoWindow
  <2>1. Loaded(e) = [type |-> mem[e].type, cursor |-> mem[e].mark, end |-> mem[e].mark]
    BY <1>2 DEF Loaded
  <2>2. mem[e].type \in Types \cup {"absent"} /\ mem[e].mark \in Nat
    BY NameFacts DEF Records
  <2>3. /\ promised[e] <= mem[e].mark /\ mem[e].type # "absent"
        /\ ResetsSynced => \A h \in handed[e] : h[1] # "snowflake" => h[2] < mem[e].mark
    BY NameFacts DEF RecordFits
  <2>4. Loaded(e) \in Windows
    BY <2>1, <2>2 DEF Windows
  <2> QED
    BY <2>1, <2>2, <2>3, <2>4
<1> QED
  BY <1>1, <1>2

\* A record that may replace e's without a change of what was told or handed out.
Grows(e, r) ==
  /\ r \in Records /\ r.mark >= mem[e].mark
  /\ r.type \in {"absent", "snowflake"} => r.mark = 0
  /\ Known(e) => r.type = mem[e].type

\* A record that grows from a fitting one fits.
LEMMA GrowsFits ==
  ASSUME RegistryInv, NEW e \in Entities, NEW r, Grows(e, r)
  PROVE  RecordFits(r, e)
<1>1. CASE Known(e)
  <2>1. /\ mem[e].mark \in Nat /\ r.mark \in Nat /\ r.mark >= mem[e].mark
        /\ r.type = mem[e].type /\ promised[e] \in Nat
        /\ handed[e] \subseteq Types \X Nat
    BY <1>1, NameFacts DEF Grows, Records
  <2>2. RecordFits(mem[e], e)
    BY NameFacts
  <2>3. promised[e] <= r.mark
    BY <2>1, <2>2 DEF RecordFits
  <2>4. ResetsSynced => \A h \in handed[e] : h[1] # "snowflake" => h[2] < r.mark
    BY <2>1, <2>2 DEF RecordFits
  <2> QED
    BY <1>1, <2>1, <2>2, <2>3, <2>4 DEF RecordFits, Grows
<1>2. CASE ~Known(e)
  BY <1>2, UnknownIsFresh DEF RecordFits, Grows, Records
<1> QED
  BY <1>1, <1>2

--------------------------------------------------------------------------------
(* Names that a step leaves alone. *)

\* Memory's own record is one that grows.
LEMMA MemGrows ==
  ASSUME RegistryInv, NEW e \in Entities
  PROVE  Grows(e, mem[e])
BY NameFacts DEF Grows, RecordFits, Records

\* Nothing is added to e's history.
NothingAdded(e) ==
  /\ told'[e] = told[e] /\ handed'[e] \subseteq handed[e]
  /\ promised'[e] \in Nat /\ promised'[e] <= promised[e]

\* Every image after the step is an old one, or may replace e's record.
OldOrGrown(e) == \A img \in Images' : img \in Images \/ Grows(e, img[e])

\* Leaving a history alone adds nothing to it.
LEMMA SameHistory ==
  ASSUME RegistryInv, NEW e \in Entities,
         told'[e] = told[e], promised'[e] = promised[e], handed'[e] = handed[e]
  PROVE  NothingAdded(e)
<1>1. \A n \in Nat : n <= n
  OBVIOUS
<1> QED
  BY <1>1, NameFacts DEF NothingAdded

\* A promise that was kept still is.
LEMMA PromiseKept ==
  ASSUME RegistryInv, NEW e \in Entities, NothingAdded(e), NEW m \in Nat, promised[e] <= m
  PROVE  promised'[e] <= m
<1>1. \A a, b \in Nat : a <= b /\ b <= m => a <= m
  OBVIOUS
<1> QED
  BY <1>1, NameFacts DEF NothingAdded

\* What was handed out still fits.
LEMMA HandedKept ==
  ASSUME RegistryInv, NEW e \in Entities, NothingAdded(e)
  PROVE  HandedFits(e)'
<1>1. \A h \in handed[e] : /\ h[1] = told[e] /\ told[e] # "absent"
                           /\ h[2] \in Nat /\ promised[e] <= h[2]
  BY NameFacts DEF RegistryInv, Fits, HandedFits
<1>2. \A h \in handed[e] : promised'[e] <= h[2]
  BY <1>1, PromiseKept
<1>3. \A h \in handed[e] : h[2] >= promised'[e]
  BY <1>1, <1>2 DEF NothingAdded
<1> QED
  BY <1>1, <1>3 DEF NothingAdded, HandedFits

\* A record that fitted still does.
LEMMA RecordKept ==
  ASSUME RegistryInv, NEW e \in Entities, NothingAdded(e),
         NEW r, r.mark \in Nat, RecordFits(r, e)
  PROVE  RecordFits(r, e)'
<1>1. promised'[e] <= r.mark
  BY PromiseKept DEF RecordFits
<1> QED
  BY <1>1 DEF RecordFits, NothingAdded

\* All images fit, if all that are new may replace the record.
LEMMA ImagesKept ==
  ASSUME RegistryInv, NEW e \in Entities, NothingAdded(e), OldOrGrown(e)
  PROVE  ImagesFit(e)' /\ HandedFits(e)'
<1>1. HandedFits(e)'
  BY HandedKept
<1>2. ASSUME NEW img \in Images'
      PROVE  RecordFits(img[e], e)'
  <2>1. RecordFits(img[e], e)
    BY <1>2, GrowsFits DEF OldOrGrown, RegistryInv, Fits, ImagesFit
  <2>2. img[e].mark \in Nat
    BY NameFacts DEF OldOrGrown, Grows, Records
  <2> QED
    BY <2>1, <2>2, RecordKept
<1> QED
  BY <1>1, <1>2 DEF ImagesFit

\* A step on another name: memory has the same record of e, images either have
\* it too or are old, and a lease that is new was saved with it.
LEMMA KeptFits ==
  ASSUME RegistryInv, NEW e \in Entities, NothingAdded(e),
         window'[e] = window[e], mem'[e] = mem[e],
         \A img \in Images' : img \in Images \/ img[e] = mem[e],
         leased' => leased \/ \A img \in Images' : img[e] = mem[e]
  PROVE  Fits(e)'
<1>1. OldOrGrown(e)
  BY MemGrows DEF OldOrGrown
<1>2. ImagesFit(e)' /\ HandedFits(e)'
  BY <1>1, ImagesKept
<1>3. WindowFits(e)'
  <2>1. /\ mem[e].mark \in Nat /\ WindowFits(e)
        /\ window[e].cursor \in Nat /\ window[e].end \in Nat
    BY NameFacts DEF RegistryInv, Fits, Records, Windows
  <2>2. window[e] # NoWindow => promised'[e] <= window[e].cursor
    BY <2>1, PromiseKept DEF WindowFits
  <2> QED
    BY <2>1, <2>2 DEF WindowFits, NothingAdded
<1>4. LeaseFits(e)'
  BY DEF LeaseFits, RegistryInv, Fits, Known
<1> QED
  BY <1>2, <1>3, <1>4 DEF Fits

\* The process is gone: no window and no lease is left.
LEMMA GoneFits ==
  ASSUME RegistryInv, NEW e \in Entities, NothingAdded(e), OldOrGrown(e),
         window'[e] = NoWindow, ~leased'
  PROVE  Fits(e)'
BY ImagesKept DEF Fits, WindowFits, LeaseFits

\* A flush on behalf of e leaves the names beside it alone.
LEMMA OthersFit ==
  ASSUME RegistryInv, NEW e \in Entities, NEW r \in Records, Wrote(With(e, r)),
         leased' = leased, NEW f \in Entities \ {e}, NothingAdded(f),
         window'[f] = window[f]
  PROVE  Fits(f)'
<1>1. With(e, r)[f] = mem[f]
  BY WithFacts DEF RegistryInv, Base, TypeOK, StoreTypes
<1> QED
  BY <1>1, KeptFits DEF Wrote

\* A step that leaves the store, the histories and the lease alone.
LEMMA IdleFits ==
  ASSUME RegistryInv, UNCHANGED <<storeVars, registryVars, leased>>,
         NEW e \in Entities, window'[e] = window[e]
  PROVE  Fits(e)'
<1>1. mem' = mem /\ Images' = Images
  BY SameStore
<1> QED
  BY <1>1, KeptFits, SameHistory DEF registryVars

--------------------------------------------------------------------------------
(* Register. *)

\* The record that Register creates for a name that had none.
LEMMA FirstRecord ==
  ASSUME RegistryInv, NEW e \in Entities, ~Known(e),
         NEW t \in Types, NEW start \in Nat, t # "numeric" => start = 0
  PROVE  /\ [type |-> t, mark |-> start] \in Records
         /\ Grows(e, [type |-> t, mark |-> start])
<1>1. [type |-> t, mark |-> start] \in Records
  BY DEF Records
<1>2. mem[e].mark = 0
  BY UnknownIsFresh
<1> QED
  BY <1>1, <1>2 DEF Grows

\* Register creates e's record; an init may also have told of it.
LEMMA RegisterNewFits ==
  ASSUME RegistryInv, NEW e \in Entities, ~Known(e),
         NEW t \in Types, NEW start \in Nat, t # "numeric" => start = 0,
         RegisterNew(e, t, start), UNCHANGED <<window, leased, handed>>,
         \/ UNCHANGED <<told, promised>>
         \/ /\ told' = [told EXCEPT ![e] = t]
            /\ promised' = [promised EXCEPT ![e] = start]
  PROVE  \A f \in Entities : Fits(f)'
<1> DEFINE r == [type |-> t, mark |-> start]
<1>1. r \in Records /\ Grows(e, r)
  BY FirstRecord
<1>2. mem' = With(e, r) /\ Images' = {With(e, r)}
  BY FlushOKEffect DEF RegisterNew
<1>3. ASSUME NEW f \in Entities \ {e}
      PROVE  Fits(f)'
  <2>1. NothingAdded(f)
    BY SameHistory DEF RegistryInv, Base, TypeOK, NameTypes
  <2> QED
    BY <1>1, <1>2, <2>1, OthersFit DEF Wrote
<1>4. With(e, r)[e] = r
  BY <1>1, WithFacts DEF RegistryInv, Base, TypeOK, StoreTypes
<1>5. /\ told[e] = "absent" /\ handed[e] = {} /\ promised[e] = 0
      /\ window[e] = NoWindow
  BY UnknownIsFresh
<1>6. /\ told'[e] \in {"absent", t} /\ promised'[e] \in {0, start} /\ handed'[e] = {}
      /\ window'[e] = NoWindow
  BY <1>5 DEF RegistryInv, Base, TypeOK, NameTypes
<1>7. ImagesFit(e)'
  BY <1>2, <1>4, <1>6 DEF ImagesFit, RecordFits
<1>8. WindowFits(e)' /\ LeaseFits(e)' /\ HandedFits(e)'
  BY <1>2, <1>4, <1>6 DEF WindowFits, LeaseFits, HandedFits
<1> QED
  BY <1>3, <1>7, <1>8 DEF Fits

\* Register's flush fails: e has no record, but an image may have it.
LEMMA RegisterFailsFits ==
  ASSUME RegistryInv, NEW e \in Entities, ~Known(e),
         NEW t \in Types, NEW start \in Nat, t # "numeric" => start = 0,
         RegisterFails(e, t, start), UNCHANGED <<window, leased, registryVars>>
  PROVE  \A f \in Entities : Fits(f)'
<1> DEFINE r == [type |-> t, mark |-> start]
<1>1. r \in Records /\ Grows(e, r)
  BY FirstRecord
<1>2. mem' = mem /\ Images' \subseteq Images \cup {With(e, r)}
  BY FlushFailsEffect DEF RegisterFails, RegistryInv, Base
<1>3. ASSUME NEW f \in Entities
      PROVE  NothingAdded(f)
  BY SameHistory DEF registryVars
<1>4. ASSUME NEW f \in Entities \ {e}
      PROVE  Fits(f)'
  BY <1>1, <1>2, <1>3, OthersFit DEF Wrote
<1>5. With(e, r)[e] = r
  BY <1>1, WithFacts DEF RegistryInv, Base, TypeOK, StoreTypes
<1>6. OldOrGrown(e)
  BY <1>1, <1>2, <1>5 DEF OldOrGrown
<1>7. ImagesFit(e)' /\ HandedFits(e)'
  BY <1>3, <1>6, ImagesKept
<1>8. WindowFits(e)' /\ LeaseFits(e)'
  BY <1>2, UnknownIsFresh DEF WindowFits, LeaseFits, Known
<1> QED
  BY <1>4, <1>7, <1>8 DEF Fits

--------------------------------------------------------------------------------
(* Next of the allocator, and the forge. *)

\* Next and Reset load e's window, and do nothing more to it.
LEMMA LoadFits ==
  ASSUME RegistryInv, NEW e \in Entities, Known(e), NothingAdded(e),
         window'[e] = Loaded(e), mem'[e] = mem[e], leased' = leased,
         \A img \in Images' :
           \/ img \in Images
           \/ Loaded(e).cursor = Loaded(e).end /\ Grows(e, img[e])
  PROVE  Fits(e)'
<1>1. OldOrGrown(e)
  BY DEF OldOrGrown
<1>2. ImagesFit(e)' /\ HandedFits(e)'
  BY <1>1, ImagesKept
<1>3. WindowFits(e)'
  <2> DEFINE w == Loaded(e)
  <2>1. /\ w.type = mem[e].type /\ w.type # "absent"
        /\ w.end = mem[e].mark /\ w.cursor <= w.end
        /\ promised[e] <= w.cursor
        /\ ResetsSynced => \A h \in handed[e] : h[1] # "snowflake" => h[2] < w.cursor
        /\ w.cursor < w.end =>
             \A img \in Images : /\ img[e].type = w.type
                                 /\ ResetsSynced => img[e].mark >= w.end
    BY LoadedFits
  <2>2. promised[e] \in Nat /\ w.cursor \in Nat /\ w.end \in Nat
    BY NameFacts, LoadedFits DEF Windows
  <2>3. promised'[e] <= w.cursor
    BY <2>1, <2>2 DEF NothingAdded
  <2>4. w.cursor < w.end =>
          \A img \in Images' : /\ img[e].type = w.type
                               /\ ResetsSynced => img[e].mark >= w.end
    BY <2>1, <2>2
  <2> QED
    BY <2>1, <2>3, <2>4 DEF WindowFits, NothingAdded
<1>4. LeaseFits(e)'
  BY DEF LeaseFits, RegistryInv, Fits, Known, Grows
<1> QED
  BY <1>2, <1>3, <1>4 DEF Fits

\* An iteration below what every image covers is handed out.
LEMMA HandOutFits ==
  ASSUME RegistryInv, NEW e \in Entities, NEW w \in Windows,
         window'[e] = [w EXCEPT !.cursor = @ + 1],
         handed'[e] = handed[e] \cup {<<w.type, w.cursor>>},
         told'[e] = w.type, promised'[e] = promised[e],
         w.type \notin {"absent", "snowflake"}, w.cursor < w.end, promised[e] <= w.cursor,
         w.type = mem[e].type, w.type = mem'[e].type, w.end = mem'[e].mark,
         ResetsSynced => \A h \in handed[e] : h[1] # "snowflake" => h[2] < w.cursor,
         \A img \in Images' : /\ img[e].type = w.type /\ img[e].mark \in Nat
                              /\ promised[e] <= img[e].mark
                              /\ ResetsSynced => img[e].mark >= w.end
  PROVE  Fits(e)'
<1>1. w.cursor \in Nat /\ w.end \in Nat /\ promised[e] \in Nat /\ handed[e] \subseteq Types \X Nat
  BY NameFacts DEF Windows
<1>2. \A h \in handed'[e] :
        /\ h[2] \in Nat
        /\ ResetsSynced /\ h[1] # "snowflake" => h[2] < w.cursor + 1
  BY <1>1
<1>3. ImagesFit(e)'
  <2>1. ASSUME NEW img \in Images'
        PROVE  RecordFits(img[e], e)'
    <3>1. img[e].mark \in Nat /\ img[e].type = w.type
      OBVIOUS
    <3>2. promised'[e] <= img[e].mark
      BY <2>1
    <3>3. ASSUME ResetsSynced
          PROVE  \A h \in handed'[e] : h[1] # "snowflake" => h[2] < img[e].mark
      <4>1. img[e].mark >= w.cursor + 1
        BY <1>1, <2>1, <3>1, <3>3
      <4> QED
        BY <1>1, <1>2, <3>1, <3>3, <4>1
    <3> QED
      BY <3>1, <3>2, <3>3 DEF RecordFits
  <2> QED
    BY <2>1 DEF ImagesFit
<1>4. WindowFits(e)'
  <2>1. /\ window'[e].type = w.type /\ window'[e].end = w.end
        /\ window'[e].cursor = w.cursor + 1
    BY DEF Windows
  <2>2. promised'[e] <= w.cursor + 1 /\ w.cursor + 1 <= w.end
    BY <1>1
  <2> QED
    BY <1>2, <2>1, <2>2 DEF WindowFits
<1>5. LeaseFits(e)'
  BY DEF LeaseFits
<1>6. HandedFits(e)'
  <2>1. \A h \in handed[e] : h[1] = w.type /\ h[2] >= promised[e]
    BY NameFacts DEF RegistryInv, Fits, HandedFits, RecordFits
  <2> QED
    BY <1>1, <2>1 DEF HandedFits
<1> QED
  BY <1>3, <1>4, <1>5, <1>6 DEF Fits

\* The request that is about to mint has a record of its type.
LEMMA MintFacts ==
  ASSUME RegistryInv, NEW p \in Procs, pc[p] = "mint"
  PROVE  /\ req[p].op = "next" /\ req[p].name \in Entities /\ req[p].type \in Types
         /\ mem[req[p].name].type = req[p].type /\ Known(req[p].name)
<1>1. req[p].op = "next" /\ mem[req[p].name].type = req[p].type
  BY DEF RegistryInv, Base, RequestsFit
<1>2. req[p] \in Requests \cup {NoReq}
  BY DEF RegistryInv, Base, TypeOK, RequestTypes
<1>3. req[p].name \in Entities /\ req[p].type \in Types
  BY <1>1, <1>2, RequestFields
<1> QED
  BY <1>1, <1>3, NameFacts

\* The segment that Next reserves.
LEMMA GrownRecord ==
  ASSUME RegistryInv, NEW e \in Entities, Known(e)
  PROVE  LET grown == [mem[e] EXCEPT !.mark = Loaded(e).end + SegmentSize]
         IN  /\ grown \in Records /\ grown.type = mem[e].type
             /\ grown.mark = Loaded(e).end + SegmentSize
             /\ mem[e].type # "snowflake" => Grows(e, grown)
<1> DEFINE m == Loaded(e).end + SegmentSize
           grown == [mem[e] EXCEPT !.mark = m]
<1>1. mem[e].mark \in Nat /\ Loaded(e).end = mem[e].mark /\ mem[e] \in Records
  BY NameFacts, LoadedFits DEF Records
<1>2. m \in Nat /\ m >= mem[e].mark
  BY <1>1
<1>3. grown \in Records /\ grown.type = mem[e].type /\ grown.mark = m
  BY <1>1, <1>2, Remarked
<1>4. mem[e].type # "absent"
  BY NameFacts
<1> QED
  BY <1>2, <1>3, <1>4 DEF Grows

\* A window with another end.
LEMMA LongerWindow ==
  ASSUME NEW w \in Windows, NEW m \in Nat
  PROVE  LET v == [w EXCEPT !.end = m]
         IN  v \in Windows /\ v.type = w.type /\ v.cursor = w.cursor /\ v.end = m
BY DEF Windows

\* mint of a counter type, for the name it is for and the names beside it.
LEMMA MintCounterFits ==
  ASSUME RegistryInv, NEW p \in Procs, MintCounter(p)
  PROVE  \A f \in Entities : Fits(f)'
<1>1. PICK e \in Entities : /\ e = req[p].name /\ mem[e].type = req[p].type /\ Known(e)
                          /\ req[p].type \in Types \ {"snowflake"}
  BY MintFacts DEF MintCounter
<1>2. PICK w \in Windows :
      /\ w = Loaded(e) /\ w.type = mem[e].type /\ w.type \notin {"absent", "snowflake"}
      /\ w.end = mem[e].mark /\ w.cursor <= w.end /\ promised[e] <= w.cursor
      /\ ResetsSynced => \A h \in handed[e] : h[1] # "snowflake" => h[2] < w.cursor
      /\ w.cursor < w.end =>
           \A img \in Images : /\ img[e].type = w.type
                               /\ ResetsSynced => img[e].mark >= w.end
  BY <1>1, LoadedFits
<1>3. PICK grown \in Records :
      /\ grown = [mem[e] EXCEPT !.mark = w.end + SegmentSize] /\ grown.type = w.type
      /\ grown.mark = w.end + SegmentSize
      /\ Grows(e, grown)
  BY <1>1, <1>2, GrownRecord
<1>4. /\ With(e, grown)[e] = grown
      /\ \A f \in Entities \ {e} : With(e, grown)[f] = mem[f]
  BY <1>1, <1>3, WithFacts DEF RegistryInv, Base, TypeOK, StoreTypes
<1>5. /\ window \in [Entities -> Windows] /\ told \in [Entities -> Types \cup {"absent"}]
      /\ handed \in [Entities -> SUBSET (Types \X Nat)]
  BY DEF RegistryInv, Base, TypeOK, NameTypes
<1>6. leased' = leased /\ promised' = promised
  BY DEF MintCounter
<1>7. w.cursor \in Nat /\ w.end \in Nat
  BY <1>2 DEF Windows
<1>8. \A img \in Images : img[e].mark \in Nat /\ promised[e] <= img[e].mark
  BY <1>1, NameFacts DEF Records, RegistryInv, Fits, ImagesFit, RecordFits
<1>9. CASE w.cursor < w.end /\ HandOut(p, w) /\ UNCHANGED storeVars
  <2>1. mem' = mem /\ Images' = Images
    BY <1>9, SameStore
  <2>2. /\ window'[e] = [w EXCEPT !.cursor = @ + 1]
        /\ handed'[e] = handed[e] \cup {<<w.type, w.cursor>>} /\ told'[e] = w.type
    BY <1>1, <1>5, <1>9 DEF HandOut
  <2>3. Fits(e)'
    BY <1>1, <1>2, <1>6, <1>8, <1>9, <2>1, <2>2, HandOutFits
  <2>4. ASSUME NEW f \in Entities \ {e}
        PROVE  Fits(f)'
    <3>1. /\ window'[f] = window[f] /\ handed'[f] = handed[f] /\ told'[f] = told[f]
          /\ promised'[f] = promised[f]
      BY <1>1, <1>5, <1>6, <1>9 DEF HandOut
    <3> QED
      BY <1>6, <2>1, <3>1, SameHistory, KeptFits
  <2> QED
    BY <2>3, <2>4
<1>10. CASE /\ w.cursor = w.end /\ FlushOK(With(e, grown))
            /\ HandOut(p, [w EXCEPT !.end = grown.mark])
  <2>1. mem' = With(e, grown) /\ Images' = {With(e, grown)}
    BY <1>10, FlushOKEffect
  <2>2. grown.mark \in Nat /\ w.cursor < grown.mark
    BY <1>3, <1>7, <1>10
  <2>3. PICK v \in Windows : /\ v = [w EXCEPT !.end = grown.mark] /\ v.type = w.type
                             /\ v.cursor = w.cursor /\ v.end = grown.mark
    <3> DEFINE u == [w EXCEPT !.end = grown.mark]
    <3>1. u \in Windows /\ u.type = w.type /\ u.cursor = w.cursor /\ u.end = grown.mark
      BY <2>2, LongerWindow
    <3> HIDE DEF u
    <3>2. \E v \in Windows : /\ v = u /\ v.type = w.type
                             /\ v.cursor = w.cursor /\ v.end = grown.mark
      BY <3>1
    <3> QED
      BY <3>2 DEF u
  <2>4. /\ window'[e] = [v EXCEPT !.cursor = @ + 1]
        /\ handed'[e] = handed[e] \cup {<<v.type, v.cursor>>} /\ told'[e] = v.type
    BY <1>1, <1>5, <1>10, <2>3 DEF HandOut
  <2>5. mem'[e] = grown /\ \A img \in Images' : img[e] = grown
    BY <1>4, <2>1
  <2>6. grown.mark >= v.end
    BY <2>2, <2>3
  <2>7. Fits(e)'
    <3>1. /\ v.type \notin {"absent", "snowflake"} /\ v.cursor < v.end /\ promised[e] <= v.cursor
          /\ v.type = mem[e].type /\ v.type = mem'[e].type /\ v.end = mem'[e].mark
          /\ ResetsSynced => \A h \in handed[e] : h[1] # "snowflake" => h[2] < v.cursor
      BY <1>2, <1>3, <2>2, <2>3, <2>5
    <3>2. \A img \in Images' : /\ img[e].type = v.type /\ img[e].mark \in Nat
                               /\ promised[e] <= img[e].mark
                               /\ img[e].mark >= v.end
      <4>1. promised[e] <= grown.mark
        <5>1. promised[e] \in Nat /\ promised[e] <= w.cursor
          BY <1>1, <1>2, NameFacts
        <5> QED
          BY <1>7, <2>2, <5>1
      <4> QED
        BY <1>3, <2>2, <2>3, <2>5, <2>6, <4>1
    <3>3. promised'[e] = promised[e]
      BY <1>6
    <3> QED
      BY <1>1, <2>3, <2>4, <3>1, <3>2, <3>3, HandOutFits
  <2>8. ASSUME NEW f \in Entities \ {e}
        PROVE  Fits(f)'
    <3>1. /\ window'[f] = window[f] /\ handed'[f] = handed[f] /\ told'[f] = told[f]
          /\ promised'[f] = promised[f]
      BY <1>1, <1>5, <1>6, <1>10 DEF HandOut
    <3> QED
      BY <1>1, <1>3, <1>6, <2>1, <3>1, SameHistory, OthersFit DEF Wrote
  <2> QED
    BY <2>7, <2>8
<1>11. CASE /\ w.cursor = w.end /\ FlushFails(With(e, grown), "dirsync")
            /\ window' = [window EXCEPT ![e] = w] /\ UNCHANGED <<told, handed>>
  <2>1. mem' = mem /\ Images' \subseteq Images \cup {With(e, grown)}
    BY <1>11, FlushFailsEffect DEF RegistryInv, Base
  <2>2. \A f \in Entities : NothingAdded(f)
    BY <1>6, <1>11, SameHistory
  <2>3. Fits(e)'
    <3>1. window'[e] = w
      BY <1>1, <1>5, <1>11
    <3>2. \A img \in Images' :
            img \in Images \/ (Loaded(e).cursor = Loaded(e).end /\ Grows(e, img[e]))
      BY <1>2, <1>3, <1>4, <1>11, <2>1
    <3> QED
      BY <1>2, <1>6, <2>1, <2>2, <3>1, <3>2, <1>1, LoadFits
  <2>4. ASSUME NEW f \in Entities \ {e}
        PROVE  Fits(f)'
    <3>1. window'[f] = window[f]
      BY <1>5, <1>11
    <3> QED
      BY <1>1, <1>3, <1>6, <2>1, <2>2, <3>1, OthersFit DEF Wrote
  <2> QED
    BY <2>3, <2>4
<1> QED
  BY <1>1, <1>2, <1>3, <1>9, <1>10, <1>11 DEF MintCounter

\* mint of a Snowflake ID, with a lease of this process or one that it saves.
LEMMA MintSnowflakeFits ==
  ASSUME RegistryInv, NEW p \in Procs, MintSnowflake(p)
  PROVE  \A f \in Entities : Fits(f)'
<1>1. PICK e \in Entities : /\ e = req[p].name /\ mem[e].type = "snowflake" /\ Known(e)
                          /\ "snowflake" \in Types
  BY MintFacts DEF MintSnowflake
<1>2. window' = window /\ promised' = promised
  BY DEF MintSnowflake
<1>3. /\ told \in [Entities -> Types \cup {"absent"}]
      /\ handed \in [Entities -> SUBSET (Types \X Nat)]
  BY DEF RegistryInv, Base, TypeOK, NameTypes
<1>4. CASE FlushFails(mem, "dirsync") /\ UNCHANGED <<leased, told, handed>>
  <2>1. mem' = mem /\ Images' \subseteq Images \cup {mem}
    BY <1>4, FlushFailsEffect DEF RegistryInv, Base
  <2> QED
    BY <1>2, <1>4, <2>1, SameHistory, KeptFits
<1>5. CASE /\ \/ leased /\ UNCHANGED storeVars
              \/ FlushOK(mem)
           /\ leased' = TRUE
           /\ told' = [told EXCEPT ![e] = "snowflake"]
           /\ handed' = [handed EXCEPT ![e] = @ \cup {<<"snowflake", 0>>}]
  <2>1. /\ mem' = mem
        /\ \A img \in Images' : img \in Images \/ img = mem
        /\ leased \/ \A img \in Images' : img = mem
    BY <1>5, SameStore, FlushOKEffect
  <2>2. ASSUME NEW f \in Entities \ {e}
        PROVE  Fits(f)'
    <3>1. handed'[f] = handed[f] /\ told'[f] = told[f] /\ promised'[f] = promised[f]
      BY <1>2, <1>3, <1>5
    <3> QED
      BY <1>2, <2>1, <3>1, SameHistory, KeptFits
  <2>3. /\ told'[e] = "snowflake" /\ promised'[e] = promised[e] /\ window'[e] = window[e]
        /\ handed'[e] = handed[e] \cup {<<"snowflake", 0>>}
    BY <1>1, <1>2, <1>3, <1>5
  <2>4. \A img \in Images' : img[e].type = "snowflake"
    BY <1>1, <2>1 DEF RegistryInv, Fits, LeaseFits
  <2>5. ImagesFit(e)'
    <3>1. ASSUME NEW img \in Images'
          PROVE  RecordFits(img[e], e)'
      <4>1. RecordFits(img[e], e)
        BY <1>1, <2>1, NameFacts DEF RegistryInv, Fits, ImagesFit
      <4> QED
        BY <2>3, <2>4, <4>1 DEF RecordFits
    <3> QED
      BY <3>1 DEF ImagesFit
  <2>6. WindowFits(e)'
    <3>1. WindowFits(e) /\ mem[e].mark \in Nat
      BY <1>1, NameFacts DEF RegistryInv, Fits, Records
    <3>2. window'[e] = window[e] /\ mem'[e] = mem[e]
      BY <2>1, <2>3
    <3>3. \A h \in handed'[e] : h[1] # "snowflake" => h \in handed[e]
      BY <2>3
    <3> QED
      BY <2>1, <2>3, <3>1, <3>2, <3>3 DEF WindowFits
  <2>7. LeaseFits(e)'
    BY <1>1, <2>1, <2>4 DEF LeaseFits
  <2>8. HandedFits(e)'
    <3>1. promised[e] = 0
      <4>1. promised[e] <= mem[e].mark /\ mem[e].mark = 0 /\ promised[e] \in Nat
        BY <1>1, NameFacts DEF RecordFits
      <4> QED
        BY <4>1
    <3>2. \A h \in handed[e] : h[1] = told[e] /\ told[e] # "absent" /\ h[2] >= promised[e]
      BY <1>1 DEF RegistryInv, Fits, HandedFits
    <3>3. told[e] # "absent" => told[e] = "snowflake"
      BY <1>1, NameFacts DEF RecordFits
    <3> QED
      BY <2>3, <3>1, <3>2, <3>3 DEF HandedFits
  <2> QED
    BY <2>2, <2>5, <2>6, <2>7, <2>8 DEF Fits
<1> QED
  BY <1>1, <1>4, <1>5 DEF MintSnowflake

--------------------------------------------------------------------------------
(* Resets. *)

\* After a reset of e that is not refused, its old records and the new one fit what
\* is left of its history.
LEMMA ReleaseFits ==
  ASSUME RegistryInv, NEW e \in Entities, Known(e), mem[e].type = "numeric",
         NEW to \in Nat, NEW force \in BOOLEAN, to < Loaded(e).cursor => force,
         Release(e, to, force), told' = told
  PROVE  /\ \A f \in Entities : NothingAdded(f)
         /\ promised'[e] <= to
         /\ ResetsSynced => \A h \in handed'[e] : h[1] # "snowflake" => h[2] < to
         /\ \A r : r = [mem[e] EXCEPT !.mark = to] => RecordFits(r, e)'
<1>1. /\ promised \in [Entities -> Nat] /\ handed \in [Entities -> SUBSET (Types \X Nat)]
  BY DEF RegistryInv, Base, TypeOK, NameTypes
<1>2. /\ promised'[e] = IF to < promised[e] THEN 0 ELSE promised[e]
      /\ handed'[e] = IF force THEN {h \in handed[e] : h[2] < to} ELSE handed[e]
  BY <1>1 DEF Release
<1>3. ASSUME NEW f \in Entities \ {e}
      PROVE  NothingAdded(f)
  BY <1>1, SameHistory DEF Release
<1>4. /\ promised[e] \in Nat /\ promised'[e] \in Nat
      /\ promised'[e] <= promised[e] /\ promised'[e] <= to
  BY <1>1, <1>2
<1>5. NothingAdded(e)
  BY <1>2, <1>4 DEF NothingAdded
<1>6. ASSUME ResetsSynced
      PROVE  \A h \in handed'[e] : h[1] # "snowflake" => h[2] < to
  <2>1. CASE force
    BY <1>2, <2>1
  <2>2. CASE ~force
    <3>1. Loaded(e).cursor \in Nat /\ Loaded(e).cursor <= to
      BY <2>2, LoadedFits DEF Windows
    <3>2. \A h \in handed[e] : h[2] \in Nat /\ (h[1] # "snowflake" => h[2] < Loaded(e).cursor)
      BY <1>1, <1>6, LoadedFits
    <3>3. handed'[e] = handed[e]
      BY <1>2, <2>2
    <3> HIDE DEF Loaded
    <3> QED
      BY <3>1, <3>2, <3>3
  <2> QED
    BY <2>1, <2>2
<1>7. ASSUME NEW r, r = [mem[e] EXCEPT !.mark = to]
      PROVE  RecordFits(r, e)'
  <2>1. r.type = "numeric" /\ r.mark = to
    BY <1>7, NameFacts, Remarked
  <2>2. told[e] # "absent" => told[e] = "numeric"
    BY NameFacts DEF RecordFits
  <2> QED
    BY <1>4, <1>6, <2>1, <2>2 DEF RecordFits
<1> QED
  BY <1>3, <1>4, <1>5, <1>6, <1>7

\* The record that a reset writes.
LEMMA ResetRecord ==
  ASSUME RegistryInv, NEW e \in Entities, NEW to \in Nat
  PROVE  \E r \in Records :
           /\ r = [mem[e] EXCEPT !.mark = to] /\ r.type = mem[e].type /\ r.mark = to
           /\ With(e, r)[e] = r /\ IsContent(With(e, r))
           /\ \A f \in Entities \ {e} : With(e, r)[f] = mem[f]
<1> DEFINE r == [mem[e] EXCEPT !.mark = to]
<1>1. r \in Records /\ r.type = mem[e].type /\ r.mark = to
  BY NameFacts, Remarked
<1>2. /\ With(e, r)[e] = r /\ IsContent(With(e, r))
      /\ \A f \in Entities \ {e} : With(e, r)[f] = mem[f]
  BY <1>1, WithFacts DEF RegistryInv, Base, TypeOK, StoreTypes
<1>3. ASSUME NEW s, s = r
      PROVE  \E q \in Records :
               /\ q = s /\ q.type = mem[e].type /\ q.mark = to
               /\ With(e, q)[e] = q /\ IsContent(With(e, q))
               /\ \A f \in Entities \ {e} : With(e, q)[f] = mem[f]
  <2> HIDE DEF r
  <2> QED
    BY <1>1, <1>2, <1>3
<1> QED
  BY <1>3

\* A request that resets has a numeric record.
LEMMA SetFacts ==
  ASSUME RegistryInv, NEW p \in Procs, pc[p] = "set"
  PROVE  /\ req[p].name \in Entities /\ req[p].target \in Nat /\ req[p].force \in BOOLEAN
         /\ mem[req[p].name].type = "numeric" /\ Known(req[p].name)
<1>1. req[p].op = "reset" /\ mem[req[p].name].type = "numeric"
  BY DEF RegistryInv, Base, RequestsFit
<1>2. req[p] \in Requests \cup {NoReq}
  BY DEF RegistryInv, Base, TypeOK, RequestTypes
<1>3. req[p].name \in Entities /\ req[p].target \in Nat /\ req[p].force \in BOOLEAN
  BY <1>1, <1>2, RequestFields
<1> QED
  BY <1>1, <1>3, NameFacts

\* Allocator.Reset: refused, written, or failed at its flush.
LEMMA SetForResetFits ==
  ASSUME RegistryInv, NEW p \in Procs, SetForReset(p)
  PROVE  \A f \in Entities : Fits(f)'
<1>1. PICK e \in Entities : e = req[p].name
  BY SetFacts DEF SetForReset
<1>2. PICK to \in Nat : to = req[p].target
  BY SetFacts DEF SetForReset
<1>3. PICK force \in BOOLEAN : force = req[p].force
  BY SetFacts DEF SetForReset
<1>4. mem[e].type = "numeric" /\ Known(e)
  BY <1>1, SetFacts DEF SetForReset
<1>5. leased' = leased /\ told' = told
  BY DEF SetForReset
<1>6. window \in [Entities -> Windows]
  BY DEF RegistryInv, Base, TypeOK, NameTypes
<1>7. PICK r \in Records :
        /\ r = [mem[e] EXCEPT !.mark = to] /\ r.type = mem[e].type /\ r.mark = to
        /\ With(e, r)[e] = r /\ IsContent(With(e, r))
        /\ \A f \in Entities \ {e} : With(e, r)[f] = mem[f]
  BY ResetRecord
<1>8. AfterReset(p) = With(e, r)
  BY <1>1, <1>2, <1>7 DEF AfterReset
<1>9. ASSUME UNCHANGED storeVars, window' = [window EXCEPT ![e] = Loaded(e)],
             \A f \in Entities : NothingAdded(f)
      PROVE  \A f \in Entities : Fits(f)'
  <2>1. mem' = mem /\ Images' = Images
    BY <1>9, SameStore
  <2>2. Fits(e)'
    <3>1. window'[e] = Loaded(e)
      BY <1>6, <1>9
    <3> QED
      BY <1>4, <1>5, <1>9, <2>1, <3>1, LoadFits
  <2>3. ASSUME NEW f \in Entities \ {e}
        PROVE  Fits(f)'
    <3>1. window'[f] = window[f]
      BY <1>6, <1>9
    <3> QED
      BY <1>5, <1>9, <2>1, <3>1, KeptFits
  <2> QED
    BY <2>2, <2>3
<1>10. CASE /\ window' = [window EXCEPT ![e] = Loaded(e)]
            /\ UNCHANGED <<storeVars, handed, promised>>
  BY <1>5, <1>9, <1>10, SameHistory
<1>11. CASE /\ Allowed(p) /\ Release(e, to, force)
            /\ window' = [window EXCEPT ![e] = Loaded(e)]
            /\ FlushFails(AfterReset(p), "resetsync")
  <2>1. (\A f \in Entities : NothingAdded(f)) /\ RecordFits(r, e)'
    BY <1>1, <1>2, <1>3, <1>4, <1>5, <1>7, <1>11, ReleaseFits DEF Allowed
  <2>2. CASE UNCHANGED storeVars
    BY <1>9, <1>11, <2>1, <2>2
  <2>3. CASE ~ResetsSynced
    <3>1. mem' = mem /\ Images' \subseteq Images \cup {With(e, r)}
      BY <1>8, <1>11, FlushFailsEffect DEF RegistryInv, Base
    <3>2. ASSUME NEW f \in Entities \ {e}
          PROVE  Fits(f)'
      <4>1. window'[f] = window[f]
        BY <1>6, <1>11
      <4> QED
        BY <1>5, <2>1, <3>1, <4>1, OthersFit DEF Wrote
    <3>3. ImagesFit(e)'
      <4>1. ASSUME NEW img \in Images
            PROVE  RecordFits(img[e], e)'
        <5>1. RecordFits(img[e], e) /\ img[e].mark \in Nat
          BY NameFacts DEF RegistryInv, Fits, ImagesFit, Records
        <5> QED
          BY <2>1, <5>1, RecordKept
      <4>2. \A img \in Images' : img \in Images \/ img[e] = r
        BY <1>7, <3>1
      <4> QED
        BY <2>1, <4>1, <4>2 DEF ImagesFit
    <3>4. WindowFits(e)'
      <4>1. PICK w \in Windows :
              /\ w = Loaded(e) /\ w.type = mem[e].type /\ w.type # "absent"
              /\ w.end = mem[e].mark /\ w.cursor <= w.end /\ promised[e] <= w.cursor
              /\ w.cursor < w.end => \A img \in Images : img[e].type = w.type
        BY <1>4, LoadedFits
      <4>2. window'[e] = w
        BY <1>6, <1>11, <4>1
      <4>3. promised'[e] <= w.cursor
        <5>1. w.cursor \in Nat
          BY DEF Windows
        <5> QED
          BY <2>1, <4>1, <5>1, PromiseKept
      <4>4. w.cursor < w.end => \A img \in Images' : img[e].type = w.type
        BY <1>7, <3>1, <4>1
      <4> QED
        BY <2>3, <3>1, <4>1, <4>2, <4>3, <4>4 DEF WindowFits
    <3>5. LeaseFits(e)'
      BY <1>5, <1>7, <3>1 DEF LeaseFits, RegistryInv, Fits, Known
    <3>6. HandedFits(e)'
      BY <2>1, HandedKept
    <3> QED
      BY <3>2, <3>3, <3>4, <3>5, <3>6 DEF Fits
  <2> QED
    BY <1>11, <2>2, <2>3 DEF FlushFails, ResetsSynced
<1>12. CASE /\ Allowed(p) /\ Release(e, to, force)
            /\ FlushOK(AfterReset(p))
            /\ window' = [window EXCEPT ![e] = [Loaded(e) EXCEPT !.cursor = to, !.end = to]]
  <2>1. /\ \A f \in Entities : NothingAdded(f)
        /\ promised'[e] <= to
        /\ ResetsSynced => \A h \in handed'[e] : h[1] # "snowflake" => h[2] < to
        /\ RecordFits(r, e)'
    BY <1>1, <1>2, <1>3, <1>4, <1>5, <1>7, <1>12, ReleaseFits DEF Allowed
  <2>2. mem' = With(e, r) /\ Images' = {With(e, r)}
    BY <1>8, <1>12, FlushOKEffect
  <2>3. ASSUME NEW f \in Entities \ {e}
        PROVE  Fits(f)'
    <3>1. window'[f] = window[f]
      BY <1>6, <1>12
    <3> QED
      BY <1>5, <2>1, <2>2, <3>1, OthersFit DEF Wrote
  <2>4. mem'[e] = r /\ \A img \in Images' : img[e] = r
    BY <1>7, <2>2
  <2>6. ImagesFit(e)'
    BY <2>1, <2>4 DEF ImagesFit
  <2>7. WindowFits(e)'
    <3>1. Loaded(e) \in Windows /\ Loaded(e).type = "numeric"
      BY <1>4, LoadedFits
    <3>2. window'[e].type = "numeric" /\ window'[e].cursor = to /\ window'[e].end = to
      BY <1>6, <1>12, <3>1 DEF Windows
    <3>3. to <= to /\ ~(to < to)
      OBVIOUS
    <3> QED
      BY <1>4, <1>7, <2>1, <2>4, <3>2, <3>3 DEF WindowFits
  <2>8. LeaseFits(e)'
    BY <2>4 DEF LeaseFits
  <2>9. HandedFits(e)'
    BY <2>1, HandedKept
  <2> QED
    BY <2>3, <2>6, <2>7, <2>8, <2>9 DEF Fits
<1> QED
  BY <1>1, <1>2, <1>3, <1>10, <1>11, <1>12 DEF SetForReset

--------------------------------------------------------------------------------
(* Crashes, restarts and the tool. *)

\* What a request that registers asks for.
LEMMA RegisterFacts ==
  ASSUME RegistryInv, NEW p \in Procs, pc[p] = "register"
  PROVE  /\ req[p].op \in {"next", "init"}
         /\ req[p].name \in Entities /\ req[p].type \in Types
         /\ req[p].op = "init" => /\ req[p].start \in Nat
                                  /\ req[p].type # "numeric" => req[p].start = 0
<1>1. req[p].op \in {"next", "init"}
  BY DEF RegistryInv, Base, RequestsFit
<1>2. req[p] \in Requests \cup {NoReq}
  BY DEF RegistryInv, Base, TypeOK, RequestTypes
<1> QED
  BY <1>1, <1>2, RequestFields

\* Changing e's record to one that may replace it leaves every name with such a one.
LEMMA WithGrows ==
  ASSUME RegistryInv, NEW e \in Entities, NEW r, Grows(e, r)
  PROVE  IsContent(With(e, r)) /\ \A f \in Entities : Grows(f, With(e, r)[f])
<1>1. r \in Records
  BY DEF Grows
<1>2. IsContent(With(e, r)) /\ With(e, r)[e] = r
      /\ \A f \in Entities \ {e} : With(e, r)[f] = mem[f]
  BY <1>1, WithFacts DEF RegistryInv, Base, TypeOK, StoreTypes
<1> QED
  BY <1>2, MemGrows

\* Every image a flush may be writing when the process dies.
LEMMA WritingGrows ==
  ASSUME RegistryInv, NEW c \in Writing
  PROVE  IsContent(c) /\ \A f \in Entities : Grows(f, c[f])
<1>1. CASE c = mem
  BY <1>1, MemGrows DEF RegistryInv, Base, TypeOK, StoreTypes
<1>2. ASSUME NEW p \in Procs, pc[p] = "register", ~Registered(req[p].name, req[p].type),
             NEW m, m = 0 \/ (req[p].op = "init" /\ m = req[p].start),
             c = With(req[p].name, [type |-> req[p].type, mark |-> m])
      PROVE  IsContent(c) /\ \A f \in Entities : Grows(f, c[f])
  <2>1. req[p].name \in Entities /\ req[p].type \in Types
    BY <1>2, RegisterFacts
  <2>2. m \in Nat /\ (req[p].type # "numeric" => m = 0)
    BY <1>2, RegisterFacts
  <2>3. ~Known(req[p].name)
    BY <1>2 DEF Registered
  <2>4. Grows(req[p].name, [type |-> req[p].type, mark |-> m])
    BY <2>1, <2>2, <2>3, FirstRecord
  <2> QED
    BY <1>2, <2>1, <2>4, WithGrows
<1>3. ASSUME NEW p \in Procs, pc[p] = "mint", req[p].type # "snowflake",
             c = With(req[p].name, [mem[req[p].name] EXCEPT
                                      !.mark = Loaded(req[p].name).end + SegmentSize])
      PROVE  IsContent(c) /\ \A f \in Entities : Grows(f, c[f])
  <2>1. req[p].name \in Entities /\ Known(req[p].name) /\ mem[req[p].name].type # "snowflake"
    BY <1>3, MintFacts
  <2>2. Grows(req[p].name, [mem[req[p].name] EXCEPT
                              !.mark = Loaded(req[p].name).end + SegmentSize])
    BY <2>1, GrownRecord
  <2> QED
    BY <1>3, <2>1, <2>2, WithGrows
<1> QED
  BY <1>1, <1>2, <1>3 DEF Writing

\* A crash leaves an old image or one that was being written; both fit.
LEMMA CrashFits ==
  ASSUME RegistryInv, Crash
  PROVE  \A f \in Entities : Fits(f)'
<1>1. Images' \subseteq Images \cup Writing
  BY CrashEffect DEF Crash, RegistryInv, Base
<1>2. ~leased' /\ \A f \in Entities : window'[f] = NoWindow
  BY DEF Crash, ProcessGone
<1>3. \A f \in Entities : NothingAdded(f)
  BY SameHistory DEF Crash, registryVars
<1>4. \A f \in Entities : OldOrGrown(f)
  BY <1>1, WritingGrows DEF OldOrGrown
<1> QED
  BY <1>2, <1>3, <1>4, GoneFits

\* Open reads an image that fits.
LEMMA RestartFits ==
  ASSUME RegistryInv, Restart
  PROVE  \A f \in Entities : Fits(f)'
<1>1. Images' = Images
  BY DEF Restart, OpenStore, Images
<1>2. ~leased' /\ \A f \in Entities : window'[f] = NoWindow
  BY DEF Restart, RegistryInv, Base, DownIsQuiet
<1>3. \A f \in Entities : NothingAdded(f)
  BY SameHistory DEF Restart, registryVars
<1>4. \A f \in Entities : OldOrGrown(f)
  BY <1>1 DEF OldOrGrown
<1> QED
  BY <1>2, <1>3, <1>4, GoneFits

\* A reset of e while no window is loaded, or that the process does not survive.
LEMMA ResetGoneFits ==
  ASSUME RegistryInv, NEW e \in Entities, Known(e), mem[e].type = "numeric",
         NEW to \in Nat, NEW force \in BOOLEAN, to < Loaded(e).cursor => force,
         Release(e, to, force), told' = told,
         NEW c, c = With(e, [mem[e] EXCEPT !.mark = to]),
         Images' \subseteq Images \cup {c},
         ~leased', \A f \in Entities : window'[f] = NoWindow
  PROVE  IsContent(c) /\ \A f \in Entities : Fits(f)'
<1>1. PICK r \in Records :
        /\ r = [mem[e] EXCEPT !.mark = to] /\ r.type = mem[e].type /\ r.mark = to
        /\ With(e, r)[e] = r /\ IsContent(With(e, r))
        /\ \A f \in Entities \ {e} : With(e, r)[f] = mem[f]
  BY ResetRecord
<1>2. c = With(e, r)
  BY <1>1
<1>3. /\ \A f \in Entities : NothingAdded(f)
      /\ promised'[e] <= to
      /\ RecordFits(r, e)'
  BY <1>1, ReleaseFits
<1>4. ASSUME NEW f \in Entities \ {e}
      PROVE  Fits(f)'
  <2>1. OldOrGrown(f)
    BY <1>1, <1>2, MemGrows DEF OldOrGrown
  <2> QED
    BY <1>3, <2>1, GoneFits
<1>5. ImagesFit(e)'
  <2>1. ASSUME NEW img \in Images'
        PROVE  RecordFits(img[e], e)'
    <3>1. CASE img = c
      BY <1>1, <1>2, <1>3, <3>1
    <3>2. CASE img \in Images
      <4>1. RecordFits(img[e], e) /\ img[e].mark \in Nat
        BY <3>2, NameFacts DEF RegistryInv, Fits, ImagesFit, Records
      <4> QED
        BY <1>3, <4>1, RecordKept
    <3> QED
      BY <2>1, <3>1, <3>2
  <2> QED
    BY <2>1 DEF ImagesFit
<1>6. HandedFits(e)'
  BY <1>3, HandedKept
<1>7. WindowFits(e)' /\ LeaseFits(e)'
  BY DEF WindowFits, LeaseFits
<1> QED
  BY <1>1, <1>2, <1>4, <1>5, <1>6, <1>7 DEF Fits

\* A crash inside the flush of a reset.
LEMMA CrashInResetFits ==
  ASSUME RegistryInv, NEW p \in Procs, CrashInReset(p)
  PROVE  IsContent(AfterReset(p)) /\ \A f \in Entities : Fits(f)'
<1>1. PICK e \in Entities : e = req[p].name
  BY SetFacts DEF CrashInReset
<1>2. PICK to \in Nat : to = req[p].target
  BY SetFacts DEF CrashInReset
<1>3. PICK force \in BOOLEAN : force = req[p].force
  BY SetFacts DEF CrashInReset
<1>4. mem[e].type = "numeric" /\ Known(e)
  BY <1>1, SetFacts DEF CrashInReset
<1>5. PICK c : c = AfterReset(p)
  OBVIOUS
<1>6. c = With(e, [mem[e] EXCEPT !.mark = to])
  BY <1>1, <1>2, <1>5 DEF AfterReset
<1>7. Images' \subseteq Images \cup {c}
  BY <1>5, CrashEffect DEF CrashInReset, RegistryInv, Base
<1>8. ~leased' /\ \A f \in Entities : window'[f] = NoWindow
  BY DEF CrashInReset, ProcessGone
<1>9. Release(e, to, force) /\ told' = told /\ (to < Loaded(e).cursor => force)
  BY <1>1, <1>2, <1>3 DEF CrashInReset, Allowed
<1> QED
  BY <1>4, <1>5, <1>6, <1>7, <1>8, <1>9, ResetGoneFits

\* init of the tool.
LEMMA CliInitFits ==
  ASSUME RegistryInv, CliInit
  PROVE  \A f \in Entities : Fits(f)'
<1>1. PICK e \in Entities, t \in Types, start \in Starts \cup {0} :
        /\ ~Known(e) /\ (t # "numeric" => start = 0)
        /\ \/ /\ RegisterNew(e, t, start)
              /\ told' = [told EXCEPT ![e] = t]
              /\ promised' = [promised EXCEPT ![e] = start]
           \/ /\ ToolFails(With(e, [type |-> t, mark |-> start]))
              /\ UNCHANGED <<told, promised>>
  BY DEF CliInit
<1>2. UNCHANGED <<window, leased, handed>> /\ ~up
  BY DEF CliInit, Tool
<1>3. start \in Nat
  OBVIOUS
<1>4. CASE /\ RegisterNew(e, t, start)
           /\ told' = [told EXCEPT ![e] = t]
           /\ promised' = [promised EXCEPT ![e] = start]
  BY <1>1, <1>2, <1>3, <1>4, RegisterNewFits
<1>5. CASE /\ ToolFails(With(e, [type |-> t, mark |-> start]))
           /\ UNCHANGED <<told, promised>>
  <2>1. Grows(e, [type |-> t, mark |-> start])
    BY <1>1, <1>3, FirstRecord
  <2>2. Images' \subseteq Images \cup {With(e, [type |-> t, mark |-> start])}
    BY <1>5, CrashEffect DEF ToolFails, RegistryInv, Base
  <2>3. \A f \in Entities : OldOrGrown(f)
    BY <2>1, <2>2, WithGrows DEF OldOrGrown
  <2>4. ~leased' /\ \A f \in Entities : window'[f] = NoWindow
    BY <1>2 DEF RegistryInv, Base, DownIsQuiet
  <2> QED
    BY <1>2, <1>5, <2>3, <2>4, SameHistory, GoneFits
<1> QED
  BY <1>1, <1>4, <1>5

\* reset of the tool: no window is loaded, so the mark is what it compares with.
LEMMA CliResetFits ==
  ASSUME RegistryInv, CliReset
  PROVE  StoreTypes' /\ StoreInv' /\ \A f \in Entities : Fits(f)'
<1>1. PICK e \in Entities, to \in Starts, force \in BOOLEAN :
        /\ mem[e].type = "numeric"
        /\ to >= mem[e].mark \/ force
        /\ \/ FlushOK(With(e, [mem[e] EXCEPT !.mark = to]))
           \/ ToolFails(With(e, [mem[e] EXCEPT !.mark = to]))
        /\ Release(e, to, force)
  BY DEF CliReset
<1>2. PICK c : c = With(e, [mem[e] EXCEPT !.mark = to])
  OBVIOUS
<1>3. ~leased' /\ (\A f \in Entities : window'[f] = NoWindow) /\ window[e] = NoWindow
  BY DEF CliReset, Tool, RegistryInv, Base, DownIsQuiet
<1>4. mem[e].mark \in Nat /\ to \in Nat /\ Known(e)
  BY <1>1, NameFacts DEF Records
<1>5. Loaded(e).cursor = mem[e].mark
  BY <1>3 DEF Loaded
<1>6. to < Loaded(e).cursor => force
  BY <1>1, <1>4, <1>5
<1>7. Images' \subseteq Images \cup {c} /\ StoreInv'
  BY <1>1, <1>2, FlushOKEffect, CrashEffect DEF ToolFails, RegistryInv, Base
<1>8. told' = told
  BY DEF CliReset
<1>9. IsContent(c) /\ \A f \in Entities : Fits(f)'
  BY <1>1, <1>2, <1>3, <1>4, <1>6, <1>7, <1>8, ResetGoneFits
<1>10. StoreTypes'
  BY <1>7, <1>9 DEF StoreTypes, StoreInv, Images, RegistryInv, Base, TypeOK
<1> QED
  BY <1>7, <1>9, <1>10

\* The tool forgets the names `es', whatever becomes of its flush.
LEMMA ForgetFits ==
  ASSUME RegistryInv, ~up, UNCHANGED <<window, leased>>,
         NEW es \in SUBSET Entities, Forget(es), NEW c, IsContent(c),
         \A f \in Entities : c[f] = IF f \in es THEN Absent ELSE mem[f],
         FlushOK(c) \/ ToolFails(c)
  PROVE  StoreTypes' /\ StoreInv' /\ \A f \in Entities : Fits(f)'
<1>1. Images' \subseteq Images \cup {c} /\ StoreInv'
  BY FlushOKEffect, CrashEffect DEF ToolFails, RegistryInv, Base
<1>2. StoreTypes'
  BY <1>1 DEF StoreTypes, StoreInv, Images, RegistryInv, Base, TypeOK
<1>3. ~leased' /\ \A f \in Entities : window'[f] = NoWindow
  BY DEF RegistryInv, Base, DownIsQuiet
<1>4. ASSUME NEW f \in Entities \ es
      PROVE  Fits(f)'
  <2>1. NothingAdded(f)
    BY SameHistory DEF Forget
  <2>2. OldOrGrown(f)
    BY <1>1, MemGrows DEF OldOrGrown
  <2> QED
    BY <1>3, <2>1, <2>2, GoneFits
<1>5. ASSUME NEW f \in es
      PROVE  Fits(f)'
  <2>1. told'[f] = "absent" /\ promised'[f] = 0 /\ handed'[f] = {}
    BY DEF Forget
  <2>2. ASSUME NEW img \in Images'
        PROVE  RecordFits(img[f], f)'
    <3>1. CASE img = c
      <4>1. img[f].mark = 0 /\ img[f].type = "absent"
        BY <3>1 DEF Absent
      <4> QED
        BY <2>1, <4>1 DEF RecordFits
    <3>2. CASE img \in Images
      <4>1. img[f].mark \in Nat /\ RecordFits(img[f], f)
        BY <3>2, NameFacts DEF RegistryInv, Fits, ImagesFit, Records
      <4>2. 0 <= img[f].mark
        BY <4>1
      <4> QED
        BY <2>1, <4>1, <4>2 DEF RecordFits
    <3> QED
      BY <1>1, <3>1, <3>2
  <2>3. ImagesFit(f)'
    BY <2>2 DEF ImagesFit
  <2>4. WindowFits(f)' /\ LeaseFits(f)' /\ HandedFits(f)'
    BY <1>3, <2>1 DEF WindowFits, LeaseFits, HandedFits
  <2> QED
    BY <2>3, <2>4 DEF Fits
<1> QED
  BY <1>1, <1>2, <1>4, <1>5

\* delete of the tool.
LEMMA CliDeleteFits ==
  ASSUME RegistryInv, CliDelete
  PROVE  StoreTypes' /\ StoreInv' /\ \A f \in Entities : Fits(f)'
<1>1. PICK e \in Entities :
        /\ FlushOK(With(e, Absent)) \/ ToolFails(With(e, Absent))
        /\ Forget({e})
  BY DEF CliDelete
<1>2. Absent \in Records
  BY DEF Absent, Records
<1>3. /\ IsContent(With(e, Absent)) /\ With(e, Absent)[e] = Absent
      /\ \A f \in Entities \ {e} : With(e, Absent)[f] = mem[f]
  BY <1>2, WithFacts DEF RegistryInv, Base, TypeOK, StoreTypes
<1>4. PICK c : c = With(e, Absent)
  OBVIOUS
<1>5. ~up /\ UNCHANGED <<window, leased>>
  BY DEF CliDelete, Tool
<1>6. \A f \in Entities : c[f] = IF f \in {e} THEN Absent ELSE mem[f]
  BY <1>3, <1>4
<1> QED
  BY <1>1, <1>3, <1>4, <1>5, <1>6, ForgetFits

\* clear of the tool.
LEMMA CliClearFits ==
  ASSUME RegistryInv, CliClear
  PROVE  StoreTypes' /\ StoreInv' /\ \A f \in Entities : Fits(f)'
<1>1. PICK c : /\ c = [e \in Entities |-> Absent]
               /\ FlushOK(c) \/ ToolFails(c)
  BY DEF CliClear
<1>2. IsContent(c)
  BY <1>1 DEF IsContent, Absent, Records
<1>3. ~up /\ UNCHANGED <<window, leased>> /\ Forget(Entities)
  BY DEF CliClear, Tool
<1>4. \A f \in Entities : c[f] = IF f \in Entities THEN Absent ELSE mem[f]
  BY <1>1
<1> QED
  BY <1>1, <1>2, <1>3, <1>4, ForgetFits

--------------------------------------------------------------------------------
(* The rest of the invariant. *)

\* What a request leaves of the store: contents, and the types of the known names.
StoreKept ==
  /\ StoreTypes' /\ StoreInv'
  /\ \A f \in Entities : Known(f) => mem'[f].type = mem[f].type

\* A flush of a content that keeps the types of known names.
LEMMA FlushKeeps ==
  ASSUME RegistryInv, NEW c, NEW sync,
         FlushOK(c) \/ FlushFails(c, sync) \/ UNCHANGED storeVars,
         IsContent(c), \A f \in Entities : Known(f) => c[f].type = mem[f].type
  PROVE  StoreKept
<1>1. StoreInv' /\ Images' \subseteq Images \cup {c} /\ mem' \in {mem, c}
  BY FlushOKEffect, FlushFailsEffect, SameStore DEF RegistryInv, Base
<1>2. StoreTypes'
  BY <1>1 DEF StoreTypes, StoreInv, Images, RegistryInv, Base, TypeOK
<1> QED
  BY <1>1, <1>2 DEF StoreKept

\* The same, when the flush is for a record of e.
LEMMA RecordFlushKeeps ==
  ASSUME RegistryInv, NEW e \in Entities, NEW r \in Records, NEW sync,
         \/ FlushOK(With(e, r)) \/ FlushFails(With(e, r), sync)
         \/ UNCHANGED storeVars,
         Known(e) => r.type = mem[e].type
  PROVE  StoreKept
<1>1. /\ IsContent(With(e, r)) /\ With(e, r)[e] = r
      /\ \A f \in Entities \ {e} : With(e, r)[f] = mem[f]
  BY WithFacts DEF RegistryInv, Base, TypeOK, StoreTypes
<1> QED
  BY <1>1, FlushKeeps

\* Leaving the store alone keeps it.
LEMMA SameStoreKept ==
  ASSUME RegistryInv, UNCHANGED storeVars
  PROVE  StoreKept
<1>1. IsContent(mem)
  BY DEF RegistryInv, Base, TypeOK, StoreTypes
<1> QED
  BY <1>1, FlushKeeps

\* A step of a request leaves contents, and no known name's type changed.
LEMMA ProcStoreKept ==
  ASSUME RegistryInv, NEW p \in Procs, ProcStep(p)
  PROVE  StoreKept
<1>1. CASE Request(p)
  BY <1>1, SameStoreKept DEF Request
<1>2. CASE GetForReset(p)
  BY <1>2, SameStoreKept DEF GetForReset
<1>3. ASSUME NEW m, pc[p] = "register", m = 0 \/ (req[p].op = "init" /\ m = req[p].start),
             ~Registered(req[p].name, req[p].type),
             \/ RegisterNew(req[p].name, req[p].type, m)
             \/ RegisterFails(req[p].name, req[p].type, m)
      PROVE  StoreKept
  <2>1. req[p].name \in Entities /\ req[p].type \in Types /\ m \in Nat /\ ~Known(req[p].name)
    BY <1>3, RegisterFacts DEF Registered
  <2>2. [type |-> req[p].type, mark |-> m] \in Records
    BY <2>1 DEF Records
  <2> QED
    BY <1>3, <2>1, <2>2, RecordFlushKeeps DEF RegisterNew, RegisterFails
<1>4. CASE RegisterForNext(p)
  BY <1>3, <1>4, SameStoreKept DEF RegisterForNext
<1>5. CASE RegisterForInit(p)
  BY <1>3, <1>5, SameStoreKept DEF RegisterForInit
<1>6. CASE MintCounter(p)
  <2>1. req[p].name \in Entities /\ Known(req[p].name)
    BY <1>6, MintFacts DEF MintCounter
  <2>2. PICK g : g = [mem[req[p].name] EXCEPT !.mark = Loaded(req[p].name).end + SegmentSize]
    OBVIOUS
  <2>3. g \in Records /\ g.type = mem[req[p].name].type
    BY <2>1, <2>2, GrownRecord
  <2>4. \/ FlushOK(With(req[p].name, g)) \/ FlushFails(With(req[p].name, g), "dirsync")
        \/ UNCHANGED storeVars
    BY <1>6, <2>2 DEF MintCounter
  <2> QED
    BY <2>1, <2>3, <2>4, RecordFlushKeeps
<1>7. CASE MintSnowflake(p)
  <2>1. FlushOK(mem) \/ FlushFails(mem, "dirsync") \/ UNCHANGED storeVars
    BY <1>7 DEF MintSnowflake
  <2>2. IsContent(mem)
    BY DEF RegistryInv, Base, TypeOK, StoreTypes
  <2> QED
    BY <2>1, <2>2, FlushKeeps
<1>8. CASE SetForReset(p)
  <2>1. req[p].name \in Entities /\ Known(req[p].name) /\ req[p].target \in Nat
    BY <1>8, SetFacts DEF SetForReset
  <2>2. PICK r \in Records : /\ r = [mem[req[p].name] EXCEPT !.mark = req[p].target]
                             /\ r.type = mem[req[p].name].type
    BY <2>1, ResetRecord
  <2>3. \/ FlushOK(With(req[p].name, r)) \/ FlushFails(With(req[p].name, r), "resetsync")
        \/ UNCHANGED storeVars
    BY <1>8, <2>2 DEF SetForReset, AfterReset
  <2> QED
    BY <2>1, <2>2, <2>3, RecordFlushKeeps
<1> QED
  BY <1>1, <1>2, <1>4, <1>5, <1>6, <1>7, <1>8 DEF ProcStep

\* Contents in memory and on disk, after any step.
LEMMA StoreStep ==
  ASSUME RegistryInv, [Next]_vars
  PROVE  StoreTypes' /\ StoreInv'
<1>1. CASE \E p \in Procs : ProcStep(p)
  BY <1>1, ProcStoreKept DEF StoreKept
<1>2. ASSUME NEW W, \A c \in W : IsContent(c), Images' \subseteq Images \cup W,
             mem' \in Images', StoreInv'
      PROVE  StoreTypes' /\ StoreInv'
  BY <1>2 DEF StoreTypes, RegistryInv, Base, TypeOK
<1>3. ASSUME NEW p \in Procs, CrashInReset(p)
      PROVE  StoreTypes' /\ StoreInv'
  <2>1. PICK c : c = AfterReset(p)
    OBVIOUS
  <2>2. IsContent(c)
    BY <1>3, <2>1, CrashInResetFits
  <2>3. /\ Images' \subseteq Images \cup {c}
        /\ mem' \in Images' /\ StoreInv'
    BY <1>3, <2>1, CrashEffect DEF CrashInReset, RegistryInv, Base
  <2>4. \A d \in {c} : IsContent(d)
    BY <2>2
  <2> QED
    BY <1>2, <2>3, <2>4
<1>4. CASE Crash
  <2>1. PICK W : W = Writing
    OBVIOUS
  <2>2. Images' \subseteq Images \cup W /\ mem' \in Images' /\ StoreInv'
    BY <1>4, <2>1, CrashEffect DEF Crash, RegistryInv, Base
  <2>3. \A c \in W : IsContent(c)
    BY <2>1, WritingGrows
  <2> QED
    BY <1>2, <2>2, <2>3
<1>5. CASE Restart
  BY <1>5 DEF Restart, OpenStore, Images, StoreInv, StoreTypes, RegistryInv, Base, TypeOK
<1>6. CASE CliInit
  <2>1. PICK e \in Entities, t \in Types, start \in Nat :
          /\ ~Known(e) /\ (t # "numeric" => start = 0)
          /\ \/ FlushOK(With(e, [type |-> t, mark |-> start]))
             \/ ToolFails(With(e, [type |-> t, mark |-> start]))
    BY <1>6 DEF CliInit, RegisterNew
  <2>2. PICK c : c = With(e, [type |-> t, mark |-> start])
    OBVIOUS
  <2>3. Grows(e, [type |-> t, mark |-> start])
    BY <2>1, FirstRecord
  <2>4. \A d \in {c} : IsContent(d)
    BY <2>2, <2>3, WithGrows
  <2>5. Images' \subseteq Images \cup {c} /\ mem' \in Images' /\ StoreInv'
    BY <2>1, <2>2, FlushOKEffect, CrashEffect DEF ToolFails, RegistryInv, Base
  <2> QED
    BY <1>2, <2>4, <2>5
<1>7. CASE CliReset \/ CliDelete \/ CliClear
  BY <1>7, CliResetFits, CliDeleteFits, CliClearFits
<1>8. CASE UNCHANGED vars
  BY <1>8, SameStoreKept DEF vars, StoreKept
<1> QED
  BY <1>1, <1>3, <1>4, <1>5, <1>6, <1>7, <1>8 DEF Next

--------------------------------------------------------------------------------
\* An answer keeps the requests fitting.
LEMMA AnswerFits ==
  ASSUME RegistryInv, StoreKept, NEW p \in Procs, Answer(p)
  PROVE  RequestsFit' /\ pc' \in [Procs -> {"idle", "register", "mint", "get", "set"}]
         /\ req' \in [Procs -> Requests \cup {NoReq}]
<1>1. /\ pc \in [Procs -> {"idle", "register", "mint", "get", "set"}]
      /\ req \in [Procs -> Requests \cup {NoReq}]
  BY DEF RegistryInv, Base, TypeOK, RequestTypes
<1>2. ASSUME NEW q \in Procs \ {p}
      PROVE  pc'[q] = pc[q] /\ req'[q] = req[q]
  BY <1>1 DEF Answer
<1>3. pc'[p] = "idle"
  BY <1>1 DEF Answer
<1>4. ASSUME NEW q \in Procs, pc[q] \in {"mint", "set"}
      PROVE  mem'[req[q].name].type = mem[req[q].name].type
  BY <1>4, MintFacts, SetFacts DEF StoreKept
<1>5. ASSUME NEW q \in Procs
      PROVE  /\ pc'[q] = "register" => req'[q].op \in {"next", "init"}
             /\ pc'[q] = "mint" => /\ req'[q].op = "next"
                                   /\ mem'[req'[q].name].type = req'[q].type
             /\ pc'[q] \in {"get", "set"} => req'[q].op = "reset"
             /\ pc'[q] = "set" => mem'[req'[q].name].type = "numeric"
  <2>1. CASE q = p
    BY <1>3, <2>1
  <2>2. CASE q # p
    BY <1>2, <1>4, <2>2 DEF RegistryInv, Base, RequestsFit
  <2> QED
    BY <2>1, <2>2
<1>6. /\ pc' \in [Procs -> {"idle", "register", "mint", "get", "set"}]
      /\ req' \in [Procs -> Requests \cup {NoReq}]
  BY <1>1 DEF Answer
<1> QED
  BY <1>5, <1>6 DEF RequestsFit

\* So does a move to a place that the request fits.
LEMMA GotoFits ==
  ASSUME RegistryInv, StoreKept, NEW p \in Procs, NEW where \in {"mint", "set"},
         Goto(p, where),
         where = "mint" => /\ req[p].op = "next"
                           /\ mem'[req[p].name].type = req[p].type,
         where = "set" => req[p].op = "reset" /\ mem'[req[p].name].type = "numeric"
  PROVE  RequestsFit' /\ pc' \in [Procs -> {"idle", "register", "mint", "get", "set"}]
         /\ req' \in [Procs -> Requests \cup {NoReq}]
<1>1. /\ pc \in [Procs -> {"idle", "register", "mint", "get", "set"}]
      /\ req \in [Procs -> Requests \cup {NoReq}]
  BY DEF RegistryInv, Base, TypeOK, RequestTypes
<1>2. req' = req /\ pc'[p] = where /\ \A q \in Procs \ {p} : pc'[q] = pc[q]
  BY <1>1 DEF Goto
<1>3. ASSUME NEW q \in Procs, pc[q] \in {"mint", "set"}
      PROVE  mem'[req[q].name].type = mem[req[q].name].type
  BY <1>3, MintFacts, SetFacts DEF StoreKept
<1>4. ASSUME NEW q \in Procs
      PROVE  /\ pc'[q] = "register" => req'[q].op \in {"next", "init"}
             /\ pc'[q] = "mint" => /\ req'[q].op = "next"
                                   /\ mem'[req'[q].name].type = req'[q].type
             /\ pc'[q] \in {"get", "set"} => req'[q].op = "reset"
             /\ pc'[q] = "set" => mem'[req'[q].name].type = "numeric"
  <2>1. CASE q = p
    BY <1>2, <2>1
  <2>2. CASE q # p
    BY <1>2, <1>3, <2>2 DEF RegistryInv, Base, RequestsFit
  <2> QED
    BY <2>1, <2>2
<1>5. pc' \in [Procs -> {"idle", "register", "mint", "get", "set"}]
  BY <1>1 DEF Goto
<1> QED
  BY <1>1, <1>2, <1>4, <1>5 DEF RequestsFit

\* Requests, after a step of one.
LEMMA ProcRequests ==
  ASSUME RegistryInv, NEW p \in Procs, ProcStep(p)
  PROVE  RequestTypes' /\ RequestsFit' /\ DownIsQuiet'
<1>1. StoreKept
  BY ProcStoreKept
<1>2. /\ pc \in [Procs -> {"idle", "register", "mint", "get", "set"}]
      /\ req \in [Procs -> Requests \cup {NoReq}]
      /\ up \in BOOLEAN /\ leased \in BOOLEAN
  BY DEF RegistryInv, Base, TypeOK, RequestTypes
<1>3. up' = up /\ up /\ leased' \in BOOLEAN
  BY <1>2 DEF ProcStep, Request, RegisterForNext, RegisterForInit, MintCounter, MintSnowflake,
              GetForReset, SetForReset, RegistryInv, Base, DownIsQuiet
<1>4. /\ RequestsFit' /\ pc' \in [Procs -> {"idle", "register", "mint", "get", "set"}]
      /\ req' \in [Procs -> Requests \cup {NoReq}]
  <2>1. CASE Answer(p)
    BY <1>1, <2>1, AnswerFits
  <2>2. CASE Request(p)
    <3>1. PICK r \in Requests :
            /\ req' = [req EXCEPT ![p] = r]
            /\ pc' = [pc EXCEPT ![p] = IF r.op = "reset" THEN "get" ELSE "register"]
      BY <2>2 DEF Request
    <3>2. r.op \in {"next", "init", "reset"}
      BY DEF Requests
    <3>3. /\ pc' \in [Procs -> {"idle", "register", "mint", "get", "set"}]
          /\ req' \in [Procs -> Requests \cup {NoReq}]
      BY <1>2, <3>1
    <3>4. mem' = mem
      BY <2>2 DEF Request, storeVars
    <3>5. ASSUME NEW q \in Procs
          PROVE  /\ pc'[q] = "register" => req'[q].op \in {"next", "init"}
                 /\ pc'[q] = "mint" => /\ req'[q].op = "next"
                                       /\ mem'[req'[q].name].type = req'[q].type
                 /\ pc'[q] \in {"get", "set"} => req'[q].op = "reset"
                 /\ pc'[q] = "set" => mem'[req'[q].name].type = "numeric"
      <4>1. CASE q = p
        BY <1>2, <3>1, <3>2, <4>1
      <4>2. CASE q # p
        BY <1>2, <3>1, <3>4, <4>2 DEF RegistryInv, Base, RequestsFit
      <4> QED
        BY <4>1, <4>2
    <3> QED
      BY <3>3, <3>5 DEF RequestsFit
  <2>3. CASE GetForReset(p) /\ Goto(p, "set")
    <3>1. req[p].op = "reset"
      BY <2>3 DEF GetForReset, RegistryInv, Base, RequestsFit
    <3>2. mem' = mem /\ (mem[req[p].name].type = "numeric" \/ Answer(p))
      BY <2>3 DEF GetForReset, storeVars
    <3> QED
      BY <1>1, <2>1, <2>3, <3>1, <3>2, GotoFits
  <2>4. CASE RegisterForNext(p) /\ Goto(p, "mint")
    <3>1. req[p].op = "next" /\ req[p].name \in Entities /\ req[p].type \in Types
      BY <2>4, RegisterFacts DEF RegisterForNext
    <3>2. CASE mem'[req[p].name].type = req[p].type
      BY <1>1, <2>4, <3>1, <3>2, GotoFits
    <3>3. CASE /\ UNCHANGED storeVars
               /\ IF mem[req[p].name].type = req[p].type THEN Goto(p, "mint") ELSE Answer(p)
      BY <2>1, <3>2, <3>3 DEF storeVars
    <3>4. CASE RegisterNew(req[p].name, req[p].type, 0)
      <4>1. [type |-> req[p].type, mark |-> 0] \in Records
        BY <3>1 DEF Records
      <4>2. mem'[req[p].name].type = req[p].type
        BY <3>1, <3>4, <4>1, WithFacts, FlushOKEffect
           DEF RegisterNew, RegistryInv, Base, TypeOK, StoreTypes
      <4> QED
        BY <3>2, <4>2
    <3> QED
      BY <2>1, <2>4, <3>3, <3>4 DEF RegisterForNext
  <2> QED
    BY <2>1, <2>2, <2>3, <2>4 DEF ProcStep, RegisterForNext, RegisterForInit, MintCounter,
                                  MintSnowflake, GetForReset, SetForReset
<1> QED
  BY <1>3, <1>4 DEF RequestTypes, DownIsQuiet

\* Requests, after any step.
LEMMA RequestStep ==
  ASSUME RegistryInv, [Next]_vars
  PROVE  RequestTypes' /\ RequestsFit' /\ DownIsQuiet'
<1>1. CASE \E p \in Procs : ProcStep(p)
  BY <1>1, ProcRequests
<1>2. CASE ProcessGone
  BY <1>2 DEF ProcessGone, RequestTypes, RequestsFit, DownIsQuiet
<1>3. CASE ~up /\ UNCHANGED <<pc, req, window, leased>> /\ up' \in BOOLEAN
  <2>1. ~leased /\ (\A p \in Procs : pc[p] = "idle") /\ (\A e \in Entities : window[e] = NoWindow)
    BY <1>3 DEF RegistryInv, Base, DownIsQuiet
  <2> QED
    BY <1>3, <2>1 DEF RequestTypes, RequestsFit, DownIsQuiet, RegistryInv, Base, TypeOK
<1>4. CASE UNCHANGED vars
  BY <1>4 DEF vars, storeVars, RequestTypes, RequestsFit, DownIsQuiet, RegistryInv, Base, TypeOK
<1>5. CASE Crash \/ \E p \in Procs : CrashInReset(p)
  BY <1>2, <1>5 DEF Crash, CrashInReset
<1>6. CASE Restart
  BY <1>3, <1>6 DEF Restart
<1>7. CASE Tool
  BY <1>3, <1>7 DEF Tool, RegistryInv, Base, TypeOK, RequestTypes
<1>8. CASE CliInit \/ CliReset \/ CliDelete \/ CliClear
  BY <1>7, <1>8 DEF CliInit, CliReset, CliDelete, CliClear
<1> QED
  BY <1>1, <1>4, <1>5, <1>6, <1>8 DEF Next

--------------------------------------------------------------------------------
(* Types of what is kept by name, and of the bounds. *)

\* A reset leaves histories of the same shape.
LEMMA ReleaseTypes ==
  ASSUME NameTypes, NEW e \in Entities, NEW to \in Nat, NEW force \in BOOLEAN,
         Release(e, to, force)
  PROVE  promised' \in [Entities -> Nat] /\ handed' \in [Entities -> SUBSET (Types \X Nat)]
BY DEF NameTypes, Release

\* The same for a deletion.
LEMMA ForgetTypes ==
  ASSUME NameTypes, NEW es, Forget(es)
  PROVE  /\ told' \in [Entities -> Types \cup {"absent"}]
         /\ promised' \in [Entities -> Nat] /\ handed' \in [Entities -> SUBSET (Types \X Nat)]
BY DEF NameTypes, Forget

\* Windows and histories keep their shape in a step of a request.
LEMMA ProcNameTypes ==
  ASSUME RegistryInv, NEW p \in Procs, ProcStep(p)
  PROVE  NameTypes'
<1>1. NameTypes
  BY DEF RegistryInv, Base, TypeOK
<1>2. CASE Request(p) \/ GetForReset(p) \/ RegisterForNext(p)
  BY <1>1, <1>2 DEF Request, GetForReset, RegisterForNext, registryVars, NameTypes
<1>3. CASE RegisterForInit(p)
  <2>1. req[p].name \in Entities /\ req[p].type \in Types /\ req[p].start \in Nat
    BY <1>3, RegisterFacts DEF RegisterForInit
  <2> QED
    BY <1>1, <1>3, <2>1 DEF RegisterForInit, NameTypes
<1>4. CASE MintCounter(p)
  <2>1. PICK e \in Entities : e = req[p].name /\ Known(e)
    BY <1>4, MintFacts DEF MintCounter
  <2>2. /\ Loaded(e) \in Windows /\ Loaded(e).type \in Types
        /\ Loaded(e).cursor \in Nat /\ Loaded(e).end \in Nat
    BY <2>1, LoadedFits DEF Windows
  <2>3. PICK w \in Windows : w = Loaded(e) /\ w.type \in Types /\ w.cursor \in Nat /\ w.end \in Nat
    BY <2>2
  <2>4. ASSUME NEW v \in Windows, v.type \in Types, HandOut(p, v)
        PROVE  NameTypes'
    <3>1. v.cursor \in Nat /\ [v EXCEPT !.cursor = @ + 1] \in Windows
      BY <2>4 DEF Windows
    <3>2. promised' = promised
      BY <1>4 DEF MintCounter
    <3>3. /\ window' = [window EXCEPT ![e] = [v EXCEPT !.cursor = @ + 1]]
          /\ handed' = [handed EXCEPT ![e] = @ \cup {<<v.type, v.cursor>>}]
          /\ told' = [told EXCEPT ![e] = v.type]
      BY <2>1, <2>4 DEF HandOut
    <3> QED
      BY <1>1, <2>4, <3>1, <3>2, <3>3 DEF NameTypes
  <2>5. CASE HandOut(p, w)
    BY <2>3, <2>4, <2>5
  <2>6. CASE \E m \in Nat : HandOut(p, [w EXCEPT !.end = m])
    <3>1. PICK m \in Nat : HandOut(p, [w EXCEPT !.end = m])
      BY <2>6
    <3>2. [w EXCEPT !.end = m] \in Windows /\ [w EXCEPT !.end = m].type \in Types
      BY <2>3, LongerWindow
    <3> QED
      BY <2>4, <3>1, <3>2
  <2>7. CASE window' = [window EXCEPT ![e] = w] /\ UNCHANGED <<told, handed>>
    BY <1>1, <1>4, <2>7 DEF MintCounter, NameTypes
  <2>8. PICK g : g = [mem[e] EXCEPT !.mark = w.end + SegmentSize]
    OBVIOUS
  <2>9. g.mark \in Nat
    <3>1. g.mark = w.end + SegmentSize
      BY <2>1, <2>3, <2>8, GrownRecord
    <3> QED
      BY <2>3, <3>1
  <2> QED
    BY <1>4, <2>1, <2>3, <2>5, <2>6, <2>7, <2>8, <2>9 DEF MintCounter
<1>5. CASE MintSnowflake(p)
  <2>1. req[p].name \in Entities /\ "snowflake" \in Types
    BY <1>5, MintFacts DEF MintSnowflake
  <2> QED
    BY <1>1, <1>5, <2>1 DEF MintSnowflake, NameTypes
<1>6. CASE SetForReset(p)
  <2>1. PICK e \in Entities : e = req[p].name /\ Known(e)
    BY <1>6, SetFacts DEF SetForReset
  <2>2. PICK to \in Nat : to = req[p].target
    BY <1>6, SetFacts DEF SetForReset
  <2>3. PICK force \in BOOLEAN : force = req[p].force
    BY <1>6, SetFacts DEF SetForReset
  <2>4. told' = told
    BY <1>6 DEF SetForReset
  <2>5. UNCHANGED <<handed, promised>> \/ Release(e, to, force)
    BY <1>6, <2>1, <2>2, <2>3 DEF SetForReset
  <2>6. promised' \in [Entities -> Nat] /\ handed' \in [Entities -> SUBSET (Types \X Nat)]
    BY <1>1, <2>5, ReleaseTypes DEF NameTypes
  <2>7. PICK w \in Windows : w = Loaded(e)
    BY <2>1, LoadedFits
  <2>8. [w EXCEPT !.cursor = to, !.end = to] \in Windows
    BY DEF Windows
  <2>9. \/ window' = [window EXCEPT ![e] = w]
        \/ window' = [window EXCEPT ![e] = [w EXCEPT !.cursor = to, !.end = to]]
    BY <1>6, <2>1, <2>2, <2>7 DEF SetForReset
  <2>10. window' \in [Entities -> Windows]
    BY <1>1, <2>8, <2>9 DEF NameTypes
  <2> QED
    BY <1>1, <2>4, <2>6, <2>10 DEF NameTypes
<1> QED
  BY <1>2, <1>3, <1>4, <1>5, <1>6 DEF ProcStep

\* They keep it in any step.
LEMMA NameStep ==
  ASSUME RegistryInv, [Next]_vars
  PROVE  NameTypes'
<1>1. NameTypes
  BY DEF RegistryInv, Base, TypeOK
<1>2. CASE \E p \in Procs : ProcStep(p)
  BY <1>2, ProcNameTypes
<1>3. CASE ProcessGone \/ UNCHANGED window
  <2>1. window' \in [Entities -> Windows]
    BY <1>1, <1>3 DEF ProcessGone, NameTypes, NoWindow, Windows
  <2>2. CASE UNCHANGED registryVars
    BY <1>1, <2>1, <2>2 DEF NameTypes, registryVars
  <2>3. CASE /\ told' = told
             /\ \E e \in Entities, to \in Nat, force \in BOOLEAN : Release(e, to, force)
    BY <1>1, <2>1, <2>3, ReleaseTypes DEF NameTypes
  <2>4. CASE \E es \in SUBSET Entities : Forget(es)
    BY <2>1, <2>4, <1>1, ForgetTypes DEF NameTypes
  <2>5. CASE CliInit
    <3>1. PICK e \in Entities, t \in Types, start \in Nat :
            \/ UNCHANGED <<told, promised>>
            \/ /\ told' = [told EXCEPT ![e] = t]
               /\ promised' = [promised EXCEPT ![e] = start]
      BY <2>5 DEF CliInit
    <3>2. handed' = handed
      BY <2>5 DEF CliInit
    <3> QED
      BY <1>1, <2>1, <3>1, <3>2 DEF NameTypes
  <2>6. ASSUME NEW p \in Procs, CrashInReset(p)
        PROVE  NameTypes'
    <3>1. req[p].name \in Entities /\ req[p].target \in Nat /\ req[p].force \in BOOLEAN
      BY <2>6, SetFacts DEF CrashInReset
    <3>2. told' = told /\ Release(req[p].name, req[p].target, req[p].force)
      BY <2>6 DEF CrashInReset
    <3> QED
      BY <2>3, <3>1, <3>2
  <2>7. CASE CliReset
    BY <2>3, <2>7 DEF CliReset
  <2>8. CASE CliDelete \/ CliClear
    BY <2>4, <2>8 DEF CliDelete, CliClear
  <2>9. CASE Crash \/ Restart \/ UNCHANGED vars
    BY <2>2, <2>9 DEF Crash, Restart, vars
  <2> QED
    BY <1>2, <2>5, <2>6, <2>7, <2>8, <2>9 DEF Next
<1> QED
  BY <1>2, <1>3 DEF Next, CrashInReset, Crash, Restart, CliInit, CliReset, CliDelete, CliClear,
                    Tool, vars

\* The bounds on calls and crashes hold after any step.
LEMMA BoundStep ==
  ASSUME RegistryInv, [Next]_vars
  PROVE  BoundTypes'
<1>1. calls \in 0..MaxCalls /\ crashes \in 0..MaxCrashes
  BY DEF RegistryInv, Base, TypeOK, BoundTypes
<1>2. calls' = calls \/ (calls < MaxCalls /\ calls' = calls + 1)
  BY DEF Next, ProcStep, Request, RegisterForNext, RegisterForInit, MintCounter, MintSnowflake,
         GetForReset, SetForReset, CrashInReset, Crash, Restart, CliInit, CliReset, CliDelete,
         CliClear, Tool, vars
<1>3. crashes' = crashes \/ (crashes < MaxCrashes /\ crashes' = crashes + 1)
  BY DEF Next, ProcStep, Request, RegisterForNext, RegisterForInit, MintCounter, MintSnowflake,
         GetForReset, SetForReset, CrashInReset, Crash, Restart, CliInit, CliReset, CliDelete,
         CliClear, Tool, vars
<1> QED
  BY <1>1, <1>2, <1>3 DEF BoundTypes

--------------------------------------------------------------------------------
(* The invariant holds. *)

\* Every step leaves every name fitting.
LEMMA FitsStep ==
  ASSUME RegistryInv, [Next]_vars
  PROVE  \A f \in Entities : Fits(f)'
<1>1. ASSUME NEW p \in Procs, ProcStep(p)
      PROVE  \A f \in Entities : Fits(f)'
  <2>1. CASE Request(p)
    BY <2>1, IdleFits DEF Request
  <2>2. CASE GetForReset(p)
    BY <2>2, IdleFits DEF GetForReset
  <2>3. CASE RegisterForNext(p)
    <3>1. req[p].name \in Entities /\ req[p].type \in Types
      BY <2>3, RegisterFacts DEF RegisterForNext
    <3>2. UNCHANGED <<window, leased, registryVars>>
      BY <2>3 DEF RegisterForNext
    <3>3. CASE UNCHANGED storeVars
      BY <3>2, <3>3, IdleFits
    <3>4. CASE ~Known(req[p].name) /\ RegisterNew(req[p].name, req[p].type, 0)
      BY <3>1, <3>2, <3>4, RegisterNewFits DEF registryVars
    <3>5. CASE ~Known(req[p].name) /\ RegisterFails(req[p].name, req[p].type, 0)
      BY <3>1, <3>2, <3>5, RegisterFailsFits
    <3> QED
      BY <2>3, <3>3, <3>4, <3>5 DEF RegisterForNext, Registered
  <2>4. CASE RegisterForInit(p)
    <3>1. /\ req[p].name \in Entities /\ req[p].type \in Types /\ req[p].start \in Nat
          /\ req[p].type # "numeric" => req[p].start = 0
      BY <2>4, RegisterFacts DEF RegisterForInit
    <3>2. UNCHANGED <<window, leased, handed>>
      BY <2>4 DEF RegisterForInit
    <3>3. CASE UNCHANGED <<storeVars, told, promised>>
      BY <3>2, <3>3, IdleFits DEF registryVars
    <3>4. CASE /\ ~Known(req[p].name) /\ RegisterNew(req[p].name, req[p].type, req[p].start)
               /\ told' = [told EXCEPT ![req[p].name] = req[p].type]
               /\ promised' = [promised EXCEPT ![req[p].name] = req[p].start]
      BY <3>1, <3>2, <3>4, RegisterNewFits
    <3>5. CASE /\ ~Known(req[p].name) /\ RegisterFails(req[p].name, req[p].type, req[p].start)
               /\ UNCHANGED <<told, promised>>
      BY <3>1, <3>2, <3>5, RegisterFailsFits DEF registryVars
    <3> QED
      BY <2>4, <3>3, <3>4, <3>5 DEF RegisterForInit, Registered
  <2> QED
    BY <1>1, <2>1, <2>2, <2>3, <2>4, MintCounterFits, MintSnowflakeFits, SetForResetFits
       DEF ProcStep
<1>2. CASE CliReset \/ CliDelete \/ CliClear
  BY <1>2, CliResetFits, CliDeleteFits, CliClearFits
<1>3. CASE UNCHANGED vars
  BY <1>3, IdleFits DEF vars
<1> QED
  BY <1>1, <1>2, <1>3, CrashFits, CrashInResetFits, RestartFits, CliInitFits DEF Next

\* The invariant holds when the service starts with an empty state file.
LEMMA RegistryInit == Init => RegistryInv
<1> SUFFICES ASSUME Init PROVE RegistryInv
  OBVIOUS
<1>1. /\ mem = [e \in Entities |-> Absent] /\ Images = {mem} /\ StoreInv
  BY DEF Init, StoreInit, Images, StoreInv
<1>2. Absent \in Records /\ Absent.type = "absent" /\ Absent.mark = 0
  BY DEF Absent, Records
<1>3. StoreTypes
  BY <1>1, <1>2 DEF StoreTypes, IsContent
<1>4. RequestTypes /\ BoundTypes
  <2>1. RequestTypes
    BY DEF Init, RequestTypes
  <2>2. BoundTypes
    BY DEF Init, BoundTypes
  <2> QED
    BY <2>1, <2>2
<1>5. NameTypes
  BY DEF Init, NameTypes, NoWindow, Windows
<1>6. RequestsFit /\ DownIsQuiet
  BY DEF Init, RequestsFit, DownIsQuiet
<1>7. ASSUME NEW e \in Entities
      PROVE  Fits(e)
  <2>1. told[e] = "absent" /\ promised[e] = 0 /\ handed[e] = {} /\ window[e] = NoWindow /\ ~leased
    BY DEF Init
  <2>2. ImagesFit(e)
    BY <1>1, <1>2, <2>1 DEF ImagesFit, RecordFits
  <2> QED
    BY <2>1, <2>2 DEF Fits, WindowFits, LeaseFits, HandedFits
<1> QED
  BY <1>1, <1>3, <1>4, <1>5, <1>6, <1>7 DEF RegistryInv, Base, TypeOK

\* The invariant of the proofs: the parts above, for every name, after any steps.
THEOREM RegistryInvariant == Spec => []RegistryInv
<1>1. RegistryInv /\ [Next]_vars => RegistryInv'
  BY StoreStep, RequestStep, NameStep, BoundStep, FitsStep DEF RegistryInv, Base, TypeOK
<1> QED
  BY <1>1, RegistryInit, PTL DEF Spec

--------------------------------------------------------------------------------
(* Theorems. *)

\* Records, windows and requests keep their shape in every reachable state; no mark
\* or cursor becomes negative (state.go:35-44, allocator.go:66-87).
THEOREM TypesKept == Spec => []TypeOK
<1>1. RegistryInv => TypeOK
  BY DEF RegistryInv, Base
<1> QED
  BY <1>1, RegistryInvariant, PTL

\* The type that a 200 or a 201 named stays the name's type in every image that may
\* survive, whatever fails or crashes afterwards, until the tool deletes the name
\* (Register, state.go:199-213).
THEOREM BindingSurvives == Spec => []DurableBinding
<1>1. RegistryInv => DurableBinding
  BY DEF RegistryInv, Fits, ImagesFit, RecordFits, DurableBinding
<1> QED
  BY <1>1, RegistryInvariant, PTL

\* All identifiers of a name are of one type, over any number of processes that
\* register it at once, restarts and commands of the tool (state.go:197-198).
THEOREM NameHasOneType == Spec => []OneTypePerName
<1>1. RegistryInv => OneTypePerName
  BY DEF RegistryInv, Fits, HandedFits, OneTypePerName
<1> QED
  BY <1>1, RegistryInvariant, PTL

\* Nothing below the start value of an init's 201 is handed out for the name
\* (handlers.go:283), unless an operator resets it there.
THEOREM StartIsHonoured == Spec => []StartHonoured
<1>1. RegistryInv => StartHonoured
  BY DEF RegistryInv, Fits, HandedFits, StartHonoured
<1> QED
  BY <1>1, RegistryInvariant, PTL

\* Every image that may survive has each name's mark above all that was handed out
\* for it, although a flush for one name writes the records of all (state.go:313-353).
THEOREM MarksStayAbove ==
  ASSUME ResetsSynced PROVE Spec => []MarksAboveHanded
<1>1. RegistryInv => MarksAboveHanded
  BY DEF RegistryInv, Fits, ImagesFit, RecordFits, MarksAboveHanded
<1> QED
  BY <1>1, RegistryInvariant, PTL
================================================================================
