-------------------------------- MODULE Registry -------------------------------
(***************************************************************************)
(* What a name is bound to: Register, Get, Delete and Clear of the state   *)
(* store under the requests of internal/server (next-id, next-batch, init, *)
(* reset) and the commands of bucket-next-cli, with failing flushes,       *)
(* crashes and restarts.  An image of the state file is the whole map of   *)
(* records here: a flush for one entity writes all of them.                *)
(*                                                                         *)
(* Next and Reset of the allocator are single steps, without the refill:   *)
(* each holds the entity's mutex, and module Allocator has what happens in *)
(* it.  A type is one of its classes: "numeric" (int, long), "uuid" and    *)
(* "snowflake".                                                            *)
(***************************************************************************)
EXTENDS DurableFile, Integers, FiniteSets

CONSTANTS
  Entities,
  Procs,         \* request goroutines
  Types,         \* the classes of types requests ask for
  Starts,        \* the iterations of start values and reset targets
  SegmentSize,
  MaxCalls,      \* bound: requests and commands in a behaviour
  MaxCrashes     \* bound: kills and power losses in a behaviour

ASSUME RegistryAssumption ==
  /\ Types \subseteq {"numeric", "uuid", "snowflake"}
  /\ Starts \subseteq Nat
  /\ SegmentSize \in Nat \ {0}
  /\ MaxCalls \in Nat /\ MaxCrashes \in Nat

VARIABLES
  up,          \* the service process runs
  pc, req,     \* where each request is, and what it asks
  window,      \* Allocator.entities: per entity its type, cursor and reservedEnd
  leased,      \* this process has saved a Snowflake lease
  told,        \* history: the type a 200 or 201 named, since the last delete
  promised,    \* history: the first iteration an init's 201 promised
  handed,      \* history: <<type, iteration>> handed out, since the last delete
  calls, crashes

registryVars == <<told, promised, handed>>
vars == <<storeVars, up, pc, req, window, leased, registryVars, calls, crashes>>

Absent == [type |-> "absent", mark |-> 0]
NoWindow == [type |-> "absent", cursor |-> 0, end |-> 0]
NoReq == [op |-> "none"]

Requests ==
  [op : {"next"}, name : Entities, type : Types]
  \cup [op : {"init"}, name : Entities, type : Types, start : {0}]
  \cup [op : {"init"}, name : Entities, type : Types \cap {"numeric"}, start : Starts]
  \cup [op : {"reset"}, name : Entities, target : Starts, force : BOOLEAN]

Init ==
  /\ StoreInit([e \in Entities |-> Absent])
  /\ up = TRUE
  /\ pc = [p \in Procs |-> "idle"]
  /\ req = [p \in Procs |-> NoReq]
  /\ window = [e \in Entities |-> NoWindow]
  /\ leased = FALSE
  /\ told = [e \in Entities |-> "absent"]
  /\ promised = [e \in Entities |-> 0]
  /\ handed = [e \in Entities |-> {}]
  /\ calls = 0 /\ crashes = 0

Known(e) == mem[e] # Absent

\* Mutated form of With: the other entities are left out.
WithOnly(e, rec) == [f \in Entities |-> IF f = e THEN rec ELSE Absent]

\* The content of memory, and of the image to be written, with e's record changed.
With(e, rec) == [mem EXCEPT ![e] = rec]

--------------------------------------------------------------------------------
(* Requests to the service. *)

Goto(p, where) == pc' = [pc EXCEPT ![p] = where] /\ UNCHANGED req

Answer(p) ==
  /\ pc' = [pc EXCEPT ![p] = "idle"]
  /\ req' = [req EXCEPT ![p] = NoReq]

Request(p) ==
  /\ up /\ pc[p] = "idle"
  /\ calls < MaxCalls /\ calls' = calls + 1
  /\ \E r \in Requests :
       /\ req' = [req EXCEPT ![p] = r]
       /\ pc' = [pc EXCEPT ![p] = IF r.op = "reset" THEN "get" ELSE "register"]
  /\ UNCHANGED <<storeVars, up, window, leased, registryVars, crashes>>

\* Mutated form of Registered: a record of another type is taken for no record.
RegisteredAs(e, type) == mem[e].type = type

\* Register finds a record, of whatever type, and leaves it alone.
Registered(e, type) == Known(e)

\* Mutated form of RegisterNew: the start value is dropped.
RegisterAtZero(e, type, start) == FlushOK(With(e, [type |-> type, mark |-> 0]))

\* Register creates the record.
RegisterNew(e, type, start) == FlushOK(With(e, [type |-> type, mark |-> start]))

\* Register takes the record out again, its flush having failed.
RegisterFails(e, type, start) ==
  FlushFails(With(e, [type |-> type, mark |-> start]), "dirsync")

\* registerOrCheck of next-id and next-batch: on to mint, or 400 or 500.
RegisterForNext(p) ==
  /\ pc[p] = "register" /\ req[p].op = "next"
  /\ LET e == req[p].name
         t == req[p].type
     IN  \/ /\ Registered(e, t)
            /\ IF mem[e].type = t THEN Goto(p, "mint") ELSE Answer(p)
            /\ UNCHANGED storeVars
         \/ /\ ~Registered(e, t) /\ RegisterNew(e, t, 0)
            /\ Goto(p, "mint")
         \/ /\ ~Registered(e, t) /\ RegisterFails(e, t, 0)
            /\ Answer(p)
  /\ UNCHANGED <<up, window, leased, registryVars, calls, crashes>>

\* handleInit: 201, 409 or 500.
RegisterForInit(p) ==
  /\ pc[p] = "register" /\ req[p].op = "init"
  /\ LET e == req[p].name
         t == req[p].type
         start == req[p].start
     IN  \/ /\ Registered(e, t)
            /\ UNCHANGED <<storeVars, told, promised>>
         \/ /\ ~Registered(e, t) /\ RegisterNew(e, t, start)
            /\ told' = [told EXCEPT ![e] = t]
            /\ promised' = [promised EXCEPT ![e] = start]
         \/ /\ ~Registered(e, t) /\ RegisterFails(e, t, start)
            /\ UNCHANGED <<told, promised>>
  /\ Answer(p)
  /\ UNCHANGED <<up, window, leased, handed, calls, crashes>>

\* Mutated form of Loaded: the mark is taken for the last iteration used.
LoadedBelow(e) ==
  IF window[e] # NoWindow THEN window[e]
  ELSE [type |-> mem[e].type, cursor |-> mem[e].mark - 1, end |-> mem[e].mark]

\* loadLocked: the window a process first uses is empty, at the record's mark.
Loaded(e) ==
  IF window[e] # NoWindow THEN window[e]
  ELSE [type |-> mem[e].type, cursor |-> mem[e].mark, end |-> mem[e].mark]

HandOut(p, w) ==
  LET e == req[p].name
  IN  /\ window' = [window EXCEPT ![e] = [w EXCEPT !.cursor = @ + 1]]
      /\ handed' = [handed EXCEPT ![e] = @ \cup {<<w.type, w.cursor>>}]
      /\ told' = [told EXCEPT ![e] = w.type]

\* mint, counter types: a 200, or a 500 when the window is empty and a segment
\* cannot be reserved, or is of another type.
MintCounter(p) ==
  /\ pc[p] = "mint" /\ req[p].type # "snowflake"
  /\ LET e == req[p].name
         w == Loaded(e)
         grown == [mem[e] EXCEPT !.mark = w.end + SegmentSize]
     IN  \/ /\ w.type = req[p].type /\ w.cursor < w.end
            /\ HandOut(p, w)
            /\ UNCHANGED storeVars
         \/ /\ w.type = req[p].type /\ w.cursor = w.end
            /\ FlushOK(With(e, grown))
            /\ HandOut(p, [w EXCEPT !.end = grown.mark])
         \/ /\ \/ w.type # req[p].type /\ UNCHANGED storeVars
               \/ /\ w.type = req[p].type /\ w.cursor = w.end
                  /\ FlushFails(With(e, grown), "dirsync")
            /\ window' = [window EXCEPT ![e] = w]
            /\ UNCHANGED <<told, handed>>
  /\ Answer(p)
  /\ UNCHANGED <<up, leased, promised, calls, crashes>>

\* mint, snowflake: the forge needs nothing of the record but its type; it saves
\* a lease first when this process has none yet, or its lease has run out.
MintSnowflake(p) ==
  /\ pc[p] = "mint" /\ req[p].type = "snowflake"
  /\ \/ /\ \/ leased /\ UNCHANGED storeVars
           \/ FlushOK(mem)
        /\ leased' = TRUE
        /\ told' = [told EXCEPT ![req[p].name] = "snowflake"]
        /\ handed' = [handed EXCEPT ![req[p].name] = @ \cup {<<"snowflake", 0>>}]
     \/ /\ FlushFails(mem, "dirsync")
        /\ UNCHANGED <<leased, told, handed>>
  /\ Answer(p)
  /\ UNCHANGED <<up, window, promised, calls, crashes>>

\* handleReset up to its call of the allocator: 404, 400 or on.
GetForReset(p) ==
  /\ pc[p] = "get"
  /\ IF mem[req[p].name].type = "numeric" THEN Goto(p, "set") ELSE Answer(p)
  /\ UNCHANGED <<storeVars, up, window, leased, registryVars, calls, crashes>>

\* What a reset to target with force may hand out again is no longer held against
\* the code; the same for an init's promise, which the operator overrides.
Release(e, target, force) ==
  /\ handed' = [handed EXCEPT ![e] =
                  IF force THEN {h \in @ : h[2] < target} ELSE @]
  /\ promised' = [promised EXCEPT ![e] = IF target < @ THEN 0 ELSE @]

\* ErrBackward does not stop the reset that p is about to make.
Allowed(p) == req[p].target < Loaded(req[p].name).cursor => req[p].force

AfterReset(p) == With(req[p].name, [mem[req[p].name] EXCEPT !.mark = req[p].target])

\* Allocator.Reset: 409, 500 or 200.
SetForReset(p) ==
  /\ pc[p] = "set"
  /\ LET e == req[p].name
         to == req[p].target
         w == Loaded(e)
     IN  \/ /\ ~Allowed(p)
            /\ window' = [window EXCEPT ![e] = w]
            /\ UNCHANGED <<storeVars, handed, promised>>
         \/ /\ Allowed(p)
            /\ Release(e, to, req[p].force)
            /\ \/ /\ FlushOK(AfterReset(p))
                  /\ window' = [window EXCEPT ![e] = [w EXCEPT !.cursor = to, !.end = to]]
               \/ /\ FlushFails(AfterReset(p), "resetsync")
                  /\ window' = [window EXCEPT ![e] = w]
  /\ Answer(p)
  /\ UNCHANGED <<up, leased, told, calls, crashes>>

--------------------------------------------------------------------------------
(* Crashes, restarts, and the tool on a stopped service. *)

\* Images a flush under way may be writing, other than a reset's.
Writing ==
  IF ~up THEN {}
  ELSE {mem}
       \cup {With(req[p].name, [type |-> req[p].type, mark |-> 0]) :
               p \in {q \in Procs : pc[q] = "register" /\ req[q].op = "next"
                                    /\ ~Registered(req[q].name, req[q].type)}}
       \cup {With(req[p].name, [type |-> req[p].type, mark |-> req[p].start]) :
               p \in {q \in Procs : pc[q] = "register" /\ req[q].op = "init"
                                    /\ ~Registered(req[q].name, req[q].type)}}
       \cup {With(req[p].name, [mem[req[p].name] EXCEPT
                                  !.mark = Loaded(req[p].name).end + SegmentSize]) :
               p \in {q \in Procs : pc[q] = "mint" /\ req[q].type # "snowflake"
                                    /\ Loaded(req[q].name).cursor = Loaded(req[q].name).end}}

ProcessGone ==
  /\ up' = FALSE /\ leased' = FALSE
  /\ pc' = [p \in Procs |-> "idle"]
  /\ req' = [p \in Procs |-> NoReq]
  /\ window' = [e \in Entities |-> NoWindow]

Crash ==
  /\ crashes < MaxCrashes /\ crashes' = crashes + 1
  /\ StorePowerLoss(Writing) \/ (up /\ StoreKill(Writing))
  /\ ProcessGone
  /\ UNCHANGED <<registryVars, calls>>

\* The same inside the flush of a reset.
CrashInReset(p) ==
  /\ pc[p] = "set" /\ Allowed(p)
  /\ crashes < MaxCrashes /\ crashes' = crashes + 1
  /\ StoreKill({AfterReset(p)}) \/ StorePowerLoss({AfterReset(p)})
  /\ Release(req[p].name, req[p].target, req[p].force)
  /\ ProcessGone
  /\ UNCHANGED <<told, calls>>

Restart ==
  /\ ~up /\ up' = TRUE
  /\ OpenStore
  /\ UNCHANGED <<pc, req, window, leased, registryVars, calls, crashes>>

\* A command of the tool: it opens the file, changes one thing, and exits.
Tool ==
  /\ ~up /\ calls < MaxCalls /\ calls' = calls + 1
  /\ UNCHANGED <<up, pc, req, window, leased, crashes>>

\* The tool's flush fails, or the tool dies in it.
ToolFails(to) == StoreKill({to})

CliInit ==
  /\ Tool
  /\ \E e \in Entities, t \in Types, start \in Starts \cup {0} :
       /\ ~Known(e) /\ (t # "numeric" => start = 0)
       /\ \/ /\ RegisterNew(e, t, start)
             /\ told' = [told EXCEPT ![e] = t]
             /\ promised' = [promised EXCEPT ![e] = start]
          \/ /\ ToolFails(With(e, [type |-> t, mark |-> start]))
             /\ UNCHANGED <<told, promised>>
  /\ UNCHANGED handed

CliReset ==
  /\ Tool
  /\ \E e \in Entities, to \in Starts, force \in BOOLEAN :
       /\ mem[e].type = "numeric"
       /\ to >= mem[e].mark \/ force
       /\ LET all == With(e, [mem[e] EXCEPT !.mark = to])
          IN  FlushOK(all) \/ ToolFails(all)
       /\ Release(e, to, force)
  /\ UNCHANGED told

Forget(es) ==
  /\ told' = [e \in Entities |-> IF e \in es THEN "absent" ELSE told[e]]
  /\ promised' = [e \in Entities |-> IF e \in es THEN 0 ELSE promised[e]]
  /\ handed' = [e \in Entities |-> IF e \in es THEN {} ELSE handed[e]]

\* delete --force and clear --force: whatever becomes of the flush, the operator
\* has accepted that the entities start over.
CliDelete ==
  /\ Tool
  /\ \E e \in Entities :
       /\ Known(e)
       /\ FlushOK(With(e, Absent)) \/ ToolFails(With(e, Absent))
       /\ Forget({e})

CliClear ==
  /\ Tool
  /\ LET none == [e \in Entities |-> Absent] IN FlushOK(none) \/ ToolFails(none)
  /\ Forget(Entities)

ProcStep(p) ==
  \/ Request(p) \/ RegisterForNext(p) \/ RegisterForInit(p)
  \/ MintCounter(p) \/ MintSnowflake(p) \/ GetForReset(p) \/ SetForReset(p)

Next ==
  \/ \E p \in Procs : ProcStep(p) \/ CrashInReset(p)
  \/ Crash \/ Restart \/ CliInit \/ CliReset \/ CliDelete \/ CliClear

Spec == Init /\ [][Next]_vars

--------------------------------------------------------------------------------
(* Properties. *)

Records == [type : Types \cup {"absent"}, mark : Nat]

IsContent(c) == DOMAIN c = Entities /\ \A e \in Entities : c[e] \in Records

StoreTypes == IsContent(mem) /\ \A img \in Images : IsContent(img)
RequestTypes ==
  /\ up \in BOOLEAN /\ leased \in BOOLEAN
  /\ pc \in [Procs -> {"idle", "register", "mint", "get", "set"}]
  /\ req \in [Procs -> Requests \cup {NoReq}]
Windows == [type : Types \cup {"absent"}, cursor : Nat, end : Nat]
NameTypes ==
  /\ window \in [Entities -> Windows]
  /\ told \in [Entities -> Types \cup {"absent"}]
  /\ promised \in [Entities -> Nat]
  /\ handed \in [Entities -> SUBSET (Types \X Nat)]
BoundTypes == calls \in 0..MaxCalls /\ crashes \in 0..MaxCrashes

\* Records and windows keep their shape; no mark or cursor becomes negative.
TypeOK == StoreTypes /\ RequestTypes /\ NameTypes /\ BoundTypes

\* What a client was told in a 200 or 201 outlives every crash: all images bind the
\* name to that type, also after other entities' failed registrations.
DurableBinding ==
  \A e \in Entities : told[e] # "absent" => \A img \in Images : img[e].type = told[e]

\* "Two first requests with different types cannot both win" (state.go:197-198),
\* and no later request wins with another type, over crashes and restarts.
OneTypePerName ==
  \A e \in Entities : \A a, b \in handed[e] : a[1] = b[1]

\* An init that answered 201 with a start value decides where the entity begins:
\* nothing below it is handed out, before or after, unless a reset says so.
StartHonoured ==
  \A e \in Entities : \A h \in handed[e] : h[2] >= promised[e]

\* A flush writes every entity: no operation on one name, failing or not, puts
\* another's mark on disk back below what was handed out.
MarksAboveHanded ==
  \A e \in Entities : \A h \in handed[e] :
    h[1] # "snowflake" => \A img \in Images : h[2] < img[e].mark
================================================================================
