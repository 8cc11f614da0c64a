------------------------------- MODULE Allocator -------------------------------
(***************************************************************************)
(* internal/allocator for one registered entity: callers of Next and Reset *)
(* under the entity's mutex and condition variable, the background refill  *)
(* goroutine, the state store underneath, crashes, power losses, restarts  *)
(* and the command-line tool's reset between two runs of the service.      *)
(*                                                                         *)
(* Iterations are mathematical integers here: the model is faithful while  *)
(* no sum passes 2^63-1, that is while MaxIter plus the largest batch plus *)
(* SegmentSize stays below it.                                             *)
(***************************************************************************)
EXTENDS DurableMark, FiniteSets

CONSTANTS
  Procs,          \* request goroutines
  NoProc,         \* "the mutex is free"
  SegmentSize,    \* Config.SegmentSize
  Threshold,      \* Allocator.threshold, ceil((1 - Watermark) * SegmentSize)
  MaxIter,        \* the type's last iteration on this shard
  StartMark,      \* the mark the entity was registered with
  BatchSizes,     \* the n of Next
  ResetTargets,   \* the target of Reset and of the tool's reset
  Forces,         \* the values of Reset's force argument that are used
  MaxCalls,       \* bound: calls of Next, Reset and the tool in a behaviour
  MaxCrashes,     \* bound: kills and power losses in a behaviour
  MaxOtherFlushes \* bound: flushes on behalf of others in a behaviour

ASSUME ProcsAssumption == NoProc \notin Procs
ASSUME SegmentAssumption ==
  /\ SegmentSize \in Nat \ {0}
  /\ Threshold \in 1..SegmentSize
ASSUME IterationsAssumption ==
  /\ MaxIter \in Int
  /\ StartMark \in Nat
  /\ BatchSizes \subseteq Nat \ {0}
  /\ ResetTargets \subseteq Nat
  /\ Forces \subseteq BOOLEAN
ASSUME BoundsAssumption ==
  /\ MaxCalls \in Nat
  /\ MaxCrashes \in Nat
  /\ MaxOtherFlushes \in Nat

VARIABLES
  up,           \* the service process runs
  loaded, loadMark, cursor, reservedEnd, reserving,   \* struct entity
  mutex,        \* the holder of entity.mu, except for the refill's short hold
  pc, call,     \* where each request goroutine is, and its arguments
  refillPc,     \* the refill goroutine: none, before RaiseMark, after it (raised, failed)
  refillFrom,   \* its argument `from'
  issued,       \* history: iterations handed out and not released by a force
  reissued,     \* history: iterations handed out a second time
  calls, crashes, otherFlushes   \* what is used of the bounds

entityVars == <<loaded, loadMark, cursor, reservedEnd>>
refillVars == <<reserving, refillPc, refillFrom>>
procVars == <<mutex, pc, call>>
historyVars == <<issued, reissued>>
boundVars == <<calls, crashes, otherFlushes>>
vars == <<storeVars, up, entityVars, refillVars, procVars, historyVars, boundVars>>

NextCalls == [op : {"next"}, n : BatchSizes]
ResetCalls == [op : {"reset"}, target : ResetTargets, force : Forces]
NoCall == [op |-> "none"]

Init ==
  /\ StoreInit(StartMark)
  /\ up = TRUE
  /\ loaded = FALSE /\ loadMark = 0 /\ cursor = 0 /\ reservedEnd = 0
  /\ reserving = FALSE /\ refillPc = "none" /\ refillFrom = 0
  /\ mutex = NoProc
  /\ pc = [p \in Procs |-> "idle"]
  /\ call = [p \in Procs |-> NoCall]
  /\ issued = {} /\ reissued = {}
  /\ calls = 0 /\ crashes = 0 /\ otherFlushes = 0

--------------------------------------------------------------------------------
(* Parts of the request paths. *)

Remaining == reservedEnd - cursor

\* Mutated form of Grow: one segment too many when `short' is a multiple.
GrowOneMore(short) == (short \div SegmentSize + 1) * SegmentSize

\* Whole segments that cover what the window is short of.
Grow(short) == ((short + SegmentSize - 1) \div SegmentSize) * SegmentSize

\* Mutated form of RefillOut: nobody looks at the token.
RefillOutIgnored == FALSE

\* The reservation token is out: inline reservations and resets wait.
RefillOut == reserving

\* Mutated form of Exhausted: the check is dropped.
ExhaustedNever(c, n) == FALSE

\* The type cannot hold n more iterations from c on.
Exhausted(c, n) == c + n - 1 > MaxIter

\* Mutated form of Backward: compares with the mark loaded, not the cursor.
BackwardOfLoad(target) == target < loadMark

\* A reset to target would hand out again what this process handed out.
Backward(target) == target < cursor

\* Mutated form of Load: the mark is taken for the last iteration used.
LoadBelowMark ==
  /\ loaded' = TRUE
  /\ IF loaded
       THEN UNCHANGED <<loadMark, cursor, reservedEnd>>
       ELSE loadMark' = mem - 1 /\ cursor' = mem - 1 /\ reservedEnd' = mem

\* loadLocked: the first use in this process starts an empty window at the mark.
Load ==
  /\ loaded' = TRUE
  /\ IF loaded
       THEN UNCHANGED <<loadMark, cursor, reservedEnd>>
       ELSE loadMark' = mem /\ cursor' = mem /\ reservedEnd' = mem

\* The deferred Unlock and the return to the caller.
Return(p) ==
  /\ mutex' = NoProc
  /\ pc' = [pc EXCEPT ![p] = "idle"]
  /\ call' = [call EXCEPT ![p] = NoCall]

\* Lock taken; the caller is at the head of its wait loop.
Hold(p) ==
  /\ mutex' = p
  /\ pc' = [pc EXCEPT ![p] = "locked"]
  /\ UNCHANGED call

Start(p, c) ==
  /\ up
  /\ pc[p] = "idle"
  /\ calls < MaxCalls
  /\ calls' = calls + 1
  /\ pc' = [pc EXCEPT ![p] = "enter"]
  /\ call' = [call EXCEPT ![p] = c]
  /\ UNCHANGED <<storeVars, up, entityVars, refillVars, mutex, historyVars,
                 crashes, otherFlushes>>

\* maybeRefillLocked, once the cursor has moved on to c.
MaybeRefill(c) ==
  IF reserving \/ reservedEnd - c > Threshold
    THEN UNCHANGED refillVars
    ELSE /\ reserving' = TRUE
         /\ refillPc' = "raise"
         /\ refillFrom' = reservedEnd

--------------------------------------------------------------------------------
(* Next. *)

StartNext(p) == \E c \in NextCalls : Start(p, c)

\* Next up to its loop: lock, load, and the exhaustion check.  The check uses
\* the cursor of this moment and is not repeated after a wait.
EnterNext(p) ==
  /\ pc[p] = "enter" /\ call[p].op = "next"
  /\ mutex = NoProc
  /\ Load
  /\ IF Exhausted(cursor', call[p].n) THEN Return(p) ELSE Hold(p)
  /\ UNCHANGED <<storeVars, up, refillVars, historyVars, boundVars>>

\* Mutated form of ReserveInline: a fresh window, the old one's tail is dropped.
ReserveInlineFresh(p) ==
  /\ pc[p] = "locked" /\ call[p].op = "next"
  /\ Remaining < call[p].n
  /\ ~RefillOut
  /\ LET end == reservedEnd + Grow(call[p].n)
     IN  RaiseMarkOK(end) /\ cursor' = reservedEnd /\ reservedEnd' = end
  /\ UNCHANGED <<up, loaded, loadMark, refillVars, procVars, historyVars, boundVars>>

\* The window is short and no refill is out: reserve more, holding the mutex.
ReserveInline(p) ==
  /\ pc[p] = "locked" /\ call[p].op = "next"
  /\ Remaining < call[p].n
  /\ ~RefillOut
  /\ LET end == reservedEnd + Grow(call[p].n - Remaining)
     IN  \/ /\ RaiseMarkOK(end)
            /\ reservedEnd' = end
            /\ UNCHANGED procVars
         \/ /\ RaiseMarkFails(end)
            /\ Return(p)
            /\ UNCHANGED reservedEnd
  /\ UNCHANGED <<up, loaded, loadMark, cursor, refillVars, historyVars, boundVars>>

\* The window holds n: hand them out and top the window up in the background.
TakeBlock(p) ==
  /\ pc[p] = "locked" /\ call[p].op = "next"
  /\ Remaining >= call[p].n
  /\ LET block == cursor .. (cursor + call[p].n - 1)
     IN  /\ issued' = issued \cup block
         /\ reissued' = reissued \cup (issued \cap block)
  /\ cursor' = cursor + call[p].n
  /\ MaybeRefill(cursor')
  /\ Return(p)
  /\ UNCHANGED <<storeVars, up, loaded, loadMark, reservedEnd, boundVars>>

--------------------------------------------------------------------------------
(* Reset. *)

StartReset(p) == \E c \in ResetCalls : Start(p, c)

EnterReset(p) ==
  /\ pc[p] = "enter" /\ call[p].op = "reset"
  /\ mutex = NoProc
  /\ Load
  /\ Hold(p)
  /\ UNCHANGED <<storeVars, up, refillVars, historyVars, boundVars>>

\* ErrBackward.
RefuseReset(p) ==
  /\ pc[p] = "locked" /\ call[p].op = "reset"
  /\ ~RefillOut
  /\ Backward(call[p].target) /\ ~call[p].force
  /\ Return(p)
  /\ UNCHANGED <<storeVars, up, entityVars, refillVars, historyVars, boundVars>>

\* The reset goes ahead.  With force the operator accepts that iterations from
\* target on are handed out again: the history drops them.
ApproveReset(p) ==
  /\ pc[p] = "locked" /\ call[p].op = "reset"
  /\ ~RefillOut
  /\ Backward(call[p].target) => call[p].force
  /\ pc' = [pc EXCEPT ![p] = "setting"]
  /\ issued' = IF call[p].force THEN {i \in issued : i < call[p].target} ELSE issued
  /\ UNCHANGED <<storeVars, up, entityVars, refillVars, mutex, call, reissued, boundVars>>

\* SetMark and what follows it, still under the mutex.
DoReset(p) ==
  /\ pc[p] = "setting"
  /\ LET target == call[p].target
     IN  \/ /\ SetMarkOK(target)
            /\ cursor' = target /\ reservedEnd' = target
            /\ loadMark' = IF target < loadMark THEN target ELSE loadMark
         \/ /\ SetMarkFails(target)
            /\ UNCHANGED <<cursor, reservedEnd, loadMark>>
  /\ Return(p)
  /\ UNCHANGED <<up, loaded, refillVars, historyVars, boundVars>>

--------------------------------------------------------------------------------
(* The wait loops of Next and Reset, and the refill that ends a wait. *)

MustWait(p) ==
  /\ RefillOut
  /\ call[p].op = "next" => Remaining < call[p].n

\* cond.Wait puts the caller among the waiters and unlocks in one step.
WaitForRefill(p) ==
  /\ pc[p] = "locked"
  /\ MustWait(p)
  /\ pc' = [pc EXCEPT ![p] = "waiting"]
  /\ mutex' = NoProc
  /\ UNCHANGED <<storeVars, up, entityVars, refillVars, call, historyVars, boundVars>>

\* cond.Wait locks again before it returns to the loop.
Reacquire(p) ==
  /\ pc[p] = "woken"
  /\ mutex = NoProc
  /\ Hold(p)
  /\ UNCHANGED <<storeVars, up, entityVars, refillVars, historyVars, boundVars>>

\* Mutated form of RefillRaise: a failed write is taken for a good one.
RefillRaiseIgnoringError ==
  /\ refillPc = "raise"
  /\ LET to == refillFrom + SegmentSize
     IN  RaiseMarkOK(to) \/ RaiseMarkFails(to)
  /\ refillPc' = "raised"
  /\ UNCHANGED <<up, entityVars, reserving, refillFrom, procVars, historyVars, boundVars>>

\* refill writes the disk without the entity's mutex.
RefillRaise ==
  /\ refillPc = "raise"
  /\ LET to == refillFrom + SegmentSize
     IN  \/ RaiseMarkOK(to) /\ refillPc' = "raised"
         \/ RaiseMarkFails(to) /\ refillPc' = "failed"
  /\ UNCHANGED <<up, entityVars, reserving, refillFrom, procVars, historyVars, boundVars>>

\* Mutated form of Broadcast: Signal, one waiter only.
SignalOne ==
  IF \E p \in Procs : pc[p] = "waiting"
    THEN \E p \in Procs : pc[p] = "waiting" /\ pc' = [pc EXCEPT ![p] = "woken"]
    ELSE UNCHANGED pc

\* cond.Broadcast.
Broadcast == pc' = [p \in Procs |-> IF pc[p] = "waiting" THEN "woken" ELSE pc[p]]

\* refill's critical section: extend the window, return the token, Broadcast.
RefillApply ==
  /\ refillPc \in {"raised", "failed"}
  /\ mutex = NoProc
  /\ reservedEnd' = IF refillPc = "raised" THEN refillFrom + SegmentSize ELSE reservedEnd
  /\ reserving' = FALSE
  /\ refillPc' = "none"
  /\ Broadcast
  /\ UNCHANGED <<storeVars, up, loaded, loadMark, cursor, refillFrom,
                 mutex, call, historyVars, boundVars>>

--------------------------------------------------------------------------------
(* The surroundings: other flushes, crashes, restarts, the command line. *)

OtherFlush ==
  /\ up
  /\ otherFlushes < MaxOtherFlushes
  /\ otherFlushes' = otherFlushes + 1
  /\ FlushForOthers
  /\ UNCHANGED <<up, entityVars, refillVars, procVars, historyVars, calls, crashes>>

\* The marks a flush under way at this moment can be writing.
Writing ==
  IF ~up THEN {}
  ELSE {mem}
       \cup {call[p].target : p \in {q \in Procs : pc[q] = "setting"}}
       \cup {reservedEnd + Grow(call[p].n - Remaining) :
               p \in {q \in Procs : /\ pc[q] = "locked" /\ call[q].op = "next"
                                    /\ Remaining < call[q].n /\ ~RefillOut}}
       \cup (IF refillPc = "raise" THEN {refillFrom + SegmentSize} ELSE {})

ProcessGone ==
  /\ up' = FALSE
  /\ loaded' = FALSE /\ loadMark' = 0 /\ cursor' = 0 /\ reservedEnd' = 0
  /\ reserving' = FALSE /\ refillPc' = "none" /\ refillFrom' = 0
  /\ mutex' = NoProc
  /\ pc' = [p \in Procs |-> "idle"]
  /\ call' = [p \in Procs |-> NoCall]

\* The process ends at any point: kill -9 or a panic.  (Service adds the orderly stop.)
Kill ==
  /\ up
  /\ crashes < MaxCrashes /\ crashes' = crashes + 1
  /\ StoreKill(Writing)
  /\ ProcessGone
  /\ UNCHANGED <<historyVars, calls, otherFlushes>>

PowerLoss ==
  /\ crashes < MaxCrashes /\ crashes' = crashes + 1
  /\ StorePowerLoss(Writing)
  /\ ProcessGone
  /\ UNCHANGED <<historyVars, calls, otherFlushes>>

Restart ==
  /\ ~up
  /\ up' = TRUE
  /\ OpenStore
  /\ UNCHANGED <<entityVars, refillVars, procVars, historyVars, boundVars>>

\* bucket-next-cli reset, run while the service is down: it cannot know what was
\* issued below the mark, so it takes the mark itself for the next iteration.
CliReset ==
  /\ ~up
  /\ calls < MaxCalls /\ calls' = calls + 1
  /\ \E target \in ResetTargets, force \in Forces :
       /\ target >= file \/ force
       /\ SetMarkOK(target) \/ StoreKill({target})   \* done; failed or interrupted
       /\ issued' = IF force THEN {i \in issued : i < target} ELSE issued
  /\ UNCHANGED <<up, entityVars, refillVars, procVars, reissued, crashes, otherFlushes>>

--------------------------------------------------------------------------------

ProcStep(p) ==
  \/ StartNext(p) \/ EnterNext(p) \/ ReserveInline(p) \/ TakeBlock(p)
  \/ StartReset(p) \/ EnterReset(p) \/ RefuseReset(p) \/ ApproveReset(p) \/ DoReset(p)
  \/ WaitForRefill(p) \/ Reacquire(p)

Next ==
  \/ \E p \in Procs : ProcStep(p)
  \/ RefillRaise \/ RefillApply
  \/ OtherFlush \/ Kill \/ PowerLoss \/ Restart \/ CliReset

Spec == Init /\ [][Next]_vars

\* A goroutine that can run does; sync.Mutex hands a long-waiting goroutine the
\* lock, so one that asks again and again is served.
Fairness ==
  /\ \A p \in Procs :
       /\ WF_vars(ReserveInline(p) \/ TakeBlock(p) \/ WaitForRefill(p)
                  \/ RefuseReset(p) \/ ApproveReset(p) \/ DoReset(p))
       /\ SF_vars(EnterNext(p) \/ EnterReset(p) \/ Reacquire(p))
  /\ WF_vars(RefillRaise)
  /\ SF_vars(RefillApply)

FairSpec == Spec /\ Fairness

--------------------------------------------------------------------------------
(* Properties. *)

StoreTypes == mem \in Nat /\ file \in Nat /\ durable \subseteq Nat
EntityTypes ==
  /\ up \in BOOLEAN /\ loaded \in BOOLEAN
  /\ loadMark \in Nat /\ cursor \in Nat /\ reservedEnd \in Nat
RefillTypes ==
  /\ reserving \in BOOLEAN
  /\ refillPc \in {"none", "raise", "raised", "failed"}
  /\ refillFrom \in Nat
ProcTypes ==
  /\ mutex \in Procs \cup {NoProc}
  /\ pc \in [Procs -> {"idle", "enter", "locked", "setting", "waiting", "woken"}]
  /\ call \in [Procs -> NextCalls \cup ResetCalls \cup {NoCall}]
HistoryTypes ==
  /\ issued \subseteq Nat /\ reissued \subseteq Nat
  /\ calls \in 0..MaxCalls /\ crashes \in 0..MaxCrashes
  /\ otherFlushes \in 0..MaxOtherFlushes

\* Every variable keeps its type; no mark, window or iteration becomes negative.
TypeOK == StoreTypes /\ EntityTypes /\ RefillTypes /\ ProcTypes /\ HistoryTypes

\* No iteration is handed out twice, across callers, refills, resets without
\* force, failed flushes, crashes and power losses (allocator.go:9-13).
NoReissue == reissued = {}

\* At every moment, whichever image the next start finds, its mark is above all
\* that was handed out: a crash right now would repeat nothing (state.go:8-9).
DurableAboveIssued == \A m \in Images : \A i \in issued : i < m

\* With no refill in flight the window ends at the store's mark: "every
\* reservation starts at the in-memory reservedEnd, which equals the durable
\* mark" (allocator.go:11).
ReservationIsDurable == up /\ loaded /\ ~reserving => reservedEnd = mem

\* What is left in the window belongs to this process in every image the disk
\* may come back with (allocator.go:4-5).
WindowIsOwned ==
  up /\ loaded => \A i \in cursor .. (reservedEnd - 1) : \A m \in Images : i < m

LargestBatch == CHOOSE n \in BatchSizes : \A k \in BatchSizes : k <= n

\* "If the entity's type cannot hold all n values, Next fails" (allocator.go:85):
\* nothing is handed out beyond the type's last iteration.
WithinLimit == \A i \in issued : i <= MaxIter

\* What holds of the exhaustion check: callers that passed it before they waited
\* take at most one batch each beyond the end; a lone caller takes none.
OvershootBounded ==
  \A i \in issued : i <= MaxIter + (Cardinality(Procs) - 1) * LargestBatch

\* Without resets a process hands out every iteration between its load mark and
\* its cursor: waits, failed flushes and refused calls skip nothing.
NoGapWithinRun == up /\ loaded => loadMark .. (cursor - 1) \subseteq issued

MaxForfeit ==
  SegmentSize + (IF Threshold >= LargestBatch THEN Threshold ELSE LargestBatch - 1)

\* Without resets, a crash makes the sequence jump by at most one segment over
\* what triggers a reservation: the low-water mark, or the request that found
\* the window one short.  This is more than the documents say, below.
ForfeitBounded == up /\ loaded => \A m \in Images : m - cursor <= MaxForfeit

\* "A crash forfeits the unused tail of a reservation: the sequence jumps forward
\* (gap <= `segment_size`)" (README.md:605-606, docs/configuration.md:114-115): what
\* the next run starts from is at most a segment beyond the cursor.
CrashForfeitsOneSegment ==
  [][(Kill \/ PowerLoss) /\ loaded => mem' - cursor <= SegmentSize]_vars

\* The window moves only in place and forward by whole segments, or to the target
\* of a reset: no refill brings back the end of a window a reset has replaced
\* (allocator.go:235-236).
WindowMovesInPlace ==
  [][up /\ loaded /\ up' /\ reservedEnd' # reservedEnd =>
       \/ /\ reservedEnd' > reservedEnd /\ cursor' = cursor
          /\ (reservedEnd' - reservedEnd) % SegmentSize = 0
       \/ \E p \in Procs : /\ pc[p] = "setting"
                            /\ reservedEnd' = call[p].target
                            /\ cursor' = reservedEnd']_vars

\* Every call returns (or its process ends): no waiter misses the Broadcast of
\* the refill it waits for, also when that refill failed.
CallsReturn == \A p \in Procs : pc[p] # "idle" ~> pc[p] = "idle"

--------------------------------------------------------------------------------
(* The inductive invariant behind the safety properties.                     *)
(* Monitor: what mutex, token and process state say about each other.        *)
(* Reservation: how marks, window and history lie to each other.             *)

MutexHeld == \A p \in Procs : pc[p] \in {"locked", "setting"} => mutex = p

DownIsQuiet ==
  ~up => ~loaded /\ refillPc = "none" /\ \A p \in Procs : pc[p] = "idle"

InsideIsLoaded ==
  \A p \in Procs : pc[p] \in {"locked", "setting", "waiting", "woken"} => loaded

\* The token is out exactly while the goroutine lives, and nobody moves
\* reservedEnd meanwhile (allocator.go:236).
TokenIsRefill ==
  /\ reserving <=> refillPc # "none"
  /\ refillPc # "none" => loaded /\ refillFrom = reservedEnd

NoRefillDuringSet == (\E p \in Procs : pc[p] = "setting") => refillPc = "none"

Monitor ==
  MutexHeld /\ DownIsQuiet /\ InsideIsLoaded /\ TokenIsRefill /\ NoRefillDuringSet

MarksAboveIssued == \A i \in issued : i < mem /\ \A m \in Images : i < m

CursorAboveIssued == loaded => cursor <= reservedEnd /\ \A i \in issued : i < cursor

\* The store is ahead of the window only between a refill's two critical sections.
MarkMatchesWindow ==
  loaded => mem = IF refillPc = "raised" THEN reservedEnd + SegmentSize ELSE reservedEnd

\* No image is below the end of a window that still holds something, nor below
\* the end a refill is about to announce.
ImagesCoverWindow ==
  /\ loaded /\ cursor < reservedEnd => \A m \in Images : m >= reservedEnd
  /\ refillPc = "raised" => \A m \in Images : m >= reservedEnd + SegmentSize

\* A reset about to write its target leaves nothing issued at or above it.
TargetsAboveIssued ==
  \A p \in Procs : pc[p] = "setting" => \A i \in issued : i < call[p].target

Reservation ==
  /\ NoReissue /\ MarksAboveIssued /\ CursorAboveIssued /\ MarkMatchesWindow
  /\ ImagesCoverWindow /\ TargetsAboveIssued

\* What every step keeps, given that no directory sync fails during a reset.
IndInv == TypeOK /\ Monitor /\ Reservation
================================================================================
