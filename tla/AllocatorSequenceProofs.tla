------------------------- MODULE AllocatorSequenceProofs ------------------------
(***************************************************************************)
(* What AllocatorProofs' invariant says of the sequence handed out: how    *)
(* the window moves, what a run leaves out, what a crash forfeits, how far *)
(* beyond the type's end callers get, and that Allocator implements        *)
(* Counter; then the same of Service, where readers ask beside the callers *)
(* and main stops in order, with what a reader is told and what such a     *)
(* stop leaves behind.                                                     *)
(***************************************************************************)
EXTENDS AllocatorProofs, AllocatorRefinement, Service, IntegerDivision, FiniteSetTheorems,
        WellFoundedInduction

USE FaultsAssumption, ProcsAssumption, SegmentAssumption, IterationsAssumption,
    BoundsAssumption

\* All that is known of every reachable state from AllocatorProofs.
Inv == TypeInv /\ Monitor /\ Reservation

LEMMA InvInit == Init => Inv
BY TypeInit, MonitorInit, ReservationInit DEF Inv

LEMMA InvStep == ResetsSynced /\ Inv /\ [Next]_vars => Inv'
BY TypeStep, MonitorStep, ReservationStep DEF Inv

--------------------------------------------------------------------------------
(* The window. *)

\* A multiple leaves no remainder.
LEMMA MultipleLeavesNothing ==
  ASSUME NEW n \in Nat \ {0}, NEW q \in Int
  PROVE  (n * q) % n = 0
<1>1. PICK m \in 0 .. n - 1 : m = 0
  OBVIOUS
<1>2. (n * q + m) % n = m
  BY DivisionUnique
<1>3. n * q + m = n * q
  BY <1>1
<1> QED
  BY <1>1, <1>2, <1>3

\* An inline reservation is made of whole segments, the fewest that suffice.
LEMMA GrowWhole ==
  ASSUME NEW short \in Nat \ {0}
  PROVE  /\ Grow(short) \in Nat /\ Grow(short) % SegmentSize = 0
         /\ Grow(short) >= short /\ Grow(short) <= short + SegmentSize - 1
<1>1. PICK q \in Int, r \in 0 .. SegmentSize - 1 :
        /\ q = (short + SegmentSize - 1) \div SegmentSize
        /\ short + SegmentSize - 1 = SegmentSize * q + r
  BY Division
<1>2. SegmentSize * q \in Int /\ Grow(short) = SegmentSize * q
  <2>1. q * SegmentSize = SegmentSize * q
    BY <1>1
  <2> QED
    BY <1>1, <2>1 DEF Grow
<1>3. (SegmentSize * q) % SegmentSize = 0
  BY MultipleLeavesNothing
<1>4. SegmentSize * q <= short + SegmentSize - 1
  BY <1>1, <1>2
<1> QED
  BY <1>2, <1>3, <1>4, GrowCovers

\* What an inline reservation is about to write, and when.
LEMMA InlineEnd ==
  ASSUME TypeInv, Monitor, NEW p \in Procs, pc[p] = "locked", call[p].op = "next",
         Remaining < call[p].n, ~RefillOut
  PROVE  LET grow == Grow(call[p].n - Remaining)
         IN  /\ loaded /\ refillPc = "none"
             /\ call[p].n \in Nat \ {0} /\ call[p].n \in BatchSizes
             /\ grow \in Nat \ {0} /\ grow % SegmentSize = 0
             /\ reservedEnd + grow >= cursor + call[p].n
             /\ reservedEnd + grow <= cursor + call[p].n + SegmentSize - 1
<1>1. cursor \in Nat /\ reservedEnd \in Nat
  BY DEF TypeInv, TypeOK, EntityTypes
<1>2. call[p].n \in Nat \ {0} /\ call[p].n \in BatchSizes
  <2>1. call[p] \in NextCalls \cup ResetCalls \cup {NoCall}
    BY DEF TypeInv, TypeOK, ProcTypes
  <2>2. call[p] \in NextCalls
    BY <2>1 DEF ResetCalls, NoCall
  <2> QED
    BY <2>2 DEF NextCalls
<1>3. call[p].n - Remaining \in Nat \ {0}
  BY <1>1, <1>2 DEF Remaining
<1>4. loaded /\ refillPc = "none"
  BY DEF Monitor, InsideIsLoaded, TokenIsRefill, RefillOut
<1>5. LET grow == Grow(call[p].n - Remaining)
      IN  /\ grow \in Nat /\ grow % SegmentSize = 0
          /\ grow >= call[p].n - Remaining
          /\ grow <= (call[p].n - Remaining) + SegmentSize - 1
  BY <1>3, GrowWhole
<1> QED
  BY <1>1, <1>2, <1>3, <1>4, <1>5 DEF Remaining

\* No refill brings back the end of a window a reset has replaced: the window moves
\* forward in place by whole segments, or to the target of a reset.
THEOREM WindowStaysInPlace == Spec => WindowMovesInPlace
<1> DEFINE Moves ==
      \/ /\ reservedEnd' > reservedEnd /\ cursor' = cursor
         /\ (reservedEnd' - reservedEnd) % SegmentSize = 0
      \/ \E p \in Procs : /\ pc[p] = "setting"
                           /\ reservedEnd' = call[p].target
                           /\ cursor' = reservedEnd'
<1>1. ASSUME TypeInv, Monitor, [Next]_vars, up, loaded, up', reservedEnd' # reservedEnd
      PROVE  Moves
  <2>0. reservedEnd \in Nat /\ cursor \in Nat
    BY <1>1 DEF TypeInv, TypeOK, EntityTypes
  <2>1. ASSUME NEW p \in Procs, ReserveInline(p) PROVE Moves
    <3> DEFINE grow == Grow(call[p].n - Remaining)
    <3>1. grow \in Nat \ {0} /\ grow % SegmentSize = 0
      BY <1>1, <2>1, InlineEnd DEF ReserveInline
    <3>2. reservedEnd' = reservedEnd + grow /\ cursor' = cursor
      BY <1>1, <2>1 DEF ReserveInline
    <3> HIDE DEF grow
    <3>3. reservedEnd' - reservedEnd = grow
      BY <2>0, <3>1, <3>2
    <3> QED
      BY <2>0, <3>1, <3>2, <3>3
  <2>2. ASSUME NEW p \in Procs, DoReset(p) PROVE Moves
    BY <1>1, <2>2 DEF DoReset
  <2>3. CASE RefillApply
    <3>1. refillFrom = reservedEnd /\ reservedEnd' = reservedEnd + SegmentSize
      BY <1>1, <2>3 DEF RefillApply, Monitor, TokenIsRefill
    <3>2. cursor' = cursor
      BY <2>3 DEF RefillApply
    <3>3. reservedEnd' - reservedEnd = SegmentSize /\ reservedEnd' > reservedEnd
      BY <2>0, <3>1
    <3>4. SegmentSize % SegmentSize = 0
      <4>1. PICK q \in Int : q = 1
        OBVIOUS
      <4>2. (SegmentSize * q) % SegmentSize = 0
        BY MultipleLeavesNothing
      <4> QED
        BY <4>1, <4>2
    <3> QED
      BY <3>2, <3>3, <3>4
  <2>4. CASE UNCHANGED reservedEnd
    BY <1>1, <2>4
  <2>5. CASE ~up'
    BY <1>1, <2>5
  <2> QED
    BY <1>1, <2>1, <2>2, <2>3, <2>4, <2>5
       DEF Next, ProcStep, StartNext, StartReset, Start, EnterNext, TakeBlock, EnterReset,
           Load, RefuseReset, ApproveReset, WaitForRefill, Reacquire, RefillRaise,
           OtherFlush, Kill, PowerLoss, ProcessGone, Restart, CliReset, entityVars, vars
<1>2. TypeInv /\ Monitor /\ [Next]_vars
        => [up /\ loaded /\ up' /\ reservedEnd' # reservedEnd => Moves]_vars
  BY <1>1
<1> QED
  BY <1>2, TypeInit, TypeStep, MonitorInit, MonitorStep, PTL DEF Spec, WindowMovesInPlace

--------------------------------------------------------------------------------
(* Without resets: what a run and what a crash leave out. *)

\* Nobody resets the counter, neither by Reset nor from the command line.
NoResets == ResetTargets = {}

LEMMA NoResetCalls ==
  ASSUME NoResets, TypeInv
  PROVE  /\ \A p \in Procs : call[p].op # "reset" /\ pc[p] # "setting"
         /\ ~CliReset
<1>1. ASSUME NEW p \in Procs PROVE call[p].op # "reset"
  <2>1. call[p] \in NextCalls \cup ResetCalls \cup {NoCall}
    BY DEF TypeInv, TypeOK, ProcTypes
  <2> QED
    BY <2>1, CallFields DEF NoResets
<1>2. \A p \in Procs : pc[p] # "setting"
  BY <1>1 DEF TypeInv, SettingIsReset
<1>3. ~CliReset
  BY DEF CliReset, NoResets
<1> QED
  BY <1>1, <1>2, <1>3

\* Since the load this process has handed out all that is below its cursor.
GapInv == loaded => loadMark .. (cursor - 1) \subseteq issued

LEMMA GapStep == NoResets /\ TypeInv /\ GapInv /\ [Next]_vars => GapInv'
<1> SUFFICES ASSUME NoResets, TypeInv, GapInv, [Next]_vars PROVE GapInv'
  OBVIOUS
<1>0. /\ loadMark \in Nat /\ cursor \in Nat /\ mem \in Nat
      /\ \A p \in Procs : call[p].op # "reset" /\ pc[p] # "setting"
  BY NoResetCalls DEF TypeInv, TypeOK, EntityTypes, StoreTypes
<1>1. ASSUME NEW p \in Procs, EnterNext(p) PROVE GapInv'
  BY <1>0, <1>1 DEF GapInv, EnterNext, Load, historyVars
<1>2. ASSUME NEW p \in Procs, TakeBlock(p) PROVE GapInv'
  <2>1. /\ issued' = issued \cup (cursor .. (cursor + call[p].n - 1))
        /\ cursor' = cursor + call[p].n
        /\ UNCHANGED <<loaded, loadMark>>
    BY <1>2 DEF TakeBlock
  <2>2. call[p].n \in Nat
    BY <1>2, CallFields DEF TakeBlock, TypeInv, TypeOK, ProcTypes
  <2> QED
    BY <1>0, <2>1, <2>2 DEF GapInv
<1>3. CASE UNCHANGED <<loaded, loadMark, cursor, issued>>
  BY <1>3 DEF GapInv
<1>4. CASE ~loaded'
  BY <1>4 DEF GapInv
<1> QED
  BY <1>0, <1>1, <1>2, <1>3, <1>4, NoResetCalls
     DEF Next, ProcStep, StartNext, StartReset, Start, ReserveInline, EnterReset,
         RefuseReset, ApproveReset, DoReset, WaitForRefill, Reacquire, RefillRaise,
         RefillApply, OtherFlush, Kill, PowerLoss, ProcessGone, Restart, entityVars,
         historyVars, vars

\* A process that is never reset hands out every iteration between its load mark and
\* its cursor: waits, failed flushes and refused calls skip nothing.
THEOREM NothingSkipped == ASSUME NoResets PROVE Spec => []NoGapWithinRun
<1>1. Init => GapInv
  BY DEF Init, GapInv
<1>2. TypeInv /\ GapInv /\ [Next]_vars => GapInv'
  BY GapStep, NoResets
<1>3. GapInv => NoGapWithinRun
  BY DEF GapInv, NoGapWithinRun
<1> QED
  BY <1>1, <1>2, <1>3, TypeInit, TypeStep, PTL DEF Spec

\* There is a largest batch: the handlers refuse more than MaxBatchSize (handlers.go:19).
BatchesBounded == \E n \in BatchSizes : \A k \in BatchSizes : k <= n

LEMMA LargestIsLargest ==
  ASSUME BatchesBounded
  PROVE  LargestBatch \in Nat \ {0} /\ \A k \in BatchSizes : k <= LargestBatch
BY DEF BatchesBounded, LargestBatch

\* What no image goes beyond, seen from the position this or the next run starts at:
\* a reservation is made when at most Threshold is left, or one short of a batch,
\* and for no more than a segment over what is missing.
ForfeitInv ==
  /\ mem <= file
  /\ loaded => \A m \in Images : m - cursor <= MaxForfeit
  /\ ~loaded => \A m \in Images : m - mem <= MaxForfeit
  /\ refillPc # "none" => refillFrom - cursor <= Threshold

LEMMA ForfeitBounds ==
  ASSUME BatchesBounded
  PROVE  /\ MaxForfeit \in Nat /\ SegmentSize + Threshold <= MaxForfeit
         /\ \A k \in BatchSizes : k + SegmentSize - 1 <= MaxForfeit
BY LargestIsLargest DEF MaxForfeit

\* What a flush under way can put on disk is no lower than the mark in memory, and
\* no further from the cursor than a reservation reaches.
LEMMA WritingWithinReach ==
  ASSUME NoResets, BatchesBounded, Inv, ForfeitInv, NEW w \in Writing
  PROVE  /\ w \in Nat /\ w >= mem
         /\ loaded => w - cursor <= MaxForfeit
         /\ ~loaded => w = mem
<1>0. /\ up /\ mem \in Nat /\ file \in Nat /\ cursor \in Nat /\ reservedEnd \in Nat
      /\ file \in Images /\ MaxForfeit \in Nat
  BY ForfeitBounds DEF Inv, TypeInv, TypeOK, StoreTypes, EntityTypes, Writing, Images
<1>1. CASE w = mem
  <2>1. loaded => file - cursor <= MaxForfeit
    BY <1>0 DEF ForfeitInv
  <2> QED
    BY <1>0, <1>1, <2>1 DEF ForfeitInv
<1>2. ASSUME NEW p \in Procs, pc[p] = "locked", call[p].op = "next",
             Remaining < call[p].n, ~RefillOut,
             w = reservedEnd + Grow(call[p].n - Remaining)
      PROVE  loaded /\ w \in Nat /\ w >= mem /\ w - cursor <= MaxForfeit
  <2>1. /\ loaded /\ refillPc = "none" /\ call[p].n \in BatchSizes /\ call[p].n \in Nat
        /\ Grow(call[p].n - Remaining) \in Nat
        /\ w <= cursor + call[p].n + SegmentSize - 1
    BY <1>2, InlineEnd DEF Inv
  <2>2. mem = reservedEnd
    BY <2>1 DEF Inv, Reservation, MarkMatchesWindow
  <2>3. call[p].n + SegmentSize - 1 <= MaxForfeit
    BY <2>1, ForfeitBounds
  <2> QED
    BY <1>0, <1>2, <2>1, <2>2, <2>3
<1>3. CASE refillPc = "raise" /\ w = refillFrom + SegmentSize
  <2>1. /\ loaded /\ refillFrom = reservedEnd /\ mem = reservedEnd
        /\ refillFrom - cursor <= Threshold
    BY <1>3 DEF Inv, Monitor, TokenIsRefill, Reservation, MarkMatchesWindow, ForfeitInv
  <2> QED
    BY <1>0, <1>3, <2>1, ForfeitBounds
<1> QED
  BY <1>0, <1>1, <1>2, <1>3, NoResetCalls DEF Writing, Inv

LEMMA ForfeitStep ==
  NoResets /\ BatchesBounded /\ Inv /\ ForfeitInv /\ [Next]_vars => ForfeitInv'
<1> SUFFICES ASSUME NoResets, BatchesBounded, Inv, ForfeitInv, [Next]_vars
             PROVE  ForfeitInv'
  OBVIOUS
<1>0. /\ mem \in Nat /\ file \in Nat /\ durable \subseteq Nat /\ Images \subseteq Nat
      /\ cursor \in Nat /\ reservedEnd \in Nat /\ refillFrom \in Nat
      /\ file \in Images /\ MaxForfeit \in Nat
      /\ DownIsQuiet /\ InsideIsLoaded /\ TokenIsRefill
      /\ \A p \in Procs : call[p].op # "reset" /\ pc[p] # "setting"
      /\ ~CliReset
  BY ForfeitBounds, NoResetCalls
     DEF Inv, TypeInv, TypeOK, StoreTypes, EntityTypes, RefillTypes, Images, Monitor
<1>n. mem \in Nat /\ file \in Nat /\ cursor \in Nat /\ MaxForfeit \in Nat
  BY <1>0
<1>1. ASSUME NEW p \in Procs, EnterNext(p) PROVE ForfeitInv'
  <2>1. ~loaded => refillPc = "none" /\ cursor' = mem
    BY <1>0, <1>1 DEF TokenIsRefill, EnterNext, Load
  <2> QED
    BY <1>0, <1>1, <2>1, SameImages DEF ForfeitInv, EnterNext, Load, storeVars, refillVars
<1>2. ASSUME NEW p \in Procs, ReserveInline(p) PROVE ForfeitInv'
  <2> DEFINE end == reservedEnd + Grow(call[p].n - Remaining)
  <2>1. /\ loaded /\ refillPc = "none" /\ call[p].n \in BatchSizes /\ call[p].n \in Nat \ {0}
        /\ Grow(call[p].n - Remaining) \in Nat \ {0}
        /\ end <= cursor + call[p].n + SegmentSize - 1
    BY <1>2, InlineEnd DEF Inv, ReserveInline
  <2>2. mem = reservedEnd
    BY <2>1 DEF Inv, Reservation, MarkMatchesWindow
  <2>3. call[p].n + SegmentSize - 1 <= MaxForfeit
    BY <2>1, ForfeitBounds
  <2>4. end \in Nat /\ end > mem /\ end - cursor <= MaxForfeit
    BY <1>0, <2>1, <2>2, <2>3
  <2>5. RaiseMarkOK(end) \/ RaiseMarkFails(end)
    BY <1>2 DEF ReserveInline
  <2>6. UNCHANGED <<loaded, cursor, refillPc, refillFrom>>
    BY <1>2 DEF ReserveInline, refillVars
  <2> HIDE DEF end
  <2>7. mem' <= file' /\ Images' \subseteq Images \cup {end}
    BY <1>0, <2>4, <2>5
       DEF RaiseMarkOK, RaiseMarkFails, FlushOK, FlushFails, ForfeitInv, Images, storeVars
  <2> QED
    BY <1>0, <2>1, <2>4, <2>6, <2>7 DEF ForfeitInv
<1>3. ASSUME NEW p \in Procs, TakeBlock(p) PROVE ForfeitInv'
  <2>1. loaded /\ loaded' /\ call[p].n \in Nat
    BY <1>0, <1>3, CallFields DEF TakeBlock, InsideIsLoaded, Inv, TypeInv, TypeOK, ProcTypes
  <2>2. cursor' = cursor + call[p].n /\ mem' = mem /\ file' = file /\ Images' = Images
    BY <1>3, SameImages DEF TakeBlock, storeVars
  <2>3. refillPc' # "none" => refillFrom' - cursor' <= Threshold
    BY <1>0, <1>3, <2>1, <2>2
       DEF TakeBlock, MaybeRefill, TokenIsRefill, ForfeitInv, refillVars
  <2> QED
    BY <1>0, <2>1, <2>2, <2>3 DEF ForfeitInv
<1>4. CASE RefillRaise
  <2> DEFINE to == refillFrom + SegmentSize
  <2>1. /\ loaded /\ refillFrom = reservedEnd /\ mem = reservedEnd
        /\ refillFrom - cursor <= Threshold
    BY <1>0, <1>4
       DEF RefillRaise, TokenIsRefill, Inv, Reservation, MarkMatchesWindow, ForfeitInv
  <2>2. to \in Nat /\ to > mem /\ to - cursor <= MaxForfeit
    BY <1>0, <2>1, ForfeitBounds
  <2>3. /\ RaiseMarkOK(to) \/ RaiseMarkFails(to)
        /\ UNCHANGED <<loaded, cursor, refillFrom>>
    BY <1>4 DEF RefillRaise, entityVars
  <2> HIDE DEF to
  <2>4. mem' <= file' /\ Images' \subseteq Images \cup {to}
    BY <1>0, <2>2, <2>3
       DEF RaiseMarkOK, RaiseMarkFails, FlushOK, FlushFails, ForfeitInv, Images, storeVars
  <2> QED
    BY <1>0, <2>1, <2>2, <2>3, <2>4 DEF ForfeitInv
<1>5. CASE RefillApply
  BY <1>0, <1>5, SameImages DEF ForfeitInv, RefillApply, storeVars
<1>6. CASE OtherFlush
  <2>1. mem' = mem /\ file' \in {file, mem} /\ Images' \subseteq Images \cup {mem}
    BY <1>6, OthersEffect
       DEF OtherFlush, FlushForOthers, FlushOK, FlushFails, storeVars
  <2>2. UNCHANGED <<loaded, cursor, refillPc, refillFrom>>
    BY <1>6 DEF OtherFlush, entityVars, refillVars
  <2>3. loaded => mem - cursor <= MaxForfeit
    <3>1. loaded => file - cursor <= MaxForfeit
      BY <1>0 DEF ForfeitInv
    <3> QED
      BY <1>0, <3>1 DEF ForfeitInv
  <2> QED
    BY <1>0, <2>1, <2>2, <2>3 DEF ForfeitInv
<1>7. CASE Kill
  <2>1. /\ file' \in {file} \cup Writing /\ mem' = file'
        /\ Images' \subseteq Images \cup Writing
    BY <1>7, CrashEffect DEF Kill, StoreKill
  <2>2. ~loaded' /\ refillPc' = "none"
    BY <1>7 DEF Kill, ProcessGone
  <2>3. mem' \in Nat /\ mem' >= mem
    BY <1>0, <2>1, WritingWithinReach DEF ForfeitInv
  <2>4. ASSUME NEW m \in Images' PROVE m - mem' <= MaxForfeit
    <3>1. CASE loaded
      <4>1. cursor <= mem
        BY <1>0, <3>1 DEF Inv, Reservation, CursorAboveIssued, MarkMatchesWindow
      <4>2. m \in Nat /\ m - cursor <= MaxForfeit
        BY <1>0, <2>1, <2>4, <3>1, WritingWithinReach DEF ForfeitInv
      <4>3. \A n \in Nat : n >= mem => m - n <= MaxForfeit
        BY <1>n, <4>1, <4>2
      <4> QED
        BY <2>3, <4>3
    <3>2. CASE ~loaded
      <4>1. m \in Nat /\ m - mem <= MaxForfeit
        BY <1>0, <2>1, <2>4, <3>2, WritingWithinReach DEF ForfeitInv
      <4>2. \A n \in Nat : n >= mem => m - n <= MaxForfeit
        BY <1>n, <4>1
      <4> QED
        BY <2>3, <4>2
    <3> QED
      BY <3>1, <3>2
  <2> QED
    BY <2>1, <2>2, <2>3, <2>4 DEF ForfeitInv
<1>8. CASE PowerLoss
  <2>1. /\ file' \in durable \cup Writing /\ mem' = file' /\ Images' = {file'}
        /\ ~loaded' /\ refillPc' = "none"
    BY <1>8 DEF PowerLoss, StorePowerLoss, ProcessGone, Images
  <2>2. file' \in Nat
    BY <1>0, <2>1, WritingWithinReach
  <2>3. \A n \in Nat : n - n <= MaxForfeit /\ n <= n
    BY <1>n
  <2> QED
    BY <2>1, <2>2, <2>3 DEF ForfeitInv
<1>9. CASE Restart
  <2>1. ~loaded /\ ~loaded' /\ refillPc' = "none" /\ mem' = file /\ file' = file
    BY <1>0, <1>9 DEF Restart, DownIsQuiet, OpenStore, entityVars, refillVars
  <2>2. Images' = Images
    BY <1>9 DEF Restart, OpenStore, Images
  <2> QED
    BY <1>0, <2>1, <2>2 DEF ForfeitInv
<1>10. CASE UNCHANGED <<storeVars, entityVars, refillVars>>
  BY <1>10, SameImages DEF ForfeitInv, storeVars, entityVars, refillVars
<1> QED
  BY <1>0, <1>1, <1>2, <1>3, <1>4, <1>5, <1>6, <1>7, <1>8, <1>9, <1>10
     DEF Next, ProcStep, StartNext, StartReset, Start, EnterReset,
         RefuseReset, ApproveReset, DoReset, WaitForRefill, Reacquire, vars

\* A crash forfeits at most one segment over what triggers a reservation.
THEOREM ForfeitIsBounded ==
  ASSUME NoResets, BatchesBounded PROVE Spec => []ForfeitBounded
<1>1. Init => ForfeitInv
  BY ForfeitBounds DEF Init, StoreInit, ForfeitInv, Images
<1>2. ResetsSynced
  BY NoResets DEF NoResets, ResetsSynced
<1>3. Inv /\ [Next]_vars => Inv'
  BY <1>2, InvStep
<1>4. Inv /\ ForfeitInv /\ [Next]_vars => ForfeitInv'
  BY ForfeitStep, NoResets, BatchesBounded
<1>5. ForfeitInv => ForfeitBounded
  BY DEF ForfeitInv, ForfeitBounded
<1> QED
  BY <1>1, <1>3, <1>4, <1>5, InvInit, PTL DEF Spec

--------------------------------------------------------------------------------
(* How far beyond the type's end callers get. *)

\* Calls that passed the exhaustion check and have taken nothing yet.
Passed == {p \in Procs : pc[p] \in {"locked", "waiting", "woken"} /\ call[p].op = "next"}

FarthestEnd == MaxIter + (Cardinality(Procs) - 1) * LargestBatch

\* Where the block of p ends if all the others that passed take theirs before it.
LatestEnd(p) == cursor - 1 + call[p].n + (Cardinality(Passed) - 1) * LargestBatch

\* One of those that passed the check ends within the bound even as the last of them.
OvershootInv ==
  /\ \A i \in issued : i <= FarthestEnd
  /\ Passed # {} => \E p \in Passed : LatestEnd(p) <= FarthestEnd

\* The requests in progress are finitely many, the handlers refuse batches above
\* MaxBatchSize, and values beyond the type (handlers.go:19, 130).
CallsBounded ==
  /\ IsFiniteSet(Procs)
  /\ BatchesBounded
  /\ \A t \in ResetTargets : t <= MaxIter

\* The product in LatestEnd, in the forms the steps need.
LEMMA OneMore ==
  ASSUME NEW k \in Int, NEW L \in Nat
  PROVE  (k - 1) * L \in Int /\ k * L \in Int /\ k * L = (k - 1) * L + L
OBVIOUS

LEMMA NoLess ==
  ASSUME NEW k \in Int, NEW m \in Int, NEW L \in Nat, k <= m
  PROVE  k * L <= m * L
<1>1. (m - k) * L >= 0 /\ (m - k) * L = m * L - k * L
  OBVIOUS
<1>2. k * L \in Int /\ m * L \in Int
  OBVIOUS
<1> QED
  BY <1>1, <1>2

LEMMA PassedFacts ==
  ASSUME CallsBounded, TypeInv
  PROVE  /\ IsFiniteSet(Passed) /\ Cardinality(Passed) \in Nat
         /\ Cardinality(Procs) \in Nat /\ Cardinality(Passed) <= Cardinality(Procs)
         /\ \A p \in Procs : /\ call[p].op = "next" => /\ call[p].n \in Nat \ {0}
                                                       /\ call[p].n <= LargestBatch
                             /\ call[p].op = "reset" => call[p].target <= MaxIter
         /\ cursor \in Nat /\ issued \subseteq Nat
         /\ LargestBatch \in Nat /\ FarthestEnd \in Int
<1>1. IsFiniteSet(Procs) /\ Passed \subseteq Procs
  BY DEF CallsBounded, Passed
<1>2. IsFiniteSet(Passed) /\ Cardinality(Passed) <= Cardinality(Procs)
  BY <1>1, FS_Subset
<1>3. Cardinality(Passed) \in Nat /\ Cardinality(Procs) \in Nat
  BY <1>1, <1>2, FS_CardinalityType
<1>4. LargestBatch \in Nat /\ \A k \in BatchSizes : k <= LargestBatch
  BY LargestIsLargest DEF CallsBounded
<1>5. ASSUME NEW p \in Procs
      PROVE  /\ call[p].op = "next" => call[p].n \in Nat \ {0} /\ call[p].n <= LargestBatch
             /\ call[p].op = "reset" => call[p].target <= MaxIter
  <2>1. call[p] \in NextCalls \cup ResetCalls \cup {NoCall}
    BY DEF TypeInv, TypeOK, ProcTypes
  <2>2. call[p].op = "next" => call[p].n \in BatchSizes
    BY <2>1 DEF NextCalls, ResetCalls, NoCall
  <2>3. call[p].op = "reset" => call[p].target \in ResetTargets
    BY <2>1, CallFields
  <2> QED
    BY <1>4, <2>2, <2>3 DEF CallsBounded
<1>6. FarthestEnd \in Int
  <2>1. (Cardinality(Procs) - 1) * LargestBatch \in Int
    BY <1>3, <1>4, OneMore
  <2> QED
    BY <2>1 DEF FarthestEnd
<1> QED
  BY <1>2, <1>3, <1>4, <1>5, <1>6 DEF TypeInv, TypeOK, EntityTypes, HistoryTypes

\* When p takes its block, or returns with an error, the bound holds of its block and
\* there is again one among the rest that ends within it.
LEMMA OneLeaves ==
  ASSUME CallsBounded, TypeInv, OvershootInv,
         NEW p \in Passed, NEW d \in 0 .. call[p].n,
         Passed' = Passed \ {p}, cursor' = cursor + d,
         \A q \in Procs \ {p} : call'[q] = call[q]
  PROVE  /\ cursor - 1 + call[p].n <= FarthestEnd
         /\ Passed' # {} => \E q \in Passed' : LatestEnd(q)' <= FarthestEnd
<1> DEFINE L == LargestBatch
           k == Cardinality(Passed)
<1>0. /\ k \in Nat /\ L \in Nat /\ cursor \in Nat /\ FarthestEnd \in Int
      /\ \A q \in Passed : call[q].n \in Nat \ {0} /\ call[q].n <= L
  BY PassedFacts DEF Passed
<1>1. Cardinality(Passed \ {p}) = k - 1 /\ k - 1 \in Nat
  <2>1. Cardinality(Passed \ {p}) = k - 1
    BY PassedFacts, FS_RemoveElement
  <2>2. IsFiniteSet(Passed \ {p})
    BY PassedFacts, FS_RemoveElement
  <2> QED
    BY <2>1, <2>2, FS_CardinalityType
<1>2. PICK w \in Passed : cursor - 1 + call[w].n + (k - 1) * L <= FarthestEnd
  BY DEF OvershootInv, LatestEnd
<1>3. PICK rest \in Nat : rest = (k - 1) * L
  <2>1. 0 * L <= (k - 1) * L /\ (k - 1) * L \in Int
    BY <1>0, <1>1, NoLess, OneMore
  <2> QED
    BY <1>0, <2>1
<1>4. w # p => rest >= L
  <2> SUFFICES ASSUME w # p PROVE 1 * L <= (k - 1) * L
    BY <1>0, <1>3
  <2>1. Passed \ {p} # {}
    BY <1>2
  <2>2. k - 1 # 0
    BY <1>1, <2>1, PassedFacts, FS_RemoveElement, FS_EmptySet
  <2> QED
    BY <1>0, <1>1, <2>2, NoLess
<1>5. cursor - 1 + call[p].n <= FarthestEnd
  BY <1>0, <1>2, <1>3, <1>4
<1>6. ASSUME Passed' # {}
      PROVE  \E q \in Passed' : LatestEnd(q)' <= FarthestEnd
  <2>1. PICK q \in Passed' : w # p => q = w
    BY <1>6
  <2>2. q \in Procs \ {p} /\ q \in Passed /\ p \in Passed
    BY <2>1 DEF Passed
  <2>3. PICK left \in Nat, c \in Nat :
          left = Cardinality(Passed)' /\ left = k - 1 /\ c = cursor' /\ c = cursor + d
    BY <1>0, <1>1
  <2>4. LatestEnd(q)' = c - 1 + call[q].n + (left - 1) * L
    BY <2>2, <2>3 DEF LatestEnd
  <2>5. PICK less \in Int : less = (left - 1) * L /\ rest = less + L
    BY <1>0, <1>3, <2>3, OneMore
  <2>6. c - 1 + call[q].n + less <= FarthestEnd
    <3>1. /\ d \in Nat /\ d <= call[p].n /\ call[p].n \in Nat /\ call[p].n <= L
          /\ call[q].n \in Nat /\ call[q].n <= L /\ call[w].n \in Nat
          /\ cursor - 1 + call[w].n + rest <= FarthestEnd
      BY <1>0, <1>2, <1>3, <2>2
    <3>2. CASE w = p
      BY <1>0, <2>3, <2>5, <3>1, <3>2
    <3>3. CASE w # p
      BY <1>0, <2>1, <2>3, <2>5, <3>1, <3>3
    <3> QED
      BY <3>2, <3>3
  <2> QED
    BY <2>1, <2>4, <2>5, <2>6
<1> QED
  BY <1>5, <1>6

\* One more passes the check, with room for the whole crowd after it.
LEMMA OnePasses ==
  ASSUME CallsBounded, TypeInv, TypeInv', NEW p \in Procs, NEW c \in Nat,
         cursor' = c, c + call[p].n - 1 <= MaxIter,
         call' = call, p \in Passed', call[p].op = "next"
  PROVE  LatestEnd(p)' <= FarthestEnd
<1>1. /\ Cardinality(Passed)' \in Nat /\ Cardinality(Passed)' <= Cardinality(Procs)
      /\ Cardinality(Procs) \in Nat /\ LargestBatch \in Nat /\ call[p].n \in Nat
  <2>1. IsFiniteSet(Procs) /\ Passed' \subseteq Procs
    BY DEF CallsBounded, Passed
  <2> QED
    BY <2>1, PassedFacts, FS_Subset, FS_CardinalityType
<1>2. PICK k \in Nat : k = Cardinality(Passed)' /\ k <= Cardinality(Procs)
  BY <1>1
<1>3. /\ (k - 1) * LargestBatch <= (Cardinality(Procs) - 1) * LargestBatch
      /\ (k - 1) * LargestBatch \in Int
      /\ (Cardinality(Procs) - 1) * LargestBatch \in Int
  BY <1>1, <1>2, NoLess, OneMore
<1>4. LatestEnd(p)' = c - 1 + call[p].n + (k - 1) * LargestBatch
  BY <1>2 DEF LatestEnd
<1> QED
  BY <1>1, <1>3, <1>4 DEF FarthestEnd

\* A reset that goes ahead while others wait leaves room for them: it is not one of them,
\* and its target lies within the type.
LEMMA ResetLeavesRoom ==
  ASSUME CallsBounded, TypeInv, NEW p \in Procs, pc[p] = "setting", NEW q \in Passed
  PROVE  call[p].target - 1 + call[q].n + (Cardinality(Passed) - 1) * LargestBatch
           <= FarthestEnd
<1> DEFINE k == Cardinality(Passed)
           all == Cardinality(Procs)
           L == LargestBatch
<1>1. /\ k \in Nat /\ all \in Nat /\ L \in Nat /\ IsFiniteSet(Procs)
      /\ call[q].n \in Nat /\ call[q].n <= L
  BY PassedFacts DEF CallsBounded, Passed
<1>2. call[p].target \in Nat /\ call[p].target <= MaxIter
  <2>1. call[p].op = "reset"
    BY DEF TypeInv, SettingIsReset
  <2> QED
    BY <2>1, PassedFacts, CallFields DEF TypeInv, TypeOK, ProcTypes
<1>3. k <= all - 1
  <2>1. IsFiniteSet(Procs \ {p}) /\ Cardinality(Procs \ {p}) = all - 1
    BY <1>1, FS_RemoveElement
  <2>2. Passed \subseteq Procs \ {p}
    BY DEF Passed
  <2> QED
    BY <2>1, <2>2, FS_Subset
<1> HIDE DEF k, all, L
<1>4. /\ (k - 1) * L \in Int /\ k * L \in Int /\ k * L = (k - 1) * L + L
      /\ k * L <= (all - 1) * L /\ (all - 1) * L \in Int
  BY <1>1, <1>3, OneMore, NoLess
<1>5. call[p].target - 1 + call[q].n + (k - 1) * L <= MaxIter + (all - 1) * L
  BY <1>1, <1>2, <1>4
<1> QED
  BY <1>5 DEF FarthestEnd, k, all, L

LEMMA OvershootStep ==
  CallsBounded /\ TypeInv /\ TypeInv' /\ Monitor /\ OvershootInv /\ [Next]_vars
    => OvershootInv'
<1> SUFFICES ASSUME CallsBounded, TypeInv, TypeInv', Monitor, OvershootInv, [Next]_vars
             PROVE  OvershootInv'
  OBVIOUS
<1>0. /\ ProcTypes /\ MutexHeld /\ DownIsQuiet /\ InsideIsLoaded
      /\ cursor \in Nat /\ issued \subseteq Nat /\ FarthestEnd \in Int
  BY PassedFacts DEF TypeInv, TypeOK, Monitor
<1>i. issued' \subseteq issued => \A i \in issued' : i <= FarthestEnd
  BY DEF OvershootInv
\* Nobody joins, nobody leaves, and the cursor stays.
<1>s. ASSUME Passed' = Passed, cursor' = cursor, issued' \subseteq issued,
             \A q \in Passed : call'[q] = call[q]
      PROVE  OvershootInv'
  <2> SUFFICES ASSUME NEW q \in Passed, LatestEnd(q) <= FarthestEnd
               PROVE  LatestEnd(q)' <= FarthestEnd
    BY <1>i, <1>s DEF OvershootInv
  <2>1. LatestEnd(q)' = LatestEnd(q)
    BY <1>s DEF LatestEnd
  <2> QED
    BY <2>1
\* Nobody is inside any more.
<1>e. ASSUME Passed' = {}, issued' \subseteq issued PROVE OvershootInv'
  BY <1>i, <1>e DEF OvershootInv
<1>1. ASSUME NEW p \in Procs, NEW c \in NextCalls \cup ResetCalls, Start(p, c)
      PROVE  OvershootInv'
  <2>1. Passed' = Passed /\ \A q \in Passed : call'[q] = call[q]
    BY <1>0, <1>1 DEF Start, Passed, ProcTypes
  <2> QED
    BY <1>s, <1>1, <2>1 DEF Start, entityVars, historyVars
<1>2. ASSUME NEW p \in Procs, EnterNext(p) PROVE OvershootInv'
  <2>1. issued' = issued /\ p \notin Passed
    BY <1>2 DEF EnterNext, historyVars, Passed
  <2>2. CASE Exhausted(cursor', call[p].n)
    <3>1. Passed' = Passed /\ \A q \in Passed : call'[q] = call[q]
      BY <1>0, <1>2, <2>1, <2>2 DEF EnterNext, Return, Passed, ProcTypes
    <3>2. CASE loaded
      BY <1>s, <1>2, <2>1, <3>1, <3>2 DEF EnterNext, Load
    <3>3. CASE ~loaded
      BY <1>0, <1>e, <2>1, <3>1, <3>3 DEF InsideIsLoaded, Passed
    <3> QED
      BY <3>2, <3>3
  <2>3. CASE ~Exhausted(cursor', call[p].n)
    <3>1. call' = call /\ p \in Passed' /\ call[p].op = "next"
      BY <1>0, <1>2, <2>3 DEF EnterNext, Hold, Passed, ProcTypes
    <3>2. PICK c \in Nat : c = cursor'
      BY DEF TypeInv, TypeOK, EntityTypes
    <3>3. call[p].n \in Nat
      BY <3>1, PassedFacts
    <3>4. c + call[p].n - 1 <= MaxIter
      BY <2>3, <3>2, <3>3 DEF Exhausted
    <3>5. LatestEnd(p)' <= FarthestEnd
      BY <3>1, <3>2, <3>4, OnePasses
    <3> QED
      BY <1>i, <2>1, <3>1, <3>5 DEF OvershootInv
  <2> QED
    BY <2>2, <2>3
<1>3. ASSUME NEW p \in Procs, ReserveInline(p) PROVE OvershootInv'
  <2>1. issued' = issued /\ cursor' = cursor /\ p \in Passed
    BY <1>3 DEF ReserveInline, historyVars, Passed
  <2>2. CASE UNCHANGED procVars
    <3>1. Passed' = Passed /\ call' = call
      BY <2>2 DEF procVars, Passed
    <3> QED
      BY <1>s, <2>1, <3>1
  <2>3. CASE Return(p)
    <3>1. Passed' = Passed \ {p} /\ \A q \in Procs \ {p} : call'[q] = call[q]
      BY <1>0, <2>3 DEF Return, Passed, ProcTypes
    <3>2. call[p].n \in Nat
      BY <2>1, PassedFacts DEF Passed
    <3>3. PICK d \in 0 .. call[p].n : d = 0
      BY <3>2
    <3>4. cursor' = cursor + d
      BY <1>0, <2>1, <3>3
    <3>5. Passed' # {} => \E q \in Passed' : LatestEnd(q)' <= FarthestEnd
      BY <2>1, <3>1, <3>4, OneLeaves
    <3> QED
      BY <1>i, <2>1, <3>5 DEF OvershootInv
  <2> QED
    BY <1>3, <2>2, <2>3 DEF ReserveInline
<1>4. ASSUME NEW p \in Procs, TakeBlock(p) PROVE OvershootInv'
  <2>1. p \in Passed /\ cursor' = cursor + call[p].n
    BY <1>4 DEF TakeBlock, Passed
  <2>2. Passed' = Passed \ {p} /\ \A q \in Procs \ {p} : call'[q] = call[q]
    BY <1>0, <1>4 DEF TakeBlock, Return, Passed, ProcTypes
  <2>3. call[p].n \in Nat
    BY <2>1, PassedFacts DEF Passed
  <2>4. PICK d \in 0 .. call[p].n : d = call[p].n
    BY <2>3
  <2>5. /\ cursor - 1 + call[p].n <= FarthestEnd
        /\ Passed' # {} => \E q \in Passed' : LatestEnd(q)' <= FarthestEnd
    BY <2>1, <2>2, <2>4, OneLeaves
  <2>6. \A i \in issued' : i <= FarthestEnd
    <3>1. \A i \in cursor .. (cursor + call[p].n - 1) : i <= FarthestEnd
      BY <1>0, <2>3, <2>5
    <3> QED
      BY <1>4, <3>1 DEF TakeBlock, OvershootInv
  <2> QED
    BY <2>5, <2>6 DEF OvershootInv
<1>5. ASSUME NEW p \in Procs, EnterReset(p) PROVE OvershootInv'
  <2>1. Passed' = Passed /\ call' = call /\ issued' = issued
    BY <1>0, <1>5 DEF EnterReset, Hold, Passed, ProcTypes, historyVars
  <2>2. CASE loaded
    BY <1>s, <1>5, <2>1, <2>2 DEF EnterReset, Load
  <2>3. CASE ~loaded
    BY <1>0, <1>e, <2>1, <2>3 DEF InsideIsLoaded, Passed
  <2> QED
    BY <2>2, <2>3
<1>6. ASSUME NEW p \in Procs, RefuseReset(p) PROVE OvershootInv'
  <2>1. Passed' = Passed /\ \A q \in Passed : call'[q] = call[q]
    BY <1>0, <1>6 DEF RefuseReset, Return, Passed, ProcTypes
  <2> QED
    BY <1>s, <1>6, <2>1 DEF RefuseReset, entityVars, historyVars
<1>7. ASSUME NEW p \in Procs, ApproveReset(p) PROVE OvershootInv'
  <2>1. Passed' = Passed /\ call' = call
    BY <1>0, <1>7 DEF ApproveReset, Passed, ProcTypes
  <2>2. issued' \subseteq issued /\ cursor' = cursor
    BY <1>7 DEF ApproveReset, entityVars
  <2> QED
    BY <1>s, <2>1, <2>2
<1>8. ASSUME NEW p \in Procs, DoReset(p) PROVE OvershootInv'
  <2>1. /\ Passed' = Passed /\ \A q \in Passed : call'[q] = call[q]
        /\ issued' = issued
    BY <1>0, <1>8 DEF DoReset, Return, Passed, ProcTypes, historyVars
  <2>2. CASE cursor' = cursor
    BY <1>s, <2>1, <2>2
  <2>3. CASE cursor' = call[p].target
    <3> SUFFICES ASSUME NEW q \in Passed PROVE LatestEnd(q)' <= FarthestEnd
      BY <1>i, <2>1 DEF OvershootInv
    <3>1. call[p].target - 1 + call[q].n + (Cardinality(Passed) - 1) * LargestBatch
            <= FarthestEnd
      BY <1>8, ResetLeavesRoom DEF DoReset
    <3>2. LatestEnd(q)'
            = call[p].target - 1 + call[q].n + (Cardinality(Passed) - 1) * LargestBatch
      BY <2>1, <2>3 DEF LatestEnd
    <3> QED
      BY <3>1, <3>2
  <2> QED
    BY <1>8, <2>2, <2>3 DEF DoReset
<1>9. ASSUME NEW p \in Procs, WaitForRefill(p) \/ Reacquire(p) PROVE OvershootInv'
  <2>1. Passed' = Passed /\ call' = call
    BY <1>0, <1>9 DEF WaitForRefill, Reacquire, Hold, Passed, ProcTypes
  <2> QED
    BY <1>s, <1>9, <2>1 DEF WaitForRefill, Reacquire, entityVars, historyVars
<1>10. CASE RefillApply
  <2>1. Passed' = Passed /\ call' = call
    BY <1>0, <1>10 DEF RefillApply, Broadcast, Passed, ProcTypes
  <2> QED
    BY <1>s, <1>10, <2>1 DEF RefillApply, historyVars
<1>11. CASE Kill \/ PowerLoss
  <2>1. Passed' = {} /\ issued' = issued
    BY <1>11 DEF Kill, PowerLoss, ProcessGone, Passed, historyVars
  <2> QED
    BY <1>e, <2>1
<1>12. CASE CliReset
  <2>1. Passed' = {} /\ issued' \subseteq issued
    BY <1>0, <1>12 DEF CliReset, DownIsQuiet, Passed, procVars
  <2> QED
    BY <1>e, <2>1
<1>13. CASE UNCHANGED <<entityVars, procVars, historyVars>>
  <2>1. Passed' = Passed /\ call' = call /\ cursor' = cursor /\ issued' = issued
    BY <1>13 DEF entityVars, procVars, historyVars, Passed
  <2> QED
    BY <1>s, <2>1
<1> QED
  BY <1>1, <1>2, <1>3, <1>4, <1>5, <1>6, <1>7, <1>8, <1>9, <1>10, <1>11, <1>12, <1>13
     DEF Next, ProcStep, StartNext, StartReset, RefillRaise, OtherFlush, Restart, vars

\* Callers that passed the exhaustion check before they waited take at most one batch
\* each beyond the type's end, whatever resets move the cursor in between.
THEOREM OvershootIsBounded == ASSUME CallsBounded PROVE Spec => []OvershootBounded
<1>1. Init => OvershootInv
  BY DEF Init, OvershootInv, Passed
<1>2. TypeInv /\ TypeInv' /\ Monitor /\ OvershootInv /\ [Next]_vars => OvershootInv'
  BY OvershootStep, CallsBounded
<1>3. OvershootInv => OvershootBounded
  BY DEF OvershootInv, FarthestEnd, OvershootBounded
<1> QED
  BY <1>1, <1>2, <1>3, TypeInit, TypeStep, MonitorInit, MonitorStep, PTL DEF Spec

--------------------------------------------------------------------------------
(* Allocator implements Counter. *)

\* A set of natural numbers with a member has a least one.
LEMMA LeastMember ==
  ASSUME NEW T, T \subseteq Nat, T # {}
  PROVE  \E f \in T : \A m \in T : f <= m
<1>1. PICK f \in T : \A y \in T : ~(<<y, f>> \in OpToRel(<, Nat))
  BY NatLessThanWellFounded, WFMin
<1>2. ASSUME NEW m \in T PROVE f <= m
  <2>1. ~(<<m, f>> \in OpToRel(<, Nat)) /\ m \in Nat /\ f \in Nat
    BY <1>1
  <2>2. ~(m < f)
    BY <2>1 DEF OpToRel
  <2>3. m \in Nat /\ f \in Nat
    OBVIOUS
  <2> QED
    BY <2>2, <2>3
<1> QED
  BY <1>2

\* The lowest position the sequence could go on from, now and after a step.
LEMMA FloorLeast ==
  ASSUME TypeInv
  PROVE  Floor \in Positions /\ Floor \in Nat /\ \A m \in Positions : Floor <= m
<1>1. Positions \subseteq Nat /\ Positions # {}
  BY DEF Positions, Images, TypeInv, TypeOK, StoreTypes, EntityTypes
<1>2. \E f \in Positions : \A m \in Positions : f <= m
  BY <1>1, LeastMember
<1> QED
  BY <1>1, <1>2 DEF Floor

LEMMA NextFloorLeast ==
  ASSUME TypeInv'
  PROVE  Floor' \in Positions' /\ Floor' \in Nat /\ \A m \in Positions' : Floor' <= m
<1>1. Positions' \subseteq Nat /\ Positions' # {}
  BY DEF Positions, Images, TypeInv, TypeOK, StoreTypes, EntityTypes
<1>2. \E f \in Positions' : \A m \in Positions' : f <= m
  BY <1>1, LeastMember
<1> QED
  BY <1>1, <1>2 DEF Floor

\* What else the mapping rests on: the store's own content is among the images a crash
\* may leave, and a reset about to write goes forward or is forced.
StoreInv == mem \in durable /\ file \in durable

SettingAllowed ==
  \A p \in Procs : pc[p] = "setting" => cursor <= call[p].target \/ call[p].force

MapInv == StoreInv /\ SettingAllowed

LEMMA StoreStep == StoreInv /\ [Next]_vars => StoreInv'
<1> SUFFICES ASSUME StoreInv, [Next]_vars PROVE StoreInv'
  OBVIOUS
<1>1. ASSUME NEW c, FlushOK(c) PROVE StoreInv'
  BY <1>1 DEF StoreInv, FlushOK
<1>2. ASSUME NEW c, NEW s, FlushFails(c, s) PROVE StoreInv'
  BY <1>2 DEF StoreInv, FlushFails, storeVars
<1>3. ASSUME NEW W, StoreKill(W) \/ StorePowerLoss(W) PROVE StoreInv'
  BY <1>3 DEF StoreInv, StoreKill, StorePowerLoss
<1>4. CASE OpenStore
  BY <1>4 DEF StoreInv, OpenStore
<1>5. CASE UNCHANGED storeVars
  BY <1>5 DEF StoreInv, storeVars
<1>6. ASSUME NEW p \in Procs, ReserveInline(p) PROVE StoreInv'
  BY <1>1, <1>2, <1>5, <1>6 DEF ReserveInline, RaiseMarkOK, RaiseMarkFails
<1>7. ASSUME NEW p \in Procs, DoReset(p) PROVE StoreInv'
  BY <1>1, <1>2, <1>7 DEF DoReset, SetMarkOK, SetMarkFails
<1>8. CASE RefillRaise
  BY <1>1, <1>2, <1>5, <1>8 DEF RefillRaise, RaiseMarkOK, RaiseMarkFails
<1>9. CASE OtherFlush
  BY <1>1, <1>2, <1>9 DEF OtherFlush, FlushForOthers
<1>10. CASE Kill \/ PowerLoss \/ Restart
  BY <1>3, <1>4, <1>10 DEF Kill, PowerLoss, Restart
<1>11. CASE CliReset
  BY <1>1, <1>3, <1>11 DEF CliReset, SetMarkOK
<1> QED
  BY <1>5, <1>6, <1>7, <1>8, <1>9, <1>10, <1>11
     DEF Next, ProcStep, StartNext, StartReset, Start, EnterNext, TakeBlock, EnterReset,
         RefuseReset, ApproveReset, WaitForRefill, Reacquire, RefillApply, vars

LEMMA SettingAllowedStep == Inv /\ SettingAllowed /\ [Next]_vars => SettingAllowed'
<1> SUFFICES ASSUME Inv, SettingAllowed, [Next]_vars PROVE SettingAllowed'
  OBVIOUS
<1>0. /\ ProcTypes /\ MutexHeld /\ DownIsQuiet /\ InsideIsLoaded
      /\ cursor \in Nat
  BY DEF Inv, TypeInv, TypeOK, EntityTypes, Monitor
<1>1. ASSUME NEW p \in Procs, ApproveReset(p) PROVE SettingAllowed'
  <2>1. cursor <= call[p].target \/ call[p].force
    <3>1. call[p].target \in Nat
      BY <1>0, <1>1, CallFields DEF ApproveReset, ProcTypes
    <3> QED
      BY <1>0, <1>1, <3>1 DEF ApproveReset, Backward
  <2> QED
    BY <1>0, <1>1, <2>1 DEF ApproveReset, SettingAllowed, ProcTypes, entityVars
\* Whoever holds the mutex or gives it back leaves nobody else inside SetMark.
<1>2. ASSUME NEW p \in Procs, mutex = p, \A q \in Procs \ {p} : pc'[q] = pc[q],
             pc'[p] # "setting"
      PROVE  SettingAllowed'
  BY <1>0, <1>2 DEF SettingAllowed, MutexHeld
<1>3. ASSUME UNCHANGED <<cursor, call>>, \A q \in Procs : pc'[q] = "setting" => pc[q] = "setting"
      PROVE  SettingAllowed'
  BY <1>3 DEF SettingAllowed
<1>4. ASSUME NEW p \in Procs, NEW c \in NextCalls \cup ResetCalls, Start(p, c)
      PROVE  SettingAllowed'
  BY <1>0, <1>4 DEF SettingAllowed, Start, ProcTypes, entityVars
<1>5. ASSUME NEW p \in Procs, EnterNext(p) \/ EnterReset(p) PROVE SettingAllowed'
  <2>1. \A q \in Procs : pc[q] # "setting"
    BY <1>0, <1>5 DEF MutexHeld, EnterNext, EnterReset
  <2> QED
    BY <1>0, <1>5, <2>1 DEF SettingAllowed, EnterNext, EnterReset, Return, Hold, ProcTypes
<1>6. ASSUME NEW p \in Procs, ReserveInline(p) \/ TakeBlock(p) \/ RefuseReset(p) \/ DoReset(p)
      PROVE  SettingAllowed'
  <2>1. mutex = p /\ (UNCHANGED procVars \/ Return(p))
    BY <1>0, <1>6 DEF MutexHeld, ReserveInline, TakeBlock, RefuseReset, DoReset
  <2>2. CASE Return(p)
    BY <1>0, <1>2, <2>1, <2>2 DEF Return, ProcTypes
  <2>3. CASE UNCHANGED procVars
    <3>1. pc[p] # "setting"
      BY <1>0, <1>6, <2>3
         DEF ReserveInline, TakeBlock, RefuseReset, DoReset, Return, ProcTypes, procVars
    <3> QED
      BY <1>2, <2>1, <2>3, <3>1 DEF procVars
  <2> QED
    BY <2>1, <2>2, <2>3
<1>7. ASSUME NEW p \in Procs, WaitForRefill(p) \/ Reacquire(p) PROVE SettingAllowed'
  BY <1>0, <1>3, <1>7 DEF WaitForRefill, Reacquire, Hold, ProcTypes, entityVars
<1>8. CASE RefillApply
  BY <1>0, <1>3, <1>8 DEF RefillApply, Broadcast, ProcTypes
<1>9. CASE Kill \/ PowerLoss
  BY <1>9 DEF SettingAllowed, Kill, PowerLoss, ProcessGone
<1>10. CASE UNCHANGED <<entityVars, procVars>>
  BY <1>3, <1>10 DEF entityVars, procVars
<1> QED
  BY <1>1, <1>4, <1>5, <1>6, <1>7, <1>8, <1>9, <1>10
     DEF Next, ProcStep, StartNext, StartReset, RefillRaise, OtherFlush, Restart,
         CliReset, vars

\* A step that hands out and releases nothing and lowers no position is a Skip.
LEMMA StepSkips ==
  ASSUME TypeInv, TypeInv', issued' = issued, reissued' = reissued,
         \A m \in Positions' : Floor <= m
  PROVE  C!Skip
<1>1. Floor' >= Floor
  BY FloorLeast, NextFloorLeast
<1> QED
  BY <1>1 DEF C!Skip

\* A reset inside SetMark: below the floor it is forced, and it has released already
\* what it takes back.
LEMMA SettingRewinds ==
  ASSUME Inv, SettingAllowed, NEW p \in Procs, pc[p] = "setting"
  PROVE  /\ call[p].target \in ResetTargets /\ call[p].target \in Nat
         /\ issued = {i \in issued : i < call[p].target}
         /\ Floor <= call[p].target \/ TRUE \in Forces
<1>1. call[p] \in ResetCalls
  <2>1. call[p].op = "reset" /\ call[p] \in NextCalls \cup ResetCalls \cup {NoCall}
    BY DEF Inv, TypeInv, TypeOK, ProcTypes, SettingIsReset
  <2> QED
    BY <2>1 DEF NextCalls, NoCall
<1>2. /\ call[p].target \in ResetTargets /\ call[p].target \in Nat
      /\ call[p].force \in Forces /\ call[p].force \in BOOLEAN
  BY <1>1 DEF ResetCalls
<1>3. issued = {i \in issued : i < call[p].target}
  BY DEF Inv, Reservation, TargetsAboveIssued
<1>4. cursor \in Positions /\ cursor \in Nat
  BY DEF Inv, Monitor, InsideIsLoaded, DownIsQuiet, Positions, TypeInv, TypeOK, EntityTypes
<1>5. Floor <= cursor /\ Floor \in Nat
  BY <1>4, FloorLeast DEF Inv
<1>6. cursor <= call[p].target \/ call[p].force = TRUE
  BY <1>2 DEF SettingAllowed
<1>7. Floor <= call[p].target \/ TRUE \in Forces
  <2>1. CASE cursor <= call[p].target
    <3>1. PICK f \in Nat, t \in Nat : f = Floor /\ t = call[p].target
      BY <1>2, <1>5
    <3>2. f <= t
      BY <1>4, <1>5, <2>1, <3>1
    <3> QED
      BY <3>1, <3>2
  <2>2. CASE call[p].force = TRUE
    BY <1>2, <2>2
  <2> QED
    BY <1>6, <2>1, <2>2
<1> QED
  BY <1>2, <1>3, <1>7

\* What a crash can put on disk lies at or above the floor, or is the target of such
\* a reset.
LEMMA WritingAboveFloor ==
  ASSUME Inv, MapInv, NEW w \in Writing
  PROVE  \/ Floor <= w
         \/ \E p \in Procs : pc[p] = "setting" /\ w = call[p].target
<1>0. /\ up /\ mem \in Nat /\ reservedEnd \in Nat /\ refillFrom \in Nat
      /\ Floor \in Nat /\ Floor <= mem
  BY FloorLeast
     DEF Inv, TypeInv, TypeOK, StoreTypes, EntityTypes, RefillTypes, MapInv, StoreInv,
         Positions, Images, Writing
<1>1. CASE w = mem
  BY <1>0, <1>1
<1>2. ASSUME NEW p \in Procs, pc[p] = "locked", call[p].op = "next",
             Remaining < call[p].n, ~RefillOut,
             w = reservedEnd + Grow(call[p].n - Remaining)
      PROVE  Floor <= w
  <2>1. loaded /\ refillPc = "none" /\ Grow(call[p].n - Remaining) \in Nat
    BY <1>2, InlineEnd DEF Inv
  <2>2. mem = reservedEnd
    BY <2>1 DEF Inv, Reservation, MarkMatchesWindow
  <2> QED
    BY <1>0, <1>2, <2>1, <2>2
<1>3. CASE refillPc = "raise" /\ w = refillFrom + SegmentSize
  <2>1. refillFrom = reservedEnd /\ mem = reservedEnd
    BY <1>3 DEF Inv, Monitor, TokenIsRefill, Reservation, MarkMatchesWindow
  <2> QED
    BY <1>0, <1>3, <2>1
<1> QED
  BY <1>1, <1>2, <1>3 DEF Writing

LEMMA CounterInitMaps == Init => C!CounterInit
<1> SUFFICES ASSUME Init PROVE C!CounterInit
  OBVIOUS
<1>1. Positions = {StartMark}
  BY DEF Init, StoreInit, Positions, Images
<1>2. Floor = StartMark
  BY <1>1, TypeInit, FloorLeast
<1> QED
  BY <1>2 DEF Init, C!CounterInit

\* The end of the process is a Skip, or the Rewind of a forced reset it cuts off.
LEMMA CrashMaps ==
  ASSUME ResetsSynced, Inv, TypeInv', MapInv, Positions' \subseteq Images \cup Writing,
         issued' = issued, reissued' = reissued
  PROVE  [C!CounterNext]_(C!counterVars)
<1>0. TypeInv /\ Images \subseteq Positions
  BY DEF Inv, Positions
<1>1. Floor \in Positions /\ Floor \in Nat /\ \A m \in Positions : Floor <= m
  BY <1>0, FloorLeast
<1>2. Floor' \in Positions' /\ Floor' \in Nat /\ \A m \in Positions' : Floor' <= m
  BY NextFloorLeast
<1>3. CASE \A m \in Positions' : Floor <= m
  BY <1>0, <1>3, StepSkips DEF C!CounterNext
<1>4. CASE \E m \in Positions' : ~(Floor <= m)
  <2>1. ~(Floor <= Floor')
    <3>1. PICK m \in Positions' : ~(Floor <= m)
      BY <1>4
    <3>2. Floor' <= m /\ m \in Nat
      BY <1>2 DEF TypeInv, TypeOK, StoreTypes, EntityTypes, Positions, Images
    <3> QED
      BY <1>1, <1>2, <3>1, <3>2
  <2>2. Floor' \in Writing
    BY <1>0, <1>1, <1>2, <2>1
  <2>3. PICK p \in Procs : pc[p] = "setting" /\ Floor' = call[p].target
    BY <2>1, <2>2, WritingAboveFloor
  <2>4. /\ call[p].target \in ResetTargets /\ TRUE \in Forces
        /\ issued = {i \in issued : i < call[p].target}
    BY <2>1, <2>3, SettingRewinds DEF MapInv
  <2> QED
    BY <2>3, <2>4 DEF C!CounterNext, C!Rewind
<1> QED
  BY <1>3, <1>4

\* Every step of the allocator is a step of the counter: TakeBlock an Issue, a forced
\* reset a Rewind when it is approved and again if it or a crash puts its target on
\* disk below the floor, and all others a Skip.
LEMMA CounterStepMaps ==
  ASSUME ResetsSynced, Inv, TypeInv', MapInv, [Next]_vars
  PROVE  [C!CounterNext]_(C!counterVars)
<1>0. /\ TypeInv /\ ProcTypes /\ DownIsQuiet /\ InsideIsLoaded /\ TokenIsRefill
      /\ NoRefillDuringSet
      /\ mem \in Nat /\ cursor \in Nat /\ reservedEnd \in Nat /\ refillFrom \in Nat
      /\ Images \subseteq Nat /\ Images \subseteq Positions /\ mem \in Images
      /\ mem \in durable /\ file \in durable /\ SettingAllowed
  BY DEF Inv, TypeInv, TypeOK, StoreTypes, EntityTypes, RefillTypes, Monitor, MapInv,
         StoreInv, Images, Positions
<1>f. Floor \in Positions /\ Floor \in Nat /\ \A m \in Positions : Floor <= m
  BY <1>0, FloorLeast
<1>g. Floor' \in Positions' /\ Floor' \in Nat /\ \A m \in Positions' : Floor' <= m
  BY NextFloorLeast
<1>k. ASSUME issued' = issued, reissued' = reissued, \A m \in Positions' : Floor <= m
      PROVE  [C!CounterNext]_(C!counterVars)
  BY <1>0, <1>k, StepSkips DEF C!CounterNext
<1>r. ASSUME NEW target \in ResetTargets, TRUE \in Forces, reissued' = reissued,
             issued' = {i \in issued : i < target}, Floor' = Floor \/ Floor' = target
      PROVE  [C!CounterNext]_(C!counterVars)
  BY <1>r DEF C!CounterNext, C!Rewind
<1>1. ASSUME NEW p \in Procs, EnterNext(p) \/ EnterReset(p)
      PROVE  [C!CounterNext]_(C!counterVars)
  <2>1. Images' = Images /\ up' = up /\ issued' = issued /\ reissued' = reissued
    BY <1>1 DEF EnterNext, EnterReset, Images, storeVars, historyVars
  <2>2. cursor' = mem \/ (loaded /\ cursor' = cursor)
    BY <1>1 DEF EnterNext, EnterReset, Load
  <2>3. Positions' \subseteq Positions
    BY <1>0, <2>1, <2>2 DEF Positions
  <2> QED
    BY <1>f, <1>k, <2>1, <2>3
<1>2. ASSUME NEW p \in Procs, ReserveInline(p) PROVE [C!CounterNext]_(C!counterVars)
  <2> DEFINE end == reservedEnd + Grow(call[p].n - Remaining)
  <2>1. loaded /\ refillPc = "none" /\ Grow(call[p].n - Remaining) \in Nat \ {0}
    BY <1>2, InlineEnd DEF Inv, ReserveInline
  <2>2. mem = reservedEnd
    BY <2>1 DEF Inv, Reservation, MarkMatchesWindow
  <2>3. end \in Nat /\ end > mem /\ ~(end <= mem)
    BY <1>0, <2>1, <2>2
  <2>4. RaiseMarkOK(end) \/ RaiseMarkFails(end)
    BY <1>2 DEF ReserveInline
  <2>5. UNCHANGED <<up, loaded, cursor, issued, reissued>>
    BY <1>2 DEF ReserveInline, historyVars
  <2> HIDE DEF end
  <2>6. Positions' \subseteq Positions \cup {end}
    BY <2>3, <2>4, <2>5, RaiseEffect DEF Positions
  <2>7. Floor <= end
    BY <1>0, <1>f, <2>3
  <2> QED
    BY <1>f, <1>k, <2>5, <2>6, <2>7
<1>3. ASSUME NEW p \in Procs, TakeBlock(p) PROVE [C!CounterNext]_(C!counterVars)
  <2>1. loaded /\ up /\ call[p].n \in Nat \ {0} /\ call[p].n \in BatchSizes
    <3>1. loaded /\ up
      BY <1>0, <1>3 DEF TakeBlock, InsideIsLoaded, DownIsQuiet
    <3>2. call[p] \in NextCalls
      BY <1>0, <1>3 DEF TakeBlock, ProcTypes, ResetCalls, NoCall
    <3> QED
      BY <3>1, <3>2 DEF NextCalls
  <2>2. /\ cursor' = cursor + call[p].n /\ cursor' <= reservedEnd /\ cursor < reservedEnd
        /\ up' = up /\ loaded' = loaded /\ Images' = Images
    BY <1>0, <1>3, <2>1, SameImages DEF TakeBlock, Remaining
  <2>3. \A m \in Images : m >= reservedEnd /\ m \in Nat
    BY <1>0, <2>1, <2>2 DEF Inv, Reservation, ImagesCoverWindow
  <2>4. Positions = Images \cup {cursor} /\ Positions' = Images \cup {cursor + call[p].n}
    BY <2>1, <2>2 DEF Positions
  <2>5. Floor = cursor
    BY <1>0, <1>f, <2>2, <2>3, <2>4
  <2>6. Floor' = cursor + call[p].n
    <3>1. PICK f \in Nat : f = Floor'
      BY <1>g
    <3>2. PICK c \in Nat : c = cursor + call[p].n /\ c <= reservedEnd
      BY <1>0, <2>1, <2>2
    <3>3. f \in Images \cup {c} /\ \A m \in Images \cup {c} : f <= m
      BY <1>g, <2>4, <3>1, <3>2
    <3>4. f = c
      BY <1>0, <2>3, <3>2, <3>3
    <3> QED
      BY <3>1, <3>2, <3>4
  <2>7. LET block == cursor .. (cursor + call[p].n - 1)
        IN  issued' = issued \cup block /\ reissued' = reissued \cup (issued \cap block)
    BY <1>3 DEF TakeBlock
  <2>8. /\ Floor' >= Floor + call[p].n
        /\ Floor' - call[p].n = cursor /\ Floor' - 1 = cursor + call[p].n - 1
    <3>1. \A n, c \in Nat : c + n >= c + n /\ (c + n) - n = c
      OBVIOUS
    <3> QED
      BY <1>0, <2>1, <2>5, <2>6, <3>1
  <2>9. C!Issue(call[p].n)
    <3> DEFINE n == call[p].n
    <3>1. /\ Floor' >= Floor + n
          /\ issued' = issued \cup ((Floor' - n) .. (Floor' - 1))
          /\ reissued' = reissued \cup (issued \cap ((Floor' - n) .. (Floor' - 1)))
      BY <2>7, <2>8
    <3> QED
      BY <3>1 DEF C!Issue
  <2> QED
    BY <2>1, <2>9 DEF C!CounterNext
<1>4. ASSUME NEW p \in Procs, ApproveReset(p) PROVE [C!CounterNext]_(C!counterVars)
  <2>1. Positions' = Positions /\ reissued' = reissued
    BY <1>4 DEF ApproveReset, Positions, Images, storeVars, entityVars
  <2>2. Floor' = Floor
    BY <2>1 DEF Floor
  <2>3. call[p] \in ResetCalls
    BY <1>0, <1>4 DEF ApproveReset, ProcTypes, NextCalls, NoCall
  <2>4. CASE call[p].force
    <3>1. issued' = {i \in issued : i < call[p].target}
      BY <1>4, <2>4 DEF ApproveReset
    <3>2. call[p].target \in ResetTargets /\ TRUE \in Forces
      <4>1. call[p].force \in Forces /\ call[p].force \in BOOLEAN
        BY <2>3 DEF ResetCalls
      <4>2. call[p].force = TRUE
        BY <2>4, <4>1
      <4> QED
        BY <2>3, <4>1, <4>2 DEF ResetCalls
    <3> QED
      BY <1>r, <2>1, <2>2, <3>1, <3>2
  <2>5. CASE ~call[p].force
    <3>1. issued' = issued
      BY <1>4, <2>5 DEF ApproveReset
    <3> QED
      BY <1>f, <1>k, <2>1, <3>1
  <2> QED
    BY <2>4, <2>5
<1>5. ASSUME NEW p \in Procs, DoReset(p) PROVE [C!CounterNext]_(C!counterVars)
  <2>1. /\ call[p].target \in ResetTargets /\ call[p].target \in Nat
        /\ issued = {i \in issued : i < call[p].target}
        /\ Floor <= call[p].target \/ TRUE \in Forces
    BY <1>0, <1>5, SettingRewinds DEF DoReset
  <2>2. UNCHANGED <<up, loaded, issued, reissued>>
    BY <1>5 DEF DoReset, historyVars
  <2>3. CASE SetMarkFails(call[p].target) /\ UNCHANGED cursor
    <3>1. UNCHANGED storeVars
      BY <2>1, <2>3 DEF ResetsSynced, SetMarkFails, FlushFails
    <3>2. Positions' = Positions
      BY <2>2, <2>3, <3>1, SameImages DEF Positions
    <3> QED
      BY <1>f, <1>k, <2>2, <3>2
  <2>4. CASE SetMarkOK(call[p].target) /\ cursor' = call[p].target
    <3>1. Positions' \subseteq {call[p].target}
      BY <2>4, SetEffect DEF Positions
    <3>2. Floor' = call[p].target
      BY <1>g, <3>1
    <3>3. CASE Floor <= call[p].target
      BY <1>k, <2>2, <3>1, <3>3
    <3>4. CASE TRUE \in Forces
      BY <1>r, <2>1, <2>2, <3>2, <3>4
    <3> QED
      BY <2>1, <3>3, <3>4
  <2> QED
    BY <1>5, <2>3, <2>4 DEF DoReset
<1>6. CASE RefillRaise
  <2> DEFINE to == refillFrom + SegmentSize
  <2>1. refillFrom = reservedEnd /\ mem = reservedEnd
    BY <1>0, <1>6 DEF RefillRaise, TokenIsRefill, Inv, Reservation, MarkMatchesWindow
  <2>2. to \in Nat /\ to > mem /\ ~(to <= mem)
    BY <1>0, <2>1
  <2>3. /\ RaiseMarkOK(to) \/ RaiseMarkFails(to)
        /\ UNCHANGED <<up, loaded, cursor, issued, reissued>>
    BY <1>6 DEF RefillRaise, entityVars, historyVars
  <2> HIDE DEF to
  <2>4. Positions' \subseteq Positions \cup {to}
    BY <2>2, <2>3, RaiseEffect DEF Positions
  <2>5. Floor <= to
    BY <1>0, <1>f, <2>2
  <2> QED
    BY <1>f, <1>k, <2>3, <2>4, <2>5
<1>7. CASE OtherFlush
  <2>1. UNCHANGED <<up, loaded, cursor, issued, reissued>>
    BY <1>7 DEF OtherFlush, entityVars, historyVars
  <2>2. Positions' \subseteq Positions \cup {mem}
    BY <1>7, <2>1, OthersEffect DEF OtherFlush, Positions
  <2> QED
    BY <1>0, <1>f, <1>k, <2>1, <2>2
<1>8. CASE Kill \/ PowerLoss
  <2>1. /\ Positions' \subseteq Images \cup Writing
        /\ issued' = issued /\ reissued' = reissued
    BY <1>8, CrashEffect DEF Kill, PowerLoss, ProcessGone, Positions, historyVars
  <2> QED
    BY <2>1, CrashMaps
<1>9. CASE Restart
  <2>1. Positions' = Positions /\ issued' = issued /\ reissued' = reissued
    BY <1>0, <1>9
       DEF Restart, DownIsQuiet, OpenStore, Positions, Images, entityVars, historyVars
  <2> QED
    BY <1>f, <1>k, <2>1
<1>10. CASE CliReset
  <2>1. PICK target \in ResetTargets, force \in Forces :
          /\ target >= file \/ force
          /\ SetMarkOK(target) \/ StoreKill({target})
          /\ issued' = IF force THEN {i \in issued : i < target} ELSE issued
    BY <1>10 DEF CliReset
  <2>2. ~up /\ ~up' /\ reissued' = reissued
    BY <1>10 DEF CliReset
  <2>3. Positions = Images /\ Positions' = Images'
    BY <2>2 DEF Positions
  <2>4. Images' = {target} \/ Images' = Images \/ Images' = Images \cup {target}
    BY <1>0, <2>1, SetEffect DEF StoreKill, Images
  <2>5. target \in Nat /\ file \in Images /\ file \in Nat /\ force \in BOOLEAN
    BY <1>0 DEF Images
  <2>6. CASE force = TRUE
    <3>1. Floor' = Floor \/ Floor' = target
      <4>1. CASE Images' = {target}
        BY <1>g, <2>3, <4>1
      <4>2. CASE Images' = Images
        BY <2>3, <4>2 DEF Floor
      <4>3. CASE Images' = Images \cup {target}
        <5>1. PICK g \in Nat : g = Floor'
          BY <1>g
        <5>2. g \in Images \cup {target} /\ \A m \in Images \cup {target} : g <= m
          BY <1>g, <2>3, <4>3, <5>1
        <5>3. g = Floor \/ g = target
          BY <1>0, <1>f, <2>3, <5>2
        <5> QED
          BY <5>1, <5>3
      <4> QED
        BY <2>4, <4>1, <4>2, <4>3
    <3> QED
      BY <1>r, <2>1, <2>2, <2>6, <3>1
  <2>7. CASE force = FALSE
    <3>1. Floor <= target
      BY <1>f, <2>1, <2>3, <2>5, <2>7
    <3>2. Positions' \subseteq Images \cup {target}
      BY <2>3, <2>4
    <3>3. issued' = issued
      BY <2>1, <2>7
    <3> QED
      BY <1>0, <1>f, <1>k, <2>2, <3>1, <3>2, <3>3
  <2> QED
    BY <2>5, <2>6, <2>7
<1>11. CASE UNCHANGED <<storeVars, up, loaded, cursor, historyVars>>
  <2>1. Positions' = Positions /\ issued' = issued /\ reissued' = reissued
    BY <1>11 DEF Positions, Images, storeVars, historyVars
  <2> QED
    BY <1>f, <1>k, <2>1
<1> QED
  BY <1>1, <1>2, <1>3, <1>4, <1>5, <1>6, <1>7, <1>8, <1>9, <1>10, <1>11
     DEF Next, ProcStep, StartNext, StartReset, Start, RefuseReset, WaitForRefill,
         Reacquire, RefillApply, entityVars, vars

\* The allocator implements the counter.
THEOREM AllocatorImplementsCounter == ASSUME ResetsSynced PROVE Spec => CounterSpec
<1>1. Init => MapInv
  BY DEF Init, StoreInit, MapInv, StoreInv, SettingAllowed
<1>2. Inv /\ [Next]_vars => Inv'
  BY InvStep, ResetsSynced
<1>3. Inv /\ MapInv /\ [Next]_vars => MapInv'
  BY StoreStep, SettingAllowedStep DEF MapInv
<1>4. Inv /\ Inv' /\ MapInv /\ [Next]_vars => [C!CounterNext]_(C!counterVars)
  BY CounterStepMaps, ResetsSynced DEF Inv
<1> QED
  BY <1>1, <1>2, <1>3, <1>4, InvInit, CounterInitMaps, PTL DEF Spec, CounterSpec, C!Spec

--------------------------------------------------------------------------------
(* The service process: a reader beside the callers, and main's orderly stop. *)

\* A step of the service is one of the allocator's, or main's return, which is a kill
\* that writes nothing unless a request outlasted the time given to it.
LEMMA ServiceSteps == [ServiceNext]_serviceVars => [Next]_vars \/ Exit
BY DEF ServiceNext, Signal, Drained, DrainOverdue, CloseAllocator, Work, StatusNext,
       GetRecord, LookAtWindow, Others, serviceVars, statusVars

LEMMA ExitEffect ==
  ASSUME Exit
  PROVE  /\ up /\ stop = "closed" /\ ProcessGone /\ UNCHANGED <<historyVars, boundVars>>
         /\ file' \in {file} \cup Writing /\ mem' = file'
         /\ durable' = durable \cup {file'}
         /\ mem' \in Images' /\ Images' \subseteq Images \cup Writing
         /\ ~overdue => mem' = file
BY DEF Exit, StoreKill, Images

\* The end of main keeps what the allocator's steps keep.
LEMMA ExitKeepsInv == Inv /\ Exit => Inv'
<1> SUFFICES ASSUME Inv, Exit PROVE Inv'
  OBVIOUS
<1> USE ExitEffect DEF historyVars, boundVars, ProcessGone
<1>0. /\ StoreTypes /\ EntityTypes /\ RefillTypes /\ ProcTypes /\ HistoryTypes
      /\ NoReissue /\ MarksAboveIssued
  BY DEF Inv, TypeInv, TypeOK, Reservation
<1>1. TypeInv'
  <2>1. StoreTypes'
    BY <1>0, WritingTypes DEF StoreTypes, Inv
  <2>2. EntityTypes' /\ RefillTypes'
    BY <1>0 DEF EntityTypes, RefillTypes
  <2>3. ProcTypes' /\ SettingIsReset'
    BY <1>0 DEF ProcTypes, SettingIsReset
  <2>4. HistoryTypes'
    BY <1>0 DEF HistoryTypes
  <2> QED
    BY <2>1, <2>2, <2>3, <2>4 DEF TypeInv, TypeOK
<1>2. Monitor'
  BY DEF Monitor, MutexHeld, DownIsQuiet, InsideIsLoaded, TokenIsRefill, NoRefillDuringSet
<1>3. MarksAboveIssued'
  BY <1>0, WritingAboveIssued DEF MarksAboveIssued, Inv
<1>4. Reservation'
  BY <1>0, <1>3
     DEF Reservation, NoReissue, CursorAboveIssued, MarkMatchesWindow, ImagesCoverWindow,
         TargetsAboveIssued
<1> QED
  BY <1>1, <1>2, <1>4 DEF Inv

LEMMA ExitKeepsForfeit ==
  ASSUME NoResets, BatchesBounded, Inv, ForfeitInv, Exit
  PROVE  ForfeitInv'
<1>0. /\ mem \in Nat /\ file \in Nat /\ Images \subseteq Nat /\ cursor \in Nat
      /\ reservedEnd \in Nat /\ MaxForfeit \in Nat
  BY ForfeitBounds DEF Inv, TypeInv, TypeOK, StoreTypes, EntityTypes, Images
<1>1. /\ file' \in {file} \cup Writing /\ mem' = file'
      /\ Images' \subseteq Images \cup Writing /\ ~loaded' /\ refillPc' = "none"
  BY ExitEffect DEF ProcessGone
<1>2. mem' \in Nat /\ mem' >= mem
  BY <1>0, <1>1, WritingWithinReach DEF ForfeitInv
<1>3. ASSUME NEW m \in Images' PROVE m - mem' <= MaxForfeit
  <2>1. CASE loaded
    <3>1. cursor <= mem
      BY <1>0, <2>1 DEF Inv, Reservation, CursorAboveIssued, MarkMatchesWindow,
                        TypeInv, TypeOK, RefillTypes
    <3>2. m \in Nat /\ m - cursor <= MaxForfeit
      BY <1>0, <1>1, <1>3, <2>1, WritingWithinReach DEF ForfeitInv
    <3>3. \A n \in Nat : n >= mem => m - n <= MaxForfeit
      BY <1>0, <3>1, <3>2
    <3> QED
      BY <1>2, <3>3
  <2>2. CASE ~loaded
    <3>1. m \in Nat /\ m - mem <= MaxForfeit
      BY <1>0, <1>1, <1>3, <2>2, WritingWithinReach DEF ForfeitInv
    <3>2. \A n \in Nat : n >= mem => m - n <= MaxForfeit
      BY <1>0, <3>1
    <3> QED
      BY <1>2, <3>2
  <2> QED
    BY <2>1, <2>2
<1> QED
  BY <1>1, <1>2, <1>3 DEF ForfeitInv

LEMMA ExitKeepsRest ==
  Exit => GapInv' /\ (OvershootInv => OvershootInv') /\ (StoreInv => StoreInv') /\ SettingAllowed'
<1> SUFFICES ASSUME Exit
             PROVE  GapInv' /\ (OvershootInv => OvershootInv') /\ (StoreInv => StoreInv')
                    /\ SettingAllowed'
  OBVIOUS
<1>1. GapInv' /\ SettingAllowed'
  BY ExitEffect DEF GapInv, SettingAllowed, ProcessGone
<1>2. OvershootInv => OvershootInv'
  <2>1. Passed' = {} /\ issued' = issued /\ FarthestEnd' = FarthestEnd
    BY ExitEffect DEF Passed, ProcessGone, historyVars, FarthestEnd
  <2> QED
    BY <2>1 DEF OvershootInv
<1>3. StoreInv => StoreInv'
  BY ExitEffect DEF StoreInv
<1> QED
  BY <1>1, <1>2, <1>3

LEMMA ServiceInvInit == ServiceInit => Inv
BY InvInit DEF ServiceInit, StatusInit

LEMMA ServiceInvStep == ResetsSynced /\ Inv /\ [ServiceNext]_serviceVars => Inv'
BY ServiceSteps, InvStep, ExitKeepsInv

\* A service with readers and orderly stops keeps the allocator's invariant: a stop,
\* also one that cuts requests off after its time, repeats nothing.
THEOREM ServiceReservationCorrect == ASSUME ResetsSynced PROVE ServiceSpec => []IndInv
<1>1. Inv /\ [ServiceNext]_serviceVars => Inv'
  BY ServiceInvStep, ResetsSynced
<1>2. Inv => IndInv
  BY DEF Inv, TypeInv, IndInv
<1> QED
  BY <1>1, <1>2, ServiceInvInit, PTL DEF ServiceSpec

\* Across orderly stops, too, nothing is skipped in a run, a stop or a crash forfeits
\* a bounded piece, and callers pass the type's end by a bounded piece.
THEOREM ServiceSequence ==
  ASSUME NoResets, CallsBounded
  PROVE  ServiceSpec => [](NoGapWithinRun /\ ForfeitBounded /\ OvershootBounded)
<1>1. ResetsSynced /\ BatchesBounded
  BY NoResets, CallsBounded DEF NoResets, ResetsSynced, CallsBounded
<1> DEFINE I == Inv /\ GapInv /\ ForfeitInv /\ OvershootInv
<1>2. ServiceInit => I
  BY ServiceInvInit, ForfeitBounds, <1>1
     DEF ServiceInit, StatusInit, Init, StoreInit, GapInv, ForfeitInv, Images, OvershootInv, Passed
<1>3. I /\ [ServiceNext]_serviceVars => I'
  <2> SUFFICES ASSUME I, [ServiceNext]_serviceVars PROVE I'
    OBVIOUS
  <2>1. Inv'
    BY <1>1, ServiceInvStep
  <2>2. CASE [Next]_vars
    <3>1. GapInv'
      BY <2>2, GapStep, NoResets DEF Inv
    <3>2. ForfeitInv'
      BY <1>1, <2>2, ForfeitStep, NoResets
    <3>3. OvershootInv'
      BY <2>1, <2>2, OvershootStep, CallsBounded DEF Inv
    <3> QED
      BY <2>1, <3>1, <3>2, <3>3
  <2>3. CASE Exit
    <3>1. ForfeitInv'
      BY <1>1, <2>3, ExitKeepsForfeit, NoResets
    <3> QED
      BY <2>1, <2>3, <3>1, ExitKeepsRest
  <2> QED
    BY <2>2, <2>3, ServiceSteps
<1>4. I => NoGapWithinRun /\ ForfeitBounded /\ OvershootBounded
  BY DEF GapInv, NoGapWithinRun, ForfeitInv, ForfeitBounded, OvershootInv, FarthestEnd,
         OvershootBounded
<1> QED
  BY <1>2, <1>3, <1>4, PTL DEF ServiceSpec

\* The service as a whole implements the counter.
THEOREM ServiceImplementsCounter == ASSUME ResetsSynced PROVE ServiceSpec => CounterSpec
<1>1. ServiceInit => C!CounterInit /\ MapInv
  BY CounterInitMaps
     DEF ServiceInit, StatusInit, Init, StoreInit, MapInv, StoreInv, SettingAllowed
<1>2. Inv /\ [ServiceNext]_serviceVars => Inv'
  BY ServiceInvStep, ResetsSynced
<1>3. Inv /\ MapInv /\ [ServiceNext]_serviceVars => MapInv'
  BY ServiceSteps, StoreStep, SettingAllowedStep, ExitKeepsRest DEF MapInv
<1>4. Inv /\ Inv' /\ MapInv /\ [ServiceNext]_serviceVars => [C!CounterNext]_(C!counterVars)
  <2> SUFFICES ASSUME Inv, TypeInv', MapInv, [ServiceNext]_serviceVars
               PROVE  [C!CounterNext]_(C!counterVars)
    BY DEF Inv
  <2>1. CASE [Next]_vars
    BY <2>1, CounterStepMaps, ResetsSynced
  <2>2. CASE Exit
    <3>1. /\ Positions' \subseteq Images \cup Writing
          /\ issued' = issued /\ reissued' = reissued
      BY <2>2, ExitEffect DEF ProcessGone, Positions, historyVars
    <3> QED
      BY <3>1, CrashMaps, ResetsSynced
  <2> QED
    BY <2>1, <2>2, ServiceSteps
<1> QED
  BY <1>1, <1>2, <1>3, <1>4, ServiceInvInit, PTL DEF ServiceSpec, CounterSpec, C!Spec

--------------------------------------------------------------------------------
(* What a reader is told. *)

\* Before the entity is loaded nothing moves its mark, and a process never unloads it.
LEMMA UnloadedMarkRests ==
  ASSUME Inv, [Next]_vars, up, up'
  PROVE  loaded' \/ (~loaded /\ mem' = mem)
<1>0. /\ InsideIsLoaded /\ TokenIsRefill
  BY DEF Inv, Monitor
<1>1. ASSUME NEW p \in Procs, ReserveInline(p) \/ DoReset(p) PROVE loaded'
  BY <1>0, <1>1 DEF InsideIsLoaded, ReserveInline, DoReset
<1>2. CASE RefillRaise
  BY <1>0, <1>2 DEF TokenIsRefill, RefillRaise, entityVars
<1>3. CASE OtherFlush
  BY <1>3, OthersEffect DEF OtherFlush, entityVars
<1>4. ~Kill /\ ~PowerLoss /\ ~Restart /\ ~CliReset
  BY DEF Kill, PowerLoss, ProcessGone, Restart, CliReset
<1>5. ASSUME loaded' = loaded, mem' = mem PROVE loaded' \/ (~loaded /\ mem' = mem)
  BY <1>5
<1> QED
  BY <1>1, <1>2, <1>3, <1>4, <1>5
     DEF Next, ProcStep, StartNext, StartReset, Start, EnterNext, TakeBlock, EnterReset,
         RefuseReset, ApproveReset, WaitForRefill, Reacquire, RefillApply, vars, Load,
         storeVars, entityVars

\* The record a reader holds is above what was handed out before it asked, and until the
\* entity is loaded it is still the mark.
ReadInv ==
  reader = "got" => /\ up
                    /\ \A i \in seen : i < rec
                    /\ ~loaded => rec = mem

LEMMA ReadStep ==
  ASSUME Inv, ReadInv, [ServiceNext]_serviceVars
  PROVE  ReadInv'
<1>1. CASE GetRecord
  BY <1>1
     DEF GetRecord, ReadInv, Inv, Reservation, MarksAboveIssued, vars, storeVars, entityVars
<1>2. CASE LookAtWindow
  BY <1>2 DEF LookAtWindow, ReadInv
<1>3. CASE Others
  <2>1. CASE up'
    BY <1>3, <2>1, UnloadedMarkRests DEF Others, ReadInv
  <2>2. CASE ~up'
    BY <1>3, <2>2 DEF Others, ReadInv
  <2> QED
    BY <2>1, <2>2
<1>4. CASE Exit
  BY <1>4 DEF Exit, ReadInv
<1>5. CASE UNCHANGED statusVars
  BY <1>5 DEF statusVars, readerVars, vars, storeVars, entityVars, ReadInv
<1> QED
  BY <1>1, <1>2, <1>3, <1>4, <1>5
     DEF ServiceNext, Signal, Drained, DrainOverdue, CloseAllocator, Work, StatusNext,
         serviceVars

\* What a reader is told was true at one moment between its question and its answer.
THEOREM ReadersAreToldTheTruth == ASSUME NoResets PROVE ServiceSpec => AnswersAreTrue
<1>0. ResetsSynced
  BY NoResets DEF NoResets, ResetsSynced
<1> DEFINE I == Inv /\ GapInv /\ ReadInv
<1>1. ServiceInit => I
  BY ServiceInvInit DEF ServiceInit, StatusInit, Init, GapInv, ReadInv
<1>2. I /\ [ServiceNext]_serviceVars => I'
  <2> SUFFICES ASSUME I, [ServiceNext]_serviceVars PROVE I'
    OBVIOUS
  <2>1. Inv' /\ ReadInv'
    BY <1>0, ServiceInvStep, ReadStep
  <2>2. GapInv'
    BY ServiceSteps, GapStep, ExitKeepsRest, NoResets DEF Inv
  <2> QED
    BY <2>1, <2>2
<1>3. ASSUME I, LookAtWindow
      PROVE  /\ view'.next = IF loaded THEN cursor ELSE mem
             /\ \A i \in issued : i < view'.next
             /\ view'.issued > 0 => view'.next - 1 \in issued
             /\ \A i \in seen : i < view'.disk
  <2>0. /\ cursor \in Nat /\ loadMark \in Nat
        /\ loaded => \A i \in issued : i < cursor
        /\ \A i \in issued : i < mem
        /\ \A i \in seen : i < rec
        /\ ~loaded => rec = mem
    BY <1>3 DEF Inv, TypeInv, TypeOK, EntityTypes, Reservation, CursorAboveIssued,
                MarksAboveIssued, ReadInv, LookAtWindow
  <2>1. view' = Reported
    BY <1>3 DEF LookAtWindow
  <2>2. CASE loaded
    <3>1. /\ view'.next = cursor /\ view'.issued = cursor - loadMark /\ view'.disk = rec
      BY <2>1, <2>2 DEF Reported
    <3>2. cursor - loadMark > 0 => cursor - 1 \in loadMark .. (cursor - 1)
      BY <2>0
    <3>3. cursor - loadMark > 0 => cursor - 1 \in issued
      BY <1>3, <2>2, <3>2 DEF GapInv
    <3> QED
      BY <2>0, <2>2, <3>1, <3>3
  <2>3. CASE ~loaded
    <3>1. view'.next = rec /\ view'.issued = 0 /\ view'.disk = rec
      BY <2>1, <2>3 DEF Reported
    <3> QED
      BY <2>0, <2>3, <3>1
  <2> QED
    BY <2>2, <2>3
<1>4. I => [LookAtWindow =>
              /\ view'.next = IF loaded THEN cursor ELSE mem
              /\ \A i \in issued : i < view'.next
              /\ view'.issued > 0 => view'.next - 1 \in issued
              /\ \A i \in seen : i < view'.disk]_statusVars
  BY <1>3
<1> QED
  BY <1>1, <1>2, <1>4, PTL DEF ServiceSpec, AnswersAreTrue

--------------------------------------------------------------------------------
(* What an orderly stop leaves behind. *)

\* The path never names less than what the store holds.
PathNotBehind == mem <= file

LEMMA PathStep ==
  ASSUME ResetsSynced, TypeInv, TypeInv', PathNotBehind, [Next]_vars
  PROVE  PathNotBehind'
<1>0. mem \in Nat /\ file \in Nat /\ mem' \in Nat /\ file' \in Nat
  BY DEF TypeInv, TypeOK, StoreTypes
<1>1. ASSUME mem' = file' PROVE PathNotBehind'
  BY <1>0, <1>1 DEF PathNotBehind
<1>2. ASSUME UNCHANGED <<mem, file>> PROVE PathNotBehind'
  BY <1>2 DEF PathNotBehind
<1>3. ASSUME NEW to \in Nat, RaiseMarkOK(to) \/ RaiseMarkFails(to) PROVE PathNotBehind'
  BY <1>0, <1>3
     DEF RaiseMarkOK, RaiseMarkFails, FlushOK, FlushFails, PathNotBehind, storeVars
<1>4. ASSUME NEW p \in Procs, ReserveInline(p) PROVE PathNotBehind'
  <2>1. call[p].n - Remaining \in Nat \ {0}
    BY <1>4, CallFields
       DEF ReserveInline, TypeInv, TypeOK, ProcTypes, EntityTypes, Remaining
  <2>2. reservedEnd + Grow(call[p].n - Remaining) \in Nat
    BY <2>1, GrowCovers DEF TypeInv, TypeOK, EntityTypes
  <2> QED
    BY <1>3, <1>4, <2>2 DEF ReserveInline
<1>5. ASSUME NEW p \in Procs, DoReset(p) PROVE PathNotBehind'
  <2>1. call[p].target \in ResetTargets
    BY <1>5, CallFields DEF DoReset, TypeInv, SettingIsReset, TypeOK, ProcTypes
  <2>2. "resetsync" \notin Faults
    BY <2>1, ResetsSynced DEF ResetsSynced
  <2> QED
    BY <1>1, <1>2, <1>5, <2>2
       DEF DoReset, SetMarkOK, SetMarkFails, FlushOK, FlushFails, storeVars
<1>6. CASE RefillRaise
  <2>1. refillFrom + SegmentSize \in Nat
    BY DEF TypeInv, TypeOK, RefillTypes
  <2> QED
    BY <1>3, <1>6, <2>1 DEF RefillRaise
<1>7. CASE OtherFlush
  BY <1>1, <1>2, <1>7 DEF OtherFlush, FlushForOthers, FlushOK, FlushFails, storeVars
<1>8. CASE Kill \/ PowerLoss \/ Restart
  BY <1>1, <1>8 DEF Kill, PowerLoss, StoreKill, StorePowerLoss, Restart, OpenStore
<1>9. CASE CliReset
  BY <1>1, <1>9 DEF CliReset, SetMarkOK, FlushOK, StoreKill
<1> QED
  BY <1>2, <1>4, <1>5, <1>6, <1>7, <1>8, <1>9
     DEF Next, ProcStep, StartNext, StartReset, Start, EnterNext, TakeBlock, EnterReset,
         RefuseReset, ApproveReset, WaitForRefill, Reacquire, RefillApply, vars, storeVars

\* Unless time ran out, no request is left once Shutdown has returned, and no refill
\* once Close has: only a request starts one.
StopInv ==
  ~overdue => /\ stop \in {"closing", "closed"} => NoRequest
              /\ stop = "closed" => refillPc = "none"

LEMMA NoRefillStarts ==
  ASSUME ProcTypes, \A p \in Procs : pc[p] = "idle", refillPc = "none", [Next]_vars
  PROVE  refillPc' = "none"
<1>1. \A p \in Procs : ~TakeBlock(p)
  BY DEF TakeBlock
<1> QED
  BY <1>1
     DEF Next, ProcStep, StartNext, StartReset, Start, EnterNext, ReserveInline, EnterReset,
         RefuseReset, ApproveReset, DoReset, WaitForRefill, Reacquire, RefillRaise,
         RefillApply, OtherFlush, Kill, PowerLoss, ProcessGone, Restart, CliReset, vars,
         refillVars

LEMMA StopStep ==
  ASSUME TypeInv, StopInv, [ServiceNext]_serviceVars
  PROVE  StopInv'
<1>1. CASE Signal \/ Drained \/ DrainOverdue \/ CloseAllocator
  BY <1>1 DEF Signal, Drained, DrainOverdue, CloseAllocator, StopInv, NoRequest,
              statusVars, vars, procVars, refillVars, readerVars
<1>2. CASE Exit
  BY <1>2 DEF Exit, StopInv
<1>3. CASE Work
  <2>1. CASE ~up'
    BY <1>3, <2>1 DEF Work, StopInv
  <2>2. CASE up' /\ ~overdue
    <3>1. UNCHANGED stopVars
      BY <1>3, <2>2 DEF Work
    <3>2. stop \in {"closing", "closed"} => NoRequest'
      BY <1>3, <2>2 DEF Work, NoneBegins, StopInv, NoRequest
    <3>3. [Next]_vars
      BY <1>3 DEF Work, StatusNext, GetRecord, LookAtWindow, Others
    <3>4. stop = "closed" => refillPc' = "none"
      BY <2>2, <3>3, NoRefillStarts DEF StopInv, NoRequest, TypeInv, TypeOK
    <3> QED
      BY <3>1, <3>2, <3>4 DEF StopInv, stopVars
  <2>3. CASE up' /\ overdue
    BY <1>3, <2>3 DEF Work, StopInv, stopVars
  <2> QED
    BY <2>1, <2>2, <2>3
<1>4. CASE UNCHANGED serviceVars
  BY <1>4 DEF serviceVars, stopVars, statusVars, vars, procVars, refillVars, readerVars,
              StopInv, NoRequest
<1> QED
  BY <1>1, <1>2, <1>3, <1>4 DEF ServiceNext

\* An orderly stop that keeps its time cuts nothing off and leaves no mark behind.
THEOREM OrderlyStopLosesNothing == ASSUME ResetsSynced PROVE ServiceSpec => StopCompletes
<1> DEFINE I == Inv /\ PathNotBehind /\ StopInv
<1>1. ServiceInit => I
  BY ServiceInvInit
     DEF ServiceInit, StatusInit, Init, StoreInit, PathNotBehind, StopInv
<1>2. I /\ [ServiceNext]_serviceVars => I'
  <2> SUFFICES ASSUME I, [ServiceNext]_serviceVars PROVE I'
    OBVIOUS
  <2>1. Inv'
    BY ResetsSynced, ServiceInvStep
  <2>2. ASSUME [Next]_vars PROVE PathNotBehind'
    BY <2>1, <2>2, ResetsSynced, PathStep DEF Inv
  <2>3. ASSUME Exit PROVE PathNotBehind'
    <3>1. mem' = file' /\ mem' \in Nat /\ file' \in Nat
      BY <2>1, <2>3, ExitEffect DEF Inv, TypeInv, TypeOK, StoreTypes
    <3>2. mem' <= file'
      BY <3>1
    <3> QED
      BY <3>2 DEF PathNotBehind
  <2>4. PathNotBehind'
    BY <2>2, <2>3, ServiceSteps
  <2> QED
    BY <2>1, <2>4, StopStep DEF Inv
<1>3. ASSUME I, Exit, ~overdue
      PROVE  NoRequest /\ ~reserving /\ (loaded => mem = reservedEnd) /\ mem' >= mem
  <2>1. stop = "closed" /\ mem' = file
    BY <1>3, ExitEffect
  <2>2. NoRequest /\ refillPc = "none"
    BY <1>3, <2>1 DEF StopInv
  <2>3. ~reserving /\ (loaded => mem = reservedEnd)
    BY <1>3, <2>2 DEF Inv, Monitor, TokenIsRefill, Reservation, MarkMatchesWindow
  <2>4. mem' >= mem
    <3>1. mem \in Nat /\ file \in Nat /\ mem <= file
      BY <1>3 DEF Inv, TypeInv, TypeOK, StoreTypes, PathNotBehind
    <3> QED
      BY <2>1, <3>1
  <2> QED
    BY <2>2, <2>3, <2>4
<1>4. I => [Exit /\ ~overdue =>
              /\ NoRequest /\ ~reserving
              /\ loaded => mem = reservedEnd
              /\ mem' >= mem]_serviceVars
  BY <1>3
<1> QED
  BY <1>1, <1>2, <1>4, PTL DEF ServiceSpec, StopCompletes
================================================================================
