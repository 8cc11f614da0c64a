---------------------------- MODULE AllocatorProofs ----------------------------
(* Theorems about Allocator, for every value of its constants. *)
EXTENDS Allocator, TLAPS

USE FaultsAssumption, ProcsAssumption, SegmentAssumption, IterationsAssumption,
    BoundsAssumption

\* An inline reservation covers what the window is short of.
LEMMA GrowCovers ==
  ASSUME NEW short \in Nat \ {0}
  PROVE  Grow(short) \in Nat /\ Grow(short) >= short
<1> DEFINE q == (short + SegmentSize - 1) \div SegmentSize
           r == (short + SegmentSize - 1) % SegmentSize
<1>1. /\ q \in Nat /\ r \in 0..(SegmentSize - 1)
      /\ short + SegmentSize - 1 = q * SegmentSize + r
  OBVIOUS
<1>2. q * SegmentSize \in Nat
  BY <1>1
<1>3. q * SegmentSize >= short
  BY <1>1, <1>2
<1> QED
  BY <1>2, <1>3 DEF Grow

\* What the calls hold, by their operation.
LEMMA CallFields ==
  ASSUME NEW c \in NextCalls \cup ResetCalls \cup {NoCall}
  PROVE  /\ c.op = "next" => c.n \in Nat \ {0}
         /\ c.op = "reset" => /\ c.target \in Nat /\ c.target \in ResetTargets
                              /\ c.force \in BOOLEAN
<1>1. CASE c \in NextCalls
  BY <1>1 DEF NextCalls
<1>2. CASE c \in ResetCalls
  BY <1>2 DEF ResetCalls
<1>3. CASE c = NoCall
  BY <1>3 DEF NoCall
<1> QED
  BY <1>1, <1>2, <1>3

--------------------------------------------------------------------------------
(* Types. *)

\* TypeOK is inductive once a goroutine inside SetMark is known to be a Reset.
SettingIsReset == \A p \in Procs : pc[p] = "setting" => call[p].op = "reset"

TypeInv ==
  /\ TypeOK
  /\ SettingIsReset

LEMMA TypeInit == Init => TypeInv
<1> SUFFICES ASSUME Init PROVE TypeInv
  OBVIOUS
<1>1. StoreTypes
  BY DEF Init, StoreInit, StoreTypes
<1>2. EntityTypes
  BY DEF Init, EntityTypes
<1>3. RefillTypes
  BY DEF Init, RefillTypes
<1>4. ProcTypes
  BY DEF Init, ProcTypes
<1>5. HistoryTypes
  BY DEF Init, HistoryTypes
<1>6. SettingIsReset
  BY DEF Init, SettingIsReset
<1> QED
  BY <1>1, <1>2, <1>3, <1>4, <1>5, <1>6 DEF TypeInv, TypeOK

\* Every mark a flush under way may be writing is a natural number.
LEMMA WritingTypes == TypeInv => Writing \subseteq Nat
<1> SUFFICES ASSUME TypeInv, up, NEW w \in Writing PROVE w \in Nat
  BY DEF Writing
<1>1. CASE w = mem
  BY <1>1 DEF TypeInv, TypeOK, StoreTypes, EntityTypes, RefillTypes, ProcTypes
<1>2. ASSUME NEW p \in Procs, pc[p] = "setting", w = call[p].target PROVE w \in Nat
  BY <1>2, CallFields
     DEF TypeInv, SettingIsReset, TypeOK, StoreTypes, EntityTypes, RefillTypes,
         ProcTypes
<1>3. ASSUME NEW p \in Procs, call[p].op = "next", Remaining < call[p].n,
             w = reservedEnd + Grow(call[p].n - Remaining)
      PROVE  w \in Nat
  <2>1. call[p].n - Remaining \in Nat \ {0}
    BY <1>3, CallFields
       DEF TypeInv, TypeOK, StoreTypes, EntityTypes, RefillTypes, ProcTypes, Remaining
  <2> QED
    BY <1>3, <2>1, GrowCovers
       DEF TypeInv, TypeOK, StoreTypes, EntityTypes, RefillTypes, ProcTypes
<1>4. CASE w = refillFrom + SegmentSize
  BY <1>4 DEF TypeInv, TypeOK, StoreTypes, EntityTypes, RefillTypes, ProcTypes
<1> QED
  BY <1>1, <1>2, <1>3, <1>4 DEF Writing

\* A step keeps every type: one step per action, split by the group of variables.
LEMMA TypeStep == TypeInv /\ [Next]_vars => TypeInv'
<1> SUFFICES ASSUME TypeInv, [Next]_vars PROVE TypeInv'
  OBVIOUS
<1>0. /\ StoreTypes /\ EntityTypes /\ RefillTypes
      /\ ProcTypes /\ HistoryTypes /\ SettingIsReset
  BY DEF TypeInv, TypeOK
<1>1. ASSUME NEW p \in Procs, NEW c \in NextCalls \cup ResetCalls, Start(p, c)
      PROVE  TypeInv'
  BY <1>0, <1>1
     DEF TypeInv, TypeOK, StoreTypes, EntityTypes, RefillTypes, ProcTypes, HistoryTypes,
         SettingIsReset, Start, storeVars, entityVars, refillVars, procVars,
         historyVars, boundVars
<1>2. ASSUME NEW p \in Procs, EnterNext(p)
      PROVE  TypeInv'
  BY <1>0, <1>2
     DEF TypeInv, TypeOK, StoreTypes, EntityTypes, RefillTypes, ProcTypes, HistoryTypes,
         SettingIsReset, EnterNext, Load, Hold, Return, storeVars, entityVars,
         refillVars, procVars,
         historyVars, boundVars
<1>3. ASSUME NEW p \in Procs, ReserveInline(p)
      PROVE  TypeInv'
  <2>a. reservedEnd + Grow(call[p].n - Remaining) \in Nat
    <3>1. call[p].n \in Nat \ {0} /\ Remaining < call[p].n
      BY <1>0, <1>3, CallFields DEF ReserveInline, ProcTypes
    <3>2. call[p].n - Remaining \in Nat \ {0}
      BY <1>0, <3>1 DEF Remaining, EntityTypes
    <3> QED
      BY <1>0, <3>2, GrowCovers DEF EntityTypes
  <2>1. StoreTypes'
    BY <2>a, <1>0, <1>3
       DEF StoreTypes, ReserveInline, RaiseMarkOK, RaiseMarkFails, FlushOK, FlushFails,
           storeVars
  <2>2. EntityTypes'
    BY <2>a, <1>0, <1>3 DEF EntityTypes, ReserveInline
  <2>3. RefillTypes'
    BY <1>0, <1>3 DEF RefillTypes, ReserveInline, refillVars
  <2>4. ProcTypes'
    BY <1>0, <1>3 DEF ProcTypes, ReserveInline, Return, procVars
  <2>5. HistoryTypes'
    BY <1>0, <1>3 DEF HistoryTypes, ReserveInline, historyVars, boundVars
  <2>6. SettingIsReset'
    BY <1>0, <1>3 DEF SettingIsReset, ReserveInline, Return, ProcTypes, procVars
  <2> QED
    BY <2>1, <2>2, <2>3, <2>4, <2>5, <2>6 DEF TypeInv, TypeOK
<1>4. ASSUME NEW p \in Procs, TakeBlock(p)
      PROVE  TypeInv'
  <2>a. call[p].n \in Nat \ {0}
    BY <1>0, <1>4, CallFields DEF TakeBlock, ProcTypes
  <2>b. issued' \subseteq Nat /\ reissued' \subseteq Nat
    <3>1. cursor .. (cursor + call[p].n - 1) \subseteq Nat
      BY <1>0, <2>a DEF EntityTypes
    <3> QED
      BY <1>0, <1>4, <3>1 DEF TakeBlock, HistoryTypes
  <2>1. StoreTypes'
    BY <1>0, <1>4 DEF StoreTypes, TakeBlock, storeVars
  <2>2. EntityTypes'
    BY <2>a, <1>0, <1>4 DEF EntityTypes, TakeBlock
  <2>3. RefillTypes'
    BY <1>0, <1>4 DEF RefillTypes, TakeBlock, MaybeRefill, EntityTypes, refillVars
  <2>4. ProcTypes'
    BY <1>0, <1>4 DEF ProcTypes, TakeBlock, Return, procVars
  <2>5. HistoryTypes'
    BY <2>b, <1>0, <1>4 DEF HistoryTypes, TakeBlock, historyVars, boundVars
  <2>6. SettingIsReset'
    BY <1>0, <1>4 DEF SettingIsReset, TakeBlock, Return, ProcTypes, procVars
  <2> QED
    BY <2>1, <2>2, <2>3, <2>4, <2>5, <2>6 DEF TypeInv, TypeOK
<1>5. ASSUME NEW p \in Procs, EnterReset(p)
      PROVE  TypeInv'
  BY <1>0, <1>5
     DEF TypeInv, TypeOK, StoreTypes, EntityTypes, RefillTypes, ProcTypes, HistoryTypes,
         SettingIsReset, EnterReset, Load, Hold, storeVars, entityVars, refillVars,
         procVars,
         historyVars, boundVars
<1>6. ASSUME NEW p \in Procs, RefuseReset(p)
      PROVE  TypeInv'
  BY <1>0, <1>6
     DEF TypeInv, TypeOK, StoreTypes, EntityTypes, RefillTypes, ProcTypes, HistoryTypes,
         SettingIsReset, RefuseReset, Return, storeVars, entityVars, refillVars, procVars,
         historyVars, boundVars
<1>7. ASSUME NEW p \in Procs, ApproveReset(p)
      PROVE  TypeInv'
  BY <1>0, <1>7
     DEF TypeInv, TypeOK, StoreTypes, EntityTypes, RefillTypes, ProcTypes, HistoryTypes,
         SettingIsReset, ApproveReset, storeVars, entityVars, refillVars, procVars,
         historyVars, boundVars
<1>8. ASSUME NEW p \in Procs, DoReset(p)
      PROVE  TypeInv'
  <2>a. call[p].target \in Nat
    BY <1>0, <1>8, CallFields DEF DoReset, ProcTypes, SettingIsReset
  <2>1. StoreTypes'
    BY <2>a, <1>0, <1>8
       DEF StoreTypes, DoReset, SetMarkOK, SetMarkFails, FlushOK, FlushFails, storeVars
  <2>2. EntityTypes'
    BY <2>a, <1>0, <1>8 DEF EntityTypes, DoReset
  <2>3. RefillTypes'
    BY <1>0, <1>8 DEF RefillTypes, DoReset, refillVars
  <2>4. ProcTypes'
    BY <1>0, <1>8 DEF ProcTypes, DoReset, Return, procVars
  <2>5. HistoryTypes'
    BY <1>0, <1>8 DEF HistoryTypes, DoReset, historyVars, boundVars
  <2>6. SettingIsReset'
    BY <1>0, <1>8 DEF SettingIsReset, DoReset, Return, ProcTypes, procVars
  <2> QED
    BY <2>1, <2>2, <2>3, <2>4, <2>5, <2>6 DEF TypeInv, TypeOK
<1>9. ASSUME NEW p \in Procs, WaitForRefill(p)
      PROVE  TypeInv'
  BY <1>0, <1>9
     DEF TypeInv, TypeOK, StoreTypes, EntityTypes, RefillTypes, ProcTypes, HistoryTypes,
         SettingIsReset, WaitForRefill, storeVars, entityVars, refillVars, procVars,
         historyVars, boundVars
<1>10. ASSUME NEW p \in Procs, Reacquire(p)
      PROVE  TypeInv'
  BY <1>0, <1>10
     DEF TypeInv, TypeOK, StoreTypes, EntityTypes, RefillTypes, ProcTypes, HistoryTypes,
         SettingIsReset, Reacquire, Hold, storeVars, entityVars, refillVars, procVars,
         historyVars, boundVars
<1>11. CASE RefillRaise
  <2>a. refillFrom + SegmentSize \in Nat
    BY <1>0 DEF RefillTypes
  <2>1. StoreTypes'
    BY <2>a, <1>0, <1>11
       DEF StoreTypes, RefillRaise, RaiseMarkOK, RaiseMarkFails, FlushOK, FlushFails,
           storeVars
  <2>2. EntityTypes'
    BY <1>0, <1>11 DEF EntityTypes, RefillRaise, entityVars
  <2>3. RefillTypes'
    BY <1>0, <1>11 DEF RefillTypes, RefillRaise, refillVars
  <2>4. ProcTypes'
    BY <1>0, <1>11 DEF ProcTypes, RefillRaise, procVars
  <2>5. HistoryTypes'
    BY <1>0, <1>11 DEF HistoryTypes, RefillRaise, historyVars, boundVars
  <2>6. SettingIsReset'
    BY <1>0, <1>11 DEF SettingIsReset, RefillRaise, procVars
  <2> QED
    BY <2>1, <2>2, <2>3, <2>4, <2>5, <2>6 DEF TypeInv, TypeOK
<1>12. CASE RefillApply
  <2>1. StoreTypes'
    BY <1>0, <1>12 DEF StoreTypes, RefillApply, storeVars
  <2>2. EntityTypes'
    BY <1>0, <1>12 DEF EntityTypes, RefillApply, RefillTypes
  <2>3. RefillTypes'
    BY <1>0, <1>12 DEF RefillTypes, RefillApply, refillVars
  <2>4. ProcTypes'
    BY <1>0, <1>12 DEF ProcTypes, RefillApply, Broadcast, procVars
  <2>5. HistoryTypes'
    BY <1>0, <1>12 DEF HistoryTypes, RefillApply, historyVars, boundVars
  <2>6. SettingIsReset'
    BY <1>0, <1>12 DEF SettingIsReset, RefillApply, Broadcast, ProcTypes, procVars
  <2> QED
    BY <2>1, <2>2, <2>3, <2>4, <2>5, <2>6 DEF TypeInv, TypeOK
<1>13. CASE OtherFlush
  <2>1. StoreTypes'
    BY <1>0, <1>13
       DEF StoreTypes, OtherFlush, FlushForOthers, FlushOK, FlushFails, storeVars
  <2>2. EntityTypes'
    BY <1>0, <1>13 DEF EntityTypes, OtherFlush, entityVars
  <2>3. RefillTypes'
    BY <1>0, <1>13 DEF RefillTypes, OtherFlush, refillVars
  <2>4. ProcTypes'
    BY <1>0, <1>13 DEF ProcTypes, OtherFlush, procVars
  <2>5. HistoryTypes'
    BY <1>0, <1>13 DEF HistoryTypes, OtherFlush, historyVars, boundVars
  <2>6. SettingIsReset'
    BY <1>0, <1>13 DEF SettingIsReset, OtherFlush, procVars
  <2> QED
    BY <2>1, <2>2, <2>3, <2>4, <2>5, <2>6 DEF TypeInv, TypeOK
<1>14. CASE Kill
  <2>1. StoreTypes'
    BY WritingTypes, <1>0, <1>14 DEF StoreTypes, Kill, StoreKill, storeVars
  <2>2. EntityTypes'
    BY <1>0, <1>14 DEF EntityTypes, Kill, ProcessGone
  <2>3. RefillTypes'
    BY <1>0, <1>14 DEF RefillTypes, Kill, ProcessGone, refillVars
  <2>4. ProcTypes'
    BY <1>0, <1>14 DEF ProcTypes, Kill, ProcessGone, procVars
  <2>5. HistoryTypes'
    BY <1>0, <1>14 DEF HistoryTypes, Kill, historyVars, boundVars
  <2>6. SettingIsReset'
    BY <1>0, <1>14 DEF SettingIsReset, Kill, ProcessGone, procVars
  <2> QED
    BY <2>1, <2>2, <2>3, <2>4, <2>5, <2>6 DEF TypeInv, TypeOK
<1>15. CASE PowerLoss
  <2>1. StoreTypes'
    BY WritingTypes, <1>0, <1>15 DEF StoreTypes, PowerLoss, StorePowerLoss, storeVars
  <2>2. EntityTypes'
    BY <1>0, <1>15 DEF EntityTypes, PowerLoss, ProcessGone
  <2>3. RefillTypes'
    BY <1>0, <1>15 DEF RefillTypes, PowerLoss, ProcessGone, refillVars
  <2>4. ProcTypes'
    BY <1>0, <1>15 DEF ProcTypes, PowerLoss, ProcessGone, procVars
  <2>5. HistoryTypes'
    BY <1>0, <1>15 DEF HistoryTypes, PowerLoss, historyVars, boundVars
  <2>6. SettingIsReset'
    BY <1>0, <1>15 DEF SettingIsReset, PowerLoss, ProcessGone, procVars
  <2> QED
    BY <2>1, <2>2, <2>3, <2>4, <2>5, <2>6 DEF TypeInv, TypeOK
<1>16. CASE Restart
  BY <1>0, <1>16
     DEF TypeInv, TypeOK, StoreTypes, EntityTypes, RefillTypes, ProcTypes, HistoryTypes,
         SettingIsReset, Restart, OpenStore, storeVars, entityVars, refillVars, procVars,
         historyVars, boundVars
<1>17. CASE CliReset
  <2>a. issued' \subseteq Nat
    BY <1>0, <1>17 DEF CliReset, HistoryTypes
  <2>b. calls' \in 0..MaxCalls
    BY <1>0, <1>17 DEF CliReset, HistoryTypes
  <2>1. StoreTypes'
    BY <1>0, <1>17 DEF StoreTypes, CliReset, SetMarkOK, FlushOK, StoreKill, storeVars
  <2>2. EntityTypes'
    BY <1>0, <1>17 DEF EntityTypes, CliReset, entityVars
  <2>3. RefillTypes'
    BY <1>0, <1>17 DEF RefillTypes, CliReset, refillVars
  <2>4. ProcTypes'
    BY <1>0, <1>17 DEF ProcTypes, CliReset, procVars
  <2>5. HistoryTypes'
    BY <2>a, <2>b, <1>0, <1>17 DEF HistoryTypes, CliReset, historyVars, boundVars
  <2>6. SettingIsReset'
    BY <1>0, <1>17 DEF SettingIsReset, CliReset, procVars
  <2> QED
    BY <2>1, <2>2, <2>3, <2>4, <2>5, <2>6 DEF TypeInv, TypeOK
<1>18. CASE UNCHANGED vars
  BY <1>0, <1>18
     DEF TypeInv, TypeOK, StoreTypes, EntityTypes, RefillTypes, ProcTypes, HistoryTypes,
         SettingIsReset, vars, storeVars, entityVars, refillVars, procVars,
         historyVars, boundVars
<1> QED
  BY <1>1, <1>2, <1>3, <1>4, <1>5, <1>6, <1>7, <1>8, <1>9, <1>10, <1>11, <1>12,
     <1>13, <1>14, <1>15, <1>16, <1>17, <1>18
     DEF Next, ProcStep, StartNext, StartReset

\* The type invariant holds of every behaviour.
THEOREM TypeCorrect == Spec => []TypeOK
<1>1. TypeInv => TypeOK
  BY DEF TypeInv
<1> QED
  BY <1>1, TypeInit, TypeStep, PTL DEF Spec

--------------------------------------------------------------------------------
(* The monitor: mutex, token and process state. *)

LEMMA MonitorInit == Init => Monitor
BY DEF Init, Monitor, MutexHeld, DownIsQuiet, InsideIsLoaded, TokenIsRefill,
       NoRefillDuringSet

LEMMA MonitorStep == TypeInv /\ Monitor /\ [Next]_vars => Monitor'
<1> SUFFICES ASSUME TypeInv, Monitor, [Next]_vars PROVE Monitor'
  OBVIOUS
<1>0. /\ EntityTypes /\ RefillTypes /\ ProcTypes
      /\ MutexHeld /\ DownIsQuiet /\ InsideIsLoaded /\ TokenIsRefill /\ NoRefillDuringSet
  BY DEF TypeInv, TypeOK, Monitor
<1>1. ASSUME NEW p \in Procs, NEW c \in NextCalls \cup ResetCalls, Start(p, c) PROVE Monitor'
  BY <1>0, <1>1
     DEF Monitor, ProcTypes, MutexHeld, DownIsQuiet, InsideIsLoaded, TokenIsRefill,
         NoRefillDuringSet, Start, entityVars, refillVars, procVars
<1>2. ASSUME NEW p \in Procs, EnterNext(p) PROVE Monitor'
  BY <1>0, <1>2
     DEF Monitor, ProcTypes, MutexHeld, DownIsQuiet, InsideIsLoaded, TokenIsRefill,
         NoRefillDuringSet, EnterNext, Load, Return, Hold, entityVars, refillVars, procVars
<1>3. ASSUME NEW p \in Procs, ReserveInline(p) PROVE Monitor'
  BY <1>0, <1>3
     DEF Monitor, ProcTypes, MutexHeld, DownIsQuiet, InsideIsLoaded, TokenIsRefill,
         NoRefillDuringSet, ReserveInline, RefillOut, Return, entityVars, refillVars,
         procVars
<1>4. ASSUME NEW p \in Procs, TakeBlock(p) PROVE Monitor'
  BY <1>0, <1>4
     DEF Monitor, ProcTypes, MutexHeld, DownIsQuiet, InsideIsLoaded, TokenIsRefill,
         NoRefillDuringSet, TakeBlock, MaybeRefill, Return, entityVars, refillVars, procVars
<1>5. ASSUME NEW p \in Procs, EnterReset(p) PROVE Monitor'
  BY <1>0, <1>5
     DEF Monitor, ProcTypes, MutexHeld, DownIsQuiet, InsideIsLoaded, TokenIsRefill,
         NoRefillDuringSet, EnterReset, Load, Hold, entityVars, refillVars, procVars
<1>6. ASSUME NEW p \in Procs, RefuseReset(p) PROVE Monitor'
  BY <1>0, <1>6
     DEF Monitor, ProcTypes, MutexHeld, DownIsQuiet, InsideIsLoaded, TokenIsRefill,
         NoRefillDuringSet, RefuseReset, Return, entityVars, refillVars, procVars
<1>7. ASSUME NEW p \in Procs, ApproveReset(p) PROVE Monitor'
  BY <1>0, <1>7
     DEF Monitor, ProcTypes, MutexHeld, DownIsQuiet, InsideIsLoaded, TokenIsRefill,
         NoRefillDuringSet, ApproveReset, RefillOut, entityVars, refillVars, procVars
<1>8. ASSUME NEW p \in Procs, DoReset(p) PROVE Monitor'
  BY <1>0, <1>8
     DEF Monitor, ProcTypes, MutexHeld, DownIsQuiet, InsideIsLoaded, TokenIsRefill,
         NoRefillDuringSet, DoReset, Return, entityVars, refillVars, procVars
<1>9. ASSUME NEW p \in Procs, WaitForRefill(p) PROVE Monitor'
  BY <1>0, <1>9
     DEF Monitor, ProcTypes, MutexHeld, DownIsQuiet, InsideIsLoaded, TokenIsRefill,
         NoRefillDuringSet, WaitForRefill, entityVars, refillVars, procVars
<1>10. ASSUME NEW p \in Procs, Reacquire(p) PROVE Monitor'
  BY <1>0, <1>10
     DEF Monitor, ProcTypes, MutexHeld, DownIsQuiet, InsideIsLoaded, TokenIsRefill,
         NoRefillDuringSet, Reacquire, Hold, entityVars, refillVars, procVars
<1>11. CASE RefillRaise
  BY <1>0, <1>11
     DEF Monitor, ProcTypes, MutexHeld, DownIsQuiet, InsideIsLoaded, TokenIsRefill,
         NoRefillDuringSet, RefillRaise, entityVars, refillVars, procVars
<1>12. CASE RefillApply
  BY <1>0, <1>12
     DEF Monitor, ProcTypes, MutexHeld, DownIsQuiet, InsideIsLoaded, TokenIsRefill,
         NoRefillDuringSet, RefillApply, Broadcast, entityVars, refillVars, procVars
<1>13. CASE OtherFlush
  BY <1>0, <1>13
     DEF Monitor, ProcTypes, MutexHeld, DownIsQuiet, InsideIsLoaded, TokenIsRefill,
         NoRefillDuringSet, OtherFlush, entityVars, refillVars, procVars
<1>14. CASE Kill
  BY <1>0, <1>14
     DEF Monitor, ProcTypes, MutexHeld, DownIsQuiet, InsideIsLoaded, TokenIsRefill,
         NoRefillDuringSet, Kill, ProcessGone, entityVars, refillVars, procVars
<1>15. CASE PowerLoss
  BY <1>0, <1>15
     DEF Monitor, ProcTypes, MutexHeld, DownIsQuiet, InsideIsLoaded, TokenIsRefill,
         NoRefillDuringSet, PowerLoss, ProcessGone, entityVars, refillVars, procVars
<1>16. CASE Restart
  BY <1>0, <1>16
     DEF Monitor, ProcTypes, MutexHeld, DownIsQuiet, InsideIsLoaded, TokenIsRefill,
         NoRefillDuringSet, Restart, entityVars, refillVars, procVars
<1>17. CASE CliReset
  BY <1>0, <1>17
     DEF Monitor, ProcTypes, MutexHeld, DownIsQuiet, InsideIsLoaded, TokenIsRefill,
         NoRefillDuringSet, CliReset, entityVars, refillVars, procVars
<1>18. CASE UNCHANGED vars
  BY <1>0, <1>18
     DEF Monitor, ProcTypes, MutexHeld, DownIsQuiet, InsideIsLoaded, TokenIsRefill,
         NoRefillDuringSet, vars, entityVars, refillVars, procVars
<1> QED
  BY <1>1, <1>2, <1>3, <1>4, <1>5, <1>6, <1>7, <1>8, <1>9, <1>10, <1>11, <1>12,
     <1>13, <1>14, <1>15, <1>16, <1>17, <1>18
     DEF Next, ProcStep, StartNext, StartReset

--------------------------------------------------------------------------------
(* The reservation: marks, window and history. *)

\* The one assumption: a reset's flush never fails after its rename, or there are no
\* resets.  Without it NoReissue is false, see run reset_sync_failure.
ResetsSynced == "resetsync" \notin Faults \/ ResetTargets = {}

\* What the store's operations do to the marks that count.
LEMMA RaiseEffect ==
  ASSUME NEW to, to > mem, ~(to <= mem)
  PROVE  /\ RaiseMarkOK(to) => mem' = to /\ Images' = {to}
         /\ RaiseMarkFails(to) => mem' = mem /\ Images' \subseteq Images \cup {to}
BY DEF RaiseMarkOK, RaiseMarkFails, FlushOK, FlushFails, Images, storeVars

LEMMA SetEffect ==
  ASSUME NEW to
  PROVE  /\ SetMarkOK(to) => mem' = to /\ Images' = {to}
         /\ SetMarkFails(to) => mem' = mem /\ Images' \subseteq Images \cup {to}
BY DEF SetMarkOK, SetMarkFails, FlushOK, FlushFails, Images, storeVars

LEMMA OthersEffect == FlushForOthers => mem' = mem /\ Images' \subseteq Images \cup {mem}
BY DEF FlushForOthers, FlushOK, FlushFails, Images, storeVars

LEMMA CrashEffect ==
  ASSUME NEW W
  PROVE  StoreKill(W) \/ StorePowerLoss(W) => mem' \in Images' /\ Images' \subseteq Images \cup W
BY DEF StoreKill, StorePowerLoss, Images

LEMMA SameImages == UNCHANGED storeVars => mem' = mem /\ Images' = Images
BY DEF storeVars, Images

LEMMA ReservationInit == Init => Reservation
BY DEF Init, StoreInit, Reservation, NoReissue, MarksAboveIssued, CursorAboveIssued,
       MarkMatchesWindow, ImagesCoverWindow, TargetsAboveIssued

\* Whatever a crash lets reach the disk lies above what was handed out.
LEMMA WritingAboveIssued ==
  TypeInv /\ Monitor /\ Reservation => \A w \in Writing : \A i \in issued : i < w
<1> SUFFICES ASSUME TypeInv, Monitor, Reservation, up, NEW w \in Writing, NEW i \in issued
             PROVE  i < w
  BY DEF Writing
<1>0. /\ mem \in Nat /\ reservedEnd \in Nat /\ cursor \in Nat /\ i \in Nat /\ i < mem
      /\ refillFrom \in Nat
      /\ loaded /\ refillPc # "raised" => mem = reservedEnd
      /\ refillPc # "none" => loaded /\ refillFrom = reservedEnd
      /\ reserving <=> refillPc # "none"
  BY DEF TypeInv, TypeOK, StoreTypes, EntityTypes, HistoryTypes, RefillTypes, Monitor,
         TokenIsRefill, Reservation, MarksAboveIssued, MarkMatchesWindow
<1>1. CASE w = mem
  BY <1>0, <1>1
<1>2. ASSUME NEW p \in Procs, pc[p] = "setting", w = call[p].target PROVE i < w
  BY <1>2 DEF Reservation, TargetsAboveIssued
<1>3. ASSUME NEW p \in Procs, pc[p] = "locked", call[p].op = "next",
             Remaining < call[p].n, ~RefillOut,
             w = reservedEnd + Grow(call[p].n - Remaining)
      PROVE  i < w
  <2>1. call[p].n - Remaining \in Nat \ {0}
    BY <1>0, <1>3, CallFields DEF TypeInv, TypeOK, ProcTypes, Remaining
  <2>2. loaded /\ refillPc = "none"
    BY <1>0, <1>3 DEF Monitor, InsideIsLoaded, RefillOut
  <2> QED
    BY <1>0, <1>3, <2>1, <2>2, GrowCovers
<1>4. CASE refillPc = "raise" /\ w = refillFrom + SegmentSize
  BY <1>0, <1>4
<1> QED
  BY <1>1, <1>2, <1>3, <1>4 DEF Writing

LEMMA ReservationStep ==
  ResetsSynced /\ TypeInv /\ Monitor /\ Reservation /\ [Next]_vars => Reservation'
<1> SUFFICES ASSUME ResetsSynced, TypeInv, Monitor, Reservation, [Next]_vars
             PROVE  Reservation'
  OBVIOUS
<1>0. /\ StoreTypes /\ EntityTypes /\ RefillTypes /\ ProcTypes /\ HistoryTypes
      /\ MutexHeld /\ DownIsQuiet /\ InsideIsLoaded /\ TokenIsRefill /\ NoRefillDuringSet
      /\ NoReissue /\ MarksAboveIssued /\ CursorAboveIssued /\ MarkMatchesWindow
      /\ ImagesCoverWindow /\ TargetsAboveIssued
  BY DEF TypeInv, TypeOK, Monitor, Reservation
<1>1. ASSUME NEW p \in Procs, NEW c \in NextCalls \cup ResetCalls, Start(p, c) PROVE Reservation'
  BY <1>0, <1>1
     DEF Reservation, NoReissue, MarksAboveIssued, CursorAboveIssued, MarkMatchesWindow,
         ImagesCoverWindow, TargetsAboveIssued, Images, DownIsQuiet, ProcTypes, Start,
         storeVars, entityVars, refillVars, procVars, historyVars
<1>2. ASSUME NEW p \in Procs, EnterNext(p) PROVE Reservation'
  <2>a. ~loaded => cursor' = mem /\ reservedEnd' = mem /\ refillPc = "none"
    BY <1>0, <1>2 DEF EnterNext, Load, TokenIsRefill
  <2>b. loaded => UNCHANGED <<cursor, reservedEnd>>
    BY <1>2 DEF EnterNext, Load
  <2>1. NoReissue'
    BY <1>0, <1>2
       DEF NoReissue, historyVars, EnterNext
  <2>2. MarksAboveIssued'
    BY <1>0, <1>2, SameImages
       DEF MarksAboveIssued, historyVars, EnterNext
  <2>3. CursorAboveIssued'
    BY <1>0, <1>2, <2>a, <2>b
       DEF CursorAboveIssued, entityVars, historyVars, EnterNext, MarksAboveIssued,
           StoreTypes
  <2>4. MarkMatchesWindow'
    BY <1>0, <1>2, <2>a, <2>b, SameImages
       DEF MarkMatchesWindow, entityVars, refillVars, EnterNext, StoreTypes
  <2>5. ImagesCoverWindow'
    BY <1>0, <1>2, <2>a, <2>b, SameImages
       DEF ImagesCoverWindow, entityVars, refillVars, EnterNext, StoreTypes
  <2>6. TargetsAboveIssued'
    BY <1>0, <1>2
       DEF TargetsAboveIssued, procVars, historyVars, EnterNext, Return, Hold, ProcTypes
  <2> QED
    BY <2>1, <2>2, <2>3, <2>4, <2>5, <2>6 DEF Reservation
<1>3. ASSUME NEW p \in Procs, ReserveInline(p) PROVE Reservation'
  <2> DEFINE end == reservedEnd + Grow(call[p].n - Remaining)
  <2>a. loaded /\ loaded' = loaded /\ refillPc = "none" /\ mem = reservedEnd /\ mem \in Nat
    BY <1>0, <1>3
       DEF ReserveInline, RefillOut, InsideIsLoaded, TokenIsRefill, MarkMatchesWindow,
           StoreTypes
  <2>b. end \in Nat /\ end > mem /\ ~(end <= mem)
    <3>1. call[p].n - Remaining \in Nat \ {0}
      BY <1>0, <1>3, CallFields DEF ReserveInline, ProcTypes, EntityTypes, Remaining
    <3>2. /\ Grow(call[p].n - Remaining) \in Nat
          /\ Grow(call[p].n - Remaining) >= call[p].n - Remaining
      BY <3>1, GrowCovers
    <3> QED
      BY <2>a, <3>1, <3>2
  <2>c. \/ mem' = end /\ Images' = {end} /\ reservedEnd' = end
        \/ mem' = mem /\ Images' \subseteq Images \cup {end} /\ reservedEnd' = reservedEnd
    BY <1>3, <2>b, RaiseEffect DEF ReserveInline
  <2> HIDE DEF end
  <2>1. NoReissue'
    BY <1>0, <1>3
       DEF NoReissue, historyVars, ReserveInline
  <2>2. MarksAboveIssued'
    BY <1>0, <1>3, <2>a, <2>b, <2>c
       DEF MarksAboveIssued, historyVars, ReserveInline, StoreTypes, HistoryTypes
  <2>3. CursorAboveIssued'
    BY <1>0, <1>3, <2>a, <2>b, <2>c
       DEF CursorAboveIssued, entityVars, historyVars, ReserveInline, EntityTypes
  <2>4. MarkMatchesWindow'
    BY <1>0, <1>3, <2>a, <2>b, <2>c
       DEF MarkMatchesWindow, entityVars, refillVars, ReserveInline
  <2>5. ImagesCoverWindow'
    BY <1>0, <1>3, <2>a, <2>b, <2>c
       DEF ImagesCoverWindow, entityVars, refillVars, ReserveInline, EntityTypes
  <2>6. TargetsAboveIssued'
    BY <1>0, <1>3
       DEF TargetsAboveIssued, procVars, historyVars, ReserveInline, Return, ProcTypes
  <2> QED
    BY <2>1, <2>2, <2>3, <2>4, <2>5, <2>6 DEF Reservation
<1>4. ASSUME NEW p \in Procs, TakeBlock(p) PROVE Reservation'
  <2>a. loaded /\ loaded' = loaded /\ mutex = p /\ call[p].n \in Nat \ {0}
    BY <1>0, <1>4, CallFields DEF TakeBlock, InsideIsLoaded, MutexHeld, ProcTypes
  <2>b. \A q \in Procs : pc'[q] # "setting"
    BY <1>0, <1>4, <2>a DEF TakeBlock, MutexHeld, Return, ProcTypes
  <2>c. /\ cursor < reservedEnd /\ cursor' <= reservedEnd /\ cursor' = cursor + call[p].n
        /\ reservedEnd' = reservedEnd /\ cursor \in Nat /\ reservedEnd \in Nat
    BY <1>0, <1>4, <2>a DEF TakeBlock, Remaining, EntityTypes
  <2>e. mem \in Nat /\ reservedEnd <= mem
    BY <1>0, <2>a, <2>c DEF MarkMatchesWindow, StoreTypes
  <2>f. \A m \in Images : m \in Nat /\ m >= reservedEnd
    BY <1>0, <2>a, <2>c DEF ImagesCoverWindow, StoreTypes, Images
  <2>d. /\ issued' = issued \cup (cursor .. (cursor' - 1))
        /\ reissued' = reissued \cup (issued \cap (cursor .. (cursor' - 1)))
        /\ mem' = mem /\ Images' = Images
    BY <1>4, <2>a, <2>c, SameImages DEF TakeBlock
  <2>1. NoReissue'
    BY <1>0, <1>4, <2>a, <2>c, <2>d
       DEF NoReissue, historyVars, TakeBlock, CursorAboveIssued, HistoryTypes
  <2>2. MarksAboveIssued'
    BY <1>0, <1>4, <2>a, <2>c, <2>d, <2>e, <2>f
       DEF MarksAboveIssued, historyVars, TakeBlock, CursorAboveIssued, HistoryTypes
  <2>3. CursorAboveIssued'
    BY <1>0, <1>4, <2>a, <2>c, <2>d
       DEF CursorAboveIssued, entityVars, historyVars, TakeBlock, HistoryTypes
  <2>4. MarkMatchesWindow'
    BY <1>0, <1>4, <2>a, <2>c, <2>d, <2>e
       DEF MarkMatchesWindow, entityVars, refillVars, TakeBlock, MaybeRefill, TokenIsRefill
  <2>5. ImagesCoverWindow'
    BY <1>0, <1>4, <2>a, <2>c, <2>d, <2>f
       DEF ImagesCoverWindow, entityVars, refillVars, TakeBlock, MaybeRefill, TokenIsRefill
  <2>6. TargetsAboveIssued'
    BY <1>0, <1>4, <2>b
       DEF TargetsAboveIssued, procVars, historyVars, TakeBlock
  <2> QED
    BY <2>1, <2>2, <2>3, <2>4, <2>5, <2>6 DEF Reservation
<1>5. ASSUME NEW p \in Procs, EnterReset(p) PROVE Reservation'
  <2>a. ~loaded => cursor' = mem /\ reservedEnd' = mem /\ refillPc = "none"
    BY <1>0, <1>5 DEF EnterReset, Load, TokenIsRefill
  <2>b. loaded => UNCHANGED <<cursor, reservedEnd>>
    BY <1>5 DEF EnterReset, Load
  <2>1. NoReissue'
    BY <1>0, <1>5
       DEF NoReissue, historyVars, EnterReset
  <2>2. MarksAboveIssued'
    BY <1>0, <1>5, SameImages
       DEF MarksAboveIssued, historyVars, EnterReset
  <2>3. CursorAboveIssued'
    BY <1>0, <1>5, <2>a, <2>b
       DEF CursorAboveIssued, entityVars, historyVars, EnterReset, MarksAboveIssued,
           StoreTypes
  <2>4. MarkMatchesWindow'
    BY <1>0, <1>5, <2>a, <2>b, SameImages
       DEF MarkMatchesWindow, entityVars, refillVars, EnterReset, StoreTypes
  <2>5. ImagesCoverWindow'
    BY <1>0, <1>5, <2>a, <2>b, SameImages
       DEF ImagesCoverWindow, entityVars, refillVars, EnterReset, StoreTypes
  <2>6. TargetsAboveIssued'
    BY <1>0, <1>5
       DEF TargetsAboveIssued, procVars, historyVars, EnterReset, Hold, ProcTypes
  <2> QED
    BY <2>1, <2>2, <2>3, <2>4, <2>5, <2>6 DEF Reservation
<1>6. ASSUME NEW p \in Procs, RefuseReset(p) PROVE Reservation'
  BY <1>0, <1>6
     DEF Reservation, NoReissue, MarksAboveIssued, CursorAboveIssued, MarkMatchesWindow,
         ImagesCoverWindow, TargetsAboveIssued, Images, DownIsQuiet, ProcTypes,
         RefuseReset, Return, storeVars, entityVars, refillVars, procVars, historyVars
<1>7. ASSUME NEW p \in Procs, ApproveReset(p) PROVE Reservation'
  <2>a. loaded /\ mutex = p /\ issued' \subseteq issued
    BY <1>0, <1>7 DEF ApproveReset, InsideIsLoaded, MutexHeld
  <2>b. \A q \in Procs : pc'[q] = "setting" => q = p
    BY <1>0, <1>7, <2>a DEF ApproveReset, MutexHeld, ProcTypes
  <2>c. \A i \in issued' : i < call[p].target
    <3>1. CASE call[p].force
      BY <1>7, <3>1 DEF ApproveReset
    <3>2. CASE ~call[p].force
      <4>1. cursor <= call[p].target /\ issued' = issued /\ call[p].target \in Nat
        BY <1>0, <1>7, <3>2, CallFields DEF ApproveReset, Backward, EntityTypes, ProcTypes
      <4> QED
        BY <1>0, <2>a, <4>1 DEF CursorAboveIssued, EntityTypes, HistoryTypes
    <3> QED
      BY <3>1, <3>2
  <2>1. NoReissue'
    BY <1>0, <1>7
       DEF NoReissue, historyVars, ApproveReset
  <2>2. MarksAboveIssued'
    BY <1>0, <1>7, <2>a, SameImages
       DEF MarksAboveIssued, historyVars, ApproveReset
  <2>3. CursorAboveIssued'
    BY <1>0, <1>7, <2>a
       DEF CursorAboveIssued, entityVars, historyVars, ApproveReset
  <2>4. MarkMatchesWindow'
    BY <1>0, <1>7, SameImages
       DEF MarkMatchesWindow, entityVars, refillVars, ApproveReset
  <2>5. ImagesCoverWindow'
    BY <1>0, <1>7, SameImages
       DEF ImagesCoverWindow, entityVars, refillVars, ApproveReset
  <2>6. TargetsAboveIssued'
    BY <1>0, <1>7, <2>b, <2>c
       DEF TargetsAboveIssued, procVars, historyVars, ApproveReset
  <2> QED
    BY <2>1, <2>2, <2>3, <2>4, <2>5, <2>6 DEF Reservation
<1>8. ASSUME NEW p \in Procs, DoReset(p) PROVE Reservation'
  <2>a. /\ loaded /\ loaded' = loaded /\ refillPc = "none" /\ refillPc' = refillPc
        /\ call[p].target \in Nat /\ call[p].target \in ResetTargets
    BY <1>0, <1>8, CallFields
       DEF DoReset, InsideIsLoaded, NoRefillDuringSet, ProcTypes, SettingIsReset,
           TypeInv, refillVars
  <2>b. SetMarkFails(call[p].target) => UNCHANGED storeVars
    BY <2>a DEF ResetsSynced, SetMarkFails, FlushFails
  <2>c. \/ /\ mem' = call[p].target /\ Images' = {call[p].target}
           /\ cursor' = call[p].target /\ reservedEnd' = call[p].target
        \/ mem' = mem /\ Images' = Images /\ UNCHANGED <<cursor, reservedEnd>>
    BY <1>8, <2>b, SetEffect, SameImages DEF DoReset
  <2>d. \A i \in issued : i < call[p].target
    BY <1>0, <1>8 DEF DoReset, TargetsAboveIssued
  <2>1. NoReissue'
    BY <1>0, <1>8
       DEF NoReissue, historyVars, DoReset
  <2>2. MarksAboveIssued'
    BY <1>0, <1>8, <2>c, <2>d
       DEF MarksAboveIssued, historyVars, DoReset
  <2>3. CursorAboveIssued'
    BY <1>0, <1>8, <2>a, <2>c, <2>d
       DEF CursorAboveIssued, entityVars, historyVars, DoReset
  <2>4. MarkMatchesWindow'
    BY <1>0, <1>8, <2>a, <2>c
       DEF MarkMatchesWindow, entityVars, refillVars, DoReset
  <2>5. ImagesCoverWindow'
    BY <1>0, <1>8, <2>a, <2>c
       DEF ImagesCoverWindow, entityVars, refillVars, DoReset
  <2>6. TargetsAboveIssued'
    BY <1>0, <1>8
       DEF TargetsAboveIssued, procVars, historyVars, DoReset, Return, ProcTypes
  <2> QED
    BY <2>1, <2>2, <2>3, <2>4, <2>5, <2>6 DEF Reservation
<1>9. ASSUME NEW p \in Procs, WaitForRefill(p) PROVE Reservation'
  BY <1>0, <1>9
     DEF Reservation, NoReissue, MarksAboveIssued, CursorAboveIssued, MarkMatchesWindow,
         ImagesCoverWindow, TargetsAboveIssued, Images, DownIsQuiet, ProcTypes,
         WaitForRefill, storeVars, entityVars, refillVars, procVars, historyVars
<1>10. ASSUME NEW p \in Procs, Reacquire(p) PROVE Reservation'
  BY <1>0, <1>10
     DEF Reservation, NoReissue, MarksAboveIssued, CursorAboveIssued, MarkMatchesWindow,
         ImagesCoverWindow, TargetsAboveIssued, Images, DownIsQuiet, ProcTypes,
         Reacquire, Hold, storeVars, entityVars, refillVars, procVars, historyVars
<1>11. CASE RefillRaise
  <2> DEFINE to == refillFrom + SegmentSize
  <2>a. /\ loaded /\ loaded' = loaded /\ refillFrom = reservedEnd /\ mem = reservedEnd
        /\ to \in Nat /\ to > mem /\ ~(to <= mem) /\ mem \in Nat
    BY <1>0, <1>11
       DEF RefillRaise, TokenIsRefill, MarkMatchesWindow, StoreTypes, RefillTypes,
           entityVars
  <2>b. \/ mem' = to /\ Images' = {to} /\ refillPc' = "raised"
        \/ mem' = mem /\ Images' \subseteq Images \cup {to} /\ refillPc' = "failed"
    BY <1>11, <2>a, RaiseEffect DEF RefillRaise
  <2>1. NoReissue'
    BY <1>0, <1>11
       DEF NoReissue, historyVars, RefillRaise
  <2>2. MarksAboveIssued'
    BY <1>0, <1>11, <2>a, <2>b
       DEF MarksAboveIssued, historyVars, RefillRaise, StoreTypes, HistoryTypes
  <2>3. CursorAboveIssued'
    BY <1>0, <1>11
       DEF CursorAboveIssued, entityVars, historyVars, RefillRaise
  <2>4. MarkMatchesWindow'
    BY <1>0, <1>11, <2>a, <2>b
       DEF MarkMatchesWindow, entityVars, refillVars, RefillRaise
  <2>5. ImagesCoverWindow'
    BY <1>0, <1>11, <2>a, <2>b
       DEF ImagesCoverWindow, entityVars, refillVars, RefillRaise
  <2>6. TargetsAboveIssued'
    BY <1>0, <1>11
       DEF TargetsAboveIssued, procVars, historyVars, RefillRaise
  <2> QED
    BY <2>1, <2>2, <2>3, <2>4, <2>5, <2>6 DEF Reservation
<1>12. CASE RefillApply
  <2>a. /\ loaded /\ loaded' = loaded /\ refillFrom = reservedEnd /\ refillPc' = "none"
        /\ reservedEnd \in Nat /\ cursor \in Nat /\ mem' = mem /\ Images' = Images
        /\ reservedEnd' = IF refillPc = "raised" THEN reservedEnd + SegmentSize ELSE reservedEnd
    BY <1>0, <1>12, SameImages DEF RefillApply, TokenIsRefill, EntityTypes
  <2>1. NoReissue'
    BY <1>0, <1>12
       DEF NoReissue, historyVars, RefillApply
  <2>2. MarksAboveIssued'
    BY <1>0, <1>12, <2>a
       DEF MarksAboveIssued, historyVars, RefillApply
  <2>3. CursorAboveIssued'
    BY <1>0, <1>12, <2>a
       DEF CursorAboveIssued, entityVars, historyVars, RefillApply
  <2>4. MarkMatchesWindow'
    BY <1>0, <1>12, <2>a
       DEF MarkMatchesWindow, entityVars, refillVars, RefillApply
  <2>5. ImagesCoverWindow'
    BY <1>0, <1>12, <2>a
       DEF ImagesCoverWindow, entityVars, refillVars, RefillApply
  <2>6. TargetsAboveIssued'
    BY <1>0, <1>12
       DEF TargetsAboveIssued, procVars, historyVars, RefillApply, Broadcast, ProcTypes
  <2> QED
    BY <2>1, <2>2, <2>3, <2>4, <2>5, <2>6 DEF Reservation
<1>13. CASE OtherFlush
  <2>a. mem' = mem /\ Images' \subseteq Images \cup {mem} /\ mem \in Nat /\ reservedEnd \in Nat
    BY <1>0, <1>13, OthersEffect DEF OtherFlush, StoreTypes, EntityTypes
  <2>b. refillPc # "none" => loaded
    BY <1>0 DEF TokenIsRefill
  <2>1. NoReissue'
    BY <1>0, <1>13
       DEF NoReissue, historyVars, OtherFlush
  <2>2. MarksAboveIssued'
    BY <1>0, <1>13, <2>a
       DEF MarksAboveIssued, historyVars, OtherFlush
  <2>3. CursorAboveIssued'
    BY <1>0, <1>13
       DEF CursorAboveIssued, entityVars, historyVars, OtherFlush
  <2>4. MarkMatchesWindow'
    BY <1>0, <1>13, <2>a
       DEF MarkMatchesWindow, entityVars, refillVars, OtherFlush
  <2>5. ImagesCoverWindow'
    BY <1>0, <1>13, <2>a, <2>b
       DEF ImagesCoverWindow, entityVars, refillVars, OtherFlush, MarkMatchesWindow
  <2>6. TargetsAboveIssued'
    BY <1>0, <1>13
       DEF TargetsAboveIssued, procVars, historyVars, OtherFlush
  <2> QED
    BY <2>1, <2>2, <2>3, <2>4, <2>5, <2>6 DEF Reservation
<1>14. CASE Kill
  <2>a. mem' \in Images' /\ Images' \subseteq Images \cup Writing
    BY <1>14, CrashEffect DEF Kill
  <2>1. NoReissue'
    BY <1>0, <1>14
       DEF NoReissue, historyVars, Kill
  <2>2. MarksAboveIssued'
    BY <1>0, <1>14, <2>a, WritingAboveIssued
       DEF MarksAboveIssued, historyVars, Kill
  <2>3. CursorAboveIssued'
    BY <1>0, <1>14
       DEF CursorAboveIssued, entityVars, historyVars, Kill, ProcessGone
  <2>4. MarkMatchesWindow'
    BY <1>0, <1>14
       DEF MarkMatchesWindow, entityVars, refillVars, Kill, ProcessGone
  <2>5. ImagesCoverWindow'
    BY <1>0, <1>14
       DEF ImagesCoverWindow, entityVars, refillVars, Kill, ProcessGone
  <2>6. TargetsAboveIssued'
    BY <1>0, <1>14
       DEF TargetsAboveIssued, procVars, historyVars, Kill, ProcessGone
  <2> QED
    BY <2>1, <2>2, <2>3, <2>4, <2>5, <2>6 DEF Reservation
<1>15. CASE PowerLoss
  <2>a. mem' \in Images' /\ Images' \subseteq Images \cup Writing
    BY <1>15, CrashEffect DEF PowerLoss
  <2>1. NoReissue'
    BY <1>0, <1>15
       DEF NoReissue, historyVars, PowerLoss
  <2>2. MarksAboveIssued'
    BY <1>0, <1>15, <2>a, WritingAboveIssued
       DEF MarksAboveIssued, historyVars, PowerLoss
  <2>3. CursorAboveIssued'
    BY <1>0, <1>15
       DEF CursorAboveIssued, entityVars, historyVars, PowerLoss, ProcessGone
  <2>4. MarkMatchesWindow'
    BY <1>0, <1>15
       DEF MarkMatchesWindow, entityVars, refillVars, PowerLoss, ProcessGone
  <2>5. ImagesCoverWindow'
    BY <1>0, <1>15
       DEF ImagesCoverWindow, entityVars, refillVars, PowerLoss, ProcessGone
  <2>6. TargetsAboveIssued'
    BY <1>0, <1>15
       DEF TargetsAboveIssued, procVars, historyVars, PowerLoss, ProcessGone
  <2> QED
    BY <2>1, <2>2, <2>3, <2>4, <2>5, <2>6 DEF Reservation
<1>16. CASE Restart
  BY <1>0, <1>16
     DEF Reservation, NoReissue, MarksAboveIssued, CursorAboveIssued, MarkMatchesWindow,
         ImagesCoverWindow, TargetsAboveIssued, Images, DownIsQuiet, ProcTypes, Restart,
         OpenStore, storeVars, entityVars, refillVars, procVars, historyVars
<1>17. CASE CliReset
  <2>a. issued' \subseteq issued /\ ~loaded' /\ refillPc' = "none"
    BY <1>0, <1>17 DEF CliReset, DownIsQuiet, entityVars, refillVars
  <2>b. PICK target \in ResetTargets, force \in Forces :
          /\ target >= file \/ force
          /\ SetMarkOK(target) \/ StoreKill({target})
          /\ issued' = IF force THEN {i \in issued : i < target} ELSE issued
    BY <1>17 DEF CliReset
  <2>c. mem' \in Images' /\ Images' \subseteq Images \cup {target}
    BY <2>b, SetEffect, CrashEffect
  <2>d. target \in Nat /\ file \in Nat /\ file \in Images
    BY <1>0 DEF StoreTypes, Images
  <2>e. \A i \in issued' : i < target
    BY <1>0, <2>b, <2>d DEF MarksAboveIssued, HistoryTypes
  <2>1. NoReissue'
    BY <1>0, <1>17
       DEF NoReissue, historyVars, CliReset
  <2>2. MarksAboveIssued'
    BY <1>0, <1>17, <2>a, <2>c, <2>e
       DEF MarksAboveIssued, historyVars, CliReset
  <2>3. CursorAboveIssued'
    BY <1>0, <1>17, <2>a
       DEF CursorAboveIssued, entityVars, historyVars, CliReset
  <2>4. MarkMatchesWindow'
    BY <1>0, <1>17, <2>a
       DEF MarkMatchesWindow, entityVars, refillVars, CliReset
  <2>5. ImagesCoverWindow'
    BY <1>0, <1>17, <2>a
       DEF ImagesCoverWindow, entityVars, refillVars, CliReset
  <2>6. TargetsAboveIssued'
    BY <1>0, <1>17
       DEF TargetsAboveIssued, procVars, historyVars, CliReset, DownIsQuiet
  <2> QED
    BY <2>1, <2>2, <2>3, <2>4, <2>5, <2>6 DEF Reservation
<1>18. CASE UNCHANGED vars
  BY <1>0, <1>18
     DEF Reservation, NoReissue, MarksAboveIssued, CursorAboveIssued, MarkMatchesWindow,
         ImagesCoverWindow, TargetsAboveIssued, Images, DownIsQuiet, ProcTypes, vars,
         storeVars, entityVars, refillVars, procVars, historyVars
<1> QED
  BY <1>1, <1>2, <1>3, <1>4, <1>5, <1>6, <1>7, <1>8, <1>9, <1>10, <1>11, <1>12,
     <1>13, <1>14, <1>15, <1>16, <1>17, <1>18
     DEF Next, ProcStep, StartNext, StartReset
--------------------------------------------------------------------------------
(* The theorems. *)

\* Monitor needs no assumption about the disk.
THEOREM MonitorCorrect == Spec => []Monitor
<1> QED
  BY TypeInit, TypeStep, MonitorInit, MonitorStep, PTL DEF Spec

\* Mutex, token, window, marks on disk and history fit together in every reachable
\* state: the invariant the four theorems below are read off.
THEOREM ReservationCorrect == ASSUME ResetsSynced PROVE Spec => []IndInv
<1>1. Init => TypeInv /\ Monitor /\ Reservation
  BY TypeInit, MonitorInit, ReservationInit
<1>2. TypeInv /\ Monitor /\ Reservation /\ [Next]_vars
        => (TypeInv /\ Monitor /\ Reservation)'
  BY ResetsSynced, TypeStep, MonitorStep, ReservationStep
<1>3. TypeInv /\ Monitor /\ Reservation => IndInv
  BY DEF TypeInv, IndInv
<1> QED
  BY <1>1, <1>2, <1>3, PTL DEF Spec

\* No iteration is ever handed out twice.
THEOREM NothingReissued == ASSUME ResetsSynced PROVE Spec => []NoReissue
<1>1. IndInv => NoReissue
  BY DEF IndInv, Reservation
<1> QED
  BY <1>1, ReservationCorrect, PTL

\* A crash or a power loss at any moment leaves a mark above all that was issued.
THEOREM MarksSurviveCrashes == ASSUME ResetsSynced PROVE Spec => []DurableAboveIssued
<1>1. IndInv => DurableAboveIssued
  BY DEF IndInv, Reservation, MarksAboveIssued, DurableAboveIssued
<1> QED
  BY <1>1, ReservationCorrect, PTL

\* The window ends at the durable mark whenever no refill is in flight.
THEOREM WindowEndsAtMark == ASSUME ResetsSynced PROVE Spec => []ReservationIsDurable
<1>1. IndInv => ReservationIsDurable
  BY DEF IndInv, Monitor, TokenIsRefill, Reservation, MarkMatchesWindow,
         ReservationIsDurable
<1> QED
  BY <1>1, ReservationCorrect, PTL

\* What is left in the window is reserved in every image a crash can leave.
THEOREM WindowOwned == ASSUME ResetsSynced PROVE Spec => []WindowIsOwned
<1>1. IndInv => WindowIsOwned
  <2> SUFFICES ASSUME IndInv, up, loaded, NEW i \in cursor .. (reservedEnd - 1),
                      NEW m \in Images
               PROVE  i < m
    BY DEF WindowIsOwned
  <2>1. cursor \in Nat /\ reservedEnd \in Nat /\ m \in Nat
    BY DEF IndInv, TypeOK, EntityTypes, StoreTypes, Images
  <2>2. m >= reservedEnd
    BY <2>1 DEF IndInv, Reservation, ImagesCoverWindow
  <2> QED
    BY <2>1, <2>2
<1> QED
  BY <1>1, ReservationCorrect, PTL
================================================================================
