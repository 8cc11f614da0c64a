------------------------------- MODULE ForgeProofs ------------------------------
(* The forge never repeats a pair and its leases survive every crash, for any *)
(* lease, tolerance, clock and failures; the bits of an ID tell the pairs of  *)
(* all shards apart, for any layout.                                          *)
EXTENDS MCForge, IntegerDivision, TLAPS

--------------------------------------------------------------------------------
(* Types. *)

\* What raising the mark leaves in the store, whether the flush fails or not.
LEMMA RaiseTypes ==
  ASSUME mem \in Nat, file \in Nat, durable \subseteq Nat, NEW c \in Nat,
         RaiseMarkOK(c) \/ RaiseMarkFails(c)
  PROVE  mem' \in Nat /\ file' \in Nat /\ durable' \subseteq Nat
<1>1. CASE RaiseMarkOK(c)
  <2>1. CASE c <= mem
    BY <1>1, <2>1 DEF RaiseMarkOK, storeVars
  <2>2. CASE ~(c <= mem)
    BY <1>1, <2>2 DEF RaiseMarkOK, FlushOK
  <2> QED
    BY <2>1, <2>2
<1>2. CASE RaiseMarkFails(c)
  BY <1>2 DEF RaiseMarkFails, FlushFails, storeVars
<1> QED
  BY <1>1, <1>2

LEMMA TypesInit == Init => TypeOK
<1> SUFFICES ASSUME Init PROVE TypeOK
  OBVIOUS
<1>1. failed \in BOOLEAN /\ rewound \in BOOLEAN
  BY Zenon DEF Init
<1>2. mem \in Nat /\ file \in Nat /\ durable \subseteq Nat
  BY DEF Init, StoreInit
<1>3. minted \subseteq Nat \X (0..MaxSequence) /\ repeated \subseteq minted
  BY DEF Init
<1>4. /\ now \in 1..MaxTime /\ ts \in Nat /\ pc \in {"off"} /\ leaseUntil \in Nat
      /\ lastTimestamp \in Nat \cup {-1} /\ sequence \in 0..MaxSequence
      /\ stepsBack \in 0..MaxStepsBack /\ ids \in 0..MaxIDs /\ crashes \in 0..MaxCrashes
  BY ForgeAssumption DEF Init
<1> QED
  BY <1>1, <1>2, <1>3, <1>4 DEF TypeOK

LEMMA TypesStep == TypeOK /\ [Next]_vars => TypeOK'
<1> SUFFICES ASSUME TypeOK, [Next]_vars PROVE TypeOK'
  OBVIOUS
<1> USE ForgeAssumption
    DEF TypeOK, storeVars, clockVars, forgeVars, mintVars, failVars
<1>1. CASE Clock
  BY <1>1 DEF Clock, Tick, StepBack
<1>2. CASE Boot
  BY <1>2 DEF Boot, OpenStore
<1>3. CASE Ready
  BY <1>3 DEF Ready, ResumeFrom
<1>4. CASE Begin
  BY <1>4 DEF Begin
<1>5. CASE CatchUp
  BY <1>5 DEF CatchUp
<1>6. CASE Stamp
  <2>1. (sequence + 1) % (MaxSequence + 1) \in 0..MaxSequence
    BY Division
  <2> QED
    BY <1>6, <2>1 DEF Stamp
<1>7. CASE NextMillisecond
  BY <1>7 DEF NextMillisecond
<1>8. CASE RenewLease
  <2>1. mem' \in Nat /\ file' \in Nat /\ durable' \subseteq Nat
    <3>1. ts + Lease \in Nat
      OBVIOUS
    <3> QED
      BY <1>8, <3>1, RaiseTypes DEF RenewLease
  <2>2. failed' \in BOOLEAN
    BY <1>8, Zenon DEF RenewLease
  <2>3. leaseUntil' \in Nat /\ pc' \in {"idle", "lease"}
    BY <1>8 DEF RenewLease
  <2> QED
    BY <1>8, <2>1, <2>2, <2>3 DEF RenewLease
<1>9. CASE Mint
  <2>1. failed' \in BOOLEAN
    BY <1>9, Zenon DEF Mint
  <2>2. minted' \subseteq Nat \X (0..MaxSequence) /\ repeated' \subseteq minted'
    BY <1>9 DEF Mint
  <2> QED
    BY <1>9, <2>1, <2>2 DEF Mint
<1>10. CASE Crash
  <2>1. Writing \subseteq Nat
    BY DEF Writing
  <2> QED
    <3>1. mem' \in Nat /\ file' \in Nat /\ durable' \subseteq Nat
      BY <1>10, <2>1 DEF Crash, StoreKill, StorePowerLoss
    <3>2. failed' \in BOOLEAN
      BY <1>10, Zenon DEF Crash
    <3> QED
      BY <1>10, <3>1, <3>2 DEF Crash
<1>11. CASE OtherFlush
  BY <1>11 DEF OtherFlush, FlushForOthers, FlushOK, FlushFails
<1>12. CASE UNCHANGED vars
  BY <1>12 DEF vars
<1> QED
  BY <1>1, <1>2, <1>3, <1>4, <1>5, <1>6, <1>7, <1>8, <1>9, <1>10, <1>11, <1>12
     DEF Next, Generation

\* Type correctness of the forge.
THEOREM ForgeTypes == Spec => []TypeOK
BY TypesInit, TypesStep, PTL DEF Spec

--------------------------------------------------------------------------------
(* The lease. *)

Running == {"idle", "drift", "stamp", "full", "lease"}

\* Every image, and memory, lie beyond all timestamps used; the lease in use is on disk.
LeaseOnDisk ==
  \A m \in Images \cup {mem} : leaseUntil <= m /\ \A pair \in minted : pair[1] < m

\* A running forge has not passed its mark but by its lease, and knows the last timestamp.
LastKnown ==
  pc \in Running =>
    /\ mem <= lastTimestamp \/ mem = leaseUntil
    /\ \A pair \in minted : pair[1] <= lastTimestamp

\* A timestamp chosen is not before the last one.
StampForward == pc \in {"stamp", "lease"} => ts >= lastTimestamp

LeaseInv == LeaseOnDisk /\ LastKnown /\ StampForward

LEMMA LeaseInit == Init => LeaseInv
BY DEF Init, StoreInit, Images, LeaseInv, LeaseOnDisk, LastKnown, StampForward, Running

LEMMA LeaseStep == TypeOK /\ TypeOK' /\ LeaseInv /\ [Next]_vars => LeaseInv'
<1> SUFFICES ASSUME TypeOK, TypeOK', LeaseInv, [Next]_vars PROVE LeaseInv'
  OBVIOUS
<1> USE ForgeAssumption
    DEF storeVars, clockVars, forgeVars, mintVars, failVars, Running
<1>0. /\ mem \in Nat /\ file \in Nat /\ durable \subseteq Nat /\ now \in Nat /\ ts \in Nat
      /\ lastTimestamp \in Int /\ leaseUntil \in Nat /\ Images \subseteq Nat
      /\ \A pair \in minted : pair[1] \in Nat
  BY DEF TypeOK, Images
<1>1. CASE Clock
  BY <1>1 DEF Clock, LeaseInv, LeaseOnDisk, LastKnown, StampForward, Images
<1>2. CASE Boot
  BY <1>0, <1>2 DEF Boot, OpenStore, LeaseInv, LeaseOnDisk, LastKnown, StampForward, Images
<1>3. CASE Ready
  <2>1. LeaseOnDisk'
    BY <1>0, <1>3 DEF Ready, LeaseInv, LeaseOnDisk, Images
  <2>2. LastKnown'
    BY <1>0, <1>3 DEF Ready, ResumeFrom, LeaseInv, LeaseOnDisk, LastKnown
  <2> QED
    BY <1>3, <2>1, <2>2 DEF Ready, LeaseInv, StampForward
<1>4. CASE Begin
  BY <1>0, <1>4 DEF Begin, Behind, LeaseInv, LeaseOnDisk, LastKnown, StampForward, Images
<1>5. CASE CatchUp
  BY <1>0, <1>5 DEF CatchUp, LeaseInv, LeaseOnDisk, LastKnown, StampForward, Images
<1>6. CASE Stamp
  BY <1>0, <1>6 DEF Stamp, LeaseInv, LeaseOnDisk, LastKnown, StampForward, Images
<1>7. CASE NextMillisecond
  BY <1>0, <1>7 DEF NextMillisecond, LeaseInv, LeaseOnDisk, LastKnown, StampForward, Images
<1>8. CASE RenewLease
  <2>1. ts >= lastTimestamp /\ ts >= leaseUntil /\ ts + Lease \in Nat /\ ts + Lease > mem
    BY <1>0, <1>8 DEF RenewLease, LeaseCovers, LeaseInv, LastKnown, StampForward
  <2>2. \A pair \in minted : pair[1] < ts + Lease
    BY <1>0, <1>8, <2>1 DEF RenewLease, LeaseInv, LastKnown
  <2>3. CASE RaiseMarkOK(ts + Lease) /\ leaseUntil' = ts + Lease /\ pc' = "lease"
    <3>1. mem' = ts + Lease /\ file' = ts + Lease /\ durable' = {ts + Lease}
      BY <1>0, <2>1, <2>3 DEF RaiseMarkOK, FlushOK
    <3>2. UNCHANGED <<minted, lastTimestamp, ts>>
      BY <1>8 DEF RenewLease
    <3> QED
      BY <1>0, <1>8, <2>1, <2>2, <2>3, <3>1, <3>2
      DEF RenewLease, LeaseInv, LeaseOnDisk, LastKnown, StampForward, Images
  <2>4. CASE RaiseMarkFails(ts + Lease) /\ pc' = "idle" /\ UNCHANGED leaseUntil
    <3>1. mem' = mem /\ Images' \subseteq Images \cup {ts + Lease}
      BY <2>4 DEF RaiseMarkFails, FlushFails, Images
    <3>2. UNCHANGED <<minted, lastTimestamp, ts>>
      BY <1>8 DEF RenewLease
    <3>3. LeaseOnDisk'
      BY <1>0, <2>1, <2>2, <2>4, <3>1, <3>2 DEF LeaseInv, LeaseOnDisk
    <3> QED
      BY <1>8, <2>4, <3>1, <3>2, <3>3 DEF RenewLease, LeaseInv, LastKnown, StampForward
  <2> QED
    BY <1>8, <2>3, <2>4 DEF RenewLease
<1>9. CASE Mint
  <2>1. ts < leaseUntil /\ ts >= lastTimestamp /\ minted' = minted \cup {<<ts, sequence>>}
        /\ lastTimestamp' = ts /\ pc' = "idle" /\ UNCHANGED <<storeVars, leaseUntil>>
    BY <1>9 DEF Mint, LeaseCovers, LeaseInv, StampForward
  <2>2. LeaseOnDisk'
    BY <1>0, <2>1 DEF LeaseInv, LeaseOnDisk, Images
  <2>3. LastKnown'
    BY <1>0, <1>9, <2>1 DEF Mint, LeaseInv, LastKnown
  <2> QED
    BY <2>1, <2>2, <2>3 DEF LeaseInv, StampForward
<1>10. CASE Crash
  <2>1. \A m \in Writing : m \in Nat /\ \A pair \in minted : pair[1] < m
    BY <1>0 DEF Writing, LeaseInv, LeaseOnDisk, LastKnown, StampForward
  <2>2. Images' \cup {mem'} \subseteq Images \cup Writing
    BY <1>10 DEF Crash, StoreKill, StorePowerLoss, Images
  <2>3. leaseUntil' = 0 /\ pc' = "off" /\ UNCHANGED minted
    BY <1>10 DEF Crash
  <2> QED
    <3>1. LeaseOnDisk'
      <4> SUFFICES ASSUME NEW m \in Images' \cup {mem'}
                   PROVE  leaseUntil' <= m /\ \A pair \in minted' : pair[1] < m
        BY DEF LeaseOnDisk
      <4>1. m \in Images \cup Writing
        BY <2>2
      <4>2. m \in Nat /\ \A pair \in minted : pair[1] < m
        BY <1>0, <2>1, <4>1 DEF LeaseInv, LeaseOnDisk
      <4> QED
        BY <2>3, <4>2
    <3> QED
      BY <2>3, <3>1 DEF LeaseInv, LastKnown, StampForward
<1>11. CASE OtherFlush
  <2>1. mem' = mem /\ Images' \subseteq Images \cup {mem}
    BY <1>11 DEF OtherFlush, FlushForOthers, FlushOK, FlushFails, Images
  <2> QED
    BY <1>11, <2>1 DEF OtherFlush, LeaseInv, LeaseOnDisk, LastKnown, StampForward
<1>12. CASE UNCHANGED vars
  BY <1>12 DEF vars, LeaseInv, LeaseOnDisk, LastKnown, StampForward, Images
<1> QED
  BY <1>1, <1>2, <1>3, <1>4, <1>5, <1>6, <1>7, <1>8, <1>9, <1>10, <1>11, <1>12
     DEF Next, Generation

\* Whatever image a kill or a power loss leaves, and whichever flush failed before, its
\* lease lies beyond every timestamp used.
THEOREM LeasesSurviveCrashes == Spec => []LeaseAboveMinted
<1>1. LeaseInv => LeaseAboveMinted
  BY DEF LeaseInv, LeaseOnDisk, LeaseAboveMinted
<1> QED
  BY <1>1, TypesInit, TypesStep, LeaseInit, LeaseStep, PTL DEF Spec

--------------------------------------------------------------------------------
(* The order of the pairs. *)

\* Where a generation stands between the pairs returned and the one it is to return.
InOrder ==
  ~rewound =>
    /\ repeated = {}
    /\ pc \in {"idle", "drift", "stamp"} /\ ~failed =>
         \A pair \in minted : pair[1] = lastTimestamp => pair[2] <= sequence
    /\ pc = "drift" => ~failed
    /\ pc = "stamp" /\ failed => ts > lastTimestamp
    /\ pc = "lease" /\ ts = lastTimestamp =>
         \A pair \in minted : pair[1] = ts => pair[2] < sequence

LEMMA OrderInit == Init => InOrder
BY DEF Init, InOrder

\* The pair that Mint returns is later than all before it.
LEMMA MintIsLater ==
  ASSUME TypeOK, LeaseInv, InOrder, Mint, ~rewound, NEW pair \in minted
  PROVE  Later(<<ts, sequence>>, pair)
<1>1. /\ pair[1] \in Nat /\ pair[2] \in Nat /\ ts \in Nat /\ sequence \in Nat
      /\ lastTimestamp \in Int
  BY DEF TypeOK
<1>2. pair[1] <= lastTimestamp /\ ts >= lastTimestamp
  BY DEF Mint, LeaseInv, LastKnown, StampForward, Running
<1>3. ts = lastTimestamp /\ pair[1] = ts => pair[2] < sequence
  BY DEF Mint, InOrder
<1> QED
  BY <1>1, <1>2, <1>3 DEF Later

LEMMA OrderStep == TypeOK /\ LeaseInv /\ InOrder /\ [Next]_vars => InOrder'
<1> SUFFICES ASSUME TypeOK, LeaseInv, InOrder, [Next]_vars, ~rewound' PROVE InOrder'
  BY DEF InOrder
<1> USE ForgeAssumption
    DEF storeVars, clockVars, forgeVars, mintVars, failVars
<1>0. /\ now \in Nat /\ ts \in Nat /\ lastTimestamp \in Int /\ sequence \in Nat /\ mem \in Nat
      /\ \A pair \in minted : pair[1] \in Nat /\ pair[2] \in Nat
  BY DEF TypeOK
<1>a. ~rewound
  BY DEF Next, Clock, Boot, Ready, Begin, Generation, CatchUp, Stamp, NextMillisecond,
         RenewLease, Mint, Crash, OtherFlush, vars
<1>1. CASE Clock
  BY <1>a, <1>1 DEF Clock, InOrder
<1>2. CASE Boot
  BY <1>a, <1>2 DEF Boot, InOrder
<1>3. CASE Ready
  <2>1. \A pair \in minted : pair[1] # lastTimestamp'
    <3>1. \A pair \in minted : pair[1] \in Nat /\ pair[1] < mem
      BY <1>0 DEF LeaseInv, LeaseOnDisk
    <3>2. lastTimestamp' = mem \/ lastTimestamp' = -1
      BY <1>3 DEF Ready, ResumeFrom
    <3> QED
      BY <1>0, <3>1, <3>2
  <2> QED
    BY <1>a, <1>3, <2>1 DEF Ready, InOrder
<1>4. CASE Begin
  <2>1. ~failed \/ now > lastTimestamp
    <3>1. ~(failed /\ now <= lastTimestamp)
      BY <1>4, Zenon DEF Begin
    <3> QED
      BY <1>0, <3>1
  <2>2. ts' = now /\ UNCHANGED <<minted, repeated, lastTimestamp, sequence, failed>>
        /\ pc = "idle" /\ pc' \in {"idle", "drift", "stamp"}
        /\ (pc' = "drift" => now < lastTimestamp)
    BY <1>4 DEF Begin, Behind
  <2> QED
    BY <1>0, <1>a, <2>1, <2>2 DEF InOrder
<1>5. CASE CatchUp
  BY <1>a, <1>5 DEF CatchUp, InOrder
<1>6. CASE Stamp
  <2>1. UNCHANGED <<minted, repeated, lastTimestamp, ts, failed>> /\ pc' \in {"full", "lease"}
    BY <1>6 DEF Stamp
  <2>2. CASE pc' = "lease" /\ ts = lastTimestamp
    <3>1. ~failed
      BY <1>0, <1>6, <1>a, <2>2 DEF Stamp, InOrder
    <3>2. \A pair \in minted : pair[1] = ts => pair[2] <= sequence
      BY <1>6, <1>a, <2>2, <3>1 DEF Stamp, InOrder
    <3>3. sequence' = (sequence + 1) % (MaxSequence + 1) /\ sequence' # 0
      BY <1>6, <2>2 DEF Stamp
    <3>4. sequence' = sequence + 1
      <4>1. sequence \in 0..MaxSequence /\ MaxSequence + 1 \in Nat \ {0}
        BY DEF TypeOK
      <4>2. CASE sequence = MaxSequence
        <5>1. (1 * (MaxSequence + 1) + 0) % (MaxSequence + 1) = 0
          BY <4>1, DivisionUnique
        <5> QED
          BY <3>3, <4>1, <4>2, <5>1
      <4>3. CASE sequence < MaxSequence
        <5>1. sequence + 1 \in 0 .. (MaxSequence + 1) - 1
          BY <4>1, <4>3
        <5>2. ((MaxSequence + 1) * 0 + (sequence + 1)) % (MaxSequence + 1) = sequence + 1
          BY <4>1, <5>1, DivisionUnique
        <5>3. (MaxSequence + 1) * 0 + (sequence + 1) = sequence + 1
          BY <4>1
        <5> QED
          BY <3>3, <5>2, <5>3
      <4> QED
        BY <4>1, <4>2, <4>3
    <3> QED
      BY <1>0, <1>a, <2>1, <2>2, <3>2, <3>4 DEF InOrder
  <2>3. CASE ~(pc' = "lease" /\ ts = lastTimestamp)
    BY <1>a, <2>1, <2>3 DEF InOrder
  <2> QED
    BY <2>2, <2>3
<1>7. CASE NextMillisecond
  BY <1>0, <1>a, <1>7 DEF NextMillisecond, InOrder
<1>8. CASE RenewLease
  BY <1>a, <1>8 DEF RenewLease, InOrder
<1>9. CASE Mint
  <2>1. \A pair \in minted : Later(<<ts, sequence>>, pair)
    BY <1>9, <1>a, MintIsLater
  <2>2. <<ts, sequence>> \notin minted
    BY <1>0, <2>1 DEF Later
  <2>3. repeated' = {}
    BY <1>9, <1>a, <2>2 DEF Mint, InOrder
  <2>4. \A pair \in minted' : pair[1] = ts => pair[2] <= sequence
    BY <1>0, <1>9, <2>1 DEF Mint, Later
  <2> QED
    BY <1>9, <2>3, <2>4 DEF Mint, InOrder
<1>10. CASE Crash
  BY <1>a, <1>10 DEF Crash, InOrder
<1>11. CASE OtherFlush
  BY <1>a, <1>11 DEF OtherFlush, InOrder
<1>12. CASE UNCHANGED vars
  BY <1>a, <1>12 DEF vars, InOrder
<1> QED
  BY <1>1, <1>2, <1>3, <1>4, <1>5, <1>6, <1>7, <1>8, <1>9, <1>10, <1>11, <1>12
     DEF Next, Generation

\* No (timestamp, sequence) pair is returned twice, across clock steps, restarts, lost
\* power and failed flushes, unless a generation after a failed lease write finds the
\* clock not past the last timestamp.
THEOREM PairsNeverRepeat == Spec => []NoPairRepeatedUnlessRewound
<1>1. InOrder => NoPairRepeatedUnlessRewound
  BY DEF InOrder, NoPairRepeatedUnlessRewound
<1> QED
  BY <1>1, TypesInit, TypesStep, LeaseInit, LeaseStep, OrderInit, OrderStep, PTL DEF Spec

\* Each ID is later than every ID before it, over restarts too; the same exception.
THEOREM PairsGrow == Spec => MintedInOrder
<1>1. TypeOK /\ LeaseInv /\ InOrder /\ [Next]_vars =>
        [Mint /\ ~rewound => \A old \in minted : Later(<<ts, sequence>>, old)]_vars
  BY MintIsLater
<1> QED
  BY <1>1, TypesInit, TypesStep, LeaseInit, LeaseStep, OrderInit, OrderStep, PTL
  DEF Spec, MintedInOrder

--------------------------------------------------------------------------------
(* The bits of an ID. *)

\* The times for which an ID fits an int64.
Fits(elapsed) == elapsed \in -TimestampSpan .. TimestampSpan - 1

Sequences == 0 .. SequenceSpan - 1

\* What is below the timestamp, and the ID without a wrap.
Rest(s, seq) == (s - 1) * SequenceSpan + seq

LEMMA RestFits ==
  ASSUME NEW s \in ShardIDs, NEW seq \in Sequences
  PROVE  /\ Low \in Nat \ {0} /\ Rest(s, seq) \in 0 .. Low - 1
         /\ Rest(s, seq) \div SequenceSpan = s - 1 /\ Rest(s, seq) % SequenceSpan = seq
<1> DEFINE n == SequenceSpan
           f == s - 1
<1>1. n \in Nat \ {0} /\ ShardSpan \in Nat \ {0} /\ f \in 0 .. ShardSpan - 1 /\ seq \in 0 .. n - 1
  BY SpansAssumption DEF ShardIDs, Sequences
<1> HIDE DEF n, f
<1>2. Low = ShardSpan * n /\ Rest(s, seq) = f * n + seq
  BY DEF Low, Rest, n, f
<1>3. ShardSpan * n \in Nat \ {0} /\ f * n \in Nat /\ f * n = n * f
  BY <1>1
<1>4. (ShardSpan - 1 - f) * n >= 0 /\ (ShardSpan - 1 - f) * n = ShardSpan * n - n - f * n
  BY <1>1
<1>5. f * n + seq \in 0 .. ShardSpan * n - 1
  BY <1>1, <1>3, <1>4
<1>6. (n * f + seq) \div n = f /\ (n * f + seq) % n = seq
  BY <1>1, DivisionUnique
<1> QED
  BY <1>2, <1>3, <1>5, <1>6 DEF n, f

LEMMA PackInRange ==
  ASSUME NEW e, Fits(e), NEW s \in ShardIDs, NEW seq \in Sequences
  PROVE  /\ e \in Int /\ Low \in Nat \ {0} /\ Rest(s, seq) \in 0 .. Low - 1
         /\ e * Low \in Int
         /\ Pack(e, s, seq) = e * Low + Rest(s, seq)
<1>1. e \in Int /\ TimestampSpan \in Nat \ {0} /\ -TimestampSpan <= e /\ e <= TimestampSpan - 1
  BY SpansAssumption DEF Fits
<1>2. Low \in Nat \ {0} /\ Rest(s, seq) \in 0 .. Low - 1
  BY RestFits
<1> DEFINE m == Low
           rest == Rest(s, seq)
           t == TimestampSpan
<1> HIDE DEF m, rest, t
<1>3. m \in Nat \ {0} /\ rest \in 0 .. m - 1 /\ t \in Nat \ {0} /\ -t <= e /\ e <= t - 1
  BY <1>1, <1>2 DEF m, rest, t
<1>4. (e + t) * m >= 0 /\ (e + t) * m = e * m + t * m
  BY <1>1, <1>3
<1>5. (t - 1 - e) * m >= 0 /\ (t - 1 - e) * m = t * m - m - e * m
  BY <1>1, <1>3
<1>6. e * m \in Int /\ t * m \in Int
  BY <1>1, <1>3
<1>7. e * m + rest \in -(t * m) .. t * m - 1
  BY <1>3, <1>4, <1>5, <1>6
<1>8. e * Low + ShardField(s) * SequenceSpan + seq = e * m + rest
  <2>1. s \in Int /\ seq \in Int /\ SequenceSpan \in Int /\ e * Low \in Int
    BY <1>1, <1>2, SpansAssumption DEF ShardIDs, Sequences
  <2>2. (s - 1) * SequenceSpan \in Int
    BY <2>1
  <2> QED
    BY <2>1, <2>2 DEF ShardField, Rest, m, rest
<1>9. -(t * m - 1) - 1 = -(t * m)
  BY <1>6
<1>10. Pack(e, s, seq) = e * m + rest
  BY <1>7, <1>8, <1>9 DEF Pack, Int64!Wrap, t, m
<1> QED
  BY <1>1, <1>2, <1>6, <1>10 DEF m, rest

\* Parse takes an ID apart into what it was made of, as long as the time fits: also for
\* a clock before the epoch.
THEOREM ParseInverts ==
  ASSUME NEW e, Fits(e), NEW s \in ShardIDs, NEW seq \in Sequences
  PROVE  Parse(Pack(e, s, seq)) = [elapsed |-> e, shardID |-> s, sequence |-> seq]
<1> DEFINE id == Pack(e, s, seq)
           f == s - 1
<1>1. /\ e \in Int /\ Low \in Nat \ {0} /\ Rest(s, seq) \in 0 .. Low - 1
      /\ id = e * Low + Rest(s, seq)
  BY PackInRange
<1>2. id \div Low = e
  <2>1. e * Low = Low * e
    BY <1>1
  <2>2. (Low * e + Rest(s, seq)) \div Low = e
    BY <1>1, DivisionUnique
  <2> QED
    BY <1>1, <2>1, <2>2
<1>3. /\ SequenceSpan \in Nat \ {0} /\ ShardSpan \in Nat \ {0} /\ TimestampSpan \in Nat
      /\ f \in 0 .. ShardSpan - 1 /\ seq \in 0 .. SequenceSpan - 1
  BY SpansAssumption DEF ShardIDs, Sequences
<1> HIDE DEF id, f
<1>4. ShardSpan * e + f \in Int
  BY <1>1, <1>3
<1>5. id = SequenceSpan * (ShardSpan * e + f) + seq
  <2>1. e * (ShardSpan * SequenceSpan) = SequenceSpan * (ShardSpan * e)
    BY <1>1, <1>3
  <2>2. SequenceSpan * (ShardSpan * e + f) = SequenceSpan * (ShardSpan * e) + SequenceSpan * f
    BY <1>1, <1>3
  <2>3. (s - 1) * SequenceSpan = SequenceSpan * f
    BY <1>3 DEF f, ShardIDs
  <2>4. SequenceSpan * (ShardSpan * e) \in Int /\ SequenceSpan * f \in Int
    BY <1>1, <1>3
  <2>5. Rest(s, seq) = SequenceSpan * f + seq
    BY <2>3 DEF Rest
  <2>6. id = SequenceSpan * (ShardSpan * e) + (SequenceSpan * f + seq)
    BY <1>1, <2>1, <2>5 DEF Low
  <2> QED
    BY <1>3, <2>2, <2>4, <2>6
<1>6. id \div SequenceSpan = ShardSpan * e + f /\ id % SequenceSpan = seq
  BY <1>3, <1>4, <1>5, DivisionUnique
<1>7. (ShardSpan * e + f) % ShardSpan = f
  BY <1>1, <1>3, DivisionUnique
<1>8. f + 1 = s
  BY DEF f, ShardIDs
<1> QED
  BY <1>2, <1>6, <1>7, <1>8 DEF Parse, id

\* Two IDs are equal only when time, shard and sequence number are: no two shards of a
\* cluster, and no two pairs of one shard, ever share a number.
THEOREM IDsNeverCollide ==
  ASSUME NEW d, Fits(d), NEW s \in ShardIDs, NEW m \in Sequences,
         NEW e, Fits(e), NEW t \in ShardIDs, NEW n \in Sequences,
         Pack(d, s, m) = Pack(e, t, n)
  PROVE  d = e /\ s = t /\ m = n
<1>1. Parse(Pack(d, s, m)) = [elapsed |-> d, shardID |-> s, sequence |-> m]
  BY ParseInverts
<1>2. Parse(Pack(e, t, n)) = [elapsed |-> e, shardID |-> t, sequence |-> n]
  BY ParseInverts
<1> QED
  BY <1>1, <1>2

\* Within a shard a later pair is a greater number.
THEOREM IDsGrow ==
  ASSUME NEW a, NEW b, Fits(a[1]), Fits(b[1]), a[2] \in Sequences, b[2] \in Sequences,
         Later(a, b), NEW s \in ShardIDs
  PROVE  Pack(a[1], s, a[2]) > Pack(b[1], s, b[2])
<1>1. /\ a[1] \in Int /\ Low \in Nat \ {0} /\ Rest(s, a[2]) \in 0 .. Low - 1 /\ a[1] * Low \in Int
      /\ Pack(a[1], s, a[2]) = a[1] * Low + Rest(s, a[2])
  BY PackInRange
<1>2. /\ b[1] \in Int /\ Rest(s, b[2]) \in 0 .. Low - 1 /\ b[1] * Low \in Int
      /\ Pack(b[1], s, b[2]) = b[1] * Low + Rest(s, b[2])
  BY PackInRange
<1>3. CASE a[1] > b[1]
  <2>1. (a[1] - b[1] - 1) * Low >= 0 /\ (a[1] - b[1] - 1) * Low = a[1] * Low - b[1] * Low - Low
    BY <1>1, <1>2, <1>3
  <2> QED
    BY <1>1, <1>2, <2>1
<1>4. CASE a[1] = b[1] /\ a[2] > b[2]
  <2>1. Rest(s, a[2]) > Rest(s, b[2])
    <3>1. (s - 1) * SequenceSpan \in Int
      BY SpansAssumption DEF ShardIDs
    <3> QED
      BY <1>4, <3>1 DEF Rest, Sequences
  <2> QED
    BY <1>1, <1>2, <1>4, <2>1
<1> QED
  BY <1>3, <1>4 DEF Later

--------------------------------------------------------------------------------
(* The IDs of a run. *)

\* maxSequence is the largest number of its field (forge.go:18).
SequenceFits == MaxSequence + 1 = SequenceSpan

\* The configured epoch is at most one timestamp field after the clock's zero, so that a
\* clock before the epoch still gives an elapsed time the ID can hold.
EpochFits == Epoch \in Int /\ Epoch <= TimestampSpan

\* The clock runs through the timestamp field at most twice.
ClockFits == MaxTime < 2 * TimestampSpan

\* Every timestamp was a reading of the clock.
TimesInv == ts <= MaxTime /\ \A pair \in minted : pair[1] <= MaxTime

LEMMA TimesInit == Init => TimesInv
BY ForgeAssumption DEF Init, TimesInv

LEMMA TimesStep == TypeOK /\ TimesInv /\ [Next]_vars => TimesInv'
<1> SUFFICES ASSUME TypeOK, TimesInv, [Next]_vars PROVE TimesInv'
  OBVIOUS
<1>1. now \in 1..MaxTime /\ MaxTime \in Nat /\ ts \in Nat
  BY ForgeAssumption DEF TypeOK
<1>2. ts' \in {ts, now, 0}
  BY DEF Next, Clock, Boot, Ready, Begin, Generation, CatchUp, Stamp, NextMillisecond,
         RenewLease, Mint, Crash, OtherFlush, vars
<1>3. minted' \in {minted, minted \cup {<<ts, sequence>>}}
  BY DEF Next, Clock, Boot, Ready, Begin, Generation, CatchUp, Stamp, NextMillisecond,
         RenewLease, Mint, Crash, OtherFlush, vars, mintVars
<1>4. ts' <= MaxTime
  BY <1>1, <1>2 DEF TimesInv
<1>5. \A pair \in minted' : pair[1] <= MaxTime
  BY <1>3 DEF TimesInv
<1> QED
  BY <1>4, <1>5 DEF TimesInv

\* ShardMath's Wrap for a width of 2 * m numbers.
Wrapped(m, x) == IF x \in -m .. m - 1 THEN x ELSE ((x + m) % (2 * m)) - m

\* A wrap moves a number by a whole number of spans.
LEMMA WrapShifts ==
  ASSUME NEW m \in Nat \ {0}, NEW x \in Int
  PROVE  Wrapped(m, x) \in Int /\ \E q \in Int : x = Wrapped(m, x) + (2 * m) * q
<1> PICK y : y = Wrapped(m, x)
  OBVIOUS
<1>1. CASE x \in -m .. m - 1
  BY <1>1 DEF Wrapped
<1>2. CASE x \notin -m .. m - 1
  <2>1. 2 * m \in Nat \ {0} /\ x + m \in Int
    OBVIOUS
  <2>2. PICK q \in Int, k \in 0 .. 2 * m - 1 :
           k = (x + m) % (2 * m) /\ x + m = (2 * m) * q + k
    BY <2>1, FloorDivision
  <2>3. PICK p \in Int : p = (2 * m) * q
    BY <2>1
  <2>4. y = k - m
    BY <1>2, <2>2 DEF Wrapped
  <2>5. x = y + p
    BY <2>2, <2>3, <2>4
  <2>6. y \in Int
    BY <2>4
  <2>7. x = y + (2 * m) * q
    BY <2>3, <2>5
  <2> QED
    BY <2>6, <2>7
<1> QED
  BY <1>1, <1>2

\* What Pack makes of any elapsed time, before and beyond its field.
LEMMA PackShifts ==
  ASSUME NEW e \in Int, NEW s \in ShardIDs, NEW seq \in Sequences
  PROVE  /\ Pack(e, s, seq) \in Int
         /\ \E q \in Int :
              e * Low + Rest(s, seq) = Pack(e, s, seq) + (2 * (TimestampSpan * Low)) * q
<1>1. Low \in Nat \ {0} /\ Rest(s, seq) \in Int /\ TimestampSpan \in Nat \ {0}
  BY RestFits, SpansAssumption
<1>2. PICK m \in Nat \ {0} : m = TimestampSpan * Low
  BY <1>1
<1>3. PICK x \in Int : x = e * Low + Rest(s, seq)
  BY <1>1
<1>4. x = e * Low + ShardField(s) * SequenceSpan + seq
  <2>1. s \in Int /\ seq \in Int /\ SequenceSpan \in Int /\ e * Low \in Int
    BY <1>1, SpansAssumption DEF ShardIDs, Sequences
  <2>2. (s - 1) * SequenceSpan \in Int
    BY <2>1
  <2> QED
    BY <1>3, <2>1, <2>2 DEF ShardField, Rest
<1>5. -(m - 1) - 1 = -m /\ 2 * (m - 1 + 1) = 2 * m /\ x + (m - 1) + 1 = x + m /\ (m - 1) + 1 = m
  BY <1>2, <1>3
<1>6. PICK y : y = Pack(e, s, seq)
  OBVIOUS
<1>7. y = Wrapped(m, x)
  BY <1>2, <1>4, <1>5, <1>6 DEF Pack, Int64!Wrap, Wrapped
<1>8. y \in Int /\ \E q \in Int : x = y + (2 * m) * q
  BY <1>7, WrapShifts
<1> QED
  BY <1>2, <1>3, <1>6, <1>8

\* Numbers less than one span apart that wrap to the same are the same.
LEMMA NoWholeSpan ==
  ASSUME NEW m \in Nat \ {0}, NEW x \in Int, NEW y \in Int, NEW w,
         NEW p \in Int, NEW q \in Int, x = w + m * p, y = w + m * q, w \in Int,
         x - y < m, y - x < m
  PROVE  x = y
<1>1. x - y = m * (p - q)
  BY m * p \in Int, m * q \in Int, m * (p - q) = m * p - m * q
<1>2. CASE p > q
  <2>1. m * (p - q - 1) >= 0 /\ m * (p - q - 1) = m * (p - q) - m
    BY <1>2
  <2> QED
    BY <1>1, <2>1
<1>3. CASE p < q
  <2>1. m * (q - p - 1) >= 0 /\ m * (q - p - 1) = -(m * (p - q)) - m
    BY <1>3
  <2> QED
    BY <1>1, <2>1
<1>4. CASE p = q
  BY <1>4
<1> QED
  BY <1>2, <1>3, <1>4

\* Elapsed times less than two timestamp fields apart give different IDs.
LEMMA PackTellsApart ==
  ASSUME NEW d \in Int, NEW s \in ShardIDs, NEW m \in Sequences,
         NEW e \in Int, NEW t \in ShardIDs, NEW n \in Sequences,
         d - e < 2 * TimestampSpan, e - d < 2 * TimestampSpan,
         Pack(d, s, m) = Pack(e, t, n)
  PROVE  d = e /\ s = t /\ m = n
<1> USE SpansAssumption
<1>1. PICK k \in Nat \ {0} : k = Low
  BY RestFits
<1>2. PICK a \in 0 .. k - 1 : a = Rest(s, m) /\ a \div SequenceSpan = s - 1 /\ a % SequenceSpan = m
  BY <1>1, RestFits
<1>3. PICK b \in 0 .. k - 1 : b = Rest(t, n) /\ b \div SequenceSpan = t - 1 /\ b % SequenceSpan = n
  BY <1>1, RestFits
<1>4. PICK c \in Nat \ {0} : c = 2 * (TimestampSpan * k)
  BY <1>1
<1>5. PICK w \in Int : w = Pack(d, s, m)
  BY PackShifts
<1>6. PICK p \in Int : d * k + a = w + c * p
  <2>1. PICK p \in Int : d * Low + Rest(s, m) = Pack(d, s, m) + (2 * (TimestampSpan * Low)) * p
    BY PackShifts
  <2> QED
    BY <1>1, <1>2, <1>4, <1>5, <2>1
<1>7. PICK q \in Int : e * k + b = w + c * q
  <2>1. PICK q \in Int : e * Low + Rest(t, n) = Pack(e, t, n) + (2 * (TimestampSpan * Low)) * q
    BY PackShifts
  <2> QED
    BY <1>1, <1>3, <1>4, <1>5, <2>1
<1>8. PICK x \in Int : x = d * k + a
  OBVIOUS
<1>9. PICK y \in Int : y = e * k + b
  OBVIOUS
<1>10. x - y < c /\ y - x < c
  <2>1. PICK g \in Int : g = (d - e) * k /\ g = d * k - e * k
    BY <1>1
  <2>2. x - y = g + a - b
    BY <1>8, <1>9, <2>1
  <2>3. PICK h \in Nat : h = 2 * TimestampSpan
    OBVIOUS
  <2>4. c = h * k
    BY <1>4, <2>3
  <2>5. (h - 1 - (d - e)) * k >= 0 /\ (h - 1 - (d - e)) * k = h * k - k - (d - e) * k
    BY <1>1, <2>3
  <2>6. (h - 1 + (d - e)) * k >= 0 /\ (h - 1 + (d - e)) * k = h * k - k + (d - e) * k
    BY <1>1, <2>3
  <2> QED
    BY <2>1, <2>2, <2>4, <2>5, <2>6
<1>11. x = y
  BY <1>4, <1>6, <1>7, <1>8, <1>9, <1>10, NoWholeSpan
<1>12. k * d + a = k * e + b
  BY <1>1, <1>8, <1>9, <1>11
<1>13. (k * d + a) \div k = d /\ (k * d + a) % k = a
  BY DivisionUnique
<1>14. (k * e + b) \div k = e /\ (k * e + b) % k = b
  BY DivisionUnique
<1>15. d = e /\ a = b
  BY <1>12, <1>13, <1>14
<1> QED
  BY <1>2, <1>3, <1>15 DEF ShardIDs

\* The pairs of a run, as what Pack takes.
LEMMA PairsPackable ==
  ASSUME SequenceFits, EpochFits, TypeOK, TimesInv, NEW a \in minted
  PROVE  /\ Elapsed(a) \in Int /\ a[2] \in Sequences /\ a = <<Elapsed(a) + Epoch, a[2]>>
         /\ Elapsed(a) >= -TimestampSpan
         /\ a[1] \in 0..MaxTime /\ Elapsed(a) = a[1] - Epoch
<1>1. a \in Nat \X (0..MaxSequence) /\ a[1] <= MaxTime
  BY DEF TypeOK, TimesInv
<1>2. a = <<a[1], a[2]>> /\ a[1] \in 0..MaxTime /\ a[2] \in 0..MaxSequence
  BY <1>1, ForgeAssumption
<1>3. a[2] \in Sequences
  BY <1>2, ForgeAssumption, SpansAssumption DEF SequenceFits, Sequences
<1> QED
  BY <1>2, <1>3, ForgeAssumption, SpansAssumption DEF EpochFits, Elapsed

\* In every run Parse gives back the parts of each ID returned, and a later pair is a
\* greater number, while the time fits its field: before the epoch too, over restarts
\* and failed leases.
THEOREM ParseReadsEachID ==
  ASSUME SequenceFits, EpochFits
  PROVE  Spec => []IDsReadBack
<1>1. TypeOK /\ TimesInv => IDsReadBack
  <2> SUFFICES ASSUME TypeOK, TimesInv, NEW a \in minted, Elapsed(a) < TimestampSpan,
                      NEW s \in ShardIDs
               PROVE  /\ Parse(Pack(Elapsed(a), s, a[2])) =
                           [elapsed |-> Elapsed(a), shardID |-> s, sequence |-> a[2]]
                      /\ \A b \in minted : Later(a, b) =>
                           Pack(Elapsed(a), s, a[2]) > Pack(Elapsed(b), s, b[2])
    BY Zenon DEF IDsReadBack
  <2>1. a[2] \in Sequences /\ Fits(Elapsed(a)) /\ a[1] \in Int /\ Elapsed(a) = a[1] - Epoch
    BY PairsPackable, SpansAssumption, ForgeAssumption DEF Fits
  <2>2. ASSUME NEW b \in minted, Later(a, b)
        PROVE  Pack(Elapsed(a), s, a[2]) > Pack(Elapsed(b), s, b[2])
    <3>1. /\ b[2] \in Sequences /\ b[1] \in Int /\ Elapsed(b) = b[1] - Epoch
          /\ Elapsed(b) >= -TimestampSpan /\ Elapsed(b) \in Int
      BY PairsPackable, ForgeAssumption
    <3>2. Elapsed(b) <= Elapsed(a) /\ Later(<<Elapsed(a), a[2]>>, <<Elapsed(b), b[2]>>)
      BY <2>1, <2>2, <3>1 DEF Later, EpochFits
    <3>3. Fits(Elapsed(b))
      BY <2>1, <3>1, <3>2, SpansAssumption DEF Fits
    <3>4. PICK x : x = <<Elapsed(a), a[2]>>
      OBVIOUS
    <3>5. PICK y : y = <<Elapsed(b), b[2]>>
      OBVIOUS
    <3>6. Pack(x[1], s, x[2]) > Pack(y[1], s, y[2])
      BY <2>1, <3>1, <3>2, <3>3, <3>4, <3>5, IDsGrow
    <3> QED
      BY <3>4, <3>5, <3>6
  <2> QED
    BY <2>1, <2>2, ParseInverts
<1> QED
  BY <1>1, TypesInit, TypesStep, TimesInit, TimesStep, PTL DEF Spec

\* In every run two IDs are the same number only if they are the same pair of the same
\* shard, also after the timestamp has run over its field once.
THEOREM RunsTellApart ==
  ASSUME SequenceFits, EpochFits, ClockFits
  PROVE  Spec => []IDsTellApart
<1>1. TypeOK /\ TimesInv => IDsTellApart
  <2> SUFFICES ASSUME TypeOK, TimesInv, NEW a \in minted, NEW b \in minted,
                      NEW s \in ShardIDs, NEW t \in ShardIDs,
                      Pack(Elapsed(a), s, a[2]) = Pack(Elapsed(b), t, b[2])
               PROVE  a = b /\ s = t
    BY Zenon DEF IDsTellApart
  <2>1. /\ Elapsed(a) \in Int /\ a[2] \in Sequences /\ a = <<Elapsed(a) + Epoch, a[2]>>
        /\ a[1] \in 0..MaxTime /\ Elapsed(a) = a[1] - Epoch
    BY PairsPackable
  <2>2. /\ Elapsed(b) \in Int /\ b[2] \in Sequences /\ b = <<Elapsed(b) + Epoch, b[2]>>
        /\ b[1] \in 0..MaxTime /\ Elapsed(b) = b[1] - Epoch
    BY PairsPackable
  <2>3. /\ Elapsed(a) - Elapsed(b) < 2 * TimestampSpan
        /\ Elapsed(b) - Elapsed(a) < 2 * TimestampSpan
    BY <2>1, <2>2, ForgeAssumption, SpansAssumption DEF EpochFits, ClockFits
  <2>4. Elapsed(a) = Elapsed(b) /\ s = t /\ a[2] = b[2]
    BY <2>1, <2>2, <2>3, PackTellsApart
  <2> QED
    BY <2>1, <2>2, <2>4
<1> QED
  BY <1>1, TypesInit, TypesStep, TimesInit, TimesStep, PTL DEF Spec
================================================================================
