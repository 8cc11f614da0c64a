--------------------------------- MODULE Forge ---------------------------------
(***************************************************************************)
(* internal/forge: Snowflake IDs from the wall clock, the per-millisecond  *)
(* sequence and the persisted lease, with a clock that may step back, a    *)
(* store that may fail, and restarts through EnableMark.  The store's mark *)
(* is Store.sfMark: RaiseSnowflakeMark is RaiseMark on it, so the module   *)
(* DurableMark serves for both.                                            *)
(*                                                                         *)
(* Forge.mu is held through a whole generation (and a whole batch), so one *)
(* generation is in progress at a time; nowMs is read more than once in it *)
(* and the clock moves between the reads.  Times are milliseconds since an *)
(* epoch that no time here lies before.                                    *)
(***************************************************************************)
EXTENDS DurableMark

CONSTANTS
  MaxSequence,     \* maxSequence, 4095 in the code
  Lease,           \* DefaultLeaseMs
  DriftTolerance,  \* Config.ClockDriftToleranceMs
  StartTime,       \* the clock in the initial state
  MaxTime,         \* bound: the clock stops here
  MaxStepBack,     \* bound: how far one step back takes the clock
  MaxStepsBack,    \* bound: steps back in a behaviour
  MaxIDs,          \* bound: generations begun in a behaviour
  MaxCrashes       \* bound: kills and power losses in a behaviour

ASSUME ForgeAssumption ==
  /\ MaxSequence \in Nat \ {0} /\ Lease \in Nat \ {0} /\ DriftTolerance \in Nat
  /\ MaxTime \in Nat /\ StartTime \in 1..MaxTime /\ MaxStepBack \in Nat
  /\ MaxStepsBack \in Nat /\ MaxIDs \in Nat /\ MaxCrashes \in Nat

VARIABLES
  now,             \* the machine's clock
  pc,              \* off, booting (EnableMark's wait), idle, or where generateLocked is
  ts,              \* its local variable
  lastTimestamp, sequence, leaseUntil,     \* struct Forge
  minted,          \* history: the <<timestamp, sequence>> pairs of the IDs returned
  repeated,        \* history: pairs returned a second time
  failed,          \* history: no ID was returned since a lease could not be saved
  rewound,         \* history: a generation after that found the clock not past lastTimestamp
  stepsBack, ids, crashes                  \* what is used of the bounds

clockVars == <<now, stepsBack>>
forgeVars == <<lastTimestamp, sequence, leaseUntil>>
mintVars == <<minted, repeated>>
failVars == <<failed, rewound>>
vars == <<storeVars, clockVars, pc, ts, forgeVars, mintVars, failVars, ids, crashes>>

Init ==
  /\ StoreInit(0)
  /\ now = StartTime
  /\ pc = "off" /\ ts = 0
  /\ lastTimestamp = -1 /\ sequence = 0 /\ leaseUntil = 0
  /\ minted = {} /\ repeated = {} /\ failed = FALSE /\ rewound = FALSE
  /\ stepsBack = 0 /\ ids = 0 /\ crashes = 0

--------------------------------------------------------------------------------
(* The clock. *)

Tick == now < MaxTime /\ now' = now + 1 /\ UNCHANGED stepsBack

\* NTP or an operator sets the clock back.
StepBack ==
  /\ stepsBack < MaxStepsBack /\ stepsBack' = stepsBack + 1
  /\ \E d \in 1..MaxStepBack : now - d > 0 /\ now' = now - d

Clock ==
  /\ Tick \/ StepBack
  /\ UNCHANGED <<storeVars, pc, ts, forgeVars, mintVars, failVars, ids, crashes>>

--------------------------------------------------------------------------------
(* Starting: New, Open, EnableMark. *)

\* Mutated form of ResumeFrom: the mark is waited out but not remembered.
ResumeForgetful(mark) == lastTimestamp' = -1

\* What EnableMark leaves in lastTimestamp.
ResumeFrom(mark) == lastTimestamp' = IF mark > 0 THEN mark ELSE -1

\* A mark too far ahead of the clock keeps the process from starting.
Boot ==
  /\ pc = "off"
  /\ OpenStore
  /\ mem' > 0 => mem' - now <= Lease + DriftTolerance
  /\ pc' = "booting"
  /\ UNCHANGED <<clockVars, ts, forgeVars, mintVars, failVars, ids, crashes>>

\* The wait until the clock has passed the mark is over.
Ready ==
  /\ pc = "booting"
  /\ mem > 0 => now > mem
  /\ ResumeFrom(mem)
  /\ sequence' = 0 /\ leaseUntil' = 0
  /\ pc' = "idle"
  /\ UNCHANGED <<storeVars, clockVars, ts, mintVars, failVars, ids, crashes>>

--------------------------------------------------------------------------------
(* generateLocked. *)

\* Mutated form of Behind: a clock that stands behind is taken as it is.
BehindIgnored(t) == FALSE

\* The clock reads less than the last timestamp used.
Behind(t) == t < lastTimestamp

\* The first reading of the clock.
Begin ==
  /\ pc = "idle" /\ ids < MaxIDs
  /\ ids' = ids + 1
  /\ ts' = now
  /\ pc' = IF ~Behind(now) THEN "stamp"
           ELSE IF lastTimestamp - now > DriftTolerance THEN "idle"   \* refused
           ELSE "drift"
  /\ rewound' = (rewound \/ (failed /\ now <= lastTimestamp))
  /\ UNCHANGED <<storeVars, clockVars, forgeVars, mintVars, failed, crashes>>

\* Mutated form of CatchUp: the spin does not read the clock again.
CatchUpStale ==
  /\ pc = "drift" /\ ts >= lastTimestamp
  /\ pc' = "stamp"
  /\ UNCHANGED <<storeVars, clockVars, ts, forgeVars, mintVars, failVars, ids, crashes>>

\* The spin until the clock is back at the last timestamp.
CatchUp ==
  /\ pc = "drift" /\ now >= lastTimestamp
  /\ ts' = now /\ pc' = "stamp"
  /\ UNCHANGED <<storeVars, clockVars, forgeVars, mintVars, failVars, ids, crashes>>

\* Mutated form of Stamp: the sequence number is not masked.
StampUnmasked ==
  /\ pc = "stamp"
  /\ sequence' = IF ts = lastTimestamp THEN sequence + 1 ELSE 0
  /\ pc' = "lease"
  /\ UNCHANGED <<storeVars, clockVars, ts, lastTimestamp, leaseUntil, mintVars, failVars, ids, crashes>>

\* Next sequence number of this millisecond, or the first of a new one.
Stamp ==
  /\ pc = "stamp"
  /\ sequence' = IF ts = lastTimestamp THEN (sequence + 1) % (MaxSequence + 1) ELSE 0
  /\ pc' = IF ts = lastTimestamp /\ sequence' = 0 THEN "full" ELSE "lease"
  /\ UNCHANGED <<storeVars, clockVars, ts, lastTimestamp, leaseUntil, mintVars, failVars, ids, crashes>>

\* The spin until the next millisecond.
NextMillisecond ==
  /\ pc = "full" /\ now > lastTimestamp
  /\ ts' = now /\ pc' = "lease"
  /\ UNCHANGED <<storeVars, clockVars, forgeVars, mintVars, failVars, ids, crashes>>

\* Mutated form of LeaseCovers: the last millisecond of the lease is used, too.
LeaseCoversLast == ts <= leaseUntil

LeaseCovers == ts < leaseUntil

\* A timestamp outside the lease is used only after a new lease is saved.  When
\* that fails the sequence number stays as Stamp has set it.
RenewLease ==
  /\ pc = "lease" /\ ~LeaseCovers
  /\ LET lease == ts + Lease
     IN  \/ RaiseMarkOK(lease) /\ leaseUntil' = lease /\ pc' = "lease" /\ UNCHANGED failed
         \/ RaiseMarkFails(lease) /\ pc' = "idle" /\ failed' = TRUE /\ UNCHANGED leaseUntil
  /\ UNCHANGED <<clockVars, ts, lastTimestamp, sequence, mintVars, rewound, ids, crashes>>

\* The ID is made of the shard and this pair.
Mint ==
  /\ pc = "lease" /\ LeaseCovers
  /\ LET pair == <<ts, sequence>>
     IN  minted' = minted \cup {pair} /\ repeated' = repeated \cup (minted \cap {pair})
  /\ lastTimestamp' = ts /\ failed' = FALSE
  /\ pc' = "idle"
  /\ UNCHANGED <<storeVars, clockVars, ts, sequence, leaseUntil, rewound, ids, crashes>>

--------------------------------------------------------------------------------
(* Crashes; flushes for the store's entities while the forge is at rest or not. *)

Writing == IF pc = "off" THEN {}
           ELSE {mem} \cup (IF pc = "lease" /\ ~LeaseCovers THEN {ts + Lease} ELSE {})

Crash ==
  /\ crashes < MaxCrashes /\ crashes' = crashes + 1
  /\ StoreKill(Writing) \/ StorePowerLoss(Writing)
  /\ pc' = "off" /\ ts' = 0 /\ sequence' = 0 /\ leaseUntil' = 0 /\ lastTimestamp' = -1
  /\ failed' = FALSE
  /\ UNCHANGED <<clockVars, mintVars, rewound, ids>>

OtherFlush ==
  /\ pc \notin {"off", "booting"}
  /\ FlushForOthers
  /\ UNCHANGED <<clockVars, pc, ts, forgeVars, mintVars, failVars, ids, crashes>>

Generation == CatchUp \/ Stamp \/ NextMillisecond \/ RenewLease \/ Mint

Next == Clock \/ Boot \/ Ready \/ Begin \/ Generation \/ Crash \/ OtherFlush

Spec == Init /\ [][Next]_vars

\* The clock runs; a process that can start or go on does.
FairSpec ==
  /\ Spec
  /\ WF_vars(Clock /\ now' > now)
  /\ WF_vars(Boot \/ Ready) /\ WF_vars(Generation)

--------------------------------------------------------------------------------
(* Properties. *)

TypeOK ==
  /\ mem \in Nat /\ file \in Nat /\ durable \subseteq Nat
  /\ now \in 1..MaxTime /\ ts \in Nat
  /\ pc \in {"off", "booting", "idle", "drift", "stamp", "full", "lease"}
  /\ lastTimestamp \in Nat \cup {-1} /\ sequence \in 0..MaxSequence /\ leaseUntil \in Nat
  /\ minted \subseteq Nat \X (0..MaxSequence) /\ repeated \subseteq minted
  /\ failed \in BOOLEAN /\ rewound \in BOOLEAN
  /\ stepsBack \in 0..MaxStepsBack /\ ids \in 0..MaxIDs /\ crashes \in 0..MaxCrashes

\* "It can never reuse a (timestamp, sequence) pair" (forge.go:36), across clock
\* steps, restarts and lost power.
NoPairRepeated == repeated = {}

\* It holds as long as no generation that follows a failed lease write finds the clock
\* at or behind the last timestamp used.
NoPairRepeatedUnlessRewound == repeated = {} \/ rewound

\* Whichever image a crash leaves, its lease lies beyond every timestamp used.
LeaseAboveMinted == \A m \in Images : \A pair \in minted : pair[1] < m

Later(a, b) == a[1] > b[1] \/ (a[1] = b[1] /\ a[2] > b[2])

\* IDs grow: each is later than all before it, also over a restart; the same exception.
MintedInOrder ==
  [][Mint /\ ~rewound => \A old \in minted : Later(<<ts, sequence>>, old)]_vars

\* A generation ends once the clock can pass the last timestamp used: the spins
\* of generateLocked, which hold the forge's mutex, are not forever.
GenerationEnds ==
  pc \in {"drift", "stamp", "full", "lease"} /\ lastTimestamp < MaxTime
    ~> pc \in {"idle", "off"}
================================================================================
