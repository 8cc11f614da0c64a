# Verification of bucket-next

bucket-next hands out IDs that must never repeat: for one entity, under
concurrent requests, with failing disks, across crashes, power losses, restarts
and operator commands, and on every shard of a cluster at once. It does so
without writing the disk for every ID, so the proof of "never repeats" lies in
what memory, the state file and the images a crash may leave behind have to do
with each other. This directory models that: TLA+ modules translated from the
Go code, TLC runs over small instances, and theorems checked by TLAPS for every
value of the constants.

Line numbers refer to the sources at the commit these modules were written for;
`PROJECT.json` names, for every definition, the lines it stands for.

## The system

| Part | State | Operations | Talks to |
|---|---|---|---|
| Allocator (`internal/allocator`) | per entity, under `entity.mu`: `loaded`, `loadMark`, `cursor`, `reservedEnd`, `reserving`; a condition variable | `Next(n)`, `Reset`, background `refill`, `Snapshot`, `Close` | calls the store's `Get`, `RaiseMark`, `SetMark` |
| State store (`internal/state`) | under `Store.mu`: records (name, type, mark), Snowflake mark, identity; the state file | `Create`, `Open` (with version-1 migration), `Get`, `All`, `Register`, `RaiseMark`, `SetMark`, `Delete`, `Clear`, `RaiseSnowflakeMark`; every change rewrites the file (temporary file, fsync, rename, directory fsync) | the file system |
| Forge (`internal/forge`) | under `Forge.mu`: `lastTimestamp`, `sequence`, `leaseUntil` | `EnableMark`, `Generate`, `GenerateBatch`, `Parse` | the clock, and the store through a `persist` callback |
| Shard arithmetic (`internal/shardmath`) | none | `Value`, `Iter`, `SnapForward`, `MaxIter` | used by handlers, allocator, tool |
| UUID codec (`internal/uuidgen`) | key schedule | `Encode`, `Decode` of a counter value | used by `mint` |
| HTTP handlers (`internal/server`) | none of their own | next-id, next-batch, init, reset; status, list, segment-state | store, allocator, forge |
| Process (`cmd/bucket-next`) | - | open or create the file, enable the lease, serve, on a signal shut the HTTP server down and close the allocator | all of the above |
| Tool (`cmd/bucket-next-cli`) | - | init-state, init, reset, delete, clear, and printing commands | the store, on the same file |
| Data types, configuration | none | tables and range checks | everyone |

Requests run in goroutines of their own. Two mutexes matter: an entity's, held
over `Next` and `Reset` except while they wait, and the store's, held over each
store operation, its flush included. The refill goroutine writes the disk with
the store's mutex only and takes the entity's afterwards. Handlers hold neither
between their calls.

### What is hard

* **Interleaving.** A caller that waits for a refill finds another window when
  it goes on. The refill applies its result after other requests have run. Two
  first requests for a name race to bind it.
* **Partial failure.** A flush can fail before the rename (nothing happened) or
  after it (the path names the new image while memory takes the change back).
* **Crashes.** A kill keeps what was renamed, a power loss any image not yet
  superseded by a synced one, and either may come inside a flush, between any
  two of its calls. The same file may next be opened under another
  configuration, by a service or by the tool.
* **Stopping.** The signal comes while requests, a refill and a reader are under
  way, requests may still begin on connections accepted before, and after five
  seconds the process goes on without those that remain.
* **Edges.** Ends of the types, sums that pass `math.MaxInt64`, full
  milliseconds, lease ends, the ends of the bit fields of an ID, the domain of a
  short UUID that is smaller than what its cipher permutes.
* **Clocks** that step back between two IDs or between two readings for one.
* **Waiting.** One `Broadcast` ends all waits; the forge spins with its mutex
  held.

### What makes each part correct

* Allocator: nothing is handed out twice; nothing handed out lies at or above
  any mark the disk can come back with; nothing is skipped inside a run; a crash
  forfeits a bounded number; every call returns; status reports what is true.
* Store: after any crash the file holds one complete image, and never an older
  one than an answered operation produced; each flush, taken call by call, is
  all or nothing; a file bound to one shard's identity stays bound to it.
* Registry (store under handlers and tool): a name keeps the type and the start
  its first successful answer gave it; operations on one name leave others alone.
* Forge: no (timestamp, sequence) pair twice, IDs in order, also over a restart;
  packing keeps different pairs and shards apart, and `Parse` inverts it.
* UUID codec: `Decode` inverts `Encode`, so two iterations never share an ID; what
  `Decode` accepts is what `Encode` would have made; both end.
* Process: an orderly stop cuts nothing off.
* Shard arithmetic: shards partition the positive integers; snapping goes to the
  least own value at or above; the wrap at the top is noticed.

## Modules

| Module | Models |
|---|---|
| `DurableFile` | the state file whatever it holds: memory, the image the path names, the images a power loss may leave; a flush that works, fails before or after the rename, or is interrupted; `Open` |
| `DurableMark` | one number of that file (an entity's mark, or the Snowflake mark): `RaiseMark`, `SetMark`, and others' flushes that write it along |
| `StateFile` | `Create`, `Open`, the version-1 migration, the identity check and `flush` system call by system call, for the processes that use one path |
| `AtomicFile` | `DurableFile`'s operations and nothing else: what the modules above take the file for, and what `StateFile` implements |
| `Allocator` | one entity: callers of `Next` and `Reset`, the refill, the store, crashes, restarts, the tool's reset |
| `Status` | a reader (status, list, segment-state) over `Allocator` |
| `Service` | the orderly stop of the process around `Status`: signal, HTTP shutdown, `Allocator.Close`, return of `main` |
| `Counter` | the abstract promise: increasing blocks, jumps forward, rewinds only by force |
| `AllocatorRefinement` | `Allocator` implements `Counter`, under a refinement mapping |
| `Registry` | several entities: `Register`, `Delete`, `Clear` under next-id, init, reset and the tool, over `DurableFile` holding the whole map of records |
| `Forge` | `EnableMark` and `generateLocked` over `DurableMark`, with the clock |
| `SnowflakeBits` | packing a pair and a shard into an `int64`, and `Parse` |
| `ShardMath` | the arithmetic of a shard in wrapping integers of any width |
| `WindowEdge` | the allocator's window in that arithmetic, near the end of the type |
| `UuidCodec` | `Encode` and `Decode`, turn by turn of their loops, over any round function and any pad |
| `AllocatorProofs`, `AllocatorSequenceProofs`, `RegistryProofs`, `ForgeProofs`, `ShardMathProofs`, `StateFileProofs`, `UuidCodecProofs` | the theorems; `IntegerDivision` has the lemmas on `\div` and `%` they share |
| `MC*` | symmetry sets, values of operator constants, and reference definitions for TLC |

`Allocator`, `Forge` and `Registry` extend the same store (`DurableFile`), and
`StateFile` is shown to implement it, so what they conclude rests on flush as
the code does it. `Allocator` and `Registry` cut the system differently.
`Allocator` has one registered entity with all steps of the window; `Registry`
has several names with all steps of the handlers and takes `Next` and `Reset` as
single steps without the refill. An entity's mutex makes that sound for what
`Registry` asks: other entities see only flushes, and the window's own races are
`Allocator`'s. `Service` extends `Status`, which extends `Allocator`, so that the
run `alloc_crash` has callers, refill, reader, stop and crashes in one behaviour.

### How steps correspond to code

*The store.* `Store.mu` is held for a whole operation, so an operation is part of
one step of its caller. A flush has three outcomes in that step: `FlushOK`, and
two in `FlushFails`: "io" for any error up to the rename, and an error of
`syncDir` after it. A crash inside an operation is a step of its own (`Kill`,
`PowerLoss`, `Crash`) that picks the surviving image among those on disk and
those a flush may be writing at that moment (`Writing`). The constant `Faults`
says which errors occur; `SetMark`'s directory-sync error has a name of its own,
"resetsync", since that one breaks a property (below).

*The allocator.* `pc[p]` is where a request goroutine stands: `enter` before
`e.mu.Lock()`, `locked` at the head of the wait loop with the mutex, `waiting` in
`cond.Wait`, `woken` after the `Broadcast` and before `Wait` has the mutex again,
`setting` inside `Reset` after its checks. A stretch between two points where
others can interfere is one action: `EnterNext` (lock, load, exhaustion check),
`ReserveInline` (a turn of the loop that writes the disk), `TakeBlock` (hand out,
start a refill, unlock). The refill is `RefillRaise`, which writes the disk
without the entity's mutex, and `RefillApply`, its critical section. Inline
reservation keeps the mutex while it writes, so others are shut out by `mutex`
except the refill, and that is excluded by `reserving`.

*The forge.* `pc` follows `generateLocked` from one reading of the clock to the
next; `Forge.mu` is held throughout, so one generation runs at a time, a batch
is a run of generations, and only the clock, other flushes and crashes move
between its steps.

*The file, call by call.* In `StateFile` `pc` names the call `flush` is about to
make: `write` (MkdirAll, CreateTemp, Write), `sync` (Sync and Close), `rename`,
`syncdir`. Each may fail (`GiveUp`), and the process or the machine may stop
before each. An image remembers whether its data was synced; after a power loss
the path names any of `entries`, and one that was not synced comes back torn.
`goal` says what the flush is for: after `Create` and the migration an error ends
the process, after an operation it puts the old content back. `shared`, chosen at
the start, says whether two processes may use the file at once.

*The stop.* `Signal` starts the shutdown; `Drained` is `http.Server.Shutdown`
returning when no request is left, `DrainOverdue` when its five seconds are over;
`CloseAllocator` is `wg.Wait` at a moment without a refill; `Exit` is the return
of `main`. The server is outside the repository; it is taken to let requests
begin on open connections until it has found all of them closed, and none after
that unless it gave up.

*The codec.* A behaviour encodes one value and decodes the result, or decodes one
text and encodes the result. Every turn of a loop is a step: a Feistel round of
`perm48`/`perm64`, another walk of the short length, a digit written or read. AES
is a constant operator of key, length, round and half; the entity's tweak is part
of the key, a text is the sequence of its digits.

*The bits.* The fields do not overlap, so the code's OR is a sum, wrapped to the
width of the integer; time before the epoch is negative and time beyond the
field runs into the sign.

*The handlers.* In `Registry` a request is at `register` (before
`state.Register`), `mint` (before `allocator.Next` or the forge), `get` (before
`state.Get` of a reset) or `set` (before `allocator.Reset`); anything may happen
between.

*History variables* (`issued`, `reissued`, `minted`, `repeated`, `told`,
`promised`, `handed`, `seen`) record what clients have been given; `trail`, `at`
and `rests` of the codec record the way of a value through the loops of `Encode`,
`back` and `reads` that of a text through those of `Decode`, for the proofs; `failed` and `rewound` of the forge say when a lease write failed and the
next generation found the clock not past the last timestamp. A reset with
force releases iterations from its target on: the operator has said so.

## Runs

Most behaviours of these models end, because the runs bound calls and crashes, or
encode one value; so the configurations say `CHECK_DEADLOCK FALSE` (`state_file`
does not), and that no caller is stuck is checked as a liveness property
(`CallsReturn`, `GenerationEnds`, `CallsEnd`) instead.

| Run | Question | Answer |
|---|---|---|
| `alloc_crash` | requests, refill, a reader, failing flushes, two crashes, three callers, and an orderly stop at any moment | type correctness, no reissue, marks above everything issued, window owned, no gap inside a run, bounded forfeit, bounded overshoot, true answers, nothing cut off by a stop in time |
| `alloc_reset` | resets by callers and tool, with and without force, under fairness | the inductive invariant of the proofs, the window moves only as the code says, `Counter` is implemented, every call returns |
| `registry` | two names, two requests, three classes of types, the tool, two crashes | bindings are durable and unique, starts are honoured, marks of all names stay above what was handed out |
| `edge_shards` | marks at the end of int64 in clusters of two to four shards; all of shard arithmetic against definitions by enumeration | no reissue, nothing beyond the type, arithmetic exact |
| `forge` | clock steps back twice, full milliseconds, failing lease writes of both kinds, a crash; every pair packed for every shard, before, within and past the field | no pair repeats and IDs grow unless a failed lease write meets a clock that has gone back, leases ahead, generations end, IDs of the field's span parse back, and over twice that span none is another's |
| `state_file` | two processes with four identities over a missing, old or current file; each call of a flush fails, processes die, power is lost | no torn file however many write, a bound file and an old file of a shard stay bound, `AtomicFile` is implemented |
| `uuid_codec` | every value and every text of a short and a long length, three keys | `Decode` inverts `Encode`, accepts nothing else, both end |

`NoPairRepeatedUnlessRewound` and `MintedInOrder` have an exception that
`forge_failed_lease` shows to be needed. `BoundForever` and `FlushIsAtomic` speak
of one process at a time, as docs/cli.md:13-14 asks of the operator; `NeverTorn`
holds without that. A stop that is overdue can cut requests off, in a flush too;
that it does no more harm than a kill is part of `NoReissue` and
`DurableAboveIssued` in `alloc_crash`.

Five runs show where the code does not do what a comment or document says of it.
Each is a counterexample found by TLC.

| Run | What happens | What it contradicts |
|---|---|---|
| `stale_limit_check` | two callers pass the exhaustion check, one waits for a refill and goes on without checking again: it gets iterations beyond the type's last | allocator.go:85 |
| `reset_sync_failure` | a reset fails in the directory fsync; memory goes back, the file does not; a crash later repeats iterations | README.md:601 |
| `crash_gap` | a refill adds a segment while up to the low-water mark of the last one is left; a crash from its write on, with no failure before, skips more than a segment | README.md:605, docs/configuration.md:114 |
| `edge_single_repeat` | with one shard, sums wrap within a segment of `math.MaxInt64`, the wrapped mark is not saved, a restart repeats | README.md:601 |
| `forge_failed_lease` | a lease write fails after `sequence` was set to 0 for a new millisecond; the clock steps back; pairs of the last millisecond come again | forge.go:34 |

What does hold beside these is stated, too: `OvershootBounded` says how far
beyond the end callers can get (one batch per other caller), `ForfeitBounded`
how large a crash's gap can be: a segment over what triggers a reservation, where
the documents promise a segment in all (`crash_gap` shows `CrashForfeitsOneSegment`
violated). `alloc_crash` and `alloc_reset` leave
"resetsync" out of `Faults`: `reset_sync_failure` shows why.

`AnswersAreTrue` places `diskMark` above what was handed out before the question, and
not, as README.md:304 has it, above every ID handed out: `Snapshot` copies the record
before it takes the entity's mutex (allocator.go:168), so a request between the two
can raise the mark and hand out iterations at and above the copy.

### Bounds

| Constant | Value | Why it is enough |
|---|---|---|
| `Procs` | 2 or 3 | two waiters behind one refill, and a third that passes them |
| `SegmentSize`, `Threshold`, `BatchSizes` | 2, 1, {1, 3} | a batch within a segment and one that needs two reservations; windows above, at and below the low-water mark |
| `MaxIter` | 3 or 4, and 100 where the end is of no interest | the end of the type is reached by several callers at once |
| `MaxCalls` | 4 | load, refill, a wait, and one after it; the proofs lift this bound and those above |
| `MaxCrashes` | 1 or 2 | a second crash falls on what the first left on the disk |
| `MaxOtherFlushes` | 0 or 1 | a flush by others publishes the memory's mark once more |
| `MaxReads` | 1 | reads change nothing, so one at every moment is all |
| `MaxInt64` | 31 | a six-bit integer; segments, batches and shards are small against it, as they are against 2^63-1 |
| `MaxSequence`, `Lease`, `DriftTolerance` | 1, 2, 1 | full milliseconds, leases that end, drifts within and beyond the tolerance |
| `MaxTime`, `MaxStepBack`, `MaxStepsBack`, `MaxIDs` | 7, 2, 2, 4 | two leases and a restart fit in |
| `Epoch`, `TimestampSpan`, `ShardSpan`, `SequenceSpan` | 3, 4, 2, 2 | times before the epoch, in the field and past its end |
| `Users`, `Shards`, `Rests`, `Contents` in `StateFile` | 2, {1, 2}, 2, {0, 1, 2} | another shard's file, the same shard's of another cluster; an old content, a new one and none; nothing counts calls or crashes, so their number is not bounded |
| `Base`, `Lengths`, `ShortHalf`, `LongHalf`, `Rounds` | 3, {2, 5}, 4, 8, 3 | the short length's domain (9) is smaller than its permutation (16), so values walk; pads of the long one above zero; a proof covers any number of rounds |
| `Keys` | 3 | three different round functions and pads, one of which makes values walk more than once; the proof is for all functions |
| `Entities`, `Types`, `Starts` in `Registry` | 2, all three classes, {2} | one name harmed by another; every mix of types; a start or reset that lies one segment ahead |

Callers, names, requests and processes are interchangeable, so safety runs use
symmetry; `alloc_reset`, `forge` and `uuid_codec` check liveness and do not.

Type correctness is one invariant per module. `TypeOK` also says that no mark,
cursor or window end is negative, and in `StateFile` that each image written carries
a configuration's identity, which is what its mutants break. That no image is torn
is no part of it, but `NeverTorn`.

### Fairness

`CallsReturn` assumes that a goroutine that can run does (weak fairness of the
steps that hold the mutex and of the refill's write), and that one that keeps
asking for the mutex gets it (strong fairness of `EnterNext`, `EnterReset`,
`Reacquire` and `RefillApply`). The Go scheduler is preemptive, and `sync.Mutex`
turns to its starvation mode after a millisecond and hands the lock to the
longest waiter, so both are justified. No fairness is assumed of clients,
crashes, restarts or other flushes. `GenerationEnds` assumes that the clock goes
on (up to the bound: the property is about timestamps below it), not that it
never steps back. `CallsEnd` assumes that sequential code runs on. The file's and
the stop's properties are safety; of the stop no progress is claimed, since its
time limit is the only thing that ends a drain whose clients do not go away.

## Proofs

`AllocatorProofs` (for any set of callers, segment size, threshold, batch sizes,
targets, bounds and type end):

* `TypeCorrect`: `Spec => []TypeOK`, from `TypeOK` strengthened by "a goroutine
  inside `SetMark` runs a Reset" (`SettingIsReset`).
* `MonitorCorrect` and `ReservationCorrect`: `Spec => []IndInv`, and from it
  `NothingReissued`, `MarksSurviveCrashes`, `WindowEndsAtMark`, `WindowOwned`. They
  assume `ResetsSynced`: no directory fsync fails inside a reset, or there are no
  resets. Without it the properties are false (`reset_sync_failure`); all other
  faults are allowed.

`IndInv` has two parts. `Monitor` relates mutex, refill token and program
counters: who is inside holds the mutex, the token is out exactly while a refill
lives and then nobody moves `reservedEnd`, and no refill is out while a reset
writes. `Reservation` relates marks, window and history. `NoReissue` is not
inductive alone: to see that a block is fresh one needs that everything issued is
below the cursor (`CursorAboveIssued`), and after a crash that it is below
whatever mark is loaded (`MarksAboveIssued`). That in turn needs, when a block is
taken, that no surviving image is below the window's end
(`ImagesCoverWindow`, which holds only while something is left in the window, as
a failed flush may leave the two images apart when it is empty), that the store
is ahead of the window only between a refill's two steps (`MarkMatchesWindow`),
and that a reset about to write leaves nothing issued above its target
(`TargetsAboveIssued`). Each step lemma goes action by action, and within an
action conjunct by conjunct; five small lemmas say what each store operation does
to memory and images.

`AllocatorSequenceProofs` reads more off that invariant, still for all values of
the constants:

* `WindowStaysInPlace`: `WindowMovesInPlace`, from the types and `Monitor` alone, so
  with every fault.
* `NothingSkipped`: `NoGapWithinRun` under `NoResets` (`ResetTargets = {}`; a reset
  forward skips what it jumps over). `GapInv` is the property without `up`, which
  makes it inductive.
* `ForfeitIsBounded`: `ForfeitBounded` under `NoResets` and `BatchesBounded` (there is
  a largest batch, as the handlers see to). The property speaks only of a process
  that has the entity loaded; `ForfeitInv` adds that before a load no image is
  further than that beyond the mark itself, which is where the next window begins,
  that the path never names less than the store holds, and that a refill is out for
  a window with at most `Threshold` left. `WritingWithinReach` shows that what a
  flush under way may write lies within the bound.
* `OvershootIsBounded`: `OvershootBounded` under `CallsBounded` (`BatchesBounded`, finitely
  many callers, resets only to iterations of the type). The property says nothing of
  callers that have passed the check and have not taken their block. `OvershootInv`
  says that among them is one whose block ends within the bound even if all the
  others take theirs first; whoever passes the check last is such a one
  (`OnePasses`), and when it leaves, another one is (`OneLeaves`). It bounds what
  `stale_limit_check` shows by example.
* `AllocatorImplementsCounter`: `Spec => CounterSpec` under `ResetsSynced`. A request that
  takes its block maps to `Issue`; a load, a reset forward, a crash to `Skip` or a
  stutter; an approved forced reset and its write to `Rewind`. The abstract position
  is the cursor or the least mark a start could find; `MapInv` says
  that the store's content is among the images a crash may leave (`StoreInv`), and
  that a reset about to write goes forward or is forced (`SettingAllowed`).
* The service: every step of `ServiceSpec` is one of `Allocator`'s or `Exit`
  (`ServiceSteps`), and `Exit` is a kill that writes nothing, or whatever an overdue
  request was writing (`ExitEffect`). So `ServiceReservationCorrect`,
  `ServiceSequence` and `ServiceImplementsCounter` carry the above over to a process
  with readers and orderly stops.
* `ReadersAreToldTheTruth`: `AnswersAreTrue` under `NoResets`. `ReadInv` says what the gap
  between the store's `Get` and the entity's mutex leaves of the record: it is above
  what was issued before the question, and still the mark while the entity is not
  loaded (`UnloadedMarkRests`: nothing moves it then).
* `OrderlyStopLosesNothing`: `StopCompletes` under `ResetsSynced`, from `StopInv` (once
  `Shutdown` has returned in time no request is left, and once `Close` has, no
  refill, since only a request starts one) and `PathNotBehind`: the path never names
  less than the store holds, also after a failed flush.

`RegistryProofs` (for any names, types, requests, starts, bounds and every fault but
the one named): `TypesKept`, `BindingSurvives`, `NameHasOneType`, `StartIsHonoured`, and
`MarksStayAbove`, which alone assumes that no directory fsync fails inside a reset
(`ResetsSynced`). All five are read off `RegistryInvariant`. For each name it relates
four things: every record of it that a start may find (`ImagesFit`: of the type
told, not below the start promised, above what was handed out), the window
(`WindowFits`: it ends at the mark, begins at or above the promise, and while
anything is left in it every image has the type and a mark not below its end), the
forge's lease, whose flush wrote all records (`LeaseFits`), and what clients hold
(`HandedFits`). The properties speak of images only, and are not inductive without
the window: a batch served from memory writes nothing, so what makes it safe is
what an earlier flush left on disk.

`ForgeProofs` (for any sequence width, lease, tolerance, clock bounds, number of
IDs and crashes, and every fault):

* `ForgeTypes`, `LeasesSurviveCrashes`, `PairsNeverRepeat`, `PairsGrow`. That no
  pair repeats follows from order: while the process runs, everything minted is at
  or before (`lastTimestamp`, `sequence`), unless a failed lease write has reset
  the number, when the next pair is of a later millisecond (`InOrder`); at a start
  everything minted lies below the mark in every image (`LeaseOnDisk`), and the
  first timestamp used lies beyond it (`LastKnown`).
* `ParseInverts`, `IDsNeverCollide`, `IDsGrow` are about `SnowflakeBits`, for all
  field widths.
* `ParseReadsEachID` and `RunsTellApart` join the two: `IDsReadBack` and `IDsTellApart` of
  whatever a run has minted. `TimesInv` (each timestamp was a reading of the clock)
  brings the pairs into the range the bits are about. They assume `SequenceFits` (the
  largest sequence number is that of the field, forge.go:18) and `EpochFits` (the
  epoch is at most one timestamp field after the clock's zero; the configuration
  does not bound it), the second also `ClockFits` (the clock runs through the field
  at most twice; after that the numbers do come round).

`StateFileProofs` (for any processes, identities and contents):

* `FileTypes` and `FileNeverTorn`, from `FileInv`: no directory entry names an image
  whose data could still be lost, since a temporary file that is about to be renamed
  is synced; it also holds what its flush is for.
* `FileStaysBound` and `FlushAtomic`, from `AloneInv` besides: at most one process
  runs, one past its `Open` or `Stat` has the identity of a bound file, or is of the
  shard an old file names (`Owns`), what it would put back is what it answers from, and after the rename the path holds its
  memory. The refinement sends a failing call before the rename, the death of a
  process and its start to a stutter or `StoreKill`, the rename to the failed flush
  it would become, the directory's fsync to `FlushOK`, and a lost power to
  `StorePowerLoss`.

`UuidCodecProofs` (for any alphabet, length, width, number of rounds, and any
functions in place of AES):

* `CodecTypes`: halves keep their width, digits and numbers their range.
* `DecodeInvertsEncode`: `RoundTrip`. No induction over the rounds is needed, since
  `perm` leaves a `trail` that `unperm` goes back along, one entry for each turn,
  and the digits read are those written, remainder by remainder (`rests`).
* `AcceptedWasIssued`: `OnlyIssuedAccepted`, by the same argument the other way. `Retrace`
  says that `Encode`'s loops, started on what `Decode` returned, meet the entries of
  `back` and `reads` from the last to the first. That they stop where `Decode` began
  rests on its tests: of the domain for the short length, of the pad for the long one.

`ShardMathProofs` (for every width, layout and value within range):

* `IterInvertsValue`, `ShardsNeverCollide`, `MaxIterIsLast`, `SnapForwardIsLeast` are about
  the operators. They rest on a division lemma for Go's truncating `/` and `%`, and on
  `Wrap` being the identity within the width.
* `IterationsAreOwned`, `ClusterSharesNothing`, `AcceptedIsKept`, `SnapsToLeast` are the four
  properties that TLC compares with enumerations, for clusters whose size is itself
  an integer of the width (`ClustersFit`).
* `EdgeNeverReissues` and `EdgeStaysInType` are about the window in wrapping arithmetic.
  `EdgeInv` bounds mark and cursor by two segments beyond the type's end, so that no
  sum reaches the top of the integer. It assumes two shards or more (`ManyShards`;
  with one the statement is false, `edge_single_repeat`), and that a batch and two
  segments fit into the upper half of the integers (`RoomAboveTypes`), which the
  configuration does not check (config.go:90) but a segment size of 2^61 would be
  needed to break. This is also what lets `Allocator` take iterations for
  mathematical integers.

`IntegerDivision` has what these modules need to know of `\div` and `%`.

The invariants above were checked by TLC before they were proved; only `IndInv` is
kept in a run (`alloc_reset`), the others add to it what a theorem needs.

Only model-checked: the liveness properties `CallsReturn`, `GenerationEnds` and
`CallsEnd`, which need fairness and `ENABLED` and so are out of the prover's reach.
The runs that expect a violation have no theorem, since each is a counterexample.

## What is not modelled

* Routing, JSON, the wording of answers, logging, statistics of the forge.
* AES: the codec's proof holds for any function in its place; that IDs look random
  is not a property of these models.
* Two processes on one file beyond that it stays whole. The manual says to stop
  the service before using the tool; nothing enforces it, and then either's flush
  writes over the other's changes. Two `Create`s may both find no file
  (state.go:80), and the later rename wins.
* A state directory that a flush has just made (state.go:325): its own entry in its
  parent is not synced by the code, so a power loss may take it away with the file
  in it. `SyncDirectory` takes the directory of `state_path` for one that is on disk.
* The `currentIteration` in a status or list answer, one more copy of the record that
  is read before the one `Status` follows.
* A version-1 file has no identity but the shard of its records, so it is accepted
  under a changed `total_shards` or key, which docs/configuration.md:101-102 says
  is refused; `OpenOld` models what the code does.
* `currentValue` after a reset forward, which names a value nobody got
  (README.md:262): `AnswersAreTrue` is checked without resets.
* Data types and configuration: tables and sequential checks. Their ranges are
  the assumptions on the constants.

## Plan

1. `Cluster`: several shards, each with its file and allocator, and the theorem that
   no value is handed out by two of them, from `ClusterSharesNothing` and each
   shard's `NothingReissued`.
2. `Registry`'s single-step `Next` and `Reset` as an abstraction of `Allocator`'s steps:
   a refinement in place of the argument given above.
3. The history variables of `Registry` and `Forge` under `Service`'s orderly stop, which
   their own models take for a kill.
