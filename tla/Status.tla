--------------------------------- MODULE Status --------------------------------
(***************************************************************************)
(* Allocator with a reader: status, list and segment-state, which report   *)
(* Allocator.Snapshot.  Snapshot takes the record from the store first and *)
(* the entity's mutex afterwards; requests, refills and resets go on in    *)
(* between.                                                                *)
(***************************************************************************)
EXTENDS Allocator

CONSTANT MaxReads     \* bound: reads in a behaviour

ASSUME ReadsAssumption == MaxReads \in Nat

VARIABLES
  reader,    \* idle, or has read the record (got)
  rec,       \* its CurrentIteration
  seen,      \* history: what was issued before the read began
  view,      \* the last answer: loaded, issued, next, end, disk
  reads

readerVars == <<reader, rec, seen, view, reads>>
statusVars == <<vars, readerVars>>

NoView == [loaded |-> FALSE, issued |-> 0, next |-> 0, end |-> 0, disk |-> 0]

StatusInit ==
  /\ Init
  /\ reader = "idle" /\ rec = 0 /\ seen = {} /\ view = NoView /\ reads = 0

\* The store's Get.
GetRecord ==
  /\ up /\ reader = "idle"
  /\ reads < MaxReads /\ reads' = reads + 1
  /\ reader' = "got" /\ rec' = mem /\ seen' = issued
  /\ UNCHANGED <<vars, view>>

\* Mutated form of Reported: the durable mark is given for the next iteration.
ReportedMark ==
  [loaded |-> loaded, issued |-> 0, next |-> rec, end |-> rec, disk |-> rec]

\* What Snapshot returns, once it has the mutex.
Reported ==
  IF loaded
    THEN [loaded |-> TRUE, issued |-> cursor - loadMark, next |-> cursor,
          end |-> reservedEnd, disk |-> rec]
    ELSE [loaded |-> FALSE, issued |-> 0, next |-> rec, end |-> rec, disk |-> rec]

\* The rest of Snapshot, with the mutex.  (The `currentIteration' beside it in an
\* answer is one more copy of the record, older than rec, and is left out.)
LookAtWindow ==
  /\ reader = "got" /\ mutex = NoProc
  /\ view' = Reported
  /\ reader' = "idle" /\ rec' = 0 /\ seen' = {}
  /\ UNCHANGED <<vars, reads>>

\* Everyone else; a read does not outlive the process.
Others ==
  /\ Next
  /\ IF up' THEN UNCHANGED <<reader, rec, seen>>
            ELSE reader' = "idle" /\ rec' = 0 /\ seen' = {}
  /\ UNCHANGED <<view, reads>>

StatusNext == GetRecord \/ LookAtWindow \/ Others

StatusSpec == StatusInit /\ [][StatusNext]_statusVars

\* Without resets, an answer is one moment's truth: nextValue is what the next
\* request gets and above everything handed out, currentValue (the iteration
\* before it) was handed out if `issued' says anything was, and diskMark is above
\* all that was handed out before the question (README.md:262-263, 300-304).  It
\* may lie below what was handed out since: rec is older than the window.
AnswersAreTrue ==
  [][LookAtWindow =>
       /\ view'.next = IF loaded THEN cursor ELSE mem
       /\ \A i \in issued : i < view'.next
       /\ view'.issued > 0 => view'.next - 1 \in issued
       /\ \A i \in seen : i < view'.disk]_statusVars
================================================================================
