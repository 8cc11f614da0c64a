--------------------------------- MODULE Service --------------------------------
(***************************************************************************)
(* The service process around the allocator: main's orderly stop.  On      *)
(* SIGINT or SIGTERM it shuts the HTTP server down, which lets requests    *)
(* finish for at most five seconds, then waits in Allocator.Close for the  *)
(* background refills, and returns.                                        *)
(*                                                                         *)
(* http.Server.Shutdown closes the listener, but a connection accepted     *)
(* before it may still bring a request: requests begin until Shutdown has  *)
(* found every connection closed, and after five seconds it gives up on    *)
(* those that remain, which go on until the process is gone.               *)
(***************************************************************************)
EXTENDS Status

VARIABLES
  stop,      \* how far main's shutdown goroutine is: no, draining, closing, closed
  overdue    \* Shutdown returned because its context had expired

stopVars == <<stop, overdue>>
serviceVars == <<statusVars, stopVars>>

ServiceInit == StatusInit /\ stop = "no" /\ overdue = FALSE

\* The signal; Shutdown is called.
Signal ==
  /\ up /\ stop = "no" /\ stop' = "draining"
  /\ UNCHANGED <<statusVars, overdue>>

NoRequest == reader = "idle" /\ \A p \in Procs : pc[p] = "idle"

\* Shutdown returns nil.
Drained ==
  /\ stop = "draining" /\ NoRequest
  /\ stop' = "closing"
  /\ UNCHANGED <<statusVars, overdue>>

\* Shutdown returns the context's error, which main only logs.
DrainOverdue ==
  /\ stop = "draining"
  /\ stop' = "closing" /\ overdue' = TRUE
  /\ UNCHANGED statusVars

\* Mutated form of CloseAllocator: nobody waits for the refills.
CloseWithoutWait ==
  /\ stop = "closing" /\ stop' = "closed"
  /\ UNCHANGED <<statusVars, overdue>>

\* Allocator.Close, wg.Wait: no refill is in flight at this moment.
CloseAllocator ==
  /\ stop = "closing" /\ refillPc = "none"
  /\ stop' = "closed"
  /\ UNCHANGED <<statusVars, overdue>>

\* main returns.  It writes nothing on its way out; only a request that outlasted
\* the five seconds can be cut off, in the middle of a flush too.
Exit ==
  /\ up /\ stop = "closed"
  /\ StoreKill(IF overdue THEN Writing ELSE {})
  /\ ProcessGone
  /\ reader' = "idle" /\ rec' = 0 /\ seen' = {}
  /\ stop' = "no" /\ overdue' = FALSE
  /\ UNCHANGED <<historyVars, boundVars, view, reads>>

\* Once Shutdown has found all connections closed, none is left to bring a request.
NoneBegins ==
  /\ \A p \in Procs : pc[p] = "idle" => pc'[p] = "idle"
  /\ reader = "idle" => reader' = "idle"

\* Requests, refills, reads and crashes go on during a stop.
Work ==
  /\ StatusNext
  /\ stop \in {"closing", "closed"} /\ ~overdue => NoneBegins
  /\ IF up' THEN UNCHANGED stopVars ELSE stop' = "no" /\ overdue' = FALSE

ServiceNext == Signal \/ Drained \/ DrainOverdue \/ CloseAllocator \/ Exit \/ Work

ServiceSpec == ServiceInit /\ [][ServiceNext]_serviceVars

\* "wait for in-flight segment refills" (main.go:113): a stop that is not overdue cuts
\* nothing off.  No request is without its answer, no refill is between its write
\* and its window, and the next start reads no mark below the end of the last window.
StopCompletes ==
  [][Exit /\ ~overdue =>
       /\ NoRequest /\ ~reserving
       /\ loaded => mem = reservedEnd
       /\ mem' >= mem]_serviceVars
================================================================================
