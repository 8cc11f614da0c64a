-------------------------------- MODULE Counter --------------------------------
(***************************************************************************)
(* What the allocator and its store promise for one entity, without        *)
(* windows, marks, callers or refills: blocks of fresh iterations are      *)
(* handed out in increasing order, the position may jump ahead (a crash, a *)
(* reset), and only a forced reset lets iterations be handed out again.    *)
(***************************************************************************)
EXTENDS Integers

CONSTANTS
  Origin,     \* the first position, a natural number
  Sizes,      \* block sizes, positive
  Targets,    \* where resets may go, natural numbers
  Forcing     \* whether force is ever used, a Boolean

VARIABLES
  next,       \* nothing from here on counts as handed out
  given,      \* handed out and not released by a force
  again       \* handed out a second time

counterVars == <<next, given, again>>

CounterInit == next = Origin /\ given = {} /\ again = {}

\* A block of n that begins at `next' or later and ends where `next' moves to.
Issue(n) ==
  /\ next' >= next + n
  /\ LET block == (next' - n) .. (next' - 1)
     IN  given' = given \cup block /\ again' = again \cup (given \cap block)

\* Iterations forfeited by a crash or jumped over by a reset.
Skip == next' >= next /\ UNCHANGED <<given, again>>

\* A forced reset releases what lies from its target on; the position goes
\* there, or stays when the write failed.
Rewind(target) ==
  /\ Forcing
  /\ given' = {i \in given : i < target}
  /\ next' \in {next, target}
  /\ UNCHANGED again

CounterNext == (\E n \in Sizes : Issue(n)) \/ Skip \/ (\E t \in Targets : Rewind(t))

Spec == CounterInit /\ [][CounterNext]_counterVars
================================================================================
