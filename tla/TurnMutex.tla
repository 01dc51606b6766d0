----------------------------- MODULE TurnMutex -----------------------------
(***************************************************************************)
(* What the per-agent turn lock promises its callers (header of            *)
(* agents/turn-lock.ts): two runTurn calls for one agent never overlap.    *)
(* The lock passes from one call to the next only through a state in which *)
(* nobody holds it, and no call gets it twice.                             *)
(***************************************************************************)
CONSTANT Calls        \* the runTurn calls that ask for the lock

VARIABLES
  holders,            \* calls that hold the lock in a live process
  served              \* calls that have been granted the lock so far

vars == <<holders, served>>

Init == holders = {} /\ served = {}

\* A call gets the lock while nobody holds it.
Grant(c) ==
  /\ holders = {}
  /\ c \notin served
  /\ holders' = {c}
  /\ served' = served \cup {c}

\* The holder releases the lock, or dies with its process.
Drop ==
  /\ holders # {}
  /\ holders' = {}
  /\ UNCHANGED served

Next == Drop \/ \E c \in Calls : Grant(c)

Spec == Init /\ [][Next]_vars
=============================================================================
