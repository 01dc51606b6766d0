---------------------------- MODULE SessionState ----------------------------
(***************************************************************************)
(* The state column of a session row and the only guarded way to change    *)
(* it: tryTransitionState of sessions/store.ts, a compare-and-swap against *)
(* a matrix of allowed predecessors.                                       *)
(***************************************************************************)

AgentState == {"booting", "working", "in_turn", "between_turns",
               "completed", "stalled", "zombie"}

Terminal == {"completed", "zombie"}

Active == AgentState \ Terminal

\* Seeded bug for the runs: "completed" is listed as a predecessor of zombie,
\* so that a late watchdog may reclassify a finished worker.
AllowedFromAny(target) ==
  IF target = "booting" THEN {} ELSE AgentState

\* TRANSITION_ALLOWED_FROM.
AllowedFrom(target) ==
  CASE target = "booting"       -> {}
    [] target = "working"       -> {"booting", "working", "stalled"}
    [] target = "in_turn"       -> {"booting", "in_turn", "between_turns",
                                    "stalled"}
    [] target = "between_turns" -> {"in_turn", "between_turns", "stalled"}
    [] target = "stalled"       -> Active
    [] target = "completed"     -> AgentState
    [] target = "zombie"        -> AgentState \ {"completed"}

\* Whether the UPDATE of tryTransitionState changes a row in state `from`.
CanMove(from, target) == from \in AllowedFrom(target)

\* The row after the compare-and-swap.
AfterTry(from, target) == IF CanMove(from, target) THEN target ELSE from
=============================================================================
