------------------------------- MODULE Health -------------------------------
(***************************************************************************)
(* The pure part of the watchdog, watchdog/health.ts: what one look at a   *)
(* session says about it.  Time is abstracted to the age of lastActivity:  *)
(* "fresh" up to staleMs, "stale" up to zombieMs, "dead" beyond (config.ts *)
(* refuses a zombieMs that is not above staleMs).                          *)
(***************************************************************************)
EXTENDS Naturals, SessionState

Age == {"fresh", "stale", "dead"}

Action == {"none", "escalate", "terminate", "complete", "investigate"}

\* How a session is run: a process per turn, one headless process, or tmux.
Kind == {"per_turn", "headless", "tmux"}

\* HealthCheck, reduced to what the daemon acts on.
Check(state, action) == [state |-> state, action |-> action]

\* STATE_ORDER.
Order(state) ==
  CASE state = "booting" -> 0
    [] state \in {"working", "in_turn", "between_turns"} -> 1
    [] state = "completed" -> 2
    [] state = "stalled" -> 3
    [] state = "zombie" -> 4

\* evaluateTimeBased.
TimeBased(kind, persistent, state, age) ==
  CASE persistent -> Check(IF state \in {"booting", "stalled"} THEN "working"
                                                              ELSE state,
                           "none")
    [] ~persistent /\ age = "dead"  -> Check("zombie", "terminate")
    [] ~persistent /\ age = "stale" -> Check("stalled", "escalate")
    [] ~persistent /\ age = "fresh" ->
         Check(CASE kind = "per_turn" /\ state # "in_turn" -> "between_turns"
                 [] kind # "per_turn" /\ state \notin {"in_turn", "between_turns"}
                      -> "working"
                 [] OTHER -> state,
               "none")

\* A process that is gone: finished long ago, or died at work.
Gone(state, age) ==
  IF age # "fresh" /\ state \in {"working", "booting", "stalled"}
    THEN Check("completed", "complete")
    ELSE Check("zombie", "terminate")

\* evaluateHealth.  pid is "alive", "dead" or "none" (session.pid is null).
Evaluate(kind, persistent, state, tmuxAlive, pid, age) ==
  CASE state = "completed" -> Check("completed", "none")
    [] state # "completed" /\ kind = "per_turn" ->
         TimeBased(kind, persistent, state, age)
    [] state # "completed" /\ kind = "headless" ->
         CASE pid = "dead" -> Gone(state, age)
           [] pid # "dead" /\ state = "zombie" -> Check("zombie", "investigate")
           [] OTHER -> TimeBased(kind, persistent, state, age)
    [] state # "completed" /\ kind = "tmux" ->
         CASE ~tmuxAlive -> Gone(state, age)
           [] tmuxAlive /\ state = "zombie" -> Check("zombie", "investigate")
           [] tmuxAlive /\ state # "zombie" /\ pid = "dead" ->
                Check("zombie", "terminate")
           [] OTHER -> TimeBased(kind, persistent, state, age)

\* transitionState: hold on "investigate", obey "complete", else only forward.
Transition(current, check) ==
  IF \/ check.action = "complete"
     \/ check.action # "investigate" /\ Order(check.state) > Order(current)
    THEN check.state
    ELSE current
=============================================================================
