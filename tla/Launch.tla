------------------------------- MODULE Launch -------------------------------
(***************************************************************************)
(* How a worker is launched and how it is driven afterwards.  ov sling     *)
(* picks a runtime, a model and a place, a tmux pane or turns of its own   *)
(* (commands/sling.ts); ov serve, ov nudge and ov drive later choose the   *)
(* runtime again, from the configuration they see                          *)
(* (agents/turn-runner-dispatch.ts), and start turns.  One agent of a      *)
(* task-scoped capability.                                                 *)
(***************************************************************************)
EXTENDS Naturals, Sequences

CONSTANTS Confs,      \* what the configuration may say, as records of runtime.default,
                      \* runtime.capabilities and config.models for the capability ("" if
                      \* silent), claudeHeadlessByDefault, and whether its provider is a gateway
          MaxEdits    \* bound: edits of the configuration

VARIABLES conf,       \* the configuration on disk
          edits,      \* edits of it so far
          row,        \* the agent's row
          launched,   \* how it was launched
          pane,       \* the runtime that runs in its pane, or ""
          turn,       \* the turn that runs
          served,     \* the configuration the running ov serve has loaded, or None
          loop,       \* what its loop for the agent runs turns with, or None
          hooks,      \* the hooks in the worktree: "none", "guards" or "all"
          nudged      \* where the last nudge went

launchVars == <<conf, edits, row, launched, pane, turn, served, loop, hooks, nudged>>

None == <<>>

-----------------------------------------------------------------------------
\* Three kinds of runtimes: with turns on request, with turns only, in panes only.
Registered == {"claude", "sapling", "pi"}
BuildDirectSpawn(runtime) == runtime \in {"claude", "sapling"}
ParseEvents(runtime) == runtime \in {"claude", "sapling"}
Headless(runtime) == runtime = "sapling"

\* The first name given: on the command line, for the capability, for the project.
First(a, b) == IF a # "" THEN a ELSE b

GetRuntime(name, c) == First(name, First(c.capability, c.default))

\* A flag the runtime cannot follow is refused.
Refused(runtime, flag) == flag = "headless" /\ ~Headless(runtime) /\ ~BuildDirectSpawn(runtime)

ResolveUseHeadless(runtime, flag, c) ==
  \/ Headless(runtime)
  \/ flag = "headless"
  \/ flag = "" /\ runtime = "claude" /\ c.claudeHeadlessByDefault /\ BuildDirectSpawn(runtime)

\* The aliases, which the environment leaves as they are here.
Aliases == {"sonnet", "opus", "haiku"}

\* The full name of an alias.
Concrete(model) == IF model \in Aliases THEN "claude-" \o model ELSE model

\* A name of the form provider/model goes to a gateway, if one is configured for it.
ResolveProviderEnv(raw, c) == IF raw = "gateway/model" /\ c.gateway THEN "gateway" ELSE ""

ResolveModel(c) ==
  LET raw == First(c.model, "sonnet")
      env == IF raw \in Aliases THEN "" ELSE ResolveProviderEnv(raw, c)
  IN [model |-> IF env # "" THEN "sonnet" ELSE raw, env |-> env, explicit |-> c.model # ""]

-----------------------------------------------------------------------------
LaunchInit ==
  /\ conf \in Confs /\ edits = 0
  /\ row = [state |-> "none", tmux |-> FALSE]
  /\ launched = None /\ pane = "" /\ turn = None
  /\ served = None /\ loop = None /\ hooks = "none" /\ nudged = "none"

\* The user edits the configuration.
Edit ==
  /\ edits < MaxEdits /\ edits' = edits + 1
  /\ conf' \in Confs \ {conf}
  /\ UNCHANGED <<row, launched, pane, turn, served, loop, hooks, nudged>>

\* The model a turn's process is told: Claude always is, sapling when the configuration
\* chose one, and then by its full name, which a gateway's environment holds.
Told(runtime, m) ==
  IF runtime = "sapling"
  THEN IF ~m.explicit THEN "" ELSE IF m.env # "" THEN "model" ELSE Concrete(m.model)
  ELSE m.model

\* What a launch and a turn run with.
Picked(runtime, c) ==
  LET m == ResolveModel(c) IN [runtime |-> runtime, model |-> Told(runtime, m), env |-> m.env]

\* ov sling: hooks for the mode that was resolved, then the first turn or a pane.
Sling(name, flag) ==
  LET runtime == GetRuntime(name, conf)
      useHeadless == ResolveUseHeadless(runtime, flag, conf)
      picked == Picked(runtime, conf) IN
  /\ row.state \in {"none", "over"} /\ pane = "" /\ turn = None
  /\ ~Refused(runtime, flag)
  /\ hooks' = IF useHeadless THEN "guards" ELSE "all"
  /\ launched' = [picked |-> picked, named |-> name # "", flag |-> flag, conf |-> conf]
  /\ IF useHeadless /\ BuildDirectSpawn(runtime)
     THEN /\ row' = [state |-> "live", tmux |-> FALSE]
          /\ turn' = [by |-> "sling", picked |-> picked, conf |-> conf] /\ pane' = ""
     ELSE /\ row' = [state |-> "live", tmux |-> TRUE]
          /\ pane' = runtime /\ turn' = None
  /\ nudged' = "none" /\ UNCHANGED <<conf, edits, served, loop>>

\* A turn ends; a pane closes; an agent has reported its end.
TurnEnds ==
  /\ turn # None /\ turn' = None
  /\ UNCHANGED <<conf, edits, row, launched, pane, served, loop, hooks, nudged>>

PaneEnds ==
  /\ pane # "" /\ pane' = ""
  /\ UNCHANGED <<conf, edits, row, launched, turn, served, loop, hooks, nudged>>

Finish ==
  /\ row.state = "live" /\ turn = None /\ row' = [row EXCEPT !.state = "over"]
  /\ UNCHANGED <<conf, edits, launched, pane, turn, served, loop, hooks, nudged>>

-----------------------------------------------------------------------------
\* Seeded bug for the runs: the capability's own runtime is passed over for later turns.
FactoryByDefault(c) == Picked(c.default, c)

\* buildRunTurnOptsFactory: runtime and model from the configuration alone.
Factory(c) == Picked(GetRuntime("", c), c)

\* isSpawnPerTurnAgent: the capability, which is task-scoped here, the state, the runtime.
IsSpawnPerTurnAgent(runtime) ==
  row.state = "live" /\ BuildDirectSpawn(runtime) /\ ParseEvents(runtime)

\* runTurn, one at a time.
RunTurn(by, picked, c) == turn = None /\ turn' = [by |-> by, picked |-> picked, conf |-> c]

\* ov serve loads the configuration once; its rescan starts a loop for the agent, and
\* drops the loop of one that is over.
Serve ==
  /\ served = None /\ served' = [conf |-> conf]
  /\ UNCHANGED <<conf, edits, row, launched, pane, turn, loop, hooks, nudged>>

ServeStops ==
  /\ served # None /\ served' = None /\ loop' = None
  /\ UNCHANGED <<conf, edits, row, launched, pane, turn, hooks, nudged>>

Rescan ==
  /\ served # None
  /\ loop' = IF loop # None /\ row.state = "live" THEN loop
             ELSE IF IsSpawnPerTurnAgent(Factory(served.conf).runtime)
             THEN [picked |-> Factory(served.conf)] ELSE None
  /\ UNCHANGED <<conf, edits, row, launched, pane, turn, served, hooks, nudged>>

\* The loop finds mail for the agent.
Tick ==
  /\ loop # None /\ row.state = "live"
  /\ RunTurn("serve", loop.picked, served.conf)
  /\ UNCHANGED <<conf, edits, row, launched, pane, served, loop, hooks, nudged>>

\* ov drive, which loads the configuration when it starts.
Drive ==
  /\ row.state = "live" /\ IsSpawnPerTurnAgent(Factory(conf).runtime)
  /\ RunTurn("drive", Factory(conf), conf)
  /\ UNCHANGED <<conf, edits, row, launched, pane, served, loop, hooks, nudged>>

\* ov nudge: a turn if the agent is driven by turns, else a line in its pane.
NudgeTurn ==
  /\ IsSpawnPerTurnAgent(Factory(conf).runtime)
  /\ RunTurn("nudge", Factory(conf), conf) /\ nudged' = "turn"
  /\ UNCHANGED <<conf, edits, row, launched, pane, served, loop, hooks>>

NudgePane ==
  /\ ~IsSpawnPerTurnAgent(Factory(conf).runtime)
  /\ nudged' = IF row.state = "live" /\ row.tmux /\ pane # "" THEN "pane" ELSE "failed"
  /\ UNCHANGED <<conf, edits, row, launched, pane, turn, served, loop, hooks>>

LaunchNext ==
  \/ Edit \/ TurnEnds \/ PaneEnds \/ Finish
  \/ \E name \in {"", "sapling"}, flag \in {"", "headless", "no-headless"} : Sling(name, flag)
  \/ Serve \/ ServeStops \/ Rescan \/ Tick \/ Drive \/ NudgeTurn \/ NudgePane

-----------------------------------------------------------------------------
\* A later turn runs with the runtime and the model of the launch, whoever starts it, as
\* long as the launch named no runtime of its own and the configuration did not change.
TurnsMatchLaunch ==
  (turn # None /\ launched # None /\ ~launched.named /\ turn.conf = launched.conf)
    => turn.picked = launched.picked

\* Who is launched to be driven by turns can be driven: nudges and the rescan find it,
\* and do not look for a pane.
HeadlessIsDriven ==
  (row.state = "live" /\ ~row.tmux /\ ~launched.named /\ launched.conf = conf)
    => /\ IsSpawnPerTurnAgent(Factory(conf).runtime)
       /\ nudged # "pane"

\* The hooks are those of the place: a pane needs them all, since they bring its mail.
HooksMatch == row.state = "live" => (hooks = "all" <=> row.tmux)

\* A flag is followed: --headless never ends in a pane, and --no-headless only for a
\* runtime that knows no panes in turns.
FlagIsObeyed ==
  row.state = "live" =>
    /\ launched.flag = "headless" => ~row.tmux
    /\ launched.flag = "no-headless" => (row.tmux \/ Headless(launched.picked.runtime))

\* drive.ts, at its guard: a session in a pane fails the run and gets no turns.
DriveLeavesPanesAlone == (turn # None /\ turn.by = "drive") => ~row.tmux

\* What the choice of a place is for: an agent in a pane is alone in its worktree.
AloneInItsWorktree == ~(pane # "" /\ turn # None)

\* A runtime named on the command line stays that of the agent.
RuntimeIsKept == (turn # None /\ launched # None /\ turn.conf = launched.conf)
                   => turn.picked.runtime = launched.picked.runtime
=============================================================================
