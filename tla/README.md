# Overstory in TLA+

Overstory (`src/`) runs a fleet of coding agents on one machine: each agent is an
external program with a git worktree and a branch of its own, a session row in
SQLite, and a mailbox. Nothing is a server that everyone talks to. Dozens of
short-lived processes — `ov sling`, `ov drive`, `ov serve`, `ov merge`, `ov stop`,
the watchdog, the hooks inside each agent — share SQLite files, lock files, a git
repository and the process table, and each decides on what it last read there.
This directory models those decisions, checks them with TLC and proves the
properties that matter most with TLAPS.

Paths below are relative to `src/src/` unless they begin with `src/`.
`PROJECT.json` maps each definition to the lines it models.

## 1. Inventory

| component | code | state | operations | modelled in |
|---|---|---|---|---|
| turn lock | `agents/turn-lock.ts` | promise chain per process, row of `turn-locks.db` | acquire, poll, steal, time out, release | `TurnLock`, abstract `TurnMutex` |
| session rows, runs | `sessions/store.ts` | state, pid, last activity, escalation of each agent; runs | upsert, guarded transition, runs | `SessionState`, `Lifecycle`, `Sling` |
| database upgrades | `sessions/store.ts`, `sessions/compat.ts`, `mail/store.ts`, `metrics/store.ts`, `merge/queue.ts` | tables, columns, `sessions.json` | look, rebuild, add columns, import | `Migrate` |
| turn runner | `agents/turn-runner.ts`, `headless-session.ts` | `turn.pid`, the child process, what it saw of the turn | run one turn, settle the row, tell the parent | `WorkerTurn`, `Stream` |
| mail | `mail/*.ts`, `commands/mail.ts`, `agents/headless-mail-injector.ts` | messages, read flags, pending nudges, loops per agent | send, check, read, reply, purge, dispatch, inject | `Mail`, `WorkerTurn`, `Drive` |
| ov serve | `commands/serve.ts`, `commands/serve/` | loops per agent, sockets, cursors of the feed | start and stop loops, poll, broadcast | `Mail`, `Feed`, `Launch` |
| watchdog | `watchdog/health.ts`, `watchdog/daemon.ts`, `watchdog/triage.ts` | the rows it read, `stalledSince`, escalation level, marker of the run's end | judge, nudge, triage, kill, zombify, report, announce | `Health`, `Watchdog`, `WorkerTurn`, `EventTail`, `Rpc` |
| watchdog process | `commands/watch.ts`, `utils/pid.ts` | `watchdog.pid` | start in front or behind, reclaim, kill others | `PidLock` |
| ov stop | `commands/stop.ts` | — | mark completed, kill by `turn.pid`, unlink it | `WorkerTurn` |
| coordinator and runs | `commands/coordinator.ts`, `orchestrator.ts`, `monitor.ts`, `supervisor.ts`, `run.ts`, `commands/serve/coordinator-actions.ts` | rows of the top agents, `current-run.txt`, tmux sessions | start, stop, status, check-complete | `Lifecycle` |
| ask and nudge | `commands/coordinator.ts`, `commands/nudge.ts` | the debounce file, a pane | ask, wait for the reply, type | `Ask` |
| session hooks | `commands/log.ts`, `events/store.ts`, `insights/` | rows of tool calls, pending outcomes, the session's row | tool start and end, session end | `HookLog`, `Lifecycle`, `Identity` |
| identity | `agents/identity.ts` | `identity.yaml` per agent | create, load, update | `Identity` |
| merge lock | `merge/lock.ts` | one sentinel file per target branch | create, write, inspect, unlink, release | `MergeLock` |
| merge pipeline | `commands/merge.ts`, `merge/resolver.ts`, `merge/queue.ts` | the user's checkout, stash, `merge-queue.db` | merge a branch or all through four tiers, record | `MergeRun`, `Predict` |
| merge prediction | `merge/predict.ts`, `merge/git-version.ts` | the conflict history in mulch | predict, skip tiers, record | `Predict` |
| drive | `commands/drive.ts`, `agents/drive-engine.ts`, `commands/drive-spawn.ts`, `agents/review-verdict.ts` | turn budget, deadline, branch results, the seed's status | seed turn, sweeps, review, merge, gates, reap | `Drive` |
| sling | `commands/sling.ts`, `worktree/manager.ts`, `agents/turn-runner-dispatch.ts`, `runtimes/registry.ts` | `current-run.txt`, session rows, worktrees | admit, create worktree, prepare, record, first turn, roll back; choose runtime and place | `Sling`, `Launch` |
| clean | `commands/worktree.ts`, `commands/clean.ts` | rows it read at its start | check, kill, remove, mark, prune, wipe | `Sling`, `Clean` |
| hooks and guards | `agents/hooks-deployer.ts`, `commands/hooks.ts` | `settings.local.json`; the lead's mail and branches | deploy, install, uninstall; the close gate | `HookFile`, `CloseGate` |
| ingest | `commands/ingest.ts`, `ingest/`, `tracker/seeds-plan.ts` | manifest of a plan, the tracker's seeds | validate, render, create, adopt, overwrite | `Ingest`, `PlanCheck` |
| task groups | `commands/group.ts` | `groups.json` | create, add, remove, status with auto-close | `Groups` |
| runtimes | `runtimes/*.ts` | connections, half-read output, the proxy | parse a stream, call by RPC, start the proxy | `Stream`, `Rpc`, `Proxy`, `Launch` |
| events | `events/tailer.ts`, `events/store.ts` | byte offsets, rows | tail a log, pair tool rows | `EventTail`, `HookLog`, `Feed` |
| doctor | `doctor/*.ts`, `commands/doctor.ts` | — | check, fix | `Doctor`, `Clean`, `Roster`, `Identity` |
| configuration | `config.ts`, `commands/init.ts` | `config.yaml`, `config.local.yaml` | write, parse, lay over, migrate keys, find the root | `Config` |
| roster of agents | `agents/manifest.ts`, `commands/init.ts`, `commands/update.ts`, `doctor/agents.ts` | `agent-manifest.json`, role files | write, refresh, load, check | `Roster` |
| web interface | `src/ui/src/` | the thread of the coordinator's page | send, receive, settle, reload | `Console` |
| tracker clients, checkpoints, metrics, insights and logs, read-only commands | see `PROJECT.json` | — | adapters, reports, files nobody reads back | not modelled: they format, parse and report, or wrap external programs whose answers are inputs of the models |

How they interact:

```
 ov sling / ov drive ──spawn──> worktree + session row ──first turn──> child process
        │                                  ▲   ▲                          │ mail, output
        │ turn lock                        │   │ guarded writes           ▼
 ov serve loop ──turn lock──> turn runner ─┘   ├── watchdog tick       mail.db ──> parent
        │                                      ├── ov stop             events.db ──> pages
        ├── unread mail                        ├── ov clean, ov worktree clean
        └── feed to web sockets                └── session-end hooks
 ov drive ──reviewed branch──> merge pipeline <──merge lock── ov merge <── prediction
 ov coordinator ... start/stop ──> run, current-run.txt ──> the run's end <── watchdog
```

### What is hard, and what makes it correct

* **Turn lock.** Two layers with different failure modes; pids are reused; a caller
  may give up in the middle of the queue. *Correct:* turns of one agent never
  overlap, a call ends in the lock or an error.
* **Turns of a worker.** Runner, watchdog, `ov stop` and dispatcher write one row,
  each from an earlier reading of it. *Correct:* the parent hears of every end of a
  turn; mail is marked read only once delivered.
* **Watchdog.** A tick awaits kills, nudges and model calls between looking at an
  agent and writing about it, and the interval starts the next one meanwhile. *Correct:* a
  dead agent is noticed and reported, no more often than ticks overlap; nobody is killed
  for its age alone; the end of a run is announced.
* **Top agents and runs.** Commands look at tmux, await and write by name. *Correct:*
  `current-run.txt` names a run that exists; a completed session is down.
* **Mail.** Loops come and go with rows that agents are slung into again; a hand-over
  may be refused, a dispatcher may die. *Correct:* read means given; mail arrives.
* **Merging.** The checkout is the user's own; a merge is a sequence of git
  commands of which any may fail or be the last. *Correct:* the user's work
  survives, a failure leaves no trace, "merged" means on the target; a dry run
  predicts the merge it stands for.
* **Driving.** Branches move while they are reviewed, agents sling agents, a budget
  and a deadline cut anything short. *Correct:* what lands is what was reviewed and
  passed, the outcome reported is what happened, every drive ends.
* **Spawning and cleaning.** Admission is check-then-act over several awaits with no
  lock. *Correct:* limits, task locks, one owner per worktree, a row and its
  worktree live and die together; a worker is driven the way it was launched.
* **Files written whole.** `groups.json`, `identity.yaml`, `settings.local.json`, manifests
  and databases are read, changed and written back with no lock. *Correct:* nobody's
  entry becomes another's, what loads is sound, upgrades lose no row.
* **Streams.** Bytes in chunks, lines in halves, frames and queries that overtake one
  another. *Correct:* each event once and in order, each answer to its own question.

The list of hazards, each at its line, is in `PROJECT.json` under `hazards`.

## 2. The modules

`SessionState` and `Health` hold pure operators; `WorkerTurn`, `Watchdog` and `Lifecycle`
extend them. `TurnMutex` is the abstract specification `TurnLock` implements. The
other modules stand alone: each abstracts its neighbours to what it can
see of them. `*Proofs` modules hold theorems: `DriveProofs`, `SlingProofs`, `WatchdogProofs`,
`LifecycleProofs` and `WorkerTurnProofs` those of the module they are named after,
`DeliveryProofs` those of `TurnLock` and `Mail`, `WorkProofs` those of `MergeRun` and of the
other modules of `MCWork`, `AgentsProofs` those of `MergeLock` and of the other modules of
`MCAgents`. `MCTurnLock` and `MCDrive` give constants values for TLC.

`MCWork` and `MCAgents` instantiate many smaller modules **side by side**: a variable
`side` is chosen at the start, the module of that side runs, and the others stay in one
initial state. Nothing is composed that way — the state graph is the disjoint union of
the modules' graphs — but one configuration checks them all, and each property of
these runs is a conjunction of named properties of the modules on its sides.
In several modules an operator commented
"Seeded bug" stands before the definition it is a faulty variant of; no
specification uses it. It is there so that one can put it in the place of the
correct definition and see which property notices.

### TurnMutex, TurnLock
One agent's lock. `chain` is the linked list of promises in `inProcessTails` (the
calls whose `current` is unresolved); `heldBy` is `held_by_pid`. `Enter` is the
synchronous part of `acquireTurnLock`; `Open` comes after `await previous`;
`Claim` is the IMMEDIATE transaction, taken when the row is free, its own, or names
a pid that does not answer `kill(pid, 0)`; `TimeOut`, `TxFails` and `OpenFails` are
the three error paths; `Release` may have its SQL error swallowed. Processes
start, crash and leave their pid to a later process. `TurnMutex` has two variables,
who holds and who has been served: hand-over passes through a moment with no holder.

### SessionState, Health
`AllowedFrom` is `TRANSITION_ALLOWED_FROM`; `AfterTry` is `tryTransitionState` as a
compare-and-swap. `Evaluate` and `Transition` are `evaluateHealth` and
`transitionState`, over the age of the last activity instead of times.

### WorkerTurn
One spawn-per-turn worker with a parent. Two processes can run its turns: the
command that created it (`cli`) and the loop of `ov serve` (`loop`). A turn is the
steps `Acquire` (the lock, here `TurnMutex`'s atomic one, and the reading of the
row), `Spawn`, `PublishPid`, `ChildEvent`/`ChildMail`/`CutShort`/`ChildExit`, `Observe`
(was terminal mail sent?), `Settle` (the final state), `TellParent` and `EndTurn`
(mark read, release); `SetupFails`, `TurnThrows`, `LockTimeOut` and `Crash` are the ways
out. A watchdog tick reads the row (`TickRead`) and acts on that reading in later
steps; `ov stop` is `StopRead`, `StopKill`, `StopReap`. `done`, `died` and `reported` count
the terminal mails the parent receives from the worker, the runner and the watchdog.

### MergeLock
Each system call of `acquireMergeLock` is a step: exclusive create, write of the
payload, read and liveness check, unlink, one retry, release. Commands may be
killed; a sentinel from long ago (`Stale`) may lie there with or without payload.
Pids are not reused here (they are in `TurnLock`).

### MergeRun
A file is known by whose contributions it holds, a commit by branch and version.
`Checkout … Record` are the steps of one merge; the four tiers are `CleanMerge`,
`AutoResolve`, `AiResolve`, `Reimagine`; `skip` is what the conflict history rules out.
Between commands users edit and stage, tools write state files, agents commit.
`reimagineEnabled` is drawn at the start. A dry run takes no lock: `DryRun` finds no row of a
branch and `DryEnlists` enqueues one later, beside the look-up (`MergeBranch`) and the enqueueing
(`Enlist`) of a merge; `overlap` has the branches that were enqueued side by side. git is external: its operations do to the
checkout what the resolver relies on, refusals of checkout and pop included.

### Drive
The whole command as one driver process with program counter `pc`, against agents
that mail, commit, sling and close the seed at any time. `SeedStep`, `SweepStep` and
`ReviewStep` follow `driveCommand`'s phases; a turn is reduced to how it ends.
`snapshot` and `reviewed` are the two values read before a review and compared after it.
`killed`, `driven`, `saw` and `said` are ghosts: the turns the deadline killed, the turns
run, the commit a reviewer had, its last verdict.

### Sling
Processes that spawn agents (`ov sling`, or `ov drive` for those in `Drivers`), one
command at a time: `Start`, `InheritRun`/`ReadCurrentRun`/`WriteCurrentRun`, `Admit` (every
check on one reading of the rows) or `TaskRefused`, `CreateWorktree`, `Prepare`, `Record`,
`FirstTurn`, and `Rollback`, followed in drive by `Terminalize`. `ov worktree clean` is
a walk: `CleanStart` reads the rows, `CleanCheck` and `CleanRemove` take one worktree at a
time, `CleanMark` and `CleanPrune` write the rows. `lost` and `overlap` are ghosts.

### Watchdog
The daemon over several sessions. `Ticks` are those that may be in progress together: the
interval fires whatever the last tick is at. `TickBegin` takes the snapshot (`seen`), `Look` runs
`evaluateHealth` on one agent (`Judge`) and decides; `Kill`, `Nudge`, `TurnEnds` and `Triage` are the
awaits, `Settle` the guarded write with the report to the parent, which may fail unnoticed
(`NotifyParent`), `Announce` and `Mark` the end of a run: the coordinator may not be reached, and the
marker is written all the same. Agents are per-turn, headless or in tmux; they work, fall
silent, die and are slung again, under a tick too: what a tick holds is of the life it read
(`life`). `known` and `missed` are ghosts: whose death the parent was told, and whose it
will not be told by a mishap.

### Lifecycle
`ov coordinator`, `orchestrator`, `monitor`, `supervisor` and the API's endpoints by two
processes. A start goes through `Check` (is a session there and alive?), `NewSession` or
`LaunchHeadless`, `CreateRun`, `NameRun`, `InsertRow`, `AwaitReady`, `Prompt`, `StartServices`; a stop through
`StopKill`, `StopServices`, `StopRecord`, `FinishRun`, `Unlink`, `CompleteRun`; a status is `Probe` and
`MarkZombie`. `SessionEnd` is the Stop hook of an agent, `HookCompletes` what it decides.
`gen` numbers starts; `pane` has the start whose process has the agent's pane, so that
`gen[a] = pane[a]` tells an agent in a pane from a headless one.

### Mail
One action per mail operation of a command and, for each agent, the phases of its loop
in `ov serve` (`Tick`, `Handing`, `Settling`, `Marking`): workers get mail as a turn, headless
agents by injection over a connection, tmux agents by their hook's check, which marks
first and prints then. `Sling` marks what is pending as read for the first prompt
(`Collected`), before the first turn or the coordinator's row; `PromptGiven` and `PromptFails` are
how that ends. Every hand-over may be refused; every process may be killed. `lost` has what was
shown or marked by something that failed then.

### Predict
A file is a sequence of lines with git's markers. `ResolveConflictsUnion`,
`ResolveConflictsKeepIncoming` and `HasContentfulCanonical` are operators over it; `Prediction` reads
`merge-tree`'s answer (of an older git by `ParseLegacy`), `TryCleanMerge … TryReimagine` follow
the tiers, and `SkipTiers` and `Record` are the conflict history both share.

### Work on a project (`MCWork`)
`Ingest` and `PlanCheck`: a plan file to seeds, with a manifest, failures and re-runs, where
the file gives a hash of its own choice and sd may answer for fewer units than it was
asked for; the validator with Kahn's algorithm and the renderer. `Groups`: commands that read
`groups.json`, ask the tracker and write. `Doctor`: checks, and the fixes that run after the
last check. `Clean`: `--worktrees`, `--branches`, `--sessions` in any company, `--all`, `--agent`.
`CloseGate`: the two scripts before a
lead's `sd close`. `Migrate`: openers that upgrade one database side by side. `Config`:
serializer, parser and layers over flat documents. `Roster`: manifest and role files.

### Agents (`MCAgents`)
`PidLock`: `link()` and reclaim of `watchdog.pid`. `EventTail`: a tailer's byte offset over a
log whose lines are halves. `Feed`: polled rows of several writers to the sockets of a room, with a
batch of text for each writer. `Stream`: chunks
to lines to events to the turn's flags. `Ask`: question, nudge, polls. `Rpc`: connections by
name and pending calls. `Console`: frames, query answers and bubbles. `Launch`: runtime,
model and place at the spawn, and again at each later turn. `Proxy`: probe, spawn, poll.
`HookFile`: entries of a settings file, those of the user that look like overstory's among
them. `HookLog`: rows of tool calls and outcomes.
`Identity`: read, change, write of `identity.yaml`. The side `sweep` is `Drive` with slings
that outlast their turn, mail among all and a queue that refuses writes; the side `turn`
is `WorkerTurn` with a runtime that signals its end by events, and `ov stop`; the side `watch` is
`Watchdog` with two ticks in progress over one worker.

## 3. The runs

| run | instance | question and answer |
|---|---|---|
| `turn_lock_safe` | 3 processes, two sharing a pid; 4 calls, two in one process; `openDb` may throw | `MutualExclusion`, the refinement `ImplementsMutex`, and `EveryCallSettles` under fairness: hold |
| `worker_turn_safe` | 2 turns, 1 tick, 1 message, 1 crash | `NoSilentEnd`, `ReadMeansDelivered`: hold |
| `worker_turn_live` | 1 turn, 1 tick, `ov stop`, no crash, fairness | `ParentHears`: holds |
| `worker_turn_signals` | 1 turn, 1 tick, 1 message, no crash | `OneSignalPerTurn`: **violated** (section 6) |
| `drive_merge` | lead, 2 builders, 4 turns, 2 commits per branch, 3 verdict mails | `OnlyReviewedWorkLands`, `OnlyPassedWorkLands`, `EveryMergeIsDisclosed`, `SeedFollowsOutcome`: hold |
| `drive_ends` | `--no-merge`, lead, 2 builders, 3 turns, slings that outlast their turn, mail to a builder, fairness | `EveryDriveFinishes`, `TurnBudgetKept`, `NoOpMasksNoFailure`: hold |
| `sling_safe` | a sling and a drive, leads and builders of one task, 2 names each, 3 commands/cleans/kills in all; at most 2 live agents, 1 child per lead, 3 sessions per run | `OneSlingPerWorktree`, `DriveRowHasWorktree`, `TaskStaysInFamily`: hold |
| `watchdog_tick` | a coordinator and a worker of each kind, one tick at a time, 2 lives, slung at any time, 1 triage, 1 crash of the daemon, fairness | `ZombieIsReported`, `ReportsWithinOverlap`, `PersistentSurvivesTime`, `TheDeadAreNoticed`, `RunEndIsNoticed`: hold |
| `lifecycle_runs` | coordinator, orchestrator, monitor, supervisor; 2 processes, 2 starts, 3 commands | `CurrentRun`, `CompletedIsDown`, `HookSparesTheWorking`: hold |
| `mail_arrives` | a worker, a tmux lead, a headless coordinator; 2 messages, 2 lives of the worker, 3 slings and messages together, 1 crash, fairness | `ReadIsGiven`, `MailArrives`: hold |
| `work` | 11 modules side by side (`MCWork`) | `MergesHold`, `WorkIsKept`, `PlansHold`, `SettingsHold`, `PredictionHolds`, `FilesHold`, `UserWorkKept`: hold |
| `agents` | 16 sides, of as many modules (`MCAgents`) | `NoFalseRefusal`, `NothingLeftBehind`, `EventsHold`, `AnswersHold`, `LaunchHolds`, `TurnsHold`, `TextsHold`: hold |

What the conjunctions of the last two runs say:

* `MergesHold` (MergeRun): where reimagines are disabled, what is recorded as merged is on the
  target, and, as long as no command was killed, a merge that fails in every tier leaves no
  markers and no merge in progress and the user's stash comes back; a branch has one row
  unless two commands found none and enqueued it side by side. `UserWorkKept`: no step, kills
  included, loses a change of a tracked file that the user had in the checkout or the
  stash; an untracked file is deleted only if it is one of the files of the branch at hand (and
  then it is lost when the merge fails: `DeletedIsReplaced`, section 6).
* `WorkIsKept` (Doctor, Clean, CloseGate, Migrate): a repair does not drop the last fresh
  row of a branch; no agent that was at work when a clean began, and that the clean ended or
  should have ended first, loses its worktree or row while it works (the agents this does not
  speak of do lose them: `WorkersKeepTheirPlace`, section 6); a lead closes only when its own
  work is merged; overlapping or dying upgrades lose no row.
* `PlansHold` (Ingest, Groups): when a plan file counts as unchanged, the plan last applied with
  its hash has a seed for each group and each unit that sd answered for; a completed
  group holds only issues that were closed at some time while the commands ran.
* `SettingsHold` (Config, Roster): worktrees share one root; what loads of the roster has a
  sound index, and a refresh makes all of it sound; what the doctor passes loads, but for an
  array of definitions and list items of a wrong type, and what loads it faults only for its
  index and a role without capability.
* `PredictionHolds` (Predict): with a git that writes a tree, when every conflict is one of text and
  history does not rule the second tier out, the merge takes a model just when that was
  predicted; a merge without a model drops no contentful line of the target.
* `FilesHold` (Config, PlanCheck): layers of settings win one by one, in order; the validator
  accepts exactly the plans that can be done.
* `EventsHold` (EventTail, HookLog): recorded events are lines of the logs, in order and none twice,
  until the daemon restarts; the end of a tool call closes its own start, unless calls of that tool
  run in parallel or a start is lost; the applied records get one outcome, and at most one more
  for each hook that died or could not unlink their list.
* `AnswersHold` (Ask, Rpc, Console): an ask prints a reply to its own question and gives up only
  when none came in time; a call that waits has a timer and an entry, and ends with its own
  answer if with any; the coordinator's page keeps what it showed.
* `LaunchHolds` (Launch, Proxy, PidLock): a worker whose launch named no runtime is driven the
  way it was launched as long as the configuration stays what it was; commands
  that start the proxy side by side do not fail because of one another; two watchdogs
  run together only after a pid file was taken for stale.
* `TurnsHold` (Drive, WorkerTurn, Watchdog): the sides `sweep` and `turn` keep `TurnBudgetKept` and
  `NoSilentEnd`, the side `watch` `ZombieIsReported` and `ReportsWithinOverlap`.
* `TextsHold` (Stream, Feed, HookFile, Identity): a clean turn said so, and one session is
  pinned; a socket gets each event polled while it is in the room once, tool events in order
  and the text of each writer in order; the user's hooks that mention no `ov` stay as
  long as no writes overlap or break off; an identity is the agent's own, its sessions are
  never counted twice, and all are counted while no hooks of the agent overlap.
* `NoFalseRefusal` and `NothingLeftBehind` (MergeLock): a merge is refused only if another command
  for its target was running while it tried; commands that ended leave no lock file.

**Why the bounds are enough.** Each bound is the smallest at which the cases of
interest all occur. A pid shared by two processes needs a third process to steal
from the wrong holder; two calls in one process are needed for the chain. A stale
reading of a worker's row needs one turn that ends while a tick is in progress;
the second turn is there for what outlives the first (lock, `turn.pid`, orphaned
child, unread mail). The merge lock's races are between two commands, with a third
that may act on what they leave. Two branches that meet in one file reach every
tier; the third command meets what the first two left. Two builders are the least
for an outcome that is neither all nor nothing; three turns are the lead's and one
review of each. The number of events of `sling_safe` (3) allows one command to overlap
another and a clean or a kill to hit either, or a third command to find an ended
agent. In the watchdog, mail and clean modules a second life of a name is what stale
readings can hit; two ticks are the least that overlap, two writers the least whose batches
are flushed out of order, two hashes the least of which one is wrong. Two commands side by side are what a file read and written
whole needs to be lost in; the third operation meets the result. A log of three lines
in two halves has a first, a middle and a last line and every place to stop in. Bounds only
stop the environment (turns, commands, edits, mails, kills); none stops a handler in
the middle. Some bounds narrow data: `MaxHead`, `MaxSuffix`, the two versions of a
branch, at most one untracked file of the user in a run of `MergeRun`, the first writer in `Feed`, that
hooks which mention `ov` are of the second event in `HookFile`, the sampled documents of `Config`, the sampled files of `Predict` (`Rich`), the
sampled outputs of `Stream` and settings of `Launch`.

`CHECK_DEADLOCK FALSE` stands in every configuration because the modelled systems
really stop: calls settle, commands end, a drive is done, and the environment's
bounds run out.

No run uses symmetry. `MaxTurns` in `Drive` is the code's own `--max-turns`, not a bound;
`MaxConcurrent`, `MaxPerLead` and `MaxPerRun` in `Sling` are settings of the code.
`watchdog_tick` has one tick at a time, since two with every kind of worker and fairness are too
many for TLC; ticks that overlap are the side `watch` of `agents`, and in the theorems any number
of them.

## 4. Fairness

* `TurnLock!FairSpec`: weak fairness of opening the database once first in the
  chain, of the clock, of the poll (which claims or times out) and of releasing.
  A live process runs its event loop; `runTurn` releases in a `finally`. Claiming
  alone is *not* fair: another process may win every poll, and the time-out is what
  ends the wait. No process is obliged to start, call or crash.
* `WorkerTurn!FairSpec`: weak fairness of each step of a runner, of the steps of `ov
  stop` once begun, of each tick, of the ageing of the row, and of the child's exit —
  the runner's stall timer ends a child that does not end by itself. Nothing
  obliges anyone to send mail or to stop the worker.
* `Drive!LiveSpec`: weak fairness of the driver's own steps (a turn it awaits ends,
  by the stall timer if need be) and of slings in progress. The deadline is **not**
  fair: every drive ends even if it never comes.
* `Watchdog!Spec`: weak fairness of the daemon's steps, of each tick by itself: its interval timer fires and its
  awaits return (kills have a grace period, a triage call a timeout). A crash of the
  daemon is followed by a new start as long as crashes are bounded. Agents owe nothing.
* `Mail!Spec`: weak fairness of `ov serve`'s steps, of each loop's timer and of an agent's
  hook, and strong fairness of a hand-over (`Handing`): a refusal is retried with every
  tick, and no process refuses for ever while it lives. Senders owe nothing.

## 5. What is proved

All theorems hold for every value of the constants that satisfies the module's
`ASSUME`, and are checked by TLAPS to the last leaf.

* `DeliveryProofs`, the turn lock. `LockInvariant`: `LockInv` is inductive. Mutual exclusion alone is
  not: one also needs that the lease names its holder's pid, that live processes
  have different pids (so that nobody takes a live holder for dead), that a call
  past `await previous` is first in its chain (so that two calls of one process,
  which would find each other's lease "their own", never poll together), and that
  unborn processes make no calls. `TurnsNeverOverlap` follows. `LockImplementsMutex` is the
  refinement: under the mapping of `TurnLock`, every step is a step of `TurnMutex` or a
  stutter. Assumed: the types of `PidOf` and `ProcOf`, and that `NoPid` is no pid.
* `WorkerTurnProofs`. `TurnInvariant`: `TurnInv` is inductive; besides types it says
  that an observed terminal mail was sent in this turn, and that the state a runner
  settled for is the one it decides the parent's notice by. `NoTurnEndsInSilence`
  follows, for both kinds of runtime. `CompletedForGood` is an action property: every step
  that writes the row goes through the compare-and-swap (`RowMovesByTry`), which never leaves `completed`.
  `ReadWhenDelivered`, an action property too, needs that a runner inside a turn holds the lock.
* `AgentsProofs`, the lock of a merge. `SentinelInvariant`, `NobodyIsRefusedFalsely`, `NothingIsLeftBehind`.
  That somebody ran beside a refused command is not inductive; the invariant adds who
  can own a sentinel, that a sentinel of the past is passed only by unlinking it, and
  that commands which run together have met.
* `WorkProofs`, the merge command. `RunInvHolds`: `RunInv` is inductive. `MergesHoldAlways` and the
  action property `UserWorkSurvives` follow. Git knows a commit for merged (`UpToDate`) when
  *any* commit that concludes a merge in progress is made, so the invariant must say that
  all of the commit is staged or in conflict then (`HeadIsStaged`), also of a merge that a killed
  command left behind and the next command's auto-commit concludes; that a tier finds the
  merge with just the conflicts it believes in, or none begun (`TierFindsMerge`); that the target
  holds what git calls merged (`AncestorsHeld`). The stash comes back after a failure because nothing
  moved under it (`StashFits`); the user's work survives because nothing of it is in the checkout
  from the stash to the abort (`OfThisMerge`). `QueueInv` says that a row which is not there yet
  can come twice only by way of `dry` and `overlap`. Assumed: the newer version of a branch
  changes what the older one changed. A reimagine may break the rest of `MergesHold`, but not
  the user's work or the rows; a killed command may break that a failed merge leaves no trace.
* `DriveProofs`. `TurnBudgetIsKept`: the counter of turns covers the turns in progress
  (`Counted`), stays below the budget while a turn may start (`BelowBudget`), and the
  outcome blames the budget only when it is used up (`Blamed`). `DriveInvHolds`: `DriveInv` is a
  tower of five invariants, each proved with the ones below it. `ShapeInv`: types, the branches
  found, those before the one at hand are concluded. `ReviewerInv`: only the reviewer of the
  branch at hand is live or awaited; so no other checkout moves `saw`. `CommitInv`: what landed is what was
  seen, and from the choice of a branch on `reviewed` is its head then, so that the re-check makes them equal.
  `VerdictInv`: a mail after `snapshot` that is its reviewer's last is the last word, so that a PASS
  taken from it is not a stale one. `OutcomeInv`: what the result says. From it
  `OnlyReviewedWorkIsMerged`, `OnlyPassedWorkIsMerged`, `SeedIsLeftByOutcome`, `NoOpIsHonest`, and
  `MergesAreDisclosed`, which excepts the one branch that the queue could not record (section 6 says what
  happens to it).
  Assumed: finitely many agents, positive budgets, flags are Booleans.
* `SlingProofs`. `LimitsBounded`: spawns that run side by side do not see each other's
  rows, so the limits on live agents and on children of a lead *can* be exceeded.
  The theorem says by how much: never by more than the number of the other
  processes. The invariant counts admitted commands that have no row yet together
  with the live rows. It has no run: the excess needs more commands than TLC can interleave.
  `SpawnInvHolds` adds who owns a worktree and what a drive's row stands on: `NoTwoOwners`
  and `DriveKeepsRowsWhole` (both for runs without a clean, as in the code a clean takes what it
  likes). `OnlyFamilyJoins`: while no two commands overlap, what the admission saw of the task's
  holder is still true when the row is written; the holder is the oldest, and
  that there is an oldest needs the order of the rows in the invariant. Assumed:
  finitely many processes, positive limits.
* `WatchdogProofs`, for any number of ticks in progress. `WatchInvHolds`: the reports of a life, and
  the ticks that may still report it, are together no more than the ticks there are, since each
  tick has one reading of the agent; of a zombie the parent knows, a tick is telling it, or it is
  `missed`. `DeathIsReportedByOverlapOnly` and `EveryZombieIsReported` follow; `TimeKillsNoPersistent` is an action
  property.
* `LifecycleProofs`. `LifeInvHolds`: starts are numbered, and a start is held by the one process
  that made it until it is in a row, so that its run is nobody's to complete. From it
  `CurrentRunIsReal`, `NoneCompletedAtWork` (commands that do not overlap) and the action property
  `HookLeavesTheWorking`.
* `DeliveryProofs`, mail. `MailInvHolds`, `NothingReadUngiven`. `ReadIsGiven` is not inductive: the invariant adds that
  what a dispatcher is yet to mark has been given, that a check marks only what it shows to
  its own agent, that what it shows and did not mark was given already, and that a first prompt
  holds what its sling marked.
* `WorkProofs`, the other modules of `MCWork`. The modules are side by side, so an invariant of each is
  kept by every step of `SideSpec` (`SideInits`, `SideSteps`), and the theorems take them together.
  * `WorkIsKeptAlways`. Doctor: what a fix deletes is old or has a later row of its branch
    (`FixSparesFresh`). `CleanInv`: what an earlier step of a clean leaves behind for a later one: once
    the processes are killed, those that live are `apart` (they started beside the command,
    survived the kill or were in nobody's way), and worktrees go only after that. `GateInv`: what the hooks of a lead's close have seen still holds when the tool runs, as the
    lead does nothing else meanwhile. `MigrateInv`: a table has exactly one of the old and the
    new name of a column (`TableInv`), what an opener saw is true up to what the others may have
    done since (`ViewInv`), and exact for one that was alone all the time (`LoneInv`).
  * `PlansHoldAlways`. `IngestInv`: what a run has done and what it found in the manifest are seeds that
    were made, and what it has done covers the plan but for what is left and what sd did not
    answer for (`Covers`). `GroupInv`: a command that
    asks the tracker knows of the members it has asked for, and issues stay counted.
  * `SettingsHoldAlways`. `RootInv`, and `RosterInv`: the steps of a refresh that are past were done,
    unless the user edited since. That the built manifest is sound, and that the doctor's checks
    imply the loader's, are facts about operators (`BuiltFact`, `DoctorFact`).
* `AgentsProofs`, the other modules of `MCAgents`.
  * `EventsHoldAlways`. `TailInv`: what is recorded lies behind the tailer's offset or in an earlier
    log, which a restart alone forgets (`Passed`). `HookInv`: of a tool whose calls do not overlap, the
    call at work has the latest open row (`OwnRowIsLatest`), so that the query for the latest finds
    its own.
  * `AnswersHoldAlways`. `AskInv`: a message is younger than what it replies to, and one in time is
    still there. `RpcInv`: who waits has a timer and an entry (`CallsHold`), an id belongs to one
    call of a connection (`IdsDiffer`), so an answer on the wire names its call (`WireIsTrue`), and the
    connection registered under the name is open (`Registered`). `PageInv`: the token of what is
    asked is one that is waited for.
  * `LaunchHoldsAlways`. `LaunchInv`: who runs without a pane has a runtime of single turns, and a turn or a
    loop has what the factory gave for its configuration. `ProxyInv`: while a command polls, somebody's
    process has the port or is about to. `PidInv`: as long as no file was taken for stale it
    names the living daemon that holds the lock.
  * `TurnsHoldAlways`. No invariant of its own: `DriveProofs` and `WorkerTurnProofs` are instantiated with the
    constants and variables of the sides (`D`, `W`), their assumption on constants is proved, and
    both instances of a module have the same formulas (`SameDrive`, `SameTurns`).

  Assumed (`WorkConstants`, `AgentConstants`, `LockConstants`): bounds are numbers, a plan's groups have
  a place in the file's order, `lead` is no builder, and no process is called what stands
  for none, a stranger or a stale file.

The invariants named `...Inv` are conjunctions that exist for their proofs. They are theorems
and not listed as properties of runs, as is `CompletedIsSticky` (`CompletedForGood`).

Only model-checked:

* everything temporal with fairness (`EveryCallSettles`, `ParentHears`, `EveryDriveFinishes`,
  `TheDeadAreNoticed`, `RunEndIsNoticed`, `MailArrives`): liveness and ENABLED are outside the
  prover's reach;
* `PredictionHolds`, `FilesHold` and `TextsHold`. Each says what a function computes of a
  text of any length: that git's conflict markers are found again in what was written
  (`FlattenSeq`), that layers of settings merge, that a plan has no cycle, that an identity
  reads back as it was written and a stream as it was said (`FoldLeft`), that a filter keeps the
  user's hooks and a socket's events (`SelectSeq`). All of it is induction over data, and of
  `SelectSeq` the provers do not know the definition.

## 6. Where code and comments disagree

Properties that state what a comment, doc or test says and that the code's
behaviour violates. They stay in their modules; TLC finds a counterexample at once
with the constants of the configuration named, and those given in brackets changed.
One of them is a run; the other violated statements are recorded here only. A configuration
of a plain name is that of the run; in `Work` and `Agents` the side is the module's.

| property | where to see it | what happens |
|---|---|---|
| `OneSignalPerTurn` | run `worker_turn_signals` | a worker that sent its terminal mail and then died is signalled again by its runner (`agents/turn-runner.ts:1562` against the comment at 1505) |
| `OneMergePerTarget` | `Agents` | the sentinel exists empty before it is written, an empty one counts as stale and is unlinked by path (`merge/lock.ts:65` against line 2) |
| `FailureUnblocksChain` | `TurnLockSafe` | `openDb` throws outside any try: the chain entry is never resolved and later calls of the process wait for ever (`agents/turn-lock.ts:112` against 198) |
| `DeathIsReportedOnce` | `WorkerTurnSafe` | a tick that read the row before the runner settled it adds its own notice (`watchdog/daemon.ts:707` against `turn-runner.ts:429`) |
| `WatchdogReportsOnce` | `WorkerTurnSafe` [`Ticks = {t1, t2}`] | `zombie` to `zombie` is an allowed transition, so overlapping ticks both report (`sessions/store.ts:50` against `daemon.ts:559`) |
| `ZombieIsDurable` | `WorkerTurnSafe` | settling writes `completed` over `zombie` (`turn-runner.ts:1489` against `store.ts:27`) |
| `NoRespawn` | `WorkerTurnSafe` [`StopAllowed = TRUE`] | the state is checked before the wait for the lock and not after (`turn-runner.ts:870` against `turn-runner-dispatch.ts:88`) |
| `LiveTurnIsKillable` | `WorkerTurnSafe` [`EventSignaling = TRUE`, `Ticks = {}`, `StopAllowed = TRUE`, 3 turns] | `ov stop` unlinks a `turn.pid` that a newer turn has written (`commands/stop.ts:196` against `turn-runner.ts:972`) |
| `OneMergePerCheckout` | `Agents` | the lock is per target, the checkout is one (`commands/merge.ts:255` against 251) |
| `AutoCommitsStateOnly` | `Work` | `git commit -m` takes what the user has staged along (`merge/resolver.ts:125` against 723) |
| `MergedIsOnTarget` | `Work` | a reimagine writes only the files listed when the branch was queued (`resolver.ts:436` against `commands/merge.ts:163`) |
| `StashBackAfterFailure` | `Work` | after a failed reimagine the pop is refused and nobody looks (`resolver.ts:956` against `merge/resolver.test.ts:369`) |
| `DeletedIsReplaced` | `Work` | untracked files are deleted before the merge is tried and not restored (`resolver.ts:758` against 780) |
| `KilledTurnIsReported` | `DriveMerge` [one scout, mail among all] | a worker killed by the deadline ends in `no_op`, exit 0 (`commands/drive.ts:863` against 449) |
| `NoMergeIsHidden` | `DriveMerge` | a queue write that throws after git has merged hides the branch from the result (`drive.ts:1104` against 512) |
| `ReportedOncePerLife` | `WatchdogTick` [`Ticks = {t1, t2}`] | a tick that outlasts the interval is followed by another beside it, and both report a death (`watchdog/daemon.ts:463` against 559) |
| `RunEndIsHeard` | `WatchdogTick` | the marker of a run's end is written even when the nudge failed (`daemon.ts:247`, 325 against 279) |
| `NewLifeIsSpared` | `WatchdogTick` | a tick that read a dead agent zombifies the one slung under its name meanwhile (`daemon.ts:707`) |
| `HeadlessIsDown` | `LifecycleRuns` | a start looks for the pane of a headless coordinator at work, finds none and completes its row; a stop sends it one SIGTERM and completes the row (`commands/coordinator.ts:449`, 1002) |
| `OneRowPerBranch` | `Work` (MergeRun) | a dry run takes no lock and enqueues after an await, `merge_queue` has no unique branch; the doctor repairs duplicates (`commands/merge.ts:251`, `merge/queue.ts:45`, `doctor/merge-queue.ts:132`) |
| `WorkersKeepTheirPlace` | `Work` (Clean) | `--agent` does not end a process whose pane is gone and removes its worktree, a kill that fails is passed over, and `--sessions` alone drops the rows of agents at work (`commands/clean.ts:477`, 560) |
| `UnchangedIsWhole` | `Work` (Ingest) | the hash is that of another document and may be any, so that other groups count as unchanged; a unit for which sd answers no child is dropped (`commands/ingest.ts:96`, 404) |
| `EveryUserHookStays` | `Agents` (HookFile) | a hook of the user that mentions `ov `, `overstory` or `OVERSTORY_` is taken for overstory's and dropped (`agents/hooks-deployer.ts:635` against 632: "User hooks will not contain these patterns") |
| `StillWorkingChildIsAwaited` | `DriveMerge` [one builder, `Background = TRUE`] | three quiet sweeps take milliseconds (`agents/drive-engine.ts:133` against `drive.ts:40`) |
| `NoLiveRowAfterFinish` | as above | a sling in progress inserts its row after the reaping (`drive.ts:674` against 661) |
| `TaskIsLocked` | `SlingSafe` | two slings admit each other on one task (`commands/sling.ts:787` against 785) |
| `LiveRowHasWorktree` | `SlingSafe` | when the first turn throws, sling removes the worktree and leaves the row (`sling.ts:1266` against `commands/drive-spawn.ts:343`) |
| `ChildInParentsRun` | `SlingSafe` | the run is resolved before the parent of a re-spawned agent is (`sling.ts:698` against 697) |
| `CleanSparesTheLiving` | `SlingSafe` | a worktree without a row yet counts as finished (`commands/worktree.ts:156` against 397) |
| `WorkSurvivesClean` | `SlingSafe` | commits between the merge check and the removal go with the branch (`worktree.ts:258` against 399) |
| `LeadWorkKept` | `SlingSafe` | a lead whose seeds cannot be preserved is removed all the same (`worktree.ts:247` against 234) |
| `AutoNameIsNew` | `SlingSafe` | an automatic name may be that of an ended agent, whose row is overwritten (`sling.ts:763` against 758) |
| `OneLeadPerTask` | `SlingSafe` | `checkDuplicateLead` has no caller (`sling.ts:378` against 368) |
| `ShownOnce` | `Agents` (Console) | the operator's bubble stays beside its message when the query brings the message first (`src/ui/src/routes/coordinator/ConsolePage.tsx:235`) |
| `AnsweredIsSettled` | `Agents` (Console) | a reply that the query brings first settles nothing, its frame is then dropped as known, and the page waits for ever (`ConsolePage.tsx:235`) |
| `PassedLoads` | `Work` (Roster) | the doctor passes arrays and lists of non-strings that the loader rejects, and fails manifests without an index, which load (`doctor/agents.ts:23` against `agents/manifest.ts:62`) |
| `EverySessionCounts` | `Agents` (Identity) | two session-end hooks read the same counter, one count is lost (`agents/identity.ts:335`) |
| `DriveLeavesPanesAlone` | `Agents` (Launch) | drive gives turns to an agent that runs in a pane (`commands/drive.ts:753` against `agents/turn-runner-dispatch.ts:95`) |
| `AloneInItsWorktree` | `Agents` (Launch) | and that turn works in the same worktree beside the pane's process |
| `RuntimeIsKept` | `Agents` (Launch) | `ov sling --runtime X` is recorded nowhere; later turns take the runtime the configuration names then (`turn-runner-dispatch.ts:55`) |
| `AbortedIsGone` | `Agents` (Rpc) | a kill that sapling's abort answered is not followed by a signal, and the abort is only a message (`watchdog/daemon.ts:502`) |
| `DropsItsOwn` | `Agents` (Rpc) | a connection is removed by name after an await and may be a newer one (`watchdog/daemon.ts:502`, `runtimes/connections.ts`) |
| `ClosedWorkIsMerged` | `Work` (CloseGate) | the gate looks at the lead's own branch, and leads leave the commits to their builders (`agents/hooks-deployer.ts:350`: "proves the coordinator actually merged the work") |
| `FinishedMayClose` | `Work` (CloseGate) | the gate counts the `worker_done` of scouts and reviewers, who have nothing to merge, and asks for a `merge_ready` even of a lead with none |
| `LegacyIsSafe` | `Work` (Predict) | with an older git the parser ends a section at its first blank line; markers after it are not seen and the conflict is predicted as a clean merge (`merge/predict.ts:330`) |
| `SettingsAlwaysWin` | `Work` (Config) | a local file that sets the old key `tier1Enabled` turns tier 0 on and leaves tier 1 off (`config.ts:420` against 865) |
| `WrittenStays` | `Work` (Migrate) | a rebuild decided on a stale look loses the columns another opener added (`sessions/store.ts:292`, `mail/store.ts:121`) |
| `ImportedWhole` | `Work` (Migrate) | the import of `sessions.json` is no transaction, and a half import counts as done (`sessions/compat.ts`) |
| `LockStaysHeld` | `Work` (Doctor) | the doctor removes the lock file of a running merge (`doctor/structure.ts:234` against `merge/lock.ts:3`) |
| `RerunAdopts` | `Work` (Ingest) | a run after a failed one makes a second seed for a group the manifest does not name (`commands/ingest.ts:419`, 518) |
| `TypedOnce` | `Agents` (Ask) | two nudges read the debounce file before either writes it (`commands/nudge.ts:241`) |
| `InRowOrder` | `Agents` (Feed) | a tool event overtakes text that waits in a batch, and the text of one agent that of another (`commands/serve/ws.ts:91`) |
| `NoMailMissed` | `Agents` (Feed) | a mail of the same millisecond as the last one polled is never sent (`commands/serve/ws.ts:281`) |
| `ToldOnce` | `Work` (Groups) | two status commands complete a group and both announce it (`commands/group.ts`) |
| `EndsPair` | `Agents` (HookLog) | of two parallel calls of one tool, ends may close each other's starts (`events/store.ts:143`) |
| `OneWatchdog` | `Agents` (PidLock) | two starts reclaim one stale pid file and both run (`utils/pid.ts:56`) |
| `NoLineLost` | `Agents` (EventTail) | a poll in the middle of a line moves the cursor past its first half (`events/tailer.ts:164`) |
| `TailsTheLiveLog` | `Agents` (EventTail) | an agent slung again keeps the tailer of its old log (`watchdog/daemon.ts:731`) |
| `AlreadyRunningIsTrue` | `LifecycleRuns` | the API takes a dead coordinator's row for a running one (`commands/serve/coordinator-actions.ts:328` against 312) |
| `MailArrivesInEveryLife` | `MailArrives` | a loop that stopped by itself is not started again for an agent slung again under its name (`agents/headless-mail-injector.ts:251` against `commands/serve.ts:418`) |

Where a statement fails only in a corner, a weaker property that does hold is run
instead: `StashBackAfterGitMerge` and `GitMergeIsOnTarget` (no reimagine), `AbortIsBreaker`
(top agent and reviewers), `TaskStaysInFamily` (commands that do not overlap),
`DriveRowHasWorktree` (agents a drive spawned), `OwnWorkIsMerged` (the lead's own commits),
`OneRowUnlessOverlap` (rows not enqueued side by side), `ReportsWithinOverlap` (as many reports as ticks
overlap), `CompletedIsDown` (agents in panes), `NobodyIsPulledAway` (agents that the clean ended),
`UnchangedIsIngested` (the plan that was applied), `UserHooksStay` (hooks that mention no `ov`),
`OneWatchdogUntilReclaim`, `NeverOvercounts`, `CountedAlone` (hooks that do not overlap),
`MailArrives` (the first life), `LinesOnceInOrder` (of the lines recorded).

Met while modelling, without a property of their own:

* **Watchdog.** The marker of a run's end is keyed by the run id alone and never cleared, so
  workers slung after it end unannounced. A decision gate is ignored once
  the age passes `zombieMs` (886). A daemon that dies between zombifying and reporting loses
  the report, and so does a mail store that cannot be written (572, 600). A zombie's tmux session is not killed in later ticks (`store.ts:474`). A nudge of a
  per-turn agent waits for a whole turn in the tick. `killProcessTree` sends a process
  without children only SIGTERM (`worktree/tmux.ts:353`). A triage answer "unrecoverable"
  contains "recoverable" and means retry.
* **Top agents.** A zombie coordinator cannot be stopped (`coordinator.ts:994`), so its run, watchdog and
  monitor stay. A start after a crash writes over `current-run.txt`; the old run stays active.
  `stop` completes whatever run the file names and stops the watchdog whoever started it
  (1033). Stop and status write by name after awaits and may hit a newer session. A
  start killed between the tmux session and the row makes every later start fail
  (`tmux.ts:168`). A supervisor's Stop hook completes its row after each model turn
  (`log.ts:139`). `check-complete` never counts zombies, and only pending merges (1551).
* **Mail.** The API and `reply` send to agents that ended (`mail-actions.ts:123`, `client.ts:198`), which
  `ov mail send` refuses. Two dispatchers may deliver one batch twice. A check killed after
  it marked loses the mail, and so does a first turn that throws: the sling has marked what
  was pending as read before (`headless-session.ts:153`; also `coordinator.ts:580`). A headless agent loses its connection when `ov serve` restarts
  (`serve.ts:375`). A reply between the last look of `ask` and its deadline stays unread.
* **Prediction.** It is not in step with the merge for conflicts without markers, a tier in
  `skipTiers`, a model that is disabled; and history is keyed on the changed files in the merge but on
  the conflicting ones in the prediction (`predict.ts:12`). A tier once skipped for a file never
  comes back; only the last tier's failure is recorded.
* **Configuration.** `formatYamlValue` escapes what `parseValue` does not unescape, and strings like
  `~`, `True` or `-5` come back as other types (`init.ts:343`, `config.ts:338`). Turning tier 1 on with the
  defaults fails validation (619). A section set to null throws.
* **Upgrades.** Two openers that add a column: the second throws. `sessions.json` is never
  renamed, so a purge of all rows imports it again.
* **Doctor.** `--fix` cannot make a missing `worktrees/` (`consistency.ts:100` throws first); some
  checks say fixable and have no fix; a fixed pending row may be the only record of unmerged work.
* **Hooks.** An agent's start at the root strips other hooks `ov hooks install` put there; a broken
  settings file counts as empty on deploy and throws on install; the mulch entry is not
  recognised as overstory's (`hooks-deployer.ts`).
* **Streams.** A JSON `null` line throws out of Claude's parser and ends the turn with the text
  batched so far (`claude.ts:305`); a result without `is_error` counts as clean; sapling never pins a
  session id. Outcomes are appended again if a hook dies before it unlinks, or cannot (`log.ts:540`, 550).
* **Ingest.** `--overwrite` is sent for a pending plan never submitted; a group dropped and added
  again is made twice; a killed run leaves no manifest.
* **Roster, identity.** `ov update` writes over the user's own roles; an init killed between its two
  files leaves a project only `--force` repairs; an identity file read half empty parses to the
  name "" and is then written one directory up.
* **Console.** A second send replaces `pending`, so the first bubble never settles; a failed send
  clears a newer one (`ConsolePage.tsx:397`). The socket schedules a reconnect on both close and
  error (`src/ui/src/lib/ws.ts`).
* **RPC, proxy.** `getState` after the end of the stream waits its whole timeout; a write that
  throws leaves its entry and timer; the registry is per process, so the daemon never sees
  `ov serve`'s connections. The loser of two proxy starts returns the pid of its dead proxy.

## 7. What the models leave out

* `TurnLock`: SQLite's own locking and busy waits are the atomicity of a transaction
  and its possible failure.
* `WorkerTurn`: the lock is the abstract mutex (justified by `ImplementsMutex`); the
  worker has a parent; a row is read and written atomically; the retry back-off of the
  dispatcher. The tmux and headless branches of `ov stop` and `--clean-worktree` are in no
  module. `ParentHears` assumes that runners do not crash: between settling the row and
  telling the parent nobody would.
* `Watchdog`: mail to an offline recipient and mulch's failure records; a missing or stale
  `current-run.txt`, all agents being of one run; the model's answer is any of the words it may
  contain, and whether a decision gate lies among the mails is a choice.
* `MergeRun`: one command at a time (what overlapping does to the lock is
  `MergeLock`'s subject); the AI's answer beyond success or failure, conflict history
  beyond which tiers it rules out. `Predict` has the files' lines and the history, and no
  user, stash or crash.
* `Drive`: preflight, the wording of results, mail beyond verdicts and the fact that an
  agent has some; prediction is a choice; one drive at a time.
* `Sling`: overlay, identity and expertise files and terminal start-up are one step
  that may fail; the stagger delay is the interleaving itself; `--depth` is an
  argument the caller provides and limits nothing between agents.
* `Lifecycle`: beacons, attach, the text of prompts. `Mail`: threads, formatting.
  `Feed` and `Console`: the REST handlers, which read or call what is modelled elsewhere, and
  the pages other than the coordinator's. `Config`: validation is a sample of rules.
* `tracker/` clients, the tmux wrapper's key strokes, the command lines and transcripts of
  the adapters other than the two headless ones, the guards' regular expressions,
  `metrics/`, `insights/`, `logging/`, shell completions, dashboards and other reports:
  text in, text out, or answers of external programs, which the models take as choices.
  `agents/checkpoint.ts` and `agents/lifecycle.ts` have readers but no writer outside tests.

## 8. Plan

The modules that were planned are there. Every safety invariant and every action property of the
runs is proved, except `PredictionHolds`, `FilesHold` and `TextsHold` (section 5). These would need
lemmas about `FoldLeft`, `FlattenSeq` and `SelectSeq` that a prover with induction could supply; the
rest of their proofs would go like those beside them.

Further models, if the code asks for them: the headless branches of `ov stop`, two drives side by
side, `Predict` and `MergeRun` as one, and liveness of a turn
whose runner dies between settling the row and telling the parent (hazards in `PROJECT.json`):
no code recovers from it.
