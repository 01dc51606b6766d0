-------------------------------- MODULE Sling --------------------------------
(***************************************************************************)
(* How agents come and go: `ov sling` commands that run side by side (and  *)
(* the same spawn inside `ov drive`), each admitting, preparing and        *)
(* recording one agent, and `ov worktree clean`, which removes what ended  *)
(* agents leave.  They share the session rows, the git worktrees and       *)
(* current-run.txt, and no lock: what a command decides rests on what it   *)
(* read before it last awaited something.                                  *)
(*                                                                         *)
(* An agent is named <<capability, task, n>>, as generateAgentName names   *)
(* it; its worktree and its branch carry that name and come and go         *)
(* together.  A run is named after the process that created it.            *)
(***************************************************************************)
EXTENDS Naturals, FiniteSets

CONSTANTS
  Procs,          \* processes that spawn agents, one command at a time
  Drivers,        \* those that are an `ov drive`
  Capabilities, Tasks,
  MaxSuffix,      \* bound: agents of one capability and task
  MaxConcurrent,  \* agents.maxConcurrent
  MaxPerLead,     \* agents.maxAgentsPerLead (0: unlimited)
  MaxPerRun,      \* agents.maxSessionsPerRun (0: unlimited)
  MaxEvents,      \* bound: commands, cleans and crashes together
  NoOne           \* no parent, no run, no agent

Names == Capabilities \X Tasks \X (1..MaxSuffix)
TaskOf(n) == n[2]

ASSUME SlingConstants ==
  /\ IsFiniteSet(Procs) /\ Drivers \subseteq Procs /\ Procs # {}
  /\ MaxSuffix \in Nat \ {0} /\ MaxConcurrent \in Nat \ {0}
  /\ MaxPerLead \in Nat /\ MaxPerRun \in Nat
  /\ NoOne \notin Names \cup Procs

VARIABLES
  state,     \* state of each agent's session row, "none" if it has no row
  parentOf, runOf, spawner,  \* the row's parent, run and who wrote it
  older,     \* of each row: the agents, of those that have a row, with an earlier
             \* startedAt
  tree,      \* of each agent: its branch is "even" or "ahead" of the target,
             \* or "none" without worktree
  lost,      \* ghost: agents whose unmerged commits a clean has deleted
  current,   \* content of current-run.txt
  at,        \* of each process: where its command is
  cmd,       \* and what it knows
  clean,     \* where `ov worktree clean` is
  all, force, \* its flags
  seen,      \* the rows it read at its start
  target,    \* the worktree it is removing
  todo, cleaned,  \* worktrees to visit and removed
  overlap,   \* ghost: two commands have run at the same time
  commands, cleans, crashes  \* counters

rows == <<state, parentOf, runOf, spawner, older>>
fleet == <<rows, tree, lost>>
sweep == <<clean, all, force, seen, target, todo, cleaned>>
counters == <<commands, cleans, crashes>>
vars == <<fleet, current, at, cmd, sweep, overlap, counters>>

Budget == commands + cleans + crashes < MaxEvents

\* name: the agent; named: it was given by --name; given: --parent;
\* parent, run: what was resolved.
Command(n, isNamed, par, parent, run) ==
  [name |-> n, named |-> isNamed, given |-> par, parent |-> parent, run |-> run]
NoCommand == Command(NoOne, FALSE, NoOne, NoOne, NoOne)

SlingTypeOK ==
  /\ state \in [Names -> {"none", "live", "completed", "zombie"}]
  /\ parentOf \in [Names -> Names \cup {NoOne}]
  /\ {runOf, spawner} \subseteq [Names -> Procs \cup {NoOne}]
  /\ \A n \in Names : (state[n] = "none") <=> (runOf[n] = NoOne)
  /\ older \in [Names -> SUBSET Names]
  /\ tree \in [Names -> {"none", "even", "ahead"}] /\ lost \subseteq Names
  /\ current \in Procs \cup {NoOne}
  /\ at \in [Procs -> {"idle", "run", "newRun", "admit", "worktree", "prepare",
                       "record", "turn", "rollback", "terminalize"}]
  /\ \A p \in Procs : (at[p] = "idle") <=> (cmd[p] = NoCommand)
  /\ clean \in {"idle", "walk", "remove", "mark", "prune"}
  /\ {all, force, overlap} \subseteq BOOLEAN
  /\ todo \cup cleaned \subseteq Names /\ target \in Names \cup {NoOne}

Init ==
  /\ state = [n \in Names |-> "none"] /\ parentOf = [n \in Names |-> NoOne]
  /\ runOf = [n \in Names |-> NoOne] /\ spawner = [n \in Names |-> NoOne]
  /\ older = [n \in Names |-> {}]
  /\ tree = [n \in Names |-> "none"] /\ lost = {} /\ current = NoOne
  /\ at = [p \in Procs |-> "idle"] /\ cmd = [p \in Procs |-> NoCommand]
  /\ clean = "idle" /\ all = FALSE /\ force = FALSE
  /\ seen = {} /\ target = NoOne /\ todo = {} /\ cleaned = {}
  /\ overlap = FALSE
  /\ commands = 0 /\ cleans = 0 /\ crashes = 0

-----------------------------------------------------------------------------
(* The session store *)

\* upsert: a new session of a name replaces the old one and starts anew.
Upsert(c, p) ==
  /\ state' = [state EXCEPT ![c.name] = "live"]
  /\ parentOf' = [parentOf EXCEPT ![c.name] = c.parent]
  /\ runOf' = [runOf EXCEPT ![c.name] = c.run]
  /\ spawner' = [spawner EXCEPT ![c.name] = p]
  /\ older' = [n \in Names |-> IF n = c.name THEN {m \in Names : state[m] # "none"} \ {n}
                                               ELSE older[n] \ {c.name}]

\* updateState, of the rows that exist.
UpdateState(names, new) ==
  /\ state' = [n \in Names |-> IF n \in names /\ state[n] # "none" THEN new ELSE state[n]]
  /\ UNCHANGED <<parentOf, runOf, spawner, older>>

RemoveRows(names) ==
  /\ state' = [n \in Names |-> IF n \in names THEN "none" ELSE state[n]]
  /\ parentOf' = [n \in Names |-> IF n \in names THEN NoOne ELSE parentOf[n]]
  /\ runOf' = [n \in Names |-> IF n \in names THEN NoOne ELSE runOf[n]]
  /\ spawner' = [n \in Names |-> IF n \in names THEN NoOne ELSE spawner[n]]
  /\ older' = [n \in Names |-> IF n \in names THEN {} ELSE older[n] \ names]

Known(n) == n # NoOne /\ state[n] # "none"

\* getActive.
Active == {n \in Names : state[n] = "live"}

-----------------------------------------------------------------------------
(* ov sling *)

Goto(p, place) ==
  /\ at' = [at EXCEPT ![p] = place]
  /\ cmd' = IF place = "idle" THEN [cmd EXCEPT ![p] = NoCommand] ELSE cmd
Proceed(p, place, command) ==
  /\ at' = [at EXCEPT ![p] = place]
  /\ cmd' = [cmd EXCEPT ![p] = command]

\* The command line: a capability and a task, or --name for an agent that may
\* have been there before, and --parent, a lead.  Without --parent only the roles
\* a coordinator may spawn.  A drive has a run of its own.
Start(p, n, isNamed, par) ==
  /\ at[p] = "idle" /\ Budget
  /\ isNamed => p \notin Drivers
  /\ n[3] = 1
  /\ par # NoOne => par \in Active /\ par[1] = "lead"
  /\ p \in Drivers /\ par # NoOne => runOf[par] = p
  /\ par = NoOne => n[1] \in {"lead", "scout", "builder"}
  /\ IF p \in Drivers
       THEN Proceed(p, "admit", Command(n, isNamed, par, par, p))
       ELSE Proceed(p, "run", Command(n, isNamed, par, par, NoOne))
  /\ overlap' = (overlap \/ \E q \in Procs \ {p} : at[q] # "idle")
  /\ commands' = commands + 1
  /\ UNCHANGED <<fleet, current, sweep, cleans, crashes>>

WithRun(c, run) == Command(c.name, c.named, c.given, c.parent, run)

\* Seeded bug for the runs: the id of a new run is not kept.
ReadCurrentRunOnly(p) ==
  /\ at[p] = "run" /\ ~Known(cmd[p].given)
  /\ Proceed(p, IF current # NoOne THEN "admit" ELSE "newRun", WithRun(cmd[p], current))
  /\ UNCHANGED <<fleet, current, sweep, overlap, counters>>

\* The run: that of the parent, else the current one, else a new one.
InheritRun(p) ==
  /\ at[p] = "run" /\ Known(cmd[p].given)
  /\ Proceed(p, "admit", WithRun(cmd[p], runOf[cmd[p].given]))
  /\ UNCHANGED <<fleet, current, sweep, overlap, counters>>

ReadCurrentRun(p) ==
  /\ at[p] = "run" /\ ~Known(cmd[p].given)
  /\ IF current # NoOne
       THEN Proceed(p, "admit", WithRun(cmd[p], current))
       ELSE Proceed(p, "newRun", WithRun(cmd[p], p))
  /\ UNCHANGED <<fleet, current, sweep, overlap, counters>>

WriteCurrentRun(p) ==
  /\ at[p] = "newRun"
  /\ current' = p
  /\ Goto(p, "admit")
  /\ UNCHANGED <<fleet, sweep, overlap, counters>>

\* generateAgentName: the first suffix that no active agent has.
FreeNames(c) ==
  {n \in Names : n[1] = c.name[1] /\ TaskOf(n) = TaskOf(c.name) /\ n \notin Active}
AgentName(c) ==
  IF c.named THEN c.name ELSE CHOOSE n \in FreeNames(c) : \A m \in FreeNames(c) : n[3] <= m[3]

\* resolveParentAgent: a re-spawn that says nothing keeps its parent.
Parent(c) ==
  IF c.given = NoOne /\ c.named /\ Known(c.name) THEN parentOf[c.name] ELSE c.given

\* checkTaskLock: the longest-running active agent on the task; getActive lists
\* them by startedAt.
On(task) == {n \in Active : TaskOf(n) = task}
Holder(task) ==
  IF On(task) = {} THEN NoOne ELSE CHOOSE n \in On(task) : older[n] \cap On(task) = {}

\* Seeded bug for the runs: leads are not asked.
TaskFreeUnlessLead(c) == c.name[1] = "lead" \/ Holder(TaskOf(c.name)) \in {NoOne, Parent(c)}
TaskFree(c) == Holder(TaskOf(c.name)) \in {NoOne, Parent(c)}

BelowConcurrent == Cardinality(Active) < MaxConcurrent

Children(par) == {n \in Active : parentOf[n] = par}
Sessions(run) == {n \in Names : Known(n) /\ runOf[n] = run}

BelowLeadLimit(c) ==
  Parent(c) = NoOne \/ MaxPerLead = 0 \/ Cardinality(Children(Parent(c))) < MaxPerLead

\* All admission checks; they see one reading of the active sessions.
Admissible(c) ==
  /\ MaxPerRun = 0 \/ Cardinality(Sessions(c.run)) < MaxPerRun
  /\ BelowConcurrent
  /\ c.named => c.name \notin Active
  /\ TaskFree(c)
  /\ BelowLeadLimit(c)

Admit(p) ==
  LET c == cmd[p]
  IN /\ at[p] = "admit"
     /\ ~c.named => FreeNames(c) # {}
     /\ IF Admissible(c)
          THEN Proceed(p, "worktree", Command(AgentName(c), c.named, c.given, Parent(c), c.run))
          ELSE Goto(p, "idle")
     /\ UNCHANGED <<fleet, current, sweep, overlap, counters>>

\* After the stagger delay: the task may turn out not to be workable.
TaskRefused(p) ==
  /\ at[p] = "worktree"
  /\ Goto(p, "idle")
  /\ UNCHANGED <<fleet, current, sweep, overlap, counters>>

\* Seeded bug for the runs: an existing worktree is used as it is.
CreateWorktreeReusing(p) ==
  /\ at[p] = "worktree"
  /\ tree' = [tree EXCEPT ![cmd[p].name] = IF @ = "none" THEN "even" ELSE @]
  /\ Goto(p, "prepare")
  /\ UNCHANGED <<rows, lost, current, sweep, overlap, counters>>

\* createWorktree: git refuses a branch or a path that exists.
CreateWorktree(p) ==
  /\ at[p] = "worktree"
  /\ IF tree[cmd[p].name] = "none"
       THEN tree' = [tree EXCEPT ![cmd[p].name] = "even"] /\ Goto(p, "prepare")
       ELSE Goto(p, "idle") /\ UNCHANGED tree
  /\ UNCHANGED <<rows, lost, current, sweep, overlap, counters>>

\* Overlay, guards and dispatch mail; any of it may fail.
Prepare(p) ==
  /\ at[p] = "prepare"
  /\ Goto(p, "record") \/ Goto(p, "rollback")
  /\ UNCHANGED <<fleet, current, sweep, overlap, counters>>

Record(p) ==
  /\ at[p] = "record"
  /\ Upsert(cmd[p], p)
  /\ Goto(p, "turn")
  /\ UNCHANGED <<tree, lost, current, sweep, overlap, counters>>

\* The first turn or the start-up of the terminal.  A terminal that does not
\* get ready is recorded as a zombie; whatever else throws is not recorded.
FirstTurn(p) ==
  /\ at[p] = "turn"
  /\ \/ Goto(p, "idle") /\ UNCHANGED rows
     \/ Goto(p, "rollback") /\ UNCHANGED rows
     \/ p \notin Drivers /\ Goto(p, "rollback") /\ UpdateState({cmd[p].name}, "zombie")
  /\ UNCHANGED <<tree, lost, current, sweep, overlap, counters>>

\* rollbackWorktree: by path and branch name.
Rollback(p) ==
  /\ at[p] = "rollback"
  /\ tree' = [tree EXCEPT ![cmd[p].name] = "none"]
  /\ Goto(p, IF p \in Drivers THEN "terminalize" ELSE "idle")
  /\ UNCHANGED <<rows, lost, current, sweep, overlap, counters>>

\* Seeded bug for the runs: the row is left as it is.
TerminalizeNothing(p) ==
  /\ at[p] = "terminalize"
  /\ Goto(p, "idle")
  /\ UNCHANGED <<fleet, current, sweep, overlap, counters>>

\* Only the drive's spawn goes on to terminate the row.
Terminalize(p) ==
  /\ at[p] = "terminalize"
  /\ UpdateState({cmd[p].name} \cap Active, "zombie")
  /\ Goto(p, "idle")
  /\ UNCHANGED <<tree, lost, current, sweep, overlap, counters>>

\* The command is killed.
Crash(p) ==
  /\ at[p] # "idle" /\ Budget
  /\ Goto(p, "idle")
  /\ crashes' = crashes + 1
  /\ UNCHANGED <<fleet, current, sweep, overlap, commands, cleans>>

-----------------------------------------------------------------------------
(* The agents *)

AgentCommits(n) ==
  /\ n \in Active /\ tree[n] = "even"
  /\ tree' = [tree EXCEPT ![n] = "ahead"]
  /\ UNCHANGED <<rows, lost, current, at, cmd, sweep, overlap, counters>>

BranchMerges(n) ==
  /\ tree[n] = "ahead"
  /\ tree' = [tree EXCEPT ![n] = "even"]
  /\ UNCHANGED <<rows, lost, current, at, cmd, sweep, overlap, counters>>

AgentEnds(n, end) ==
  /\ n \in Active
  /\ UpdateState({n}, end)
  /\ UNCHANGED <<tree, lost, current, at, cmd, sweep, overlap, counters>>

-----------------------------------------------------------------------------
(* ov worktree clean *)

\* Agents whose row was in one of these states when the clean started.
Seen(states) == {s[1] : s \in {t \in seen : t[2] \in states}}

Worktrees == {n \in Names : tree[n] # "none"}
\* Only an agent that has a row is known to be a lead.
IsLead(n) == n[1] = "lead" /\ n \in Seen({"live", "completed", "zombie"})

CleanStart(isAll, isForce) ==
  /\ clean = "idle" /\ Budget
  /\ clean' = "walk" /\ cleans' = cleans + 1
  /\ all' = isAll /\ force' = isForce
  /\ todo' = Worktrees /\ seen' = {<<n, state[n]>> : n \in {m \in Names : state[m] # "none"}}
  /\ UNCHANGED <<fleet, current, at, cmd, target, cleaned, overlap, commands, crashes>>

\* A worktree whose agent is not known to be at work, and a branch that has
\* nothing the target lacks; a lead's branch is never merged.
Removable(n) ==
  /\ all \/ n \notin Seen({"live"})
  /\ force \/ IsLead(n) \/ tree[n] # "ahead"

\* Live agents nested in a worktree may prevent its removal.
CleanCheck(n) ==
  /\ clean = "walk" /\ n \in todo
  /\ todo' = todo \ {n}
  /\ \/ Removable(n) /\ clean' = "remove" /\ target' = n
     \/ UNCHANGED <<clean, target>>
  /\ UNCHANGED <<fleet, current, at, cmd, all, force, seen, cleaned, overlap, counters>>

\* What a lead wrote to .seeds/ is committed to the target first, if it can be;
\* then worktree and branch go, unless git fails.
CleanRemove ==
  /\ clean = "remove"
  /\ \/ /\ tree[target] # "none"
        /\ tree' = [tree EXCEPT ![target] = "none"]
        /\ cleaned' = cleaned \cup {target}
        /\ IF tree[target] # "ahead" THEN UNCHANGED lost
             ELSE \/ IsLead(target) /\ UNCHANGED lost
                  \/ lost' = lost \cup {target}
     \/ UNCHANGED <<tree, cleaned, lost>>
  /\ clean' = "walk" /\ target' = NoOne
  /\ UNCHANGED <<rows, current, at, cmd, all, force, seen, todo, overlap, counters>>

CleanWalked ==
  /\ clean = "walk" /\ todo = {}
  /\ clean' = "mark"
  /\ UNCHANGED <<fleet, current, at, cmd, all, force, seen, target, todo, cleaned,
                 overlap, counters>>

\* The rows of the removed worktrees that it saw become zombies.
CleanMark ==
  /\ clean = "mark"
  /\ UpdateState({n \in cleaned : n \in Seen({"live", "completed", "zombie"})}, "zombie")
  /\ clean' = "prune"
  /\ UNCHANGED <<tree, lost, current, at, cmd, all, force, seen, target, todo, cleaned,
                 overlap, counters>>

\* Zombies without a worktree lose their row.
CleanPrune ==
  /\ clean = "prune"
  /\ RemoveRows({n \in Names : state[n] = "zombie" /\ tree[n] = "none"})
  /\ clean' = "idle" /\ seen' = {} /\ cleaned' = {} /\ all' = FALSE /\ force' = FALSE
  /\ UNCHANGED <<tree, lost, current, at, cmd, target, todo, overlap, counters>>

-----------------------------------------------------------------------------

SlingStep(p) ==
  \/ \E n \in Names, isNamed \in BOOLEAN, par \in Names \cup {NoOne} : Start(p, n, isNamed, par)
  \/ InheritRun(p) \/ ReadCurrentRun(p) \/ WriteCurrentRun(p) \/ Admit(p) \/ TaskRefused(p)
  \/ CreateWorktree(p) \/ Prepare(p) \/ Record(p) \/ FirstTurn(p)
  \/ Rollback(p) \/ Terminalize(p) \/ Crash(p)

AgentStep ==
  \E n \in Names : AgentCommits(n) \/ BranchMerges(n)
                   \/ \E s \in {"completed", "zombie"} : AgentEnds(n, s)

CleanStep ==
  \/ \E isAll, isForce \in BOOLEAN : CleanStart(isAll, isForce)
  \/ \E n \in Names : CleanCheck(n)
  \/ CleanRemove \/ CleanWalked \/ CleanMark \/ CleanPrune

Next == (\E p \in Procs : SlingStep(p)) \/ AgentStep \/ CleanStep

Spec == Init /\ [][Next]_vars

-----------------------------------------------------------------------------
(* Properties *)

\* Commands that were admitted and have not inserted their row yet.
Pending == {p \in Procs : at[p] \in {"worktree", "prepare", "record"}}

\* Commands that check side by side may exceed agents.maxConcurrent, but never
\* by more than there are other commands.
ConcurrencyBounded ==
  Cardinality(Active) + Cardinality(Pending) <= MaxConcurrent + Cardinality(Procs) - 1

\* The same of the children of one parent, whether --parent was given or kept
\* from the agent's former session.
LeadCeilingBounded ==
  MaxPerLead # 0 =>
    \A par \in Names :
      Cardinality(Children(par)) + Cardinality({p \in Pending : cmd[p].parent = par})
        <= MaxPerLead + Cardinality(Procs) - 1

\* Two commands never prepare, run or roll back the same worktree: git's refusal
\* of an existing branch is the only lock there is.  (A clean breaks it.)
Owners == {p \in Procs : at[p] \in {"prepare", "record", "turn", "rollback"}}
OneSlingPerWorktree ==
  cleans = 0 => \A p, q \in Owners : cmd[p].name = cmd[q].name => p = q

\* drive-spawn.ts: "a live session never outlives its worktree", of the agents
\* that a drive spawned, when nothing is killed or cleaned.
DriveRowHasWorktree ==
  cleans = 0 /\ crashes = 0 =>
    \A n \in Active :
      spawner[n] \in Drivers => tree[n] # "none" \/ at[spawner[n]] = "terminalize"

\* "Task-level locking", of commands that do not overlap: whoever joins a task
\* that is being worked on is the child of an agent of that task.
OnlyChildrenJoin ==
  \A n \in Active :
    Holder(TaskOf(n)) # n => parentOf[n] # NoOne /\ TaskOf(parentOf[n]) = TaskOf(n)
TaskStaysInFamily == ~overlap => OnlyChildrenJoin

\* "prevent concurrent agents on the same task ID", with nothing assumed.
TaskIsLocked == OnlyChildrenJoin

\* "a live session never outlives its worktree", of all agents.
LiveRowHasWorktree ==
  (\A p \in Procs : at[p] = "idle") =>
    \A n \in Active : tree[n] # "none"

\* "Parent inheritance ensures child agents belong to the same run as their
\* coordinator."
ChildInParentsRun ==
  \A n \in Active : parentOf[n] \in Active => runOf[n] = runOf[parentOf[n]]

\* worktree clean, "Only finished agents (default)": without --all no agent at
\* work loses its worktree.
CleanSparesTheLiving ==
  [][cleaned' # cleaned /\ ~all => (cleaned' \ cleaned) \cap Active = {}]_vars

\* "--force: delete even if branches are unmerged": without it no commit of a
\* builder is deleted that is not on the target.
WorkSurvivesClean == [][~force => \A n \in lost' \ lost : n[1] = "lead"]_vars

\* "Lead branches are never merged, so .seeds/ files would otherwise be lost."
LeadWorkKept == \A n \in lost : n[1] # "lead"

\* "Auto-generated names are unique so there is never a prior row to preserve."
AutoNameIsNew ==
  [][\A p \in Procs :
       at[p] = "record" /\ at'[p] = "turn" /\ ~cmd[p].named => ~Known(cmd[p].name)]_vars

\* "prevents the duplicate-lead anti-pattern where two leads run simultaneously
\* on the same bead".
OneLeadPerTask ==
  \A n, m \in Active : n[1] = "lead" /\ m[1] = "lead" /\ TaskOf(n) = TaskOf(m) => n = m
=============================================================================
