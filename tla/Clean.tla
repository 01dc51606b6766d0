------------------------------- MODULE Clean --------------------------------
(***************************************************************************)
(* ov clean --worktrees, --branches and --sessions, alone, in any company  *)
(* or as --all, and --agent (commands/clean.ts), beside agents that start  *)
(* and end, and what ov doctor calls orphaned (doctor/consistency.ts).     *)
(***************************************************************************)
EXTENDS Naturals, Sequences, FiniteSets

CONSTANTS
  Agents,
  Panes,      \* the agents that run in tmux; the others are headless
  MaxSlings   \* bound: agents slung

VARIABLES
  row,        \* sessions.db: none, live or completed
  procs,      \* agents with a process
  panes,      \* agents with a tmux session
  trees,      \* agents with a worktree
  slinging,   \* agents whose ov sling has made the tree, but no row yet
  branches,   \* agents with a branch overstory/...
  clean,      \* the steps the command has to do, the agent of --agent, whom it ends
  apart,      \* agents that started beside a command, survived their kill, or were
              \* in nobody's way: --sessions alone kills none
  slings

vars == <<row, procs, panes, trees, slinging, branches, clean, apart, slings>>

None == [left |-> {}, agent |-> "all", ends |-> "none"]

Init ==
  /\ row = [a \in Agents |-> "none"] /\ procs = {} /\ panes = {} /\ trees = {} /\ branches = {}
  /\ slinging = {} /\ clean = None /\ apart = {} /\ slings = 0

\* ov sling makes the worktree, and later the process and the row.
SlingTree(a) ==
  /\ row[a] = "none" /\ a \notin trees \cup branches /\ slings < MaxSlings
  /\ slings' = slings + 1 /\ trees' = trees \cup {a} /\ branches' = branches \cup {a}
  /\ slinging' = slinging \cup {a}
  /\ UNCHANGED <<row, procs, panes, clean, apart>>
SlingRow(a) ==
  /\ a \in slinging \cap trees /\ slinging' = slinging \ {a}
  /\ row' = [row EXCEPT ![a] = "live"] /\ procs' = procs \cup {a}
  /\ panes' = panes \cup ({a} \cap Panes)
  /\ apart' = IF clean # None THEN apart \cup {a} ELSE apart
  /\ UNCHANGED <<trees, branches, clean, slings>>

\* A process ends; with it its pane, or the pane stays open.
Exit(a) ==
  /\ a \in procs /\ procs' = procs \ {a} /\ apart' = apart \ {a}
  /\ panes' \in {panes, panes \ {a}}
  /\ UNCHANGED <<row, trees, slinging, branches, clean, slings>>
\* The wrapper dies of the hangup of its tmux session, the agent does not.
PaneDies(a) ==
  /\ a \in panes /\ panes' = panes \ {a}
  /\ UNCHANGED <<row, procs, trees, slinging, branches, clean, apart, slings>>
Complete(a) ==
  /\ row[a] = "live" /\ row' = [row EXCEPT ![a] = "completed"]
  /\ UNCHANGED <<procs, panes, trees, slinging, branches, clean, apart, slings>>

-----------------------------------------------------------------------------
\* cleanCommand: what each of its flags has it do, and the order.
TreeSteps == {"events", "tmux", "pids", "worktrees"}
Flags == {TreeSteps, {"branches"}, {"sessions"}}
AgentSteps == {"agent event", "agent kill", "agent worktree", "agent branch", "agent row"}
Place(step) ==
  CASE step \in {"events", "agent event"} -> 1
    [] step \in {"tmux", "agent kill"} -> 2
    [] step \in {"pids", "agent worktree"} -> 3
    [] step \in {"worktrees", "agent branch"} -> 4
    [] step \in {"branches", "agent row"} -> 5
    [] step = "sessions" -> 6

Begin ==
  /\ clean = None
  /\ \/ \E flags \in SUBSET Flags \ {{}} :
          clean' = [left |-> UNION flags, agent |-> "all",
                     ends |-> IF TreeSteps \in flags THEN "agents" ELSE "none"]
     \/ \E a \in Agents :
          row[a] # "none" /\ clean' = [left |-> AgentSteps, agent |-> a, ends |-> "agents"]
  /\ UNCHANGED <<row, procs, panes, trees, slinging, branches, apart, slings>>

At(step) == step \in clean.left /\ \A other \in clean.left : Place(step) <= Place(other)
Go(step) == clean' = IF clean.left = {step} THEN None ELSE [clean EXCEPT !.left = @ \ {step}]
Known == {a \in Agents : row[a] # "none"}

\* logSyntheticSessionEndEvents: a row of events.db for each active agent.
LogEnds ==
  /\ \E step \in {"events", "agent event"} : At(step) /\ Go(step)
  /\ UNCHANGED <<row, procs, panes, trees, slinging, branches, apart, slings>>

\* killAllTmuxSessions: those that are registered, each with its processes; a
\* kill that fails is passed over.
KillTmux ==
  /\ At("tmux")
  /\ \E hit \in SUBSET (panes \cap Known) :
       panes' = panes \ hit /\ procs' = procs \ hit /\ apart' = apart \ hit
  /\ Go("tmux") /\ UNCHANGED <<row, trees, slinging, branches, slings>>

\* reapOrphanedPids: every pid of a row that is alive.
ReapPids ==
  /\ At("pids")
  /\ \E hit \in SUBSET (procs \cap Known) :
       procs' = procs \ hit /\ apart' = procs \ hit
  /\ Go("pids") /\ UNCHANGED <<row, panes, trees, slinging, branches, slings>>

\* cleanAllWorktrees and deleteOrphanedBranches: git knows them, not the store.  A
\* removal that fails is passed over; a branch with a worktree is not deleted alone.
RemoveTrees ==
  /\ At("worktrees")
  /\ \E gone \in SUBSET trees : trees' = trees \ gone /\ branches' = branches \ gone
  /\ Go("worktrees") /\ UNCHANGED <<row, procs, panes, slinging, apart, slings>>
DeleteBranches ==
  /\ At("branches") /\ branches' = branches \cap trees
  /\ Go("branches") /\ UNCHANGED <<row, procs, panes, trees, slinging, apart, slings>>
WipeSessions ==
  /\ At("sessions") /\ row' = [a \in Agents |-> "none"]
  /\ apart' = IF clean.ends = "agents" THEN apart ELSE procs
  /\ Go("sessions") /\ UNCHANGED <<procs, panes, trees, slinging, branches, slings>>

\* cleanSingleAgent: without its pane an agent of tmux is not killed.
KillAgent ==
  /\ At("agent kill")
  /\ LET a == clean.agent
         tmux == a \in Panes
     IN  \E hit \in {{}, {a}} :
           /\ procs' = IF tmux /\ a \notin panes THEN procs ELSE procs \ hit
           /\ panes' = panes \ hit
           /\ apart' = IF a \in procs' THEN apart \cup {a} ELSE apart \ {a}
  /\ Go("agent kill") /\ UNCHANGED <<row, trees, slinging, branches, slings>>
RemoveTree ==
  /\ At("agent worktree") /\ trees' \in {trees, trees \ {clean.agent}}
  /\ Go("agent worktree") /\ UNCHANGED <<row, procs, panes, slinging, branches, apart, slings>>
DeleteBranch ==
  /\ At("agent branch") /\ branches' = branches \ ({clean.agent} \ trees)
  /\ Go("agent branch") /\ UNCHANGED <<row, procs, panes, trees, slinging, apart, slings>>
\* A row that was completed when the command began stays; one that is not gets
\* completed, unconditionally.
EndRow ==
  /\ At("agent row")
  /\ row' = IF row[clean.agent] = "live" THEN [row EXCEPT ![clean.agent] = "completed"] ELSE row
  /\ Go("agent row") /\ UNCHANGED <<procs, panes, trees, slinging, branches, apart, slings>>

\* The command is interrupted.
Interrupt ==
  /\ clean # None /\ clean' = None
  /\ UNCHANGED <<row, procs, panes, trees, slinging, branches, apart, slings>>

\* Seeded bug for the runs: the rows are wiped before they are asked for pids.
StepsWipeFirst == LogEnds \/ KillTmux \/ RemoveTrees \/ DeleteBranches
                    \/ (At("pids") /\ row' = [a \in Agents |-> "none"] /\ Go("pids")
                        /\ UNCHANGED <<procs, panes, trees, slinging, branches, apart, slings>>)
                    \/ WipeSessions \/ KillAgent \/ RemoveTree \/ DeleteBranch \/ EndRow

Steps ==
  \/ LogEnds \/ KillTmux \/ ReapPids \/ RemoveTrees \/ DeleteBranches \/ WipeSessions
  \/ KillAgent \/ RemoveTree \/ DeleteBranch \/ EndRow

Next ==
  \/ \E a \in Agents : SlingTree(a) \/ SlingRow(a) \/ Exit(a) \/ PaneDies(a) \/ Complete(a)
  \/ Begin \/ Steps \/ Interrupt

-----------------------------------------------------------------------------
\* What checkConsistency reports.
OrphanedTrees == {a \in trees : row[a] = "none"}
OrphanedTmux == {a \in panes : row[a] = "none"}
DeadPids == {a \in Agents : row[a] = "live" /\ a \notin procs}
MissingTrees == {a \in Agents : row[a] = "live" /\ a \notin trees}
MissingTmux == {a \in Panes \ panes : row[a] = "live"}
OrphanSpawns == {a \in procs : row[a] = "completed" \/ a \in MissingTmux}

\* No agent works on in a worktree, or without a row, that ov clean took from it, as
\* long as it ran when the command began, the command ends agents (all but --sessions
\* and --branches do) and its end of this one worked: the agents are ended before their
\* worktrees and rows go (clean.ts:649-683), and --agent does not begin with the row.
\* Not spoken of (apart): an agent slung beside the command, one whose kill failed, one
\* of --agent that lost its pane and so is not killed (clean.ts:490-499), and all that
\* run when --sessions comes alone.
NobodyIsPulledAway == \A a \in procs \ apart : a \in trees /\ row[a] # "none"

\* The same of every agent.
WorkersKeepTheirPlace == \A a \in procs : a \in trees /\ row[a] # "none"
=============================================================================
