------------------------------- MODULE MCWork -------------------------------
(***************************************************************************)
(* What the commands of a project do to its work, side by side: merges,    *)
(* plans, groups, cleaning, repairs, databases, settings and roles.  A     *)
(* behaviour is one of one module; the others stay in one of their initial *)
(* states.                                                                 *)
(***************************************************************************)
EXTENDS MergeRun
CONSTANTS
  Contents, Order, Stamps, MaxRuns,  \* plans: what a file may hold, groups, hashes, runs
  Commands, Issues, MaxMails,     \* groups: commands, issues, mails
  MaxRows, MaxBreaks,             \* repairs: rows of the queue, things lost
  Agents, Panes, MaxSlings,       \* cleaning: agents, those in panes, slings
  Builders, Scouts, MaxReports,   \* closing: a lead's workers and their reports
  Openers, Records, MaxOpens, MaxDeaths,  \* databases: processes, rows, opens, deaths
  Touched, MaxSetups,             \* roles: those that are edited, runs of init and update
  shared, other, tools, br1, br2, g1, g2, u1, u2, u3, i1, i2
ASSUME WorkConstants ==
  /\ MaxRows \in Nat /\ "lead" \notin Builders
  /\ DOMAIN Order \subseteq Nat
  /\ \A c \in Contents : DOMAIN c \subseteq {Order[i] : i \in DOMAIN Order}

VARIABLES side,
  content, stamp, manifest, made, run, runs, fresh, stopped, fell,
  draft, result,
  group, closed, once, cmd, mails,
  have, lockFile, merging, mergeRows, lost, breaks, doctor,
  row, procs, panes, trees, slinging, branches, clean, apart, slings,
  reports, asked, landed, ahead, ready, resolvable, gate, counted, shut,
  past, ways, listed, mergePc, guess, left, took, kept, merges,
  store, cols, exists, strict, cells, json, wrote, at, born, looked, alone, fails, sound, opens, deaths,
  inFile, full, inLocal, where, root, loaded,
  roster, defs, configured, setup, setups, revised, edited, refreshed

ingestVars == <<content, stamp, manifest, made, run, runs, fresh, stopped, fell>>
planVars == <<draft, result>>
groupVars == <<group, closed, once, cmd, mails>>
doctorVars == <<have, lockFile, merging, mergeRows, lost, breaks, doctor>>
cleanVars == <<row, procs, panes, trees, slinging, branches, clean, apart, slings>>
gateVars == <<reports, asked, landed, ahead, ready, resolvable, gate, counted, shut>>
predVars == <<past, ways, listed, mergePc, guess, left, took, kept, merges>>
storeVars == <<store, cols, exists, strict, cells, json, wrote, at, born, looked, alone, fails, sound, opens, deaths>>
confVars == <<inFile, full, inLocal, where, root, loaded>>
rosterVars == <<roster, defs, configured, setup, setups, revised, edited, refreshed>>

\* Two branches meet in one file; the second version of each adds another.
MCChanged == [c \in Commits |-> IF c = <<br1, 1>> THEN {shared} ELSE {shared, other}]

\* How files conflict: in one block or two, after a line of context or a blank one, or
\* because one side removed the file.
Block(ours, theirs) == <<[ours |-> ours, theirs |-> theirs]>>
Text(before, blocks) == [kind |-> "blocks", before |-> before, blocks |-> blocks]
Simple == {[kind |-> "merged"], [kind |-> "removed"], Text(<<"ctx">>, Block(<<>>, <<"new">>))}
Rich == Simple \cup {
  Text(<<"ctx">>, Block(<<"old">>, <<>>)), Text(<<"ctx">>, Block(<<"=", "old">>, <<"new">>)),
  Text(<<" ">>, Block(<<"old">>, <<"new">>)),
  Text(<<>>, Block(<<" ">>, <<"new">>) \o Block(<<"old">>, <<"new">>))}
Ways == {w \in [{i1, i2} -> Rich] : w[i1] \in Simple \/ w[i2] \in Simple}

\* A plan with two units, one whose units changed, and one with a group less.
MCPlans == {[p \in {g1, g2} |-> IF p = g1 THEN {u1, u2} ELSE {}],
            [p \in {g1, g2} |-> IF p = g1 THEN {u2, u3} ELSE {}]}
MCOrder == <<g1, g2>>

Plan == INSTANCE Ingest WITH killed <- stopped
Draft == INSTANCE PlanCheck WITH Units <- <<"u1", "u2", "u3">>, Group <- "g", plan <- draft,
  Depends <- {<<>>, <<"u1">>, <<"u2">>, <<"u3">>, <<"u1", "u1">>, <<"u2", "u3">>}
Task == INSTANCE Groups WITH file <- group
Doc == INSTANCE Doctor WITH lock <- lockFile, queue <- mergeRows
Wipe == INSTANCE Clean
Shutter == INSTANCE CloseGate WITH closed <- shut
Guess == INSTANCE Predict WITH Paths <- {i1, i2}, Union <- {i2}, Branches <- Ways, MaxMerges <- 3
Db == INSTANCE Migrate WITH Rows <- Records
Conf == INSTANCE Config
Roll == INSTANCE Roster WITH manifest <- roster, edits <- revised, fresh <- refreshed

Sides == {"merge", "ingest", "plan", "group", "doctor", "clean", "gate", "predict", "migrate",
          "config", "roster"}

SideInit ==
  /\ side \in Sides
  /\ Init /\ (side # "merge" => ~reimagineEnabled /\ untracked = {})
  /\ untracked \subseteq {other}  \* bound: one untracked file
  /\ Plan!Init /\ (side # "ingest" => content = CHOOSE c \in Contents : TRUE)
  /\ stamp = CHOOSE h \in Stamps : TRUE
  /\ Draft!PlanInit
  /\ Task!Init
  /\ Doc!Init /\ (side # "doctor" => have = Doc!Sound)
  /\ Wipe!Init
  /\ Shutter!GateInit /\ (side # "gate" => resolvable)
  /\ Guess!Init
  /\ Db!Init /\ (side # "migrate" => store = "queue" /\ ~exists)
  /\ Conf!Init /\ (side # "config" => ~full /\ where = Conf!AtMain)
  /\ Roll!RosterInit

SideNext ==
  /\ UNCHANGED side
  /\ IF side = "merge" THEN Next ELSE UNCHANGED vars
  /\ IF side = "ingest" THEN Plan!Next ELSE UNCHANGED ingestVars
  /\ IF side = "group" THEN Task!Next ELSE UNCHANGED groupVars
  /\ IF side = "doctor" THEN Doc!Next ELSE UNCHANGED doctorVars
  /\ IF side = "clean" THEN Wipe!Next ELSE UNCHANGED cleanVars
  /\ IF side = "config" THEN Conf!Next ELSE UNCHANGED confVars
  /\ IF side = "migrate" THEN Db!Next ELSE UNCHANGED storeVars
  /\ IF side = "predict" THEN Guess!Next ELSE UNCHANGED predVars
  /\ IF side = "gate" THEN Shutter!GateNext ELSE UNCHANGED gateVars
  /\ IF side = "roster" THEN Roll!RosterNext ELSE UNCHANGED rosterVars
  /\ IF side = "plan" THEN Draft!PlanNext ELSE UNCHANGED planVars

sideVars == <<side, vars, ingestVars, planVars, groupVars, doctorVars, cleanVars,
              gateVars, predVars, storeVars, confVars, rosterVars>>
SideSpec == SideInit /\ [][SideNext]_sideVars

\* Doctor, Clean, CloseGate, Migrate: the last fresh row of a branch stays in the merge
\* queue; no agent whose end by ov clean worked loses its worktree or its row while it works
\* (not one slung beside it, without its pane, or under --sessions alone); a lead closes its
\* task only when its own work is merged; opens of a database that overlap or die lose no row.
WorkIsKept ==
  /\ Doc!FreshRowsStay /\ Wipe!NobodyIsPulledAway
  /\ Shutter!OwnWorkIsMerged /\ Db!UpgradesAreSafe
\* Ingest, Groups: what was last applied with the hash of an unchanged plan file is all there
\* (all that sd answered for), and a completed group holds only issues that were closed some
\* time while the commands ran.
PlansHold == Plan!UnchangedIsIngested /\ Task!CompletedWasClosed
\* Config, Roster: commands of an agent work in the root of the main checkout; what loads has
\* a sound index, and a refresh repairs; what the doctor passes loads, but for an array of
\* definitions and list items of a wrong type, and what loads it faults only for its index
\* and for a role without capability.
SettingsHold ==
  /\ Conf!AgentsShareTheRoot
  /\ Roll!LoadedIsSound /\ Roll!RefreshedIsSound /\ Roll!DoctorKnowsTheLoader
\* Predict: predictions hold, and a merge without a model drops nothing.
PredictionHolds == Guess!PredictionHolds /\ Guess!CanonicalStays
\* Config, PlanCheck: settings are laid over one another one by one, and a plan is accepted
\* just when it can be done.
FilesHold == Conf!SettingsWin /\ Draft!AcceptedCanBeDone

\* Config: settings win for every file.
SettingsAlwaysWin == Conf!SettingsAlwaysWin
\* CloseGate: a closed task's work that the lead asked to have merged is merged.
ClosedWorkIsMerged == Shutter!ClosedWorkIsMerged
\* Predict: an older git is predicted for on the safe side.
LegacyIsSafe == Guess!LegacyIsSafe
\* Clean: every agent at work has its worktree and its row.
WorkersKeepTheirPlace == Wipe!WorkersKeepTheirPlace
\* Doctor: a running merge has its lock file.
LockStaysHeld == Doc!LockStaysHeld
\* Ingest: the plan at hand, when it counts as unchanged, is all there.
UnchangedIsWhole == Plan!UnchangedIsWhole
\* Ingest: a run after a failed one makes no second seed for a group.
RerunAdopts == Plan!RerunAdopts
\* Migrate: what was written stays, and a legacy file is imported whole.
WrittenStays == Db!WrittenStays
ImportedWhole == Db!ImportedWhole
=============================================================================
