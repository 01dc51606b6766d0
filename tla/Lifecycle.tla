----------------------------- MODULE Lifecycle ------------------------------
(***************************************************************************)
(* The agents at the top and their runs: ov coordinator, ov orchestrator,  *)
(* ov monitor, ov supervisor and ov run, the coordinator endpoints of ov   *)
(* serve, and what the session-end hook makes of their rows.               *)
(*                                                                         *)
(* Nothing serialises these commands: each is a process of its own that    *)
(* reads a row, waits for tmux, and writes by the agent's name.  A command *)
(* is cut into steps where it waits.                                       *)
(***************************************************************************)
EXTENDS Naturals, FiniteSets, SessionState

CONSTANTS
  Tops,        \* coordinator and orchestrator: they open runs
  Coordinator, \* the one the endpoints of ov serve are about
  Monitors,    \* {monitor}
  Supervisors,
  Procs,       \* processes that run commands
  MaxStarts,   \* bound: agents started, and runs
  MaxCommands  \* bound: commands issued

Agents == Tops \cup Monitors \cup Supervisors

ASSUME LifecycleAssumption ==
  /\ Coordinator \in Tops
  /\ Tops \cap Monitors = {} /\ (Tops \cup Monitors) \cap Supervisors = {}
  /\ MaxStarts \in Nat /\ MaxCommands \in Nat

\* Starts are numbered; the number is the pid of the process and the id of the run.
Starts == 1..MaxStarts

VARIABLES
  row,      \* state column, or "absent"
  named,    \* the row has a tmux_session
  gen,      \* the start whose pid and run the row holds, 0 for none
  pane,     \* the start whose process the agent's tmux session holds, 0 for none
  living,   \* starts whose process is alive
  run,      \* status of the runs
  cur,      \* current-run.txt, 0 when there is none
  wd,       \* watchdog.pid: "none", or its process "alive" or "dead"
  pc, who,  \* where each process is, and about which agent
  seen,     \* the start in the row it read, and whether it is a tmux one
  held,     \* the start it has made
  opt,      \* flags: headless, watch (start the watchdog), api
  starts,   \* starts so far
  issued,   \* commands so far
  answer,   \* what the endpoint just answered: "already" running, or nothing
  disturbed \* a command was killed, or two ran at once

rowVars == <<row, named, gen>>
worldVars == <<pane, living>>
runVars == <<run, cur>>
procVars == <<who, seen, held, opt>>
countVars == <<starts, issued>>
vars == <<rowVars, worldVars, runVars, wd, pc, procVars, countVars, answer, disturbed>>

Idle(p) == pc[p] = "idle"
Goto(p, step) == pc' = [pc EXCEPT ![p] = step]
Quiet == answer' = "none" /\ UNCHANGED disturbed
IsTmux(a) == pane[a] # 0
Alive(n) == n \in living
NobodySeen == [start |-> 0, tmux |-> FALSE]
NoOpt == [headless |-> FALSE, watch |-> FALSE, api |-> FALSE]

Init ==
  /\ row = [a \in Agents |-> "absent"] /\ named = [a \in Agents |-> FALSE]
  /\ gen = [a \in Agents |-> 0]
  /\ pane = [a \in Agents |-> 0] /\ living = {}
  /\ run = [r \in Starts |-> "none"] /\ cur = 0 /\ wd \in {"none", "alive"}
  /\ pc = [p \in Procs |-> "idle"] /\ who = [p \in Procs |-> Coordinator]
  /\ seen = [p \in Procs |-> NobodySeen] /\ held = [p \in Procs |-> 0]
  /\ opt = [p \in Procs |-> NoOpt]
  /\ starts = 0 /\ issued = 0 /\ answer = "none" /\ disturbed = FALSE

\* A terminal state takes the name of the tmux session out of the row.
SetState(a, s) ==
  /\ row' = [row EXCEPT ![a] = IF @ = "absent" THEN @ ELSE s]
  /\ named' = [named EXCEPT ![a] = @ /\ s \notin Terminal]

\* The command ends; what it held is forgotten.
End(p) ==
  /\ Goto(p, "idle")
  /\ who' = [who EXCEPT ![p] = Coordinator] /\ held' = [held EXCEPT ![p] = 0]
  /\ seen' = [seen EXCEPT ![p] = NobodySeen] /\ opt' = [opt EXCEPT ![p] = NoOpt]

\* A command about agent a begins with the row it reads; no other process reads
\* or writes in the same step.
Issue(p, a, o, step) ==
  /\ issued < MaxCommands /\ issued' = issued + 1
  /\ Goto(p, step)
  /\ who' = [who EXCEPT ![p] = a]
  /\ seen' = [seen EXCEPT ![p] = [start |-> gen[a], tmux |-> named[a]]]
  /\ opt' = [opt EXCEPT ![p] = o] /\ UNCHANGED held
  /\ disturbed' = (disturbed \/ \E q \in Procs \ {p} : ~Idle(q))

\* A command that ends where it begins changes nothing.
Refuse == UNCHANGED <<issued, pc, procVars, disturbed>>

-----------------------------------------------------------------------------
(* start *)

\* A row that is not active is no obstacle.
Begin(p, a, o) == Issue(p, a, o, IF row[a] \in Active THEN "check" ELSE "launch")

\* The watchdog of an earlier session must be acknowledged.
Start(p, a, o, accept) ==
  /\ Idle(p) /\ starts < MaxStarts
  /\ IF wd = "alive" /\ ~accept THEN Refuse ELSE Begin(p, a, o)
  /\ answer' = IF o.api /\ wd = "alive" THEN "already" ELSE "none"
  /\ UNCHANGED <<rowVars, worldVars, runVars, wd, starts>>

\* A monitor or a supervisor (whose task is open).
StartSide(p, a) ==
  /\ Idle(p) /\ starts < MaxStarts
  /\ Begin(p, a, NoOpt) /\ answer' = "none"
  /\ UNCHANGED <<rowVars, worldVars, runVars, wd, starts>>

\* The command line's start.
StartByHand(p) ==
  \E a \in Tops, h, w, accept \in BOOLEAN :
    Start(p, a, [headless |-> h, watch |-> w, api |-> FALSE], accept \/ w)

\* getActiveCoordinatorSession: by the row alone.
CoordinatorActive == row[Coordinator] \in Active

\* The endpoint: an active row, dead or alive, is "already running"; an error of
\* the start that has these words, too (the watchdog's refusal has them).
StartByApi(p) ==
  IF CoordinatorActive
    THEN /\ Idle(p) /\ starts < MaxStarts /\ Refuse /\ answer' = "already"
         /\ UNCHANGED <<rowVars, worldVars, runVars, wd, starts>>
    ELSE Start(p, Coordinator, [headless |-> TRUE, watch |-> FALSE, api |-> TRUE], FALSE)

\* Seeded bug for the runs: a living session is not found.
SessionSeenNever(p) == FALSE

\* checkSessionState: tmux takes an empty name for any session.
SessionSeen(p) ==
  IF seen[p].tmux THEN IsTmux(who[p]) ELSE \E a \in Agents : IsTmux(a)

\* killSession: the process tree of the pane, then the session.
Killed(a) == /\ pane' = [pane EXCEPT ![a] = 0]
             /\ living' = living \ {pane[a]}

\* An active row: its process is found running, or gone, or its session is
\* left behind and killed (an empty name is refused).
Check(p) ==
  LET a == who[p] IN
  /\ pc[p] = "check" /\ a \in Tops
  /\ \/ /\ SessionSeen(p) /\ Alive(seen[p].start)
        /\ End(p) /\ UNCHANGED <<rowVars, worldVars>>
        /\ answer' = IF opt[p].api THEN "already" ELSE "none"
     \/ /\ SessionSeen(p) /\ ~Alive(seen[p].start)
        /\ IF seen[p].tmux
             THEN /\ Goto(p, "launch") /\ Killed(a) /\ SetState(a, "completed")
                  /\ UNCHANGED <<gen, procVars>>
             ELSE End(p) /\ UNCHANGED <<rowVars, worldVars>>
        /\ answer' = "none"
     \/ /\ ~SessionSeen(p)
        /\ Goto(p, "launch") /\ SetState(a, "completed") /\ answer' = "none"
        /\ UNCHANGED <<gen, worldVars, procVars>>
  /\ UNCHANGED <<runVars, wd, countVars, disturbed>>

\* The other agents are asked for by the name of their session only.
CheckSide(p) ==
  /\ pc[p] = "check" /\ who[p] \notin Tops
  /\ IF seen[p].tmux /\ IsTmux(who[p])
       THEN End(p) /\ UNCHANGED rowVars
       ELSE Goto(p, "launch") /\ SetState(who[p], "completed") /\ UNCHANGED <<gen, procVars>>
  /\ UNCHANGED <<worldVars, runVars, wd, countVars>> /\ Quiet

\* A process is begun and held by the command.
Begun(p, next) ==
  /\ starts' = starts + 1
  /\ held' = [held EXCEPT ![p] = starts + 1]
  /\ living' = living \cup {starts + 1}
  /\ Goto(p, next) /\ UNCHANGED <<who, seen, opt>>

\* A headless start begins the process by itself, and mails it its first prompt.
LaunchHeadless(p) ==
  /\ pc[p] = "launch" /\ opt[p].headless /\ starts < MaxStarts
  /\ Begun(p, "run") /\ UNCHANGED pane
  /\ UNCHANGED <<rowVars, runVars, wd, issued>> /\ Quiet

\* createSession: tmux refuses a name that is taken.
NewSession(p) ==
  LET a == who[p] IN
  IF IsTmux(a) THEN End(p) /\ UNCHANGED <<worldVars, starts>>
  ELSE /\ Begun(p, IF a \in Tops THEN "run" ELSE "row")
       /\ pane' = [pane EXCEPT ![a] = starts + 1]

LaunchTmux(p) ==
  /\ pc[p] = "launch" /\ ~opt[p].headless /\ starts < MaxStarts
  /\ NewSession(p)
  /\ UNCHANGED <<rowVars, runVars, wd, issued>> /\ Quiet

\* The rows of the runs table: made active, and completed without a question.
NewRun(r) == run' = [run EXCEPT ![r] = "active"]
RunOver(r) == run' = [run EXCEPT ![r] = "completed"]

\* Seeded bug for the runs: the file is written first.
CreateRunLate(p) ==
  /\ pc[p] = "run" /\ cur' = held[p] /\ Goto(p, "row")
  /\ UNCHANGED <<rowVars, worldVars, run, wd, procVars, countVars>> /\ Quiet

CreateRun(p) ==
  /\ pc[p] = "run" /\ NewRun(held[p])
  /\ Goto(p, "file")
  /\ UNCHANGED <<rowVars, worldVars, cur, wd, procVars, countVars>> /\ Quiet

\* current-run.txt, whatever it named.
NameRun(p) ==
  /\ pc[p] = "file" /\ cur' = held[p] /\ Goto(p, "row")
  /\ UNCHANGED <<rowVars, worldVars, run, wd, procVars, countVars>> /\ Quiet

\* The row is replaced by that of the new session.
NewRow(p) ==
  /\ row' = [row EXCEPT ![who[p]] = "booting"]
  /\ named' = [named EXCEPT ![who[p]] = ~opt[p].headless]
  /\ gen' = [gen EXCEPT ![who[p]] = held[p]]

InsertRow(p) ==
  /\ pc[p] = "row" /\ who[p] \in Tops
  /\ NewRow(p)
  /\ Goto(p, IF opt[p].headless THEN "services" ELSE "ready")
  /\ UNCHANGED <<procVars, worldVars, runVars, wd, countVars>> /\ Quiet

\* A supervisor's row follows its first prompt, which fails when it has died.
InsertSideRow(p) ==
  /\ pc[p] = "row" /\ who[p] \notin Tops
  /\ IF who[p] \in Supervisors /\ ~IsTmux(who[p]) THEN UNCHANGED rowVars ELSE NewRow(p)
  /\ End(p)
  /\ UNCHANGED <<worldVars, runVars, wd, countVars>> /\ Quiet

\* waitForTuiReady: dialogs are answered until the pane is ready, the session
\* is gone, or sixty looks are over.
Readiness(a) == IF IsTmux(a) THEN {"ready", "slow"} ELSE {"dead"}

\* A dead session completes its row; a slow one is killed first.  The prompt
\* typed into a session that has died meanwhile fails, with nothing undone.
AwaitReady(p) ==
  LET a == who[p] IN
  /\ pc[p] = "ready"
  /\ \/ /\ "ready" \in Readiness(a) /\ UNCHANGED <<rowVars, worldVars>>
        /\ Goto(p, "prompt") /\ UNCHANGED procVars
     \/ /\ "slow" \in Readiness(a) /\ Killed(a) /\ Goto(p, "failed")
        /\ UNCHANGED <<rowVars, procVars>>
     \/ /\ "dead" \in Readiness(a) /\ SetState(a, "completed") /\ End(p)
        /\ UNCHANGED <<gen, worldVars>>
  /\ UNCHANGED <<runVars, wd, countVars>> /\ Quiet

Prompt(p) ==
  /\ pc[p] = "prompt"
  /\ IF IsTmux(who[p]) THEN Goto(p, "services") /\ UNCHANGED procVars ELSE End(p)
  /\ UNCHANGED <<rowVars, worldVars, runVars, wd, countVars>> /\ Quiet

\* The failed start completes the row; the run stays as it is.
FailStart(p) ==
  /\ pc[p] = "failed" /\ SetState(who[p], "completed") /\ End(p)
  /\ UNCHANGED <<gen, worldVars, runVars, wd, countVars>> /\ Quiet

\* The watchdog, unless one runs, when it is asked for.
StartServices(p) ==
  /\ pc[p] = "services"
  /\ wd' \in IF opt[p].watch THEN {"alive", wd} ELSE {wd}
  /\ End(p)
  /\ UNCHANGED <<rowVars, worldVars, runVars, countVars>> /\ Quiet

-----------------------------------------------------------------------------
(* stop, status and the other commands *)

\* A row that is completed or a zombie is "not running".
Stop(p, a) ==
  /\ Idle(p) /\ a \in Tops
  /\ IF row[a] \in Active THEN Issue(p, a, NoOpt, "kill") ELSE Refuse
  /\ answer' = "none"
  /\ UNCHANGED <<rowVars, worldVars, runVars, wd, starts>>

\* The endpoint's stop, which looks at the row before the command does.
StopByApi(p) == CoordinatorActive /\ Stop(p, Coordinator)

StopSide(p, a) ==
  /\ Idle(p) /\ a \notin Tops
  /\ IF row[a] \in Active THEN Issue(p, a, NoOpt, "kill") ELSE Refuse
  /\ answer' = "none"
  /\ UNCHANGED <<rowVars, worldVars, runVars, wd, starts>>

\* SIGTERM to a headless process, which may take no notice; a kill of the session.
StopKill(p) ==
  /\ pc[p] = "kill" /\ who[p] \in Tops /\ Goto(p, "stopwd")
  /\ IF seen[p].tmux THEN Killed(who[p])
     ELSE living' \in {living, living \ {seen[p].start}} /\ UNCHANGED pane
  /\ UNCHANGED <<rowVars, runVars, wd, procVars, countVars>> /\ Quiet

StopSideKill(p) ==
  /\ pc[p] = "kill" /\ who[p] \notin Tops /\ Goto(p, "record")
  /\ IF seen[p].tmux THEN Killed(who[p]) ELSE UNCHANGED worldVars
  /\ UNCHANGED <<rowVars, runVars, wd, procVars, countVars>> /\ Quiet

\* watchdog.stop and monitor.stop, whoever started them.
StopServices(p) ==
  /\ pc[p] = "stopwd" /\ wd' = "none" /\ Goto(p, "record")
  /\ LET m == {a \in Monitors : row[a] \in Active}
     IN  /\ row' = [a \in Agents |-> IF a \in m THEN "completed" ELSE row[a]]
         /\ named' = [a \in Agents |-> named[a] /\ a \notin m]
         /\ pane' = [a \in Agents |-> IF a \in m THEN 0 ELSE pane[a]]
         /\ living' = living \ {pane[a] : a \in m}
  /\ UNCHANGED <<gen, runVars, procVars, countVars>> /\ Quiet

\* The row is completed by name, whichever session it is of now.
StopRecord(p) ==
  /\ pc[p] = "record" /\ SetState(who[p], "completed")
  /\ IF who[p] \in Tops THEN Goto(p, "finish") /\ UNCHANGED procVars ELSE End(p)
  /\ UNCHANGED <<gen, worldVars, runVars, wd, countVars>> /\ Quiet

\* The run of current-run.txt is completed, whoever opened it.
FinishRun(p) ==
  /\ pc[p] = "finish"
  /\ IF cur = 0 THEN End(p) /\ UNCHANGED run
     ELSE RunOver(cur) /\ Goto(p, "unlink") /\ UNCHANGED procVars
  /\ UNCHANGED <<rowVars, worldVars, cur, wd, countVars>> /\ Quiet

Unlink(p) ==
  /\ pc[p] = "unlink" /\ cur' = 0 /\ End(p)
  /\ UNCHANGED <<rowVars, worldVars, run, wd, countVars>> /\ Quiet

\* ov run complete.
CompleteRun(p) ==
  /\ Idle(p) /\ cur # 0
  /\ Issue(p, Coordinator, NoOpt, "finish") /\ answer' = "none"
  /\ UNCHANGED <<rowVars, worldVars, runVars, wd, starts>>

\* status, send and ask: a row whose process or session is gone is a zombie.
Probed(p, a, alive) ==
  /\ Idle(p) /\ row[a] \in Active
  /\ IF alive THEN Refuse ELSE Issue(p, a, NoOpt, "mark")
  /\ answer' = "none"
  /\ UNCHANGED <<rowVars, worldVars, runVars, wd, starts>>

Probe(p, a) == Probed(p, a, IF named[a] THEN IsTmux(a) ELSE Alive(gen[a]))

ProbeSide(p, a) == Probed(p, a, named[a] /\ IsTmux(a))

\* By name, and by an unconditional write.
MarkZombie(p) ==
  /\ pc[p] = "mark" /\ SetState(who[p], "zombie") /\ End(p)
  /\ UNCHANGED <<gen, worldVars, runVars, wd, countVars>> /\ Quiet

-----------------------------------------------------------------------------
(* The agents and the watchdog *)

\* The agent's own process, whose hooks know its name.
Own(a) == {pane[a], gen[a]} \cap living

\* A tool hook: a booting row works.
Work(a) ==
  /\ Own(a) # {} /\ row[a] = "booting"
  /\ row' = [row EXCEPT ![a] = AfterTry(@, "working")]
  /\ UNCHANGED <<named, gen, worldVars, runVars, wd, pc, procVars, countVars>> /\ Quiet

\* Seeded bug for the runs: the hook that ends a turn completes every row.
MayComplete(a) == TRUE

\* The Stop hook ends every turn, not the session, of a persistent agent: it
\* completes the row of one whose own run is over.
HookCompletes(a) ==
  \/ a \in Supervisors
  \/ a \in Tops /\ gen[a] # 0 /\ run[gen[a]] = "completed"

SessionEnd(a) ==
  /\ Own(a) # {} /\ HookCompletes(a) /\ row[a] # "completed"
  /\ SetState(a, "completed")
  /\ UNCHANGED <<gen, worldVars, runVars, wd, pc, procVars, countVars>> /\ Quiet

\* The process ends; its session with it, unless the user has split the pane.
Die(n) ==
  /\ Alive(n) /\ living' = living \ {n}
  /\ pane' \in {pane, [a \in Agents |-> IF pane[a] = n THEN 0 ELSE pane[a]]}
  /\ UNCHANGED <<rowVars, runVars, wd, pc, procVars, countVars>> /\ Quiet

\* A tick of the watchdog finds the row of a persistent agent without a process.
WatchdogTick(a) ==
  /\ wd = "alive" /\ row[a] \in Active /\ gen[a] \notin living
  /\ SetState(a, AfterTry(row[a], "zombie"))
  /\ IF named[a] THEN Killed(a) ELSE UNCHANGED worldVars
  /\ UNCHANGED <<gen, runVars, wd, pc, procVars, countVars>> /\ Quiet

WatchdogDies ==
  /\ wd = "alive" /\ wd' = "dead"
  /\ UNCHANGED <<rowVars, worldVars, runVars, pc, procVars, countVars>> /\ Quiet

\* A command is killed; what it had written stays.
Crash(p) ==
  /\ ~Idle(p) /\ End(p) /\ disturbed' = TRUE /\ answer' = "none"
  /\ UNCHANGED <<rowVars, worldVars, runVars, wd, countVars>>

Step(p) ==
  \/ Check(p) \/ CheckSide(p) \/ LaunchHeadless(p) \/ LaunchTmux(p)
  \/ CreateRun(p) \/ NameRun(p) \/ InsertRow(p) \/ InsertSideRow(p)
  \/ AwaitReady(p) \/ Prompt(p) \/ FailStart(p) \/ StartServices(p)
  \/ StopKill(p) \/ StopSideKill(p) \/ StopServices(p) \/ StopRecord(p)
  \/ FinishRun(p) \/ Unlink(p) \/ MarkZombie(p)

Command(p) ==
  \/ StartByHand(p) \/ StartByApi(p) \/ CompleteRun(p)
  \/ StopByApi(p)
  \/ \E a \in Tops : Stop(p, a) \/ Probe(p, a)
  \/ \E a \in Agents \ Tops : StartSide(p, a) \/ StopSide(p, a) \/ ProbeSide(p, a)

Next ==
  \/ \E p \in Procs : Command(p) \/ Step(p) \/ Crash(p)
  \/ \E a \in Agents : Work(a) \/ SessionEnd(a) \/ WatchdogTick(a)
  \/ \E n \in Starts : Die(n)
  \/ WatchdogDies

Spec == Init /\ [][Next]_vars

-----------------------------------------------------------------------------
(* Properties *)

\* current-run.txt names a run that exists, and one that is not over unless its
\* completer is about to remove the file or was killed on the way
\* (coordinator.ts:599-611 and 1033-1046, run.ts:173-186).
CurrentRun ==
  cur # 0 => \/ run[cur] = "active"
             \/ run[cur] = "completed"
                  /\ (disturbed \/ \E p \in Procs : pc[p] = "unlink")

\* As long as commands neither overlap nor die, the row of a persistent agent
\* that runs in a tmux pane (gen[a] = pane[a]) is completed only when its process
\* has been killed or is gone, or its run is over, which lets it finish
\* (log.ts:108-144).  Of an agent that runs without a pane nothing is said: see
\* HeadlessIsDown.
CompletedIsDown ==
  ~disturbed => \A a \in Tops \cup Monitors :
    row[a] = "completed" /\ gen[a] # 0 /\ gen[a] = pane[a]
      => ~Alive(gen[a]) \/ run[gen[a]] = "completed"

\* The same of an agent that runs headless: its row has no session name, which a
\* start takes for a dead one (coordinator.ts:449-470), and a stop sends it a
\* SIGTERM and no more (1002-1027).
HeadlessIsDown ==
  ~disturbed => \A a \in Tops \cup Monitors :
    row[a] = "completed" /\ gen[a] # 0 /\ gen[a] # pane[a]
      => ~Alive(gen[a]) \/ run[gen[a]] = "completed"

\* The hook of a coordinator at work never ends its session: a row whose run is
\* active becomes completed by a stop or a start, never from within.
HookSparesTheWorking ==
  [][\A a \in Tops :
       /\ row[a] \in Active /\ row'[a] = "completed"
       /\ gen[a] # 0 /\ run[gen[a]] = "active"
       => \E p \in Procs : who[p] = a /\ pc[p] # "idle"]_vars

\* The endpoint says that a coordinator is already running only if the store
\* has an active one (coordinator-actions.ts:312-314 and 346-347).
AlreadyRunningIsTrue == answer = "already" => CoordinatorActive
=============================================================================
