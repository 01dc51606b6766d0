----------------------------- MODULE WorkerTurn -----------------------------
(***************************************************************************)
(* One spawn-per-turn worker and everybody who writes about it: the        *)
(* processes that run its turns (the `ov sling` or `ov drive` that created *)
(* it, the mail loop of `ov serve`), the child process of a turn, the      *)
(* watchdog's ticks and one `ov stop`.  They share the session row, the    *)
(* turn.pid file and mail.db, and learn of each other only through them.   *)
(*                                                                         *)
(* A parent agent waits for the worker; what it hears is counted in `done` *)
(* (worker_done / merged), `died` (worker_died from a runner) and          *)
(* `reported` (worker_died from the watchdog).                             *)
(***************************************************************************)
EXTENDS Health, FiniteSets

CONSTANTS
  Mails,             \* messages other agents send to the worker
  Ticks,             \* watchdog ticks that may be in progress together
  EventSignaling,    \* runtime.signalsCompletionViaEvents
  MaxTurns,          \* bound: turns that are started
  MaxCrashes,        \* bound: crashes of a turn-running process
  StopAllowed        \* whether an operator may run `ov stop`

ASSUME WorkerConstants ==
  /\ EventSignaling \in BOOLEAN
  /\ StopAllowed \in BOOLEAN
  /\ MaxTurns \in Nat
  /\ MaxCrashes \in Nat

Absent == "absent"            \* no session row yet
Runners == {"cli", "loop"}    \* the process that slings, and the serve loop
Nobody == "nobody"

VARIABLES
  row,        \* state column of the session row, or Absent
  age,        \* age of its lastActivity
  escal,      \* its stalledSince (set or not) and escalationLevel
  unread,     \* messages to the worker that are unread
  sent,       \* messages sent to the worker so far
  lock,       \* who holds the turn lock
  at,         \* of each runner: where it is
  initial,    \* the state it read under the lock
  batch,      \* the messages it claimed
  base,       \* the terminal mails there were before its spawn
  flags,      \* what it saw of its turn
  final,      \* the state it settled for
  told,       \* terminal mails of the turn, the worker's own and synthesized
  child,      \* the child process of its turn
  orphan,     \* whether a child outlived its turn
  pidFile,    \* whose child turn.pid names
  tick,       \* of each watchdog tick: where it is
  look,       \* and what it read of the session
  stop,       \* progress of `ov stop`
  done, died, reported, \* terminal mails the parent received
  turns,      \* turns started
  crashes     \* crashes so far

row_vars == <<row, age, escal>>
inbox_vars == <<unread, sent>>
parent_vars == <<done, died, reported>>
run_vars == <<at, initial, batch, base, flags, final, told>>
proc_vars == <<child, orphan, pidFile>>
dog_vars == <<tick, look>>
count_vars == <<turns, crashes>>
vars == <<row_vars, inbox_vars, parent_vars, lock, run_vars, proc_vars,
          dog_vars, stop, count_vars>>

RunPhases == {"idle", "waiting", "locked", "spawned", "running", "observed",
              "settled", "ended", "gone"}

\* An event; a clean verdict of the last `result`; the stall or abort cut; exit
\* code 0; the worker's own terminal mail; new terminal mail found at the end.
Flags == {"saw", "clean", "cut", "exit0", "mailed", "observed"}

TypeOK ==
  /\ row \in AgentState \cup {Absent}
  /\ age \in Age
  /\ escal \in [since : BOOLEAN, level : 0..3]
  /\ unread \subseteq sent
  /\ sent \subseteq Mails
  /\ lock \in Runners \cup {Nobody}
  /\ at \in [Runners -> RunPhases]
  /\ initial \in [Runners -> AgentState \cup {Absent}]
  /\ batch \in [Runners -> SUBSET Mails]
  /\ base \in [Runners -> Nat]
  /\ flags \in [Runners -> SUBSET Flags]
  /\ final \in [Runners -> AgentState \cup {Absent}]
  /\ told \in [Runners -> Nat]
  /\ child \in [Runners -> {"none", "alive", "ended"}]
  /\ orphan \in BOOLEAN
  /\ pidFile \in Runners \cup {"none", "orphan"}
  /\ tick \in [Ticks -> {"idle", "read", "killing", "telling"}]
  /\ look \in [Ticks -> [state : AgentState, age : Age, since : BOOLEAN,
                          level : 0..3]]
  /\ stop \in {"idle", "killing", "reaping", "stopped", "refused"}
  /\ done \in Nat /\ died \in Nat /\ reported \in Nat
  /\ turns \in Nat /\ crashes \in Nat

NoLook == [state |-> "booting", age |-> "fresh", since |-> FALSE, level |-> 0]

Init ==
  /\ row = Absent /\ age = "fresh" /\ escal = [since |-> FALSE, level |-> 0]
  /\ unread = {} /\ sent = {}
  /\ lock = Nobody
  /\ at = [r \in Runners |-> "idle"]
  /\ initial = [r \in Runners |-> Absent]
  /\ batch = [r \in Runners |-> {}]
  /\ base = [r \in Runners |-> 0]
  /\ flags = [r \in Runners |-> {}]
  /\ final = [r \in Runners |-> Absent]
  /\ told = [r \in Runners |-> 0]
  /\ child = [r \in Runners |-> "none"]
  /\ orphan = FALSE /\ pidFile = "none"
  /\ tick = [t \in Ticks |-> "idle"]
  /\ look = [t \in Ticks |-> NoLook]
  /\ stop = "idle"
  /\ done = 0 /\ died = 0 /\ reported = 0 /\ turns = 0 /\ crashes = 0

Move(r, phase) == at' = [at EXCEPT ![r] = phase]

\* The runner has seen one more thing of its turn.
Note(r, flag) == flags' = [flags EXCEPT ![r] = @ \cup {flag}]

\* tryTransitionState on the worker's row; no row, no change.
Try(target) ==
  row' = IF row = Absent THEN Absent ELSE AfterTry(row, target)

-----------------------------------------------------------------------------
(* The environment: senders of mail, and the clock *)

SendMail(m) ==
  /\ m \notin sent
  /\ sent' = sent \cup {m}
  /\ unread' = unread \cup {m}
  /\ UNCHANGED <<row_vars, parent_vars, lock, run_vars, proc_vars, dog_vars,
                 stop, count_vars>>

\* lastActivity ages: past staleMs, then past zombieMs.
PassTime ==
  /\ row # Absent
  /\ age # "dead"
  /\ age' = IF age = "fresh" THEN "stale" ELSE "dead"
  /\ UNCHANGED <<row, escal, inbox_vars, parent_vars, lock, run_vars,
                 proc_vars, dog_vars, stop, count_vars>>

-----------------------------------------------------------------------------
(* Who starts a turn *)

\* spawnHeadlessSession: the pending mail goes into the first prompt and is
\* marked read at once, the row is inserted as "booting", runTurn is called.
Sling ==
  /\ row = Absent
  /\ at["cli"] = "idle"
  /\ turns < MaxTurns
  /\ row' = "booting"
  /\ unread' = {}
  /\ Move("cli", "waiting")
  /\ turns' = turns + 1
  /\ UNCHANGED <<age, escal, sent, parent_vars, lock, initial, batch, base,
                 flags, final, told, proc_vars, dog_vars, stop, crashes>>

\* Seeded bug for the runs: the batch is marked read when it is claimed.
LoopTickMarksEarly ==
  /\ at["loop"] = "idle"
  /\ row \in Active
  /\ unread # {}
  /\ turns < MaxTurns
  /\ Move("loop", "waiting")
  /\ batch' = [batch EXCEPT !["loop"] = unread]
  /\ unread' = {}
  /\ turns' = turns + 1
  /\ UNCHANGED <<row_vars, sent, parent_vars, lock, initial, base, flags, final,
                 told, proc_vars, dog_vars, stop, crashes>>

\* A tick of startTurnRunnerMailLoop: not in flight, isAgentLive, and
\* dispatchUnreadOnce found unread mail, which it claims and takes to runTurn.
LoopTick ==
  /\ at["loop"] = "idle"
  /\ row \in Active
  /\ unread # {}
  /\ turns < MaxTurns
  /\ Move("loop", "waiting")
  /\ batch' = [batch EXCEPT !["loop"] = unread]
  /\ turns' = turns + 1
  /\ UNCHANGED <<row_vars, inbox_vars, parent_vars, lock, initial, base, flags,
                 final, told, proc_vars, dog_vars, stop, crashes>>

-----------------------------------------------------------------------------
(* runTurn *)

\* acquireTurnLock resolves, and the session is read again under the lock.
Acquire(r) ==
  /\ at[r] = "waiting"
  /\ lock = Nobody
  /\ lock' = r
  /\ Move(r, "locked")
  /\ initial' = [initial EXCEPT ![r] = row]
  /\ UNCHANGED <<row_vars, inbox_vars, parent_vars, batch, base, flags, final,
                 told, proc_vars, dog_vars, stop, count_vars>>

\* The runner leaves the turn and forgets it: the cli returns for good, the
\* loop goes back to polling.
Leave(r) ==
  /\ Move(r, IF r = "cli" THEN "gone" ELSE "idle")
  /\ initial' = [initial EXCEPT ![r] = Absent]
  /\ batch' = [batch EXCEPT ![r] = {}]
  /\ base' = [base EXCEPT ![r] = 0]
  /\ flags' = [flags EXCEPT ![r] = {}]
  /\ final' = [final EXCEPT ![r] = Absent]
  /\ told' = [told EXCEPT ![r] = 0]
  /\ child' = [child EXCEPT ![r] = "none"]

\* acquireTurnLock times out behind the other runner; runTurn throws.
LockTimeOut(r) ==
  /\ at[r] = "waiting"
  /\ lock # Nobody
  /\ Leave(r)
  /\ UNCHANGED <<row_vars, inbox_vars, parent_vars, lock, orphan, pidFile,
                 dog_vars, stop, count_vars>>

\* The preflight, a mkdir or the spawn itself throws: the finally block runs.
\* (It unlinks turn.pid only once the agent directory exists.)
SetupFails(r) ==
  /\ at[r] = "locked"
  /\ lock' = Nobody
  /\ pidFile' \in {pidFile, "none"}
  /\ Leave(r)
  /\ UNCHANGED <<row_vars, inbox_vars, parent_vars, orphan, dog_vars, stop,
                 count_vars>>

\* latestTerminalMailTs, then spawnFn.
Spawn(r) ==
  /\ at[r] = "locked"
  /\ child' = [child EXCEPT ![r] = "alive"]
  /\ base' = [base EXCEPT ![r] = done]
  /\ Move(r, "spawned")
  /\ UNCHANGED <<row_vars, inbox_vars, parent_vars, lock, initial, batch, flags,
                 final, told, orphan, pidFile, dog_vars, stop, count_vars>>

\* turn.pid is written, the prompt follows, the parser loop begins.
PublishPid(r) ==
  /\ at[r] = "spawned"
  /\ pidFile' = r
  /\ Move(r, "running")
  /\ UNCHANGED <<row_vars, inbox_vars, parent_vars, lock, initial, batch, base,
                 flags, final, told, child, orphan, dog_vars, stop, count_vars>>

\* runTurn throws after the spawn and its finally block cleans up.  turn.pid
\* could not be written or the parser threw: the child is killed with SIGKILL.
\* Its stdin could not be written: SIGTERM, and it may live on for a while.
TurnThrows(r) ==
  /\ at[r] \in {"spawned", "running"}
  /\ \/ UNCHANGED orphan
     \/ at[r] = "running" /\ flags[r] = {} /\ child[r] = "alive" /\ orphan' = TRUE
  /\ pidFile' = "none"
  /\ lock' = Nobody
  /\ Leave(r)
  /\ UNCHANGED <<row_vars, inbox_vars, parent_vars, dog_vars, stop, count_vars>>

\* An event is read from the child's stdout, which may hold some after the
\* child has exited.  lastActivity is refreshed unless the event is a keepalive
\* (or the last refresh is recent), and the first event of the turn moves the
\* row to "in_turn".  A `result` event carries a verdict.
ChildEvent(r) ==
  /\ at[r] = "running"
  /\ \E verdict \in SUBSET {"clean"} :
       flags' = [flags EXCEPT ![r] = (@ \ {"clean"}) \cup {"saw"} \cup verdict]
  /\ age' \in {age, "fresh"}
  /\ IF "saw" \notin flags[r] /\ initial[r] \in {"booting", "between_turns"}
       THEN Try("in_turn")
       ELSE UNCHANGED row
  /\ UNCHANGED <<escal, inbox_vars, parent_vars, lock, at, initial, batch, base,
                 final, told, proc_vars, dog_vars, stop, count_vars>>

\* The worker itself sends its terminal mail, at most once per turn.
ChildMail(r) ==
  /\ at[r] = "running"
  /\ child[r] = "alive"
  /\ "saw" \in flags[r] /\ "mailed" \notin flags[r]
  /\ Note(r, "mailed")
  /\ done' = done + 1
  /\ told' = [told EXCEPT ![r] = @ + 1]
  /\ UNCHANGED <<row_vars, inbox_vars, died, reported, lock, at, initial, batch,
                 base, final, proc_vars, dog_vars, stop, count_vars>>

\* The stall timer or the caller's abort signal fires: SIGTERM, then SIGKILL.
CutShort(r) ==
  /\ at[r] = "running"
  /\ child[r] = "alive"
  /\ Note(r, "cut")
  /\ UNCHANGED <<row_vars, inbox_vars, parent_vars, lock, at, initial, batch,
                 base, final, told, proc_vars, dog_vars, stop, count_vars>>

\* The child exits, with code 0 or not; a cut turn has no exit code.
ChildExit(r) ==
  /\ child[r] = "alive"
  /\ child' = [child EXCEPT ![r] = "ended"]
  /\ \/ UNCHANGED flags
     \/ "cut" \notin flags[r] /\ Note(r, "exit0")
  /\ UNCHANGED <<row_vars, inbox_vars, parent_vars, lock, at, initial, batch,
                 base, final, told, orphan, pidFile, dog_vars, stop, count_vars>>

\* A child that outlived its turn ends, and may still send its terminal mail.
OrphanExit ==
  /\ orphan
  /\ orphan' = FALSE
  /\ UNCHANGED <<row_vars, inbox_vars, parent_vars, lock, run_vars, child,
                 pidFile, dog_vars, stop, count_vars>>

OrphanMail ==
  /\ orphan
  /\ orphan' = FALSE
  /\ done' = done + 1
  /\ UNCHANGED <<row_vars, inbox_vars, died, reported, lock, run_vars, child,
                 pidFile, dog_vars, stop, count_vars>>

\* Seeded bug for the runs: any terminal mail of the past counts.
ObserveAnyMail(r) ==
  /\ at[r] = "running"
  /\ child[r] = "ended"
  /\ Move(r, "observed")
  /\ IF done > 0 THEN Note(r, "observed") ELSE UNCHANGED flags
  /\ UNCHANGED <<row_vars, inbox_vars, parent_vars, lock, initial, batch, base,
                 final, told, proc_vars, dog_vars, stop, count_vars>>

\* The stdout is drained and the exit awaited: checkTerminalMailSince.
Observe(r) ==
  /\ at[r] = "running"
  /\ child[r] = "ended"
  /\ Move(r, "observed")
  /\ IF done > base[r] THEN Note(r, "observed") ELSE UNCHANGED flags
  /\ UNCHANGED <<row_vars, inbox_vars, parent_vars, lock, initial, batch, base,
                 final, told, proc_vars, dog_vars, stop, count_vars>>

CompletedViaEvents(r) == EventSignaling /\ "clean" \in flags[r]

TerminalMailMissing(r) ==
  /\ "clean" \in flags[r]
  /\ "observed" \notin flags[r] /\ "cut" \notin flags[r]
  /\ ~CompletedViaEvents(r)

\* finalState: the state the runner thinks the worker should be in.
FinalState(r) ==
  CASE "cut" \in flags[r] -> "zombie"
    [] "cut" \notin flags[r] /\ "clean" \in flags[r] -> "completed"
    [] flags[r] \cap {"cut", "clean"} = {} /\ "saw" \in flags[r] ->
         "between_turns"
    [] OTHER -> initial[r]

\* Turn end, first half: settle the row, if the compare-and-swap lets us.
Settle(r) ==
  /\ at[r] = "observed"
  /\ Move(r, "settled")
  /\ final' = [final EXCEPT ![r] = FinalState(r)]
  /\ IF FinalState(r) # initial[r] THEN Try(FinalState(r)) ELSE UNCHANGED row
  /\ UNCHANGED <<age, escal, inbox_vars, parent_vars, lock, initial, batch,
                 base, flags, told, proc_vars, dog_vars, stop, count_vars>>

\* The three sources of the parent's wake-up, for a worker that has a parent.
EventSuccess(r) == CompletedViaEvents(r) /\ "observed" \notin flags[r]

EventFailure(r) ==
  EventSignaling /\ flags[r] \cap {"observed", "clean", "cut"} = {}

\* Seeded bugs for the runs: a clean exit without terminal mail tells nobody;
\* an event-signaling runtime is left to report its own ends.
DeathOfZombies(r) ==
  /\ ~EventSuccess(r) /\ ~EventFailure(r)
  /\ final[r] = "zombie"

DeathOfMailRuntimes(r) ==
  ~EventSignaling /\ (final[r] = "zombie" \/ TerminalMailMissing(r))

Death(r) ==
  /\ ~EventSuccess(r) /\ ~EventFailure(r)
  /\ final[r] = "zombie" \/ TerminalMailMissing(r)

Synthesize(r) == told' = [told EXCEPT ![r] = @ + 1]

\* Turn end, second half: at most one synthesized mail, and lastActivity.
TellParent(r) ==
  /\ at[r] = "settled"
  /\ Move(r, "ended")
  /\ \/ EventSuccess(r) /\ Synthesize(r) /\ done' = done + 1 /\ UNCHANGED died
     \/ EventFailure(r) /\ Synthesize(r) /\ died' = died + 1 /\ UNCHANGED done
     \/ Death(r) /\ Synthesize(r) /\ died' = died + 1 /\ UNCHANGED done
     \/ /\ ~EventSuccess(r) /\ ~EventFailure(r) /\ ~Death(r)
        /\ UNCHANGED <<told, done, died>>
  /\ age' = "fresh"
  /\ UNCHANGED <<row, escal, inbox_vars, reported, lock, initial, batch, base,
                 flags, final, proc_vars, dog_vars, stop, count_vars>>

\* The finally block, then dispatchUnreadOnce: the claimed messages are marked
\* read if the exit code was 0, and stay unread for the next tick otherwise.
EndTurn(r) ==
  /\ at[r] = "ended"
  /\ pidFile' = "none"
  /\ lock' = Nobody
  /\ Leave(r)
  /\ unread' = IF "exit0" \in flags[r] THEN unread \ batch[r] ELSE unread
  /\ UNCHANGED <<row_vars, sent, parent_vars, orphan, dog_vars, stop, count_vars>>

\* The runner's process dies.  Its lock is stale and gets stolen, its child
\* lives on, turn.pid stays; a serve process is started again.
Crash(r) ==
  /\ at[r] \notin {"idle", "gone"}
  /\ crashes < MaxCrashes
  /\ crashes' = crashes + 1
  /\ lock' = IF lock = r THEN Nobody ELSE lock
  /\ orphan' = (orphan \/ child[r] = "alive")
  /\ pidFile' = IF pidFile = r THEN "orphan" ELSE pidFile
  /\ Leave(r)
  /\ UNCHANGED <<row_vars, inbox_vars, parent_vars, dog_vars, stop, turns>>

RunnerStep(r) ==
  \/ Acquire(r) \/ LockTimeOut(r) \/ SetupFails(r) \/ Spawn(r)
  \/ PublishPid(r) \/ TurnThrows(r) \/ ChildEvent(r) \/ ChildMail(r)
  \/ CutShort(r) \/ ChildExit(r) \/ Observe(r) \/ Settle(r) \/ TellParent(r)
  \/ EndTurn(r) \/ Crash(r)

-----------------------------------------------------------------------------
(* ov stop *)

\* stopCommand reads the row; a completed worker is refused.
StopRead ==
  /\ StopAllowed
  /\ stop = "idle"
  /\ row # Absent
  /\ stop' = IF row = "completed" THEN "refused" ELSE "killing"
  /\ UNCHANGED <<row_vars, inbox_vars, parent_vars, lock, run_vars, proc_vars,
                 dog_vars, count_vars>>

\* The process tree that turn.pid names, if any, is killed.
StopKill ==
  /\ stop = "killing"
  /\ stop' = "reaping"
  /\ child' = [r \in Runners |-> IF pidFile = r /\ child[r] = "alive"
                                    THEN "ended" ELSE child[r]]
  /\ orphan' = (orphan /\ pidFile # "orphan")
  /\ UNCHANGED <<row_vars, inbox_vars, parent_vars, lock, run_vars, pidFile,
                 dog_vars, count_vars>>

\* turn.pid is unlinked whatever it names by now, and the row is completed.
StopReap ==
  /\ stop = "reaping"
  /\ stop' = "stopped"
  /\ pidFile' = "none"
  /\ Try("completed")
  /\ age' = "fresh"
  /\ UNCHANGED <<escal, inbox_vars, parent_vars, lock, run_vars, child, orphan,
                 dog_vars, count_vars>>

-----------------------------------------------------------------------------
(* The watchdog: one session's share of runDaemonTick *)

\* The tick reads the row, and refreshes lastActivity if events.db has recent
\* events (a child's keepalives count there, though not for the runner).
TickRead(t) ==
  /\ tick[t] = "idle"
  /\ row \notin {Absent, "completed"}
  /\ \/ UNCHANGED age
     \/ orphan /\ age' = "fresh"
     \/ \E r \in Runners : child[r] = "alive" /\ age' = "fresh"
  /\ tick' = [tick EXCEPT ![t] = "read"]
  /\ look' = [look EXCEPT ![t] = [state |-> row, age |-> age',
                                  since |-> escal.since, level |-> escal.level]]
  /\ UNCHANGED <<row, escal, inbox_vars, parent_vars, lock, run_vars, proc_vars,
                 stop, count_vars>>

TickCheck(t) ==
  Evaluate("per_turn", FALSE, look[t].state, FALSE, "none", look[t].age)

TickEnd(t) ==
  /\ tick' = [tick EXCEPT ![t] = "idle"]
  /\ look' = [look EXCEPT ![t] = NoLook]

TickMove(t, phase) ==
  /\ tick' = [tick EXCEPT ![t] = phase]
  /\ UNCHANGED look

\* The forward transition, rejected by the matrix or not.
TickForward(t) ==
  LET target == Transition(look[t].state, TickCheck(t))
  IN  IF target # look[t].state THEN Try(target) ELSE UNCHANGED row

NotStalled == escal' = [since |-> FALSE, level |-> 0]

\* evaluateHealth says "none", or "escalate" for a worker one of whose last
\* mails is a decision gate: escalation that was under way is reset.
TickQuiet(t) ==
  /\ tick[t] = "read"
  /\ TickCheck(t).action \in {"none", "escalate"}
  /\ TickForward(t)
  /\ IF look[t].since THEN NotStalled ELSE UNCHANGED escal
  /\ TickEnd(t)
  /\ UNCHANGED <<age, inbox_vars, parent_vars, lock, run_vars, proc_vars, stop,
                 count_vars>>

\* It says "terminate": the failure is recorded and the agent killed, which
\* for a worker without a connection and without a pid kills nothing.
TickTerminate(t) ==
  /\ tick[t] = "read"
  /\ TickCheck(t).action = "terminate"
  /\ TickForward(t)
  /\ TickMove(t, "killing")
  /\ UNCHANGED <<age, escal, inbox_vars, parent_vars, lock, run_vars, proc_vars,
                 stop, count_vars>>

\* It says "escalate": the level follows the time since stalledSince, which
\* the first such tick sets.  At level 3, or when triage at level 2 says so,
\* the worker is terminated; lower levels only warn, nudge or consult.
TickEscalate(t, level) ==
  /\ tick[t] = "read"
  /\ TickCheck(t).action = "escalate"
  /\ IF look[t].since THEN level >= look[t].level ELSE level = 0
  /\ TickForward(t)
  /\ escal' = IF look[t].since /\ level = look[t].level
                THEN escal
                ELSE [since |-> TRUE, level |-> level]
  /\ \/ level < 3 /\ TickEnd(t)
     \/ level >= 2 /\ TickMove(t, "killing")
  /\ UNCHANGED <<age, inbox_vars, parent_vars, lock, run_vars, proc_vars, stop,
                 count_vars>>

\* Seeded bugs for the runs: the state before the tick is not consulted, or the
\* one after the forward transition is, to tell whether the parent has heard.
TickZombifyAlways(t) ==
  /\ tick[t] = "killing"
  /\ Try("zombie")
  /\ NotStalled
  /\ IF CanMove(row, "zombie") THEN TickMove(t, "telling") ELSE TickEnd(t)
  /\ UNCHANGED <<age, inbox_vars, parent_vars, lock, run_vars, proc_vars, stop,
                 count_vars>>

TickZombifyByRow(t) ==
  /\ tick[t] = "killing"
  /\ Try("zombie")
  /\ NotStalled
  /\ IF CanMove(row, "zombie") /\ row # "zombie" THEN TickMove(t, "telling")
                                                ELSE TickEnd(t)
  /\ UNCHANGED <<age, inbox_vars, parent_vars, lock, run_vars, proc_vars, stop,
                 count_vars>>

\* The row becomes "zombie" if the matrix lets it; the parent is to be told
\* unless the tick had already read "zombie".
TickZombify(t) ==
  /\ tick[t] = "killing"
  /\ Try("zombie")
  /\ NotStalled
  /\ IF CanMove(row, "zombie") /\ look[t].state # "zombie"
       THEN TickMove(t, "telling")
       ELSE TickEnd(t)
  /\ UNCHANGED <<age, inbox_vars, parent_vars, lock, run_vars, proc_vars, stop,
                 count_vars>>

\* notifyParentOfDeath.
TickTell(t) ==
  /\ tick[t] = "telling"
  /\ reported' = reported + 1
  /\ TickEnd(t)
  /\ UNCHANGED <<row_vars, inbox_vars, done, died, lock, run_vars, proc_vars,
                 stop, count_vars>>

TickStep(t) ==
  \/ TickRead(t) \/ TickQuiet(t) \/ TickTerminate(t)
  \/ \E level \in 0..3 : TickEscalate(t, level)
  \/ TickZombify(t) \/ TickTell(t)

-----------------------------------------------------------------------------

Next ==
  \/ PassTime \/ Sling \/ LoopTick \/ OrphanExit \/ OrphanMail
  \/ StopRead \/ StopKill \/ StopReap
  \/ \E m \in Mails : SendMail(m)
  \/ \E r \in Runners : RunnerStep(r)
  \/ \E t \in Ticks : TickStep(t)

Spec == Init /\ [][Next]_vars

\* Runners, ticks and the clock go on; a child's turn comes to an end, by
\* itself or cut by the stall timer, and a child left behind by a throw has
\* been sent SIGTERM.  Nobody is obliged to send mail, to stop the worker or to
\* crash.
Fairness ==
  /\ WF_vars(PassTime)
  /\ WF_vars(OrphanExit)
  /\ WF_vars(StopKill)
  /\ WF_vars(StopReap)
  /\ \A r \in Runners :
       /\ WF_vars(Acquire(r))
       /\ WF_vars(Spawn(r) \/ SetupFails(r))
       /\ WF_vars(PublishPid(r) \/ TurnThrows(r))
       /\ WF_vars(ChildExit(r))
       /\ WF_vars(Observe(r))
       /\ WF_vars(Settle(r))
       /\ WF_vars(TellParent(r))
       /\ WF_vars(EndTurn(r))
  /\ \A t \in Ticks : WF_vars(TickStep(t))

FairSpec == Spec /\ Fairness

-----------------------------------------------------------------------------
(* Properties *)

\* sessions/store.ts: "`completed` is sticky: nothing transitions out of it."
\* Late watchdog ticks, turns that settle after `ov stop` and crashed runners
\* all try.
CompletedIsSticky == [][row = "completed" => row' = "completed"]_vars

\* "never zero (the parent hangs)": a turn in which the worker finished or was
\* cut short, and any turn of an event-signaling runtime, has put a terminal
\* mail into the parent's inbox, by the worker or for it.
NoSilentEnd ==
  \A r \in Runners :
    at[r] = "ended" /\ ("clean" \in flags[r] \/ "cut" \in flags[r] \/ EventSignaling)
      => told[r] > 0 \/ done > base[r]

\* Why NoSilentEnd holds: the mail that was observed exists, was sent in this
\* turn, and what the runner settled for is what it decides the wake-up by.
ObservedMailExists ==
  \A r \in Runners :
    "observed" \in flags[r] =>
      at[r] \in {"observed", "settled", "ended"} /\ done > base[r]

FinalIsCurrent ==
  \A r \in Runners : at[r] = "settled" => final[r] = FinalState(r)

TurnInv ==
  /\ TypeOK
  /\ ObservedMailExists
  /\ FinalIsCurrent
  /\ NoSilentEnd

\* "never two (contradictory double-signal)".
OneSignalPerTurn ==
  \A r \in Runners : at[r] = "ended" => told[r] <= 1

\* A worker that was slung does not vanish: its parent hears of its end, unless
\* an operator stopped it.
ParentHears ==
  row # Absent ~> (done + died + reported > 0 \/ stop = "stopped")

\* The watchdog reports a death once, however often it looks at the zombie.
WatchdogReportsOnce == reported <= 1

\* Runner and watchdog do not both report the death of a worker.
DeathIsReportedOnce == died + reported <= 1

\* "`zombie` is durable except `ov stop` may promote it to `completed`".
ZombieIsDurable ==
  [][row = "zombie" /\ row' # "zombie" => stop # "stopped" /\ stop' = "stopped"]_vars

\* "completed/zombie sessions are never re-spawned."
NoRespawn ==
  [][\A r \in Runners : child[r] # "alive" /\ child'[r] = "alive"
       => row \in Active]_vars

\* turn.pid names the child while a turn is in flight, so that `ov stop` can
\* find and signal it.
LiveTurnIsKillable ==
  \A r \in Runners :
    at[r] = "running" /\ child[r] = "alive" => pidFile = r

\* Once the worker has its row, a message becomes read only after a turn that was
\* given it exited with 0: no crash, stall, stop or throw loses a message the mail
\* loop claimed (dispatchUnreadOnce).  The mail that waits at the first sling is
\* marked before its turn, and the agent's own ov mail check is not modelled here:
\* Mail has both.
ReadMeansDelivered ==
  [][row # Absent =>
       \A m \in unread \ unread' :
         \E r \in Runners : lock = r /\ m \in batch[r] /\ "exit0" \in flags[r]]_vars
=============================================================================
