------------------------------ MODULE Watchdog ------------------------------
(***************************************************************************)
(* The watchdog daemon (watchdog/daemon.ts) over the sessions of the run   *)
(* that current-run.txt names: a tick looks at a snapshot of every row,    *)
(* moves rows forward by what health.ts says, kills, escalates, reports    *)
(* deaths to the parent, and announces the end of the run.  The agents go  *)
(* on meanwhile.                                                           *)
(*                                                                         *)
(* The awaits of a tick are its steps: the kill (with its grace period),   *)
(* the nudge (for a worker of single turns, a whole turn), the triage (a   *)
(* model call) and the announcement.  Between two awaits the daemon is one *)
(* atomic step of its event loop.  The interval starts a tick whether or   *)
(* not the one before is through: ticks run side by side, each on its own  *)
(* reading of the rows, while names are slung again under them.            *)
(***************************************************************************)
EXTENDS Naturals, FiniteSets, Health

CONSTANTS
  Agents,      \* session rows of the run
  Persistent,  \* agents of PERSISTENT_CAPABILITIES, whose parent is null
  Kinds,       \* the kinds of worker an instance considers
  Ticks,       \* the ticks that may be in progress together
  Tier1,       \* config.watchdog.tier1Enabled
  MaxTriage,   \* _maxTriagePerTick
  MaxLives,    \* bound: times a name is slung
  MaxCrashes   \* bound: deaths of the daemon

ASSUME WatchdogAssumption ==
  /\ Persistent \subseteq Agents
  /\ Kinds \subseteq Kind
  /\ IsFiniteSet(Ticks)
  /\ Tier1 \in BOOLEAN
  /\ MaxTriage \in Nat /\ MaxLives \in Nat /\ MaxCrashes \in Nat

VARIABLES
  kind,      \* how the agent is run
  row,       \* state column
  pid,       \* "none" (no pid in the row), "alive" or "dead"
  tmux,      \* whether the agent's tmux session exists
  stubborn,  \* the process ignores SIGTERM and has no children
  rung,      \* 0 without stalledSince in the row, else escalationLevel + 1
  life,      \* how often the name was slung

  up,        \* the daemon runs
  at,        \* where each tick is
  hand,      \* what it read of the agent it is busy with
  seen,      \* what it read of the rows it has not come to
  triaged,   \* triageCount

  marker,    \* run-complete-notified.txt names the run

  known,     \* agents whose parent was told of the death in this life
  missed,    \* and those of whom no one will tell, by a mishap
  reports,   \* worker_died mails of the daemon in this life
  batch,     \* what the coordinator heard of the end of the workers at hand
  crashes

agentVars == <<kind, pid, tmux, stubborn, life>>
rowVars   == <<row, rung>>
tickVars  == <<up, at, hand, seen, triaged>>
runVars   == <<marker, batch>>
talkVars  == <<known, missed, reports>>
vars == <<agentVars, rowVars, tickVars, runVars, talkVars, crashes>>

MaxRung == 4                                         \* MAX_ESCALATION_LEVEL + 1
Workers == Agents \ Persistent
Live(a) == row[a] \in Active
Running(a) == kind[a] = "per_turn" \/ (pid[a] = "alive" /\ (kind[a] = "tmux" => tmux[a]))

\* What a tick read of a row, the session object; one of a completed row is
\* passed over, and so is one the tick is through with.
Reading(a) == [state |-> row[a], rung |-> rung[a], life |-> life[a]]
Unseen == [state |-> "completed", rung |-> 0, life |-> 0]
Ahead(t) == {a \in Agents : seen[t][a].state # "completed"}

\* The reading in hand: of whom, the state and the life it was read in, and
\* whether the session of its name was alive.
Held(t, a) ==
  [agent |-> a, state |-> seen[t][a].state, life |-> seen[t][a].life, tmux |-> tmux[a]]
Nothing == [agent |-> CHOOSE a \in Agents : TRUE, state |-> "working", life |-> 0, tmux |-> FALSE]

\* Where a tick awaits something for the agent in its hands.
Hand == {"nudge", "turn", "triage", "kill", "settle"}
Busy == {t \in Ticks : at[t] # "idle"}

\* The tick takes a step, or is done with the agent in hand.
Goes(t, step) == at' = [at EXCEPT ![t] = step]
GoesOn(t, step) ==
  /\ Goes(t, step)
  /\ hand' = [hand EXCEPT ![t] = IF step = "next" THEN Nothing ELSE @]

\* A row as sling writes it, and its process.
Begun(a) ==
  /\ row' = [row EXCEPT ![a] = "booting"]
  /\ rung' = [rung EXCEPT ![a] = 0]
  /\ pid' = [pid EXCEPT ![a] = IF kind[a] = "per_turn" THEN "none" ELSE "alive"]
  /\ tmux' = [tmux EXCEPT ![a] = kind[a] = "tmux"]

Init ==
  /\ kind \in {k \in [Agents -> Kind] : \A a \in Agents :
                 k[a] \in IF a \in Persistent THEN {"tmux"} ELSE Kinds}
  /\ row = [a \in Agents |-> "booting"]
  /\ pid = [a \in Agents |-> IF kind[a] = "per_turn" THEN "none" ELSE "alive"]
  /\ tmux = [a \in Agents |-> kind[a] = "tmux"]
  /\ stubborn \in {s \in [Agents -> BOOLEAN] :
                     \A a \in Agents : s[a] => kind[a] = "headless"}
  /\ life = [a \in Agents |-> 1]
  /\ rung = [a \in Agents |-> 0]
  /\ up = TRUE /\ at = [t \in Ticks |-> "idle"]
  /\ hand = [t \in Ticks |-> Nothing]
  /\ seen = [t \in Ticks |-> [a \in Agents |-> Unseen]]
  /\ triaged = [t \in Ticks |-> 0]
  /\ marker = FALSE /\ batch = "open"
  /\ known = {} /\ missed = {} /\ reports = [a \in Agents |-> 0] /\ crashes = 0

-----------------------------------------------------------------------------
(* The agents, and time *)

\* The agent works: its hooks or its turn runner touch the row.  (A headless
\* process only writes to its log; what the events in it do is in Look.)
Work(a) ==
  /\ Live(a) /\ Running(a) /\ kind[a] # "headless"
  /\ \E s \in IF kind[a] = "tmux" THEN {"working"} ELSE {"in_turn", "between_turns"} :
       row' = [row EXCEPT ![a] = AfterTry(@, s)]
  /\ UNCHANGED <<agentVars, rung, tickVars, runVars, talkVars, crashes>>

\* The process dies; the tmux session goes with it, or a shell survives.
Die(a) ==
  /\ pid[a] = "alive"
  /\ pid' = [pid EXCEPT ![a] = "dead"]
  /\ tmux' \in {tmux, [tmux EXCEPT ![a] = FALSE]}
  /\ UNCHANGED <<kind, stubborn, life, rowVars, tickVars, runVars, talkVars, crashes>>

\* The session ends in order: the session-end hook or the turn runner
\* completes the row, and the process exits.
Finish(a) ==
  /\ Live(a) /\ Running(a)
  /\ row' = [row EXCEPT ![a] = AfterTry(@, "completed")]
  /\ pid' = [pid EXCEPT ![a] = IF @ = "alive" THEN "dead" ELSE @]
  /\ tmux' = [tmux EXCEPT ![a] = FALSE]
  /\ UNCHANGED <<kind, stubborn, life, rung, tickVars, runVars, talkVars, crashes>>

\* A tick holds a reading of a that was in such a state.
Holds(t, a, states) ==
  \/ a \in Ahead(t) /\ seen[t][a].state \in states
  \/ at[t] \in Hand /\ hand[t].agent = a /\ hand[t].state \in states

\* A finished or dead name is slung again, under the ticks or between them: the
\* row is replaced.  A tick that read it as a zombie will not tell of the new
\* life's death, and a run that was announced is not announced again.
Resling(a) ==
  /\ ~Live(a) /\ life[a] < MaxLives
  /\ Begun(a)
  /\ life' = [life EXCEPT ![a] = @ + 1]
  /\ known' = known \ {a} /\ reports' = [reports EXCEPT ![a] = 0]
  /\ missed' = IF \E t \in Ticks : Holds(t, a, {"zombie"})
                 THEN missed \cup {a} ELSE missed \ {a}
  /\ batch' = IF marker \/ batch # "open" THEN "later" ELSE batch
  /\ UNCHANGED <<kind, stubborn, tickVars, marker, crashes>>

-----------------------------------------------------------------------------
(* A tick *)

\* The interval fires: store.getAll(), whatever other ticks are at.
TickBegin ==
  /\ up /\ Busy # Ticks
  /\ LET t == CHOOSE u \in Ticks : u \notin Busy
     IN  /\ Goes(t, "next")
         /\ seen' = [seen EXCEPT ![t] = [a \in Agents |->
                       IF row[a] = "completed" THEN Unseen ELSE Reading(a)]]
  /\ UNCHANGED <<agentVars, rowVars, up, hand, triaged, runVars, talkVars, crashes>>

\* updateEscalation, by name: the row of whatever life it is now.
Escalation(a, n) == rung' = [rung EXCEPT ![a] = n]

\* The row after `new` is tried, when the reading was not there already.
Moved(t, a, new) ==
  IF new = seen[t][a].state THEN row[a] ELSE AfterTry(row[a], new)

\* What the tick does with a stalled row after it has moved.  A decision gate
\* among the last twenty mails of the agent ends the matter.  The level follows
\* the intervals since the stalledSince of the reading, any number of them,
\* whatever was done at the levels between.
Climb(t, a) ==
  LET was == seen[t][a].rung
  IN  \/ /\ IF was # 0 THEN Escalation(a, 0) ELSE UNCHANGED rung
         /\ Goes(t, "next") /\ UNCHANGED triaged
      \/ \E new \in IF was = 0 THEN {1} ELSE was..MaxRung :
               LET call == new = 3 /\ Tier1 /\ triaged[t] < MaxTriage
               IN  /\ IF new # was THEN Escalation(a, new) ELSE UNCHANGED rung
                   /\ Goes(t, CASE new = 2 -> "nudge" [] new = 4 -> "kill"
                                [] call -> "triage" [] OTHER -> "next")
                   /\ triaged' = [triaged EXCEPT ![t] = IF call THEN @ + 1 ELSE @]

\* How the reading says the agent is run: a zombie's row has lost the name of
\* its tmux session (updateState clears it), and looks like a headless one.
RowKind(a, s) == IF s = "zombie" /\ kind[a] = "tmux" THEN "headless" ELSE kind[a]

\* The process of a reading: that of an earlier life is gone, but for a
\* stubborn one.
Probe(t, a) ==
  IF seen[t][a].life = life[a] \/ kind[a] = "per_turn" THEN {pid[a]}
  ELSE IF stubborn[a] THEN {"alive", "dead"} ELSE {"dead"}

\* Seeded bug for the runs: persistent agents are judged by time as well.
JudgeByTime(t, a, age) ==
  {Evaluate(RowKind(a, seen[t][a].state), FALSE, seen[t][a].state, tmux[a], p, age) :
     p \in Probe(t, a)}

\* Seeded bug for the runs: the process is not probed.
JudgeUnprobed(t, a, age) ==
  {Evaluate(RowKind(a, seen[t][a].state), a \in Persistent, seen[t][a].state,
            TRUE, "alive", age)}

\* evaluateHealth of the reading, with its process as it is now.
Judge(t, a, age) ==
  {Evaluate(RowKind(a, seen[t][a].state), a \in Persistent, seen[t][a].state,
            tmux[a], p, age) : p \in Probe(t, a)}

\* What follows from a check up to the first await, for a row moved to `moved`.
Act(t, a, check, moved) ==
  \/ /\ check.action = "terminate"
     /\ row' = [row EXCEPT ![a] = moved]
     /\ Goes(t, "kill") /\ UNCHANGED <<rung, triaged>>
  \/ /\ check.action = "complete"
     /\ row' = [row EXCEPT ![a] = AfterTry(moved, "completed")]
     /\ Escalation(a, 0)
     /\ Goes(t, "next") /\ UNCHANGED triaged
  \/ /\ check.action = "escalate"
     /\ row' = [row EXCEPT ![a] = moved] /\ Climb(t, a)
  \/ /\ check.action = "none"
     /\ row' = [row EXCEPT ![a] = moved]
     /\ IF seen[t][a].rung # 0 THEN Escalation(a, 0) ELSE UNCHANGED rung
     /\ Goes(t, "next") /\ UNCHANGED triaged
  \/ /\ check.action = "investigate"
     /\ Goes(t, "next") /\ UNCHANGED <<row, rung, triaged>>

\* One row of the reading: the verdict on the process as it is now and on the
\* age of lastActivity, and the move of the row.  The time between an activity
\* and the look at it is anything; a recent event of a headless agent, or a
\* live connection to it, counts as activity and makes it fresh.
Look(t, a) ==
  /\ at[t] = "next" /\ a \in Ahead(t)
  /\ seen' = [seen EXCEPT ![t][a] = Unseen]
  /\ \E age \in Age : \E check \in Judge(t, a, age) :
       Act(t, a, check, Moved(t, a, Transition(seen[t][a].state, check)))
  /\ hand' = [hand EXCEPT ![t] = IF at'[t] = "next" THEN Nothing ELSE Held(t, a)]
  /\ UNCHANGED <<agentVars, up, runVars, talkVars, crashes>>

\* killProcessTree: a process with children is gone after SIGKILL; a childless
\* one gets SIGTERM and no second look.
KillTree(a) ==
  pid' = [pid EXCEPT ![a] = IF @ = "alive" /\ ~stubborn[a] THEN "dead" ELSE @]

\* killAgent: nothing for a worker of single turns; the process tree of a
\* headless one, by the pid of the reading; the session of a tmux one with its
\* panes, by its name, when it was alive.
Kill(t) ==
  /\ at[t] = "kill" /\ Goes(t, "settle")
  /\ LET h == hand[t]
         session == RowKind(h.agent, h.state) = "tmux"
     IN  IF IF session THEN h.tmux ELSE h.life = life[h.agent]
           THEN /\ KillTree(h.agent)
                /\ tmux' = [tmux EXCEPT ![h.agent] = @ /\ ~session]
           ELSE UNCHANGED <<pid, tmux>>
  /\ UNCHANGED <<kind, stubborn, life, rowVars, up, hand, seen, triaged,
                 runVars, talkVars, crashes>>

\* Seeded bug for the runs: the state after the early move decides whether
\* the death is news, so that it never is.
NewsByRow(t) == row[hand[t].agent] \notin Terminal

\* Seeded bug for the runs: every tick that finds a zombie reports it.
NewsAlways(t) == CanMove(row[hand[t].agent], "zombie")

\* The death is news, unless the row was a zombie when it was read, or has been
\* completed meanwhile.
News(t) == CanMove(row[hand[t].agent], "zombie") /\ hand[t].state # "zombie"

\* notifyParentOfDeath: a worker_died mail to the parent, when there is one.  A
\* mail store that cannot be opened or written is passed over in silence.
NotifyParent(t) ==
  LET a == hand[t].agent
  IN  IF News(t) /\ a \notin Persistent
        THEN \/ /\ known' = known \cup {a}
                /\ reports' = [reports EXCEPT ![a] = @ + 1] /\ UNCHANGED missed
             \/ missed' = missed \cup {a} /\ UNCHANGED <<known, reports>>
        ELSE UNCHANGED talkVars

\* After the kill: the row, the escalation, and the parent.
Settle(t) ==
  /\ at[t] = "settle" /\ GoesOn(t, "next")
  /\ row' = [row EXCEPT ![hand[t].agent] = AfterTry(@, "zombie")]
  /\ Escalation(hand[t].agent, 0)
  /\ NotifyParent(t)
  /\ UNCHANGED <<agentVars, up, seen, triaged, runVars, crashes>>

\* Level 1, or a retry of the triage: nudgeAgent.  A worker of single turns
\* gets a turn, which the tick awaits; keys typed into a pane change no row.
Nudge(t) ==
  LET a == hand[t].agent
  IN  /\ at[t] = "nudge"
      /\ IF kind[a] = "per_turn" /\ Live(a)
           THEN GoesOn(t, "turn") /\ row' = [row EXCEPT ![a] = AfterTry(@, "in_turn")]
           ELSE GoesOn(t, "next") /\ UNCHANGED row
      /\ UNCHANGED <<agentVars, rung, up, seen, triaged, runVars, talkVars, crashes>>

\* The nudged turn is settled by its runner, which reports a death itself.
TurnEnds(t) ==
  LET a == hand[t].agent
  IN  /\ at[t] = "turn" /\ GoesOn(t, "next")
      /\ \E s \in {"between_turns", "completed", "zombie"} :
           row' = [row EXCEPT ![a] = AfterTry(@, s)]
      /\ known' = IF row[a] # "zombie" /\ row'[a] = "zombie" THEN known \cup {a} ELSE known
      /\ UNCHANGED <<agentVars, rung, up, seen, triaged, runVars, missed, reports, crashes>>

\* classifyResponse: the words of the answer, the hopeful ones first.
Verdict(words) ==
  IF "retry" \in words THEN "retry"
  ELSE IF "terminate" \in words THEN "terminate" ELSE "extend"

\* What triageAgent classifies.  Without a log, or when the model call fails or
\* times out, there are no words.
Answers == SUBSET {"retry", "terminate"}

\* Level 2: the triage, counted against the budget of the tick, and its verdict.
Triage(t) ==
  /\ at[t] = "triage"
  /\ \E words \in Answers :
       GoesOn(t, CASE Verdict(words) = "retry" -> "nudge"
                   [] Verdict(words) = "terminate" -> "kill"
                   [] Verdict(words) = "extend" -> "next")
  /\ UNCHANGED <<agentVars, rowVars, up, seen, triaged, runVars, talkVars, crashes>>

\* The run has workers, and each is completed or a zombie.
AllTerminal == Workers # {} /\ \A a \in Workers : ~Live(a)

\* All rows seen: the run is looked at, and announced unless the marker is there.
AfterRows(t) ==
  /\ at[t] = "next" /\ Ahead(t) = {}
  /\ triaged' = [triaged EXCEPT ![t] = 0]
  /\ Goes(t, IF AllTerminal /\ ~marker THEN "announce" ELSE "idle")
  /\ UNCHANGED <<agentVars, rowVars, up, hand, seen, runVars, talkVars, crashes>>

\* Seeded bug for the runs: the marker is written before the coordinator is told.
AnnounceMarked(t) ==
  /\ at[t] = "announce" /\ marker' = TRUE /\ Goes(t, "idle")
  /\ UNCHANGED <<agentVars, rowVars, up, hand, seen, triaged, batch,
                 talkVars, crashes>>

\* The coordinator is nudged, and may not be reached: no one looks at that.  Told
\* while workers are slung again, it hears no more of those.
Announce(t) ==
  /\ at[t] = "announce" /\ Goes(t, "mark")
  /\ batch' \in IF batch \in {"heard", "later"} THEN {batch}
                ELSE IF ~AllTerminal THEN {"later"} ELSE {"heard", "unheard"}
  /\ UNCHANGED <<agentVars, rowVars, up, hand, seen, triaged, marker,
                 talkVars, crashes>>

\* run-complete-notified.txt, however the nudge went.
Mark(t) ==
  /\ at[t] = "mark" /\ Goes(t, "idle") /\ marker' = TRUE
  /\ UNCHANGED <<agentVars, rowVars, up, hand, seen, triaged, batch,
                 talkVars, crashes>>

\* A tick is about to tell the parent of a.
Telling(t, a) ==
  at[t] \in {"kill", "settle"} /\ hand[t].agent = a /\ hand[t].state # "zombie"

\* The daemon dies with its ticks, at any step of theirs.
Crash ==
  /\ up /\ crashes < MaxCrashes
  /\ up' = FALSE /\ crashes' = crashes + 1
  /\ missed' = missed \cup {a \in Workers : \E t \in Ticks : Telling(t, a)}
  /\ at' = [t \in Ticks |-> "idle"] /\ hand' = [t \in Ticks |-> Nothing]
  /\ seen' = [t \in Ticks |-> [a \in Agents |-> Unseen]]
  /\ triaged' = [t \in Ticks |-> 0]
  /\ UNCHANGED <<agentVars, rowVars, runVars, known, reports>>

\* ov watch is started again.
Restart ==
  /\ ~up /\ up' = TRUE
  /\ UNCHANGED <<agentVars, rowVars, at, hand, seen, triaged, runVars, talkVars, crashes>>

TickStep(t) ==
  \/ \E a \in Agents : Look(t, a)
  \/ Kill(t) \/ Settle(t) \/ Nudge(t) \/ TurnEnds(t) \/ Triage(t)
  \/ AfterRows(t) \/ Announce(t) \/ Mark(t)

Environment ==
  \/ \E a \in Agents : Work(a) \/ Die(a) \/ Finish(a)
  \/ \E a \in Workers : Resling(a)

Next == TickBegin \/ (\E t \in Ticks : TickStep(t)) \/ Restart \/ Environment \/ Crash

\* The daemon's timer fires, what a tick awaits comes back (a nudged turn has
\* its runner's stall timeout), and a daemon that died is started again.
Fairness ==
  /\ WF_vars(TickBegin) /\ WF_vars(Restart)
  /\ \A t \in Ticks : WF_vars(TickStep(t))

SafetySpec == Init /\ [][Next]_vars
Spec == SafetySpec /\ Fairness

-----------------------------------------------------------------------------
(* Properties *)

\* Of every zombie worker the parent knows, or a tick is on its way to tell it;
\* but for the mishaps the daemon has no answer to (mail that could not be
\* written, a crash on the way, a name slung again under a tick that had read a
\* zombie).  Ticks that overlap do not leave the telling to one another
\* (daemon.ts:808 and 857, which keep the state of the reading for it).
ZombieIsReported ==
  \A a \in Workers :
    row[a] = "zombie" => a \in known \cup missed \/ \E t \in Ticks : Telling(t, a)

\* The parent is told of a death by no more ticks than ever ran side by side:
\* those that find the zombie later do not tell it again (daemon.ts:559).
ReportsWithinOverlap == \A a \in Agents : reports[a] =< Cardinality(Ticks)

\* A persistent agent is never made a zombie by time: when its row becomes
\* one, its own process or session is gone.
PersistentSurvivesTime ==
  [][\A a \in Persistent :
       row[a] # "zombie" /\ row'[a] = "zombie" => ~Running(a)]_vars

\* A worker whose process is gone does not stay active for ever.
TheDeadAreNoticed ==
  \A a \in Workers : (Live(a) /\ ~Running(a)) ~> (~Live(a) \/ Running(a))

\* When all workers of the run have ended, a nudge of the coordinator is tried,
\* unless work goes on, or the run was announced before these workers were
\* slung (daemon.ts:279-359).
RunEndIsNoticed ==
  AllTerminal ~> (batch # "open" \/ \E a \in Workers : Live(a))

\* What does not hold: one report per death, whatever overlaps; a coordinator
\* that hears of every end, when a nudge fails or more workers follow; a name
\* that no tick ends which read an earlier life of it.
ReportedOncePerLife == \A a \in Agents : reports[a] =< 1
RunEndIsHeard ==
  AllTerminal ~> (batch = "heard" \/ \E a \in Workers : Live(a))
NewLifeIsSpared ==
  [][\A a \in Workers : \A t \in Ticks :
       at[t] = "settle" /\ at'[t] = "next" /\ hand[t].agent = a /\ hand[t].life # life[a]
         => (row'[a] = "zombie" => row[a] = "zombie")]_vars
=============================================================================
