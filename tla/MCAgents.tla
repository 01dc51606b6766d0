------------------------------ MODULE MCAgents ------------------------------
(***************************************************************************)
(* How agents are started, driven, heard and kept apart, side by side:     *)
(* lock files, sweeps, ticks, hooks, streams and pages.  A behaviour is one *)
(* of one module; the others stay in one of their initial states.          *)
(***************************************************************************)
EXTENDS MergeLock
CONSTANTS
  t1,                  \* the target of the merges while they rest
  Daemons,             \* PidLock
  Lives, LogLines,     \* EventTail
  Sockets,             \* Feed
  Askers, MaxMail, Tries,                                \* Ask
  MaxConns, MaxCalls,                                    \* Rpc
  Texts, MaxSends, MaxLetters, MaxBreaks,                \* Console
  MaxConfEdits,                                          \* Launch
  Commands, Polls, MaxFaults,                            \* Proxy
  LastCall, Tools, SomeTool, MaxStops,                   \* HookLog
  Starters, Slings, Hooks,                               \* HookFile, Identity
  Messages,                                              \* WorkerTurn
  DogTicks                                               \* Watchdog

ASSUME AgentConstants ==
  /\ t1 \in Targets
  /\ Lives \in Nat /\ LogLines \in Nat /\ Tries \in Nat
  /\ MaxLetters \in Nat /\ LastCall \in Nat /\ Polls \in Nat \ {0}
  /\ "none" \notin Daemons /\ {"nobody", "stranger"} \cap Commands = {}
  /\ SomeTool \in Tools
  /\ IsFiniteSet(DogTicks)

VARIABLES side,
  pidFile, alive, pidPc, tries, killed, reclaimed,
  size, newest, active, log, offset, pinned, sid, recorded, restarted, torn,
  events, last, batch, mail, lastMail, room, from, sent, told,
  runtime, out, parts, taken, child, turn,
  post, agent, pane, lines, recent, askPc, question, typed, came, late, inTime, answer,
  conns, current, stdins, heard, calls, wire, replies, check, kill,
  letters, broken, frames, fetch, posts, shown, asking, waiting, pending, pendingRef, seen,
  conf, edits, session, launched, window, aTurn, served, loop, hooks, nudged,
  port, young, token, step, polls, faults, blamed,
  settings, op, mine, lapsed, latest, ops,
  tool, phase, open, choice, closedBy, blurred, stop, stops, lapses, applied, outcomes, sessions,
  identity, holds, idPc, ended, idDeaths, overlaps,
  state, rows, slinging, away, posted, head, landed, verdicts, seed, overdue, place, turnOf,
  spent, sweep, todo, drove, quiet, builders, results, reviewed, snapshot, result, saw, said,
  driven, cutOff,
  wRow, wAge, wEscal, wUnread, wSent, wLock, wAt, wInitial, wBatch, wBase, wFlags, wFinal,
  wTold, wChild, wOrphan, wPidFile, wTick, wLook, wStop, wDone, wDied, wReported, wTurns,
  wCrashes,
  dKind, dRow, dPid, dTmux, dStubborn, dRung, dLife, dUp, dAt, dHand, dSeen, dTriaged,
  dMarker, dKnown, dMissed, dReports, dBatch, dCrashes

pidVars == <<pidFile, alive, pidPc, tries, killed, reclaimed>>
tailVars == <<size, newest, active, log, offset, pinned, sid, recorded, restarted, torn>>
feedVars == <<events, last, batch, mail, lastMail, room, from, sent, told>>
talkVars == <<runtime, out, parts, taken, child, turn>>
askVars == <<post, agent, pane, lines, recent, askPc, question, typed, came, late, inTime, answer>>
rpcVars == <<conns, current, stdins, heard, calls, wire, replies, check, kill>>
consoleVars == <<letters, broken, frames, fetch, posts, shown, asking, waiting, pending, pendingRef, seen>>
launchVars == <<conf, edits, session, launched, window, aTurn, served, loop, hooks, nudged>>
proxyVars == <<port, young, token, step, polls, faults, blamed>>
hookFileVars == <<settings, op, mine, lapsed, latest, ops>>
hookVars == <<tool, phase, open, choice, closedBy, blurred, stop, stops, lapses, applied, outcomes, sessions>>
sweepVars == <<state, rows, slinging, away, posted, head, landed, verdicts, seed, overdue, place,
               turnOf, spent, sweep, todo, drove, quiet, builders, results, reviewed, snapshot,
               result, saw, said, driven, cutOff>>
turnVars == <<wRow, wAge, wEscal, wUnread, wSent, wLock, wAt, wInitial, wBatch, wBase,
             wFlags, wFinal, wTold, wChild, wOrphan, wPidFile, wTick, wLook,
             wStop, wDone, wDied, wReported, wTurns, wCrashes>>
watchVars == <<dKind, dRow, dPid, dTmux, dStubborn, dRung, dLife, dUp, dAt, dHand, dSeen,
               dTriaged, dMarker, dKnown, dMissed, dReports, dBatch, dCrashes>>
identityVars == <<identity, holds, idPc, ended, idDeaths, overlaps>>

\* What the process of a turn may write.
Line(type, blocks, id, says) == [type |-> type, blocks |-> blocks, sid |-> id, says |-> says]
Output == {Line("assistant", b, "", "") : b \in {<<"text">>, <<"text", "tool">>, <<"think", "poll", "long">>}}
  \cup {Line("user", <<>>, "", ""), Line("junk", <<>>, "", ""), Line("null", <<>>, "", "")}
  \cup {Line("system", <<>>, id, "") : id \in {"new", "old"}}
  \cup {Line("result", <<>>, "new", says) : says \in {"clean", "failed", "nothing"}}

\* What config.yaml may say of a worker's runtime and model.
Says(default, capability, headless, model, gateway) ==
  [default |-> default, capability |-> capability, claudeHeadlessByDefault |-> headless,
   model |-> model, gateway |-> gateway]

\* The one worker of the driven seed.
Builder == <<"builder", "t1">>

\* What config.yaml says in the runs; no proof looks into it.
Confs ==
  {Says("claude", "", TRUE, "", TRUE), Says("claude", "", FALSE, "gateway/model", TRUE),
   Says("claude", "", FALSE, "gateway/model", FALSE), Says("pi", "claude", TRUE, "gateway/model", TRUE),
   Says("claude", "pi", TRUE, "", TRUE), Says("sapling", "", FALSE, "", TRUE)}

Pid == INSTANCE PidLock WITH file <- pidFile, pc <- pidPc
Tailer == INSTANCE EventTail WITH Lines <- LogLines
Live == INSTANCE Feed WITH Writers <- {"a", "b"}, MaxRows <- 3, MaxMail <- 2
Talk == INSTANCE Stream WITH Lines <- Output, MaxLines <- 3, Cap <- 2, Prior <- "old"
Word == INSTANCE Ask WITH mail <- post, row <- agent, pc <- askPc, tries <- typed, told <- came
Phone == INSTANCE Rpc WITH asked <- wire
Page == INSTANCE Console WITH MaxMail <- MaxLetters, mails <- letters, breaks <- broken
Begun == INSTANCE Launch WITH MaxEdits <- MaxConfEdits, row <- session, pane <- window, turn <- aTurn
Bearer == INSTANCE Proxy
Local == INSTANCE HookFile WITH Agents <- {"coordinator", "monitor"}, MaxOps <- 3, MaxEdits <- 2
Hook == INSTANCE HookLog WITH Calls <- 1 .. LastCall
Own == INSTANCE Identity WITH Domains <- <<"api">>, MaxRecent <- 2, MaxDeaths <- 1,
                              files <- identity, pc <- idPc, deaths <- idDeaths, blurred <- overlaps
\* Agents write to all, turns end while their slings run, and the queue refuses writes.
Budget == INSTANCE Drive WITH
  Seed <- "seed", TopCapability <- "lead", Kids <- {Builder},
  Correspondents <- {<<"lead", "seed">>, Builder, <<"reviewer", "t1">>}, MaxTurns <- 3,
  NoProgressLimit <- 3, NoMerge <- FALSE, Background <- TRUE,
  MaxHead <- 1, MaxMail <- 2, unread <- posted, mail <- verdicts, expired <- overdue,
  pc <- place, turn <- turnOf, turns <- spent, loop <- sweep, killed <- cutOff
\* The turns of a worker whose runtime signals its end by events, and ov stop.
Signalling == INSTANCE WorkerTurn WITH
  Mails <- Messages, Ticks <- {}, EventSignaling <- TRUE, MaxTurns <- 3, MaxCrashes <- 1,
  StopAllowed <- TRUE,
  row <- wRow, age <- wAge, escal <- wEscal, unread <- wUnread, sent <- wSent, lock <- wLock,
  at <- wAt, initial <- wInitial, batch <- wBatch, base <- wBase, flags <- wFlags, final <-
  wFinal, told <- wTold, child <- wChild, orphan <- wOrphan, pidFile <- wPidFile, tick <-
  wTick, look <- wLook, stop <- wStop, done <- wDone, died <- wDied, reported <- wReported,
  turns <- wTurns, crashes <- wCrashes
\* Ticks of the watchdog that run side by side, over a worker that is slung twice.
Watch == INSTANCE Watchdog WITH
  Agents <- {"w"}, Persistent <- {}, Kinds <- {"headless", "tmux"}, Ticks <- DogTicks,
  Tier1 <- FALSE, MaxTriage <- 0, MaxLives <- 2, MaxCrashes <- 0,
  kind <- dKind, row <- dRow, pid <- dPid, tmux <- dTmux, stubborn <- dStubborn, rung <- dRung,
  life <- dLife, up <- dUp, at <- dAt, hand <- dHand, seen <- dSeen, triaged <- dTriaged,
  marker <- dMarker, known <- dKnown, missed <- dMissed, reports <- dReports, batch <- dBatch,
  crashes <- dCrashes

Sides == {"lock", "sweep", "pid", "tail", "feed", "stream", "ask", "rpc", "console", "launch", "proxy", "hookfile",
          "hook", "identity", "turn", "watch"}

SideInit ==
  /\ side \in Sides
  /\ LockInit /\ (side # "lock" => target = [p \in Procs |-> t1] /\ file = [t \in Targets |-> NoFile])
  /\ Pid!Init
  /\ Tailer!Init
  /\ Live!Init
  /\ Talk!StreamInit /\ (side # "stream" => runtime = "claude")
  /\ Word!Init
  /\ Phone!RpcInit
  /\ Page!ConsoleInit
  /\ Begun!LaunchInit /\ (side # "launch" => conf = Says("sapling", "", FALSE, "", TRUE))
  /\ Bearer!ProxyInit
  /\ Local!HookFileInit /\ (side # "hookfile" => settings = Local!Absent)
  /\ Hook!Init /\ (side # "hook" => tool = [c \in 1 .. LastCall |-> SomeTool] /\ ~applied)
  /\ Own!IdentityInit
  /\ Signalling!Init
  /\ Budget!Init /\ (side # "sweep" => verdicts = <<>>)
  /\ Watch!Init /\ (side # "watch" => dKind = [a \in {"w"} |-> "tmux"])

SideNext ==
  /\ UNCHANGED side
  /\ IF side = "lock" THEN LockNext ELSE UNCHANGED lockVars
  /\ IF side = "pid" THEN Pid!Next ELSE UNCHANGED pidVars
  /\ IF side = "tail" THEN Tailer!Next ELSE UNCHANGED tailVars
  /\ IF side = "feed" THEN Live!Next ELSE UNCHANGED feedVars
  /\ IF side = "hook" THEN Hook!Next ELSE UNCHANGED hookVars
  /\ IF side = "ask" THEN Word!Next ELSE UNCHANGED askVars
  /\ IF side = "stream" THEN Talk!StreamNext ELSE UNCHANGED talkVars
  /\ IF side = "hookfile" THEN Local!HookFileNext ELSE UNCHANGED hookFileVars
  /\ IF side = "rpc" THEN Phone!RpcNext ELSE UNCHANGED rpcVars
  /\ IF side = "launch" THEN Begun!LaunchNext ELSE UNCHANGED launchVars
  /\ IF side = "identity" THEN Own!IdentityNext ELSE UNCHANGED identityVars
  /\ IF side = "console" THEN Page!ConsoleNext ELSE UNCHANGED consoleVars
  /\ IF side = "turn" THEN Signalling!Next ELSE UNCHANGED turnVars
  /\ IF side = "sweep" THEN Budget!Next ELSE UNCHANGED sweepVars
  /\ IF side = "watch" THEN Watch!Next ELSE UNCHANGED watchVars
  /\ IF side = "proxy" THEN Bearer!ProxyNext ELSE UNCHANGED proxyVars

sideVars == <<side, lockVars, pidVars, tailVars, feedVars, talkVars, askVars, rpcVars,
              consoleVars, launchVars, proxyVars, hookFileVars, hookVars, identityVars,
              sweepVars, turnVars, watchVars>>
SideSpec == SideInit /\ [][SideNext]_sideVars

\* EventTail, HookLog: the events of an agent are its lines in order, none twice, and ends
\* close their own starts.
EventsHold == Tailer!LinesOnceInOrder /\ Hook!HookRecords
\* Ask, Rpc, Console: an ask prints a reply to its own question, every call of getState ends,
\* with its own answer if with any, and the coordinator's page keeps what it showed.
AnswersHold ==
  /\ Word!AskGetsItsAnswer /\ Phone!CallsEnd /\ Phone!OwnAnswer /\ Phone!ListenersFollow
  /\ Page!ThreadKeeps /\ Page!PendingHasItsBubble
\* Launch, Proxy, PidLock: a worker whose sling named no runtime is driven the way it was
\* launched as long as the configuration stays what it was; commands that start the proxy
\* side by side do not fail because of one another; two watchdogs run together only after a
\* pid file was removed as stale.
LaunchHolds ==
  /\ Begun!TurnsMatchLaunch /\ Begun!HeadlessIsDriven /\ Begun!HooksMatch /\ Begun!FlagIsObeyed
  /\ Bearer!NoneFailsAlone /\ Pid!OneWatchdogUntilReclaim
\* Drive, WorkerTurn, Watchdog: a drive whose agents write to each other keeps the budget of
\* turns, no turn of a runtime that signals its end by events ends in silence either, and
\* ticks of the watchdog that overlap leave no death to one another to report.
TurnsHold ==
  /\ Budget!TurnBudgetKept /\ Signalling!NoSilentEnd
  /\ Watch!ZombieIsReported /\ Watch!ReportsWithinOverlap
\* Stream, Feed, HookFile, Identity: a clean turn said so, and one session is pinned; a socket
\* gets every event polled while it is in the room once; the user's hooks that mention no ov
\* stay while writes do not overlap; an agent's identity is its own, its sessions are never
\* counted twice, and all counted while they do not end side by side.
TextsHold ==
  /\ Talk!EventsInOrder /\ Talk!CleanIsEarned /\ Talk!OneSession
  /\ Live!EachEventOnce
  /\ Local!UserHooksStay /\ Local!GuardsComeFirst
  /\ Own!OwnIdentity /\ Own!NeverOvercounts /\ Own!CountedAlone
\* Launch: ov drive gives no turns to a session in a pane.
DriveLeavesPanesAlone == Begun!DriveLeavesPanesAlone
\* Feed, HookFile: all reaches a socket in the order of its rows, no message is missed, and
\* every hook of the user stays.
InRowOrder == Live!InRowOrder
NoMailMissed == Live!NoMailMissed
EveryUserHookStays == Local!EveryUserHookStays
\* Console: a request whose reply is shown is not waited for.
AnsweredIsSettled == Page!AnsweredIsSettled
=============================================================================
