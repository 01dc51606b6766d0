-------------------------------- MODULE Mail --------------------------------
(***************************************************************************)
(* Mail between agents (mail/, commands/mail.ts, commands/serve/) and the  *)
(* ways it reaches a recipient: the loops of ov serve, which hand unread   *)
(* mail to workers of single turns and to headless agents connected to it, *)
(* and the mail check in an agent's hooks.                                 *)
(*                                                                         *)
(* A loop delivers and then marks as read; a check marks as read and then  *)
(* prints, and the first prompt of a headless agent is made of mail that   *)
(* is already marked.  Loops and checks mark one row of mail.db at a time, *)
(* so that a process that dies leaves the rest as it was.                  *)
(***************************************************************************)
EXTENDS Naturals, FiniteSets, Folds, Functions

CONSTANTS
  TurnAgents,  \* workers of single turns
  TmuxAgents,  \* agents whose hooks check for mail
  HeadAgents,  \* headless agents of PERSISTENT_CAPABILITIES
  Messages,
  None,        \* nobody
  MaxLives,    \* bound: times a worker's name is slung; the others start once
  MaxCrashes,  \* bound: deaths of ov serve and of checks
  Budget       \* bound: slings and messages together

Agents == TurnAgents \cup TmuxAgents \cup HeadAgents

ASSUME MailAssumption ==
  /\ TurnAgents \cap TmuxAgents = {} /\ (TurnAgents \cup TmuxAgents) \cap HeadAgents = {}
  /\ None \notin Agents /\ {MaxLives, MaxCrashes, Budget} \subseteq Nat

VARIABLES
  live,     \* the agent's row is not terminal
  lives,    \* how often the name was slung
  box,      \* a message is "none", "unread", "read" or "gone"
  to,       \* its recipient
  got,      \* messages a process of their recipient was given and ended well with
  lost,     \* messages marked by a check that died before it printed them, or for
            \* a first prompt that could not be given or whose turn ended badly
  clerk,    \* ov mail send: whom it still writes to
  up,       \* ov serve runs
  reg,      \* activeLoops of ov serve
  ticking,  \* loops whose timer runs
  conn,     \* agents connected to this ov serve
  flights,  \* batches on the way: agent, of the loop in reg, messages, phase
  prompts,  \* first prompts on the way: agent, messages in it
  check,    \* the mail check of an agent: what it will print, what it has to mark
  crashes

agentVars == <<live, lives>>
mailVars == <<box, to, got, lost>>
serveVars == <<up, reg, ticking, conn, flights>>
vars == <<agentVars, mailVars, clerk, serveVars, prompts, check, crashes>>

NoCheck == [show |-> {}, mark |-> {}]

Init ==
  /\ live = [a \in Agents |-> FALSE] /\ lives = [a \in Agents |-> 0]
  /\ box = [m \in Messages |-> "none"]
  /\ to = [m \in Messages |-> None]
  /\ got = {} /\ lost = {}
  /\ clerk = {}
  /\ up = FALSE /\ reg = {} /\ ticking = {} /\ conn = {} /\ flights = {}
  /\ prompts = {} /\ check = [a \in Agents |-> NoCheck] /\ crashes = 0

\* A message that is gone needs no account.
Kept(ms) == {m \in ms : box[m] # "gone"}

\* What the bound counts.
Spent == FoldFunction(LAMBDA x, y : x + y, 0, lives)
         + Cardinality({m \in Messages : box[m] # "none"})

\* getUnread.
Unread(a) == {m \in Messages : box[m] = "unread" /\ to[m] = a}

-----------------------------------------------------------------------------
(* The agents *)

\* The row is written.
Begun(a) ==
  /\ live' = [live EXCEPT ![a] = TRUE]
  /\ lives' = [lives EXCEPT ![a] = @ + 1]

\* spawnHeadlessSession and the headless start of a coordinator: all that waits
\* for the name is marked as read, in one step here, for the first prompt.
Collected(a) ==
  /\ box' = [m \in Messages |-> IF m \in Unread(a) THEN "read" ELSE box[m]]
  /\ prompts' = prompts \cup {[agent |-> a, ids |-> Unread(a)]}

\* The agent starts.  A worker has its row before its first turn, a coordinator only
\* after the prompt was written to it.  (One start of a coordinator at a time; a
\* first turn for which no mail waits is no step of its own.)
Sling(a) ==
  /\ ~live[a] /\ lives[a] < (IF a \in TurnAgents THEN MaxLives ELSE 1) /\ Spent < Budget
  /\ a \in HeadAgents => \A p \in prompts : p.agent # a
  /\ IF a \in TmuxAgents \/ Unread(a) = {} THEN UNCHANGED <<box, prompts>> ELSE Collected(a)
  /\ IF a \in HeadAgents /\ Unread(a) # {} THEN UNCHANGED agentVars ELSE Begun(a)
  /\ UNCHANGED <<to, got, lost, clerk, serveVars, check, crashes>>

\* The first turn ends well, or the prompt is written to the coordinator.
PromptGiven(p) ==
  /\ p \in prompts /\ prompts' = prompts \ {p}
  /\ got' = got \cup Kept(p.ids)
  /\ IF p.agent \in HeadAgents THEN Begun(p.agent) ELSE UNCHANGED agentVars
  /\ UNCHANGED <<box, to, lost, clerk, serveVars, check, crashes>>

\* It throws, ends badly or dies with the command: nothing is unread again.
PromptFails(p) ==
  /\ p \in prompts /\ prompts' = prompts \ {p}
  /\ lost' = lost \cup Kept(p.ids)
  /\ UNCHANGED <<agentVars, box, to, got, clerk, serveVars, check, crashes>>

EndSession(a) ==
  /\ live[a] /\ live' = [live EXCEPT ![a] = FALSE]
  /\ conn' = conn \ {a}
  /\ UNCHANGED <<lives, mailVars, clerk, up, reg, ticking, flights, prompts, check, crashes>>

-----------------------------------------------------------------------------
(* Sending *)

\* resolveGroupAddress: the active sessions of a capability, or all, without
\* the sender; a group that has none is an error.
Group(of, sender) == {a \in of : live[a]} \ {sender}

\* handleSend: one name, whose row must not be terminal (no row is well); or a
\* group as it is now.  (Bound: as many as there are messages left.)
SendCheck ==
  /\ clerk = {}
  /\ clerk' \in {Group(Agents, s) : s \in Agents} \cup {{a} : a \in {b \in Agents : live[b] \/ lives[b] = 0}}
  /\ Cardinality(clerk') <= Cardinality({m \in Messages : box[m] = "none"})
  /\ UNCHANGED <<agentVars, mailVars, serveVars, prompts, check, crashes>>

\* The message is inserted, whatever the recipient has become.
Insert(m, a) ==
  /\ box[m] = "none" /\ Spent < Budget
  /\ box' = [box EXCEPT ![m] = "unread"]
  /\ to' = [to EXCEPT ![m] = a]
  /\ UNCHANGED <<got, lost>>

SendOne(m) ==
  \E a \in clerk :
    /\ Insert(m, a) /\ clerk' = clerk \ {a}
    /\ UNCHANGED <<agentVars, serveVars, prompts, check, crashes>>

\* The endpoint of ov serve: a known name, alive or not, and no nudge.
SendByApi(m, a) ==
  /\ up /\ lives[a] > 0 /\ Insert(m, a)
  /\ UNCHANGED <<agentVars, clerk, serveVars, prompts, check, crashes>>

\* A reply goes to the sender of the original, or on to its recipient when the
\* sender answers itself; it is neither refused nor announced.
ReplyTo(m, from, sender) == IF from = sender THEN to[m] ELSE sender

Reply(m, n) ==
  /\ box[m] \in {"unread", "read"}
  /\ \E from, sender \in Agents : Insert(n, ReplyTo(m, from, sender))
  /\ UNCHANGED <<agentVars, clerk, serveVars, prompts, check, crashes>>

\* ov mail purge, the delete of the endpoint, ov clean.
Purge ==
  /\ \E ms \in SUBSET {m \in Messages : box[m] \in {"unread", "read"}} :
       /\ ms # {}
       /\ box' = [m \in Messages |-> IF m \in ms THEN "gone" ELSE box[m]]
       /\ to' = [m \in Messages |-> IF m \in ms THEN None ELSE to[m]]
       /\ got' = got \ ms /\ lost' = lost \ ms
  /\ UNCHANGED <<agentVars, clerk, serveVars, prompts, check, crashes>>

-----------------------------------------------------------------------------
(* The loops of ov serve *)

\* tryInstallTurnRunnerLoop and tryInstallPersistentMailLoop: the second wants
\* the connection.
Installable(a, connected) == a \in TurnAgents \/ (a \in HeadAgents /\ a \in connected)

\* A scan: loops for the live agents that have none, an end to those of the
\* terminal ones.  What is on the way goes on.
Scanned(connected, loops, timers, batches) ==
  LET new == {a \in Agents : live[a] /\ a \notin loops /\ Installable(a, connected)}
      old == {a \in loops : ~live[a]}
  IN  /\ reg' = (loops \cup new) \ old
      /\ ticking' = (timers \cup new) \ old
      /\ flights' = {IF f.agent \in old THEN [f EXCEPT !.mine = FALSE] ELSE f : f \in batches}

ServeStart ==
  /\ ~up /\ up' = TRUE
  /\ Scanned({}, {}, {}, {})
  /\ UNCHANGED <<agentVars, mailVars, clerk, conn, prompts, check, crashes>>

Scan ==
  /\ up /\ Scanned(conn, reg, ticking, flights)
  /\ UNCHANGED <<agentVars, mailVars, clerk, up, conn, prompts, check, crashes>>

\* A headless agent is started by the endpoint: its process is a child.
Connect(a) ==
  /\ up /\ live[a] /\ conn' = conn \cup {a}
  /\ UNCHANGED <<agentVars, mailVars, clerk, up, reg, ticking, flights, prompts, check, crashes>>

\* With ov serve end its loops, its connections and the batches on the way.
ServeDies ==
  /\ up /\ crashes < MaxCrashes /\ crashes' = crashes + 1
  /\ up' = FALSE /\ reg' = {} /\ ticking' = {} /\ conn' = {} /\ flights' = {}
  /\ UNCHANGED <<agentVars, mailVars, clerk, prompts, check>>

\* inFlight of the loop.
Busy(a) == \E f \in flights : f.agent = a /\ f.mine

\* A tick of a loop whose agent has ended stops the timer: the loop stays in reg.
TickStops(a) ==
  /\ a \in ticking /\ ~Busy(a) /\ ~live[a]
  /\ ticking' = ticking \ {a}
  /\ UNCHANGED <<agentVars, mailVars, clerk, up, reg, conn, flights, prompts, check, crashes>>

\* tick: one batch at a time, of all that is unread; a headless agent must be
\* connected.
TickReads(a) ==
  /\ a \in ticking /\ ~Busy(a) /\ live[a] /\ Unread(a) # {}
  /\ a \in HeadAgents => a \in conn
  /\ flights' = flights \cup {[agent |-> a, mine |-> TRUE, ids |-> Unread(a), phase |-> "given"]}
  /\ UNCHANGED <<agentVars, mailVars, clerk, up, reg, ticking, conn, prompts, check, crashes>>

\* Seeded bug for the runs: a batch is marked when it was refused, too.
HandOverAlways(f) ==
  /\ f \in flights /\ f.phase = "given" /\ live[f.agent]
  /\ flights' = (flights \ {f}) \cup {[f EXCEPT !.phase = "marking"]}
  /\ UNCHANGED <<agentVars, mailVars, clerk, up, reg, ticking, conn, prompts, check, crashes>>

\* runTurn or followUp: the process of the agent is given the batch and all is
\* well, ...
HandOver(f) ==
  /\ f \in flights /\ f.phase = "given" /\ live[f.agent]
  /\ flights' = (flights \ {f}) \cup {[f EXCEPT !.phase = "marking"]}
  /\ got' = got \cup Kept(f.ids)
  /\ UNCHANGED <<agentVars, box, to, lost, clerk, up, reg, ticking, conn, prompts, check, crashes>>

\* Seeded bug for the runs: after a failure the loop is busy for ever.
HandOverFailsStuck(f) ==
  /\ f \in flights /\ f.phase = "given"
  /\ flights' = (flights \ {f}) \cup {[f EXCEPT !.phase = "failed"]}
  /\ UNCHANGED <<agentVars, mailVars, clerk, up, reg, ticking, conn, prompts, check, crashes>>

\* ... or it is refused, or ends badly: the batch stays unread, and
\* what its process may have seen of it does not count as given.
HandOverFails(f) ==
  /\ f \in flights /\ f.phase = "given"
  /\ flights' = flights \ {f}
  /\ UNCHANGED <<agentVars, mailVars, clerk, up, reg, ticking, conn, prompts, check, crashes>>

\* markRead of the batch, message by message (a message that is gone stays so).
Read(m) == box' = [box EXCEPT ![m] = IF @ = "unread" THEN "read" ELSE @]

MarkOne(f) ==
  /\ f \in flights /\ f.phase = "marking"
  /\ \E m \in f.ids :
       /\ Read(m)
       /\ flights' = (flights \ {f})
                       \cup (IF f.ids = {m} THEN {} ELSE {[f EXCEPT !.ids = @ \ {m}]})
  /\ UNCHANGED <<agentVars, to, got, lost, clerk, up, reg, ticking, conn, prompts, check, crashes>>

-----------------------------------------------------------------------------
(* The check of an agent: its hooks, or ov mail check in a turn of its own.  A
   debounced check, and one that finds nothing, is no step. *)

CheckBegins(a) ==
  /\ live[a] /\ check[a] = NoCheck /\ Unread(a) # {}
  /\ \/ a \in TmuxAgents
     \/ \E f \in flights : f.agent = a /\ f.phase = "given"
     \/ \E p \in prompts : p.agent = a
  /\ check' = [check EXCEPT ![a] = [show |-> Unread(a), mark |-> Unread(a)]]
  /\ UNCHANGED <<agentVars, mailVars, clerk, serveVars, prompts, crashes>>

CheckMarks(a) ==
  /\ \E m \in check[a].mark :
       Read(m) /\ check' = [check EXCEPT ![a].mark = @ \ {m}]
  /\ UNCHANGED <<agentVars, to, got, lost, clerk, serveVars, prompts, crashes>>

CheckPrints(a) ==
  /\ check[a] # NoCheck /\ check[a].mark = {}
  /\ got' = got \cup Kept(check[a].show)
  /\ check' = [check EXCEPT ![a] = NoCheck]
  /\ UNCHANGED <<agentVars, box, to, lost, clerk, serveVars, prompts, crashes>>

\* The hook is killed, by its timeout or with its agent.
CheckDies(a) ==
  /\ check[a] # NoCheck /\ crashes < MaxCrashes /\ crashes' = crashes + 1
  /\ lost' = lost \cup Kept(check[a].show \ check[a].mark)
  /\ check' = [check EXCEPT ![a] = NoCheck]
  /\ UNCHANGED <<agentVars, box, to, got, clerk, serveVars, prompts>>

-----------------------------------------------------------------------------
Clerk == SendCheck \/ \E m \in Messages : SendOne(m)
Checking(a) == CheckBegins(a) \/ CheckMarks(a) \/ CheckPrints(a)
Serving == ServeStart \/ Scan
Ticking(a) == TickStops(a) \/ TickReads(a)

\* The batches an agent can be handed.
Batches(a) == {f \in flights : f.agent = a}
Handing(a) == \E f \in Batches(a) : HandOver(f)
Marking(a) == \E f \in Batches(a) : MarkOne(f)
Settling(a) == \E f \in Batches(a) : HandOver(f) \/ HandOverFails(f)

Next ==
  \/ \E a \in Agents : Sling(a) \/ EndSession(a) \/ Ticking(a) \/ Settling(a) \/ Marking(a)
                         \/ Checking(a) \/ CheckDies(a)
  \/ \E a \in HeadAgents : Connect(a)
  \/ \E p \in prompts : PromptGiven(p) \/ PromptFails(p)
  \/ Clerk \/ Purge \/ Serving \/ ServeDies
  \/ \E m \in Messages, a \in Agents : SendByApi(m, a)
  \/ \E m, n \in Messages : Reply(m, n)

\* Timers go on; ov serve is started again; a call of a process ends, and one
\* that is tried again and again is not refused for ever; the hooks of a tmux
\* agent go on while it lives.
Fairness ==
  /\ WF_vars(Serving)
  /\ \A a \in Agents :
       /\ WF_vars(Ticking(a)) /\ WF_vars(Settling(a)) /\ SF_vars(Handing(a))
       /\ WF_vars(Marking(a)) /\ WF_vars(Checking(a))

Spec == Init /\ [][Next]_vars /\ Fairness

-----------------------------------------------------------------------------
(* Properties *)

\* Mail is marked as read only when its recipient's process has it, but for what
\* a check is about to print or was killed over, and what a first prompt is about
\* to give or failed to (headless-mail-injector.ts:188 and 384, client.ts:160-174,
\* headless-session.ts:153).
ReadIsGiven ==
  \A m \in Messages :
    box[m] = "read" => \/ m \in got \cup lost
                       \/ m \in check[to[m]].show
                       \/ \E p \in prompts : m \in p.ids

\* Mail for an agent that lives and is of the first life of its name reaches it,
\* unless it is purged or the agent ends: by a loop, through restarts of ov
\* serve, or by its hooks (serve.ts:447-471).  Headless agents depend on the
\* connection of one ov serve and are left out.
Arrives(m, a) ==
  (m \in Unread(a) /\ live[a] /\ lives[a] = 1)
    ~> (m \in got \cup lost \/ box[m] = "gone" \/ ~live[a] \/ lives[a] > 1)
MailArrives == \A m \in Messages, a \in TurnAgents \cup TmuxAgents : Arrives(m, a)

\* The same for an agent of any life.
ArrivesAgain(m, a) ==
  (m \in Unread(a) /\ live[a]) ~> (m \in got \cup lost \/ box[m] = "gone" \/ ~live[a])
MailArrivesInEveryLife == \A m \in Messages, a \in TurnAgents : ArrivesAgain(m, a)
=============================================================================
