-------------------------------- MODULE Rpc ---------------------------------
(***************************************************************************)
(* The connections one process keeps to the headless agents it started:    *)
(* the registry by agent name (runtimes/connections.ts), sapling's         *)
(* getState over stdin and stdout (runtimes/sapling.ts), Claude's by       *)
(* process id (runtimes/headless-connection.ts), and the two users that    *)
(* drop a connection after an await: the watchdog's check and its kill     *)
(* (watchdog/daemon.ts).  One agent name; conns are its processes.         *)
(***************************************************************************)
EXTENDS Naturals, Sequences, FiniteSets

CONSTANTS MaxConns, \* bound: processes started under the name
          MaxCalls  \* bound: calls of getState

VARIABLES conns,    \* the connections made so far
          current,  \* the one in the registry, or 0
          stdins,   \* the headless one whose stdin is known to listeners, or 0
          heard,    \* the one a listener has been told of last, or 0
          calls,    \* the calls of getState
          asked,    \* requests that reached a process: connection, id, call
          replies,  \* replies that wait in its output, the same way
          check,    \* the watchdog's check: the call it awaits, or 0
          kill      \* the watchdog's kill: phase and connection

rpcVars == <<conns, current, stdins, heard, calls, asked, replies, check, kill>>

RpcInit ==
  /\ conns = <<>> /\ current = 0 /\ stdins = 0 /\ heard = 0
  /\ calls = <<>> /\ asked = {} /\ replies = {}
  /\ check = 0 /\ kill = [phase |-> "idle", conn |-> 0]

Waits(k) == calls[k].state = "waits"

\* The calls of connection c whose ids are in ids end as result and disarm their timers.
Settled(c, ids, result) ==
  [k \in DOMAIN calls |->
     IF calls[k].conn = c /\ calls[k].id \in ids
     THEN [calls[k] EXCEPT !.timer = FALSE, !.state = IF @ = "waits" THEN result ELSE @]
     ELSE calls[k]]

-----------------------------------------------------------------------------
\* A connection comes into the registry over the one that was there.
SetConnection(kind) ==
  /\ conns' = Append(conns, [kind |-> kind, closed |-> FALSE, made |-> 0, pending |-> {},
                             stream |-> "open", proc |-> "runs"])
  /\ current' = Len(conns) + 1

\* Claude's also shows its stdin to the listeners.
RegisterHeadlessConnection ==
  /\ SetConnection("pid")
  /\ stdins' = Len(conns) + 1 /\ heard' = Len(conns) + 1

\* A process is spawned for the name and connected to.
SpawnHeadlessAgent(kind) ==
  /\ Len(conns) < MaxConns
  /\ IF kind = "pid" THEN RegisterHeadlessConnection
     ELSE SetConnection(kind) /\ UNCHANGED <<stdins, heard>>
  /\ UNCHANGED <<calls, asked, replies, check, kill>>

\* The connection is closed: whoever waits on it is told.
Close(c) ==
  IF conns[c].kind = "pid" THEN UNCHANGED <<conns, calls>>
  ELSE /\ conns' = [conns EXCEPT ![c].closed = TRUE, ![c].pending = {}]
       /\ calls' = Settled(c, conns[c].pending, "closed")

\* The name leaves the registry, whichever connection it has by now.
RemoveConnection ==
  IF current = 0 THEN UNCHANGED <<conns, calls, current, stdins, heard>>
  ELSE /\ stdins' = 0
       /\ heard' = IF stdins # 0 THEN 0 ELSE heard
       /\ Close(current) /\ current' = 0

\* ov coordinator stop.
Stop ==
  /\ current # 0
  /\ RemoveConnection /\ UNCHANGED <<asked, replies, check, kill>>

-----------------------------------------------------------------------------
\* Seeded bug for the runs: an id is free again once its call has ended.
NextIdFreed(c) == Cardinality(conns[c].pending)

NextId(c) == conns[c].made

\* What becomes of a request at once: written, refused by a dead pipe later or right here.
Writes(c) == IF conns[c].proc = "gone" THEN {"sent", "fails", "throws"} ELSE {"sent"}

Call(c, id, timer, state, write) ==
  Append(calls, [conn |-> c, id |-> id, timer |-> timer, state |-> state, write |-> write, by |-> 0])

\* A process id is asked at once.
PidState(c) == IF conns[c].proc = "gone" THEN "error" ELSE "answered"

\* getState of the connection in the registry, which is never a closed one: sapling's
\* sends a request under an id of its own.
GetState ==
  LET c == current
      k == Len(calls) + 1
      id == NextId(c) IN
  /\ c # 0 /\ Len(calls) < MaxCalls
  /\ IF conns[c].kind = "pid"
     THEN calls' = Call(c, 0, FALSE, PidState(c), "none") /\ UNCHANGED <<conns, asked>>
     ELSE \E write \in Writes(c) :
            /\ conns' = [conns EXCEPT ![c].made = @ + 1, ![c].pending = @ \cup {id}]
            /\ calls' = Call(c, id, TRUE, IF write = "throws" THEN "thrown" ELSE "waits", write)
            /\ asked' = IF write = "sent" /\ conns[c].proc # "gone" THEN asked \cup {<<c, id, k>>} ELSE asked
  /\ UNCHANGED <<current, stdins, heard, replies, kill>>

\* Some caller asks; or the watchdog does, in its check of the agent.
Ask == GetState /\ UNCHANGED check
Check == check = 0 /\ kill.phase = "idle" /\ GetState /\ check' = Len(calls) + 1

\* The process answers what it was asked, in any order, or leaves.
Answer ==
  \E r \in asked :
    /\ conns[r[1]].proc # "gone"
    /\ asked' = asked \ {r} /\ replies' = replies \cup {r}
    /\ UNCHANGED <<conns, current, stdins, heard, calls, check, kill>>

Exit ==
  \E c \in DOMAIN conns :
    /\ conns[c].proc # "gone"
    /\ conns' = [conns EXCEPT ![c].proc = "gone"]
    /\ asked' = {r \in asked : r[1] # c}
    /\ UNCHANGED <<current, stdins, heard, calls, replies, check, kill>>

\* The reader gives a reply to the call that waits under its id, if one does.
ProcessLine ==
  \E r \in replies :
    LET c == r[1]  id == r[2] IN
    /\ conns[c].stream = "open"
    /\ replies' = replies \ {r}
    /\ IF id \in conns[c].pending
       THEN LET waiting == {k \in DOMAIN calls : calls[k].conn = c /\ calls[k].id = id /\ calls[k].timer}
            IN /\ conns' = [conns EXCEPT ![c].pending = @ \ {id}]
               /\ calls' = [k \in DOMAIN calls |->
                    IF k \notin waiting THEN calls[k]
                    ELSE [calls[k] EXCEPT !.timer = FALSE,
                                          !.state = IF @ = "waits" THEN "answered" ELSE @, !.by = r[3]]]
       ELSE UNCHANGED <<conns, calls>>
    /\ UNCHANGED <<current, stdins, heard, asked, check, kill>>

\* The output ends, or breaks with replies unread: whoever waits is told.
Drained ==
  \E c \in DOMAIN conns :
    /\ conns[c].kind = "rpc" /\ conns[c].proc = "gone" /\ conns[c].stream = "open"
    /\ conns' = [conns EXCEPT ![c].stream = "ended", ![c].pending = {}]
    /\ calls' = Settled(c, conns[c].pending, "closed")
    /\ replies' = {r \in replies : r[1] # c}
    /\ UNCHANGED <<current, stdins, heard, asked, check, kill>>

\* A call's time is up, or the write of its request is refused after all.
Fails(k, result) ==
  /\ conns' = [conns EXCEPT ![calls[k].conn].pending = @ \ {calls[k].id}]
  /\ calls' = [calls EXCEPT ![k].timer = FALSE, ![k].state = IF @ = "waits" THEN result ELSE @,
                            ![k].write = IF result = "unwritten" THEN "none" ELSE @]
  /\ UNCHANGED <<current, stdins, heard, asked, replies, check, kill>>

Timeout == \E k \in DOMAIN calls : calls[k].timer /\ Fails(k, "late")
WriteFails == \E k \in DOMAIN calls : calls[k].write = "fails" /\ Fails(k, "unwritten")

-----------------------------------------------------------------------------
\* The check has its answer; without one, or when its own timer is first, it drops the
\* connection.
Checked ==
  /\ check # 0 /\ calls[check].state \in {"answered", "error"}
  /\ check' = 0
  /\ UNCHANGED <<conns, current, stdins, heard, calls, asked, replies, kill>>

GiveUp ==
  /\ check # 0 /\ calls[check].state \notin {"answered", "error"}
  /\ check' = 0 /\ RemoveConnection
  /\ UNCHANGED <<asked, replies, kill>>

\* killAgent: abort by message, or by SIGTERM and, after a while, SIGKILL.
KillAgent ==
  /\ kill.phase = "idle" /\ check = 0 /\ current # 0
  /\ kill' = [phase |-> IF conns[current].kind = "rpc" THEN "aborted" ELSE "polls", conn |-> current]
  /\ UNCHANGED <<conns, current, stdins, heard, calls, asked, replies, check>>

PollGone ==
  /\ kill.phase = "polls" /\ conns[kill.conn].proc = "gone"
  /\ kill' = [kill EXCEPT !.phase = "aborted"]
  /\ UNCHANGED <<conns, current, stdins, heard, calls, asked, replies, check>>

Sigkill ==
  /\ kill.phase = "polls"
  /\ conns' = [conns EXCEPT ![kill.conn].proc = "gone"]
  /\ asked' = {r \in asked : r[1] # kill.conn}
  /\ kill' = [kill EXCEPT !.phase = "aborted"]
  /\ UNCHANGED <<current, stdins, heard, calls, replies, check>>

\* The kill ends with the name's connection removed.
Aborted ==
  /\ kill.phase = "aborted" /\ kill' = [phase |-> "idle", conn |-> 0]
  /\ RemoveConnection /\ UNCHANGED <<asked, replies, check>>

RpcNext ==
  \/ \E kind \in {"rpc", "pid"} : SpawnHeadlessAgent(kind)
  \/ Stop \/ Ask \/ Check \/ Answer \/ Exit \/ ProcessLine \/ Drained \/ Timeout \/ WriteFails
  \/ Checked \/ GiveUp \/ KillAgent \/ PollGone \/ Sigkill \/ Aborted

-----------------------------------------------------------------------------
\* Every call ends: a call that waits has its timer armed and its entry in the table, so
\* that either a reply, the end of the stream, the close or the timer reaches it; and no
\* entry or timer outlives a closed connection.
CallsEnd ==
  /\ \A k \in DOMAIN calls :
       /\ Waits(k) => calls[k].timer
       /\ calls[k].timer => calls[k].id \in conns[calls[k].conn].pending
  /\ \A c \in DOMAIN conns : conns[c].closed => conns[c].pending = {}

\* A late reply answers nobody else: a call is answered by the reply to its own request.
OwnAnswer == \A k \in DOMAIN calls : calls[k].by \in {0, k}

\* A headless connection in the registry is the one whose stdin the listeners write to.
ListenersFollow ==
  (current # 0 /\ conns[current].kind = "pid") => (stdins = current /\ heard = current)

\* What killAgent's callers rely on: an agent whose connection it aborted is gone.
\* sapling's abort is only a message, and killAgent returns without a kill.
AbortedIsGone == kill.phase = "aborted" => conns[kill.conn].proc = "gone"

\* The watchdog drops the connection it found dead and no newer one of the same name.
DropsItsOwn == kill.phase = "aborted" => current \in {0, kill.conn}
=============================================================================
