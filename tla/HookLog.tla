------------------------------ MODULE HookLog -------------------------------
(***************************************************************************)
(* What the hooks of one agent record (commands/log.ts, events/store.ts):  *)
(* a row for the start and one for the end of a tool call, the end closing *)
(* the row of its start; and the steps at the end of a session.  Every     *)
(* hook is a process of its own: calls in parallel have hooks in parallel. *)
(***************************************************************************)
EXTENDS Naturals, Sequences, FiniteSets

CONSTANTS
  Calls,     \* tool calls, 1 .. n, in the order they begin
  Tools,
  MaxStops   \* bound: Stop hooks that begin

VARIABLES
  tool,      \* the tool of a call
  phase,     \* new, started, ended (its end row is there), chosen, over
  open,      \* start rows without a duration
  choice,    \* the row the end hook of a call found
  closedBy,  \* the call whose end gave a row its duration
  blurred,   \* tools of which calls ran in parallel, or lost a start row
  stop,      \* the next step of the Stop hook
  stops,     \* Stop hooks that began
  lapses,    \* Stop hooks that died, or could not unlink the applied records
  applied,   \* applied-records.json names records
  outcomes,  \* outcomes appended to the applied records
  sessions   \* sessionsCompleted of the identity

callVars == <<tool, phase, open, choice, closedBy, blurred>>
stopVars == <<stop, stops, lapses, applied, outcomes, sessions>>
vars == <<callVars, stopVars>>

Init ==
  /\ tool \in [Calls -> Tools] /\ phase = [c \in Calls |-> "new"]
  /\ open = {} /\ choice = [c \in Calls |-> 0] /\ closedBy = [c \in Calls |-> 0]
  /\ blurred = {}
  /\ stop = "none" /\ stops = 0 /\ lapses = 0 /\ applied \in BOOLEAN /\ outcomes = 0 /\ sessions = 0

Running(t) == {c \in Calls : tool[c] = t /\ phase[c] \notin {"new", "over"}}

\* tool-start: the row is written, or the hook fails and says nothing.
ToolStart(c, written) ==
  /\ phase[c] = "new" /\ \A d \in Calls : d < c => phase[d] # "new"
  /\ stop = "none"
  /\ phase' = [phase EXCEPT ![c] = "started"]
  /\ open' = IF written THEN open \cup {c} ELSE open
  /\ blurred' = IF written /\ Running(tool[c]) = {} THEN blurred ELSE blurred \cup {tool[c]}
  /\ UNCHANGED <<tool, choice, closedBy, stopVars>>

\* tool-end: its row, then correlateToolEnd, which looks a start row up and
\* gives it its duration in a second statement.
ToolEnd(c) ==
  /\ phase[c] = "started" /\ phase' = [phase EXCEPT ![c] = "ended"]
  /\ UNCHANGED <<tool, open, choice, closedBy, blurred, stopVars>>

OpenOf(t) == {c \in open : tool[c] = t}

\* Seeded bug for the runs: the oldest open row.
FindEarliest(c) ==
  /\ phase[c] = "ended"
  /\ \E d \in OpenOf(tool[c]) \cup {0} :
       /\ IF d = 0 THEN OpenOf(tool[c]) = {} ELSE \A e \in OpenOf(tool[c]) : d <= e
       /\ choice' = [choice EXCEPT ![c] = d]
  /\ phase' = [phase EXCEPT ![c] = "chosen"]
  /\ UNCHANGED <<tool, open, closedBy, blurred, stopVars>>

\* The latest open row of the tool.
Find(c) ==
  /\ phase[c] = "ended"
  /\ \E d \in OpenOf(tool[c]) \cup {0} :
       /\ \A e \in OpenOf(tool[c]) : e <= d
       /\ choice' = [choice EXCEPT ![c] = d]
  /\ phase' = [phase EXCEPT ![c] = "chosen"]
  /\ UNCHANGED <<tool, open, closedBy, blurred, stopVars>>

Close(c) ==
  /\ phase[c] = "chosen" /\ phase' = [phase EXCEPT ![c] = "over"]
  /\ IF choice[c] = 0 THEN UNCHANGED <<open, closedBy>>
     ELSE open' = open \ {choice[c]} /\ closedBy' = [closedBy EXCEPT ![choice[c]] = c]
  /\ UNCHANGED <<tool, choice, blurred, stopVars>>

\* The end hook fails or never runs (the tool was refused, the agent went on).
LoseEnd(c) ==
  /\ phase[c] \in {"started", "ended"} /\ phase' = [phase EXCEPT ![c] = "over"]
  /\ UNCHANGED <<tool, open, choice, closedBy, blurred, stopVars>>

\* session-end of a worker, after a turn: its steps in order; each shrugs off a
\* failure.
After ==
  [transition |-> "identity", identity |-> "metrics", metrics |-> "gates", gates |-> "expertise",
   expertise |-> "outcomes", outcomes |-> "unlink", unlink |-> "event", event |-> "marker",
   marker |-> "none"]

BeginStop ==
  /\ stop = "none" /\ stops < MaxStops
  /\ \A c \in Calls : phase[c] \in {"new", "over"}
  /\ stop' = "transition" /\ stops' = stops + 1
  /\ UNCHANGED <<callVars, lapses, applied, outcomes, sessions>>

StopStep ==
  /\ stop # "none" /\ stop' = After[stop]
  /\ sessions' \in IF stop = "identity" THEN {sessions, sessions + 1} ELSE {sessions}
  /\ outcomes' = IF stop = "outcomes" /\ applied THEN outcomes + 1 ELSE outcomes
  /\ applied' \in IF stop = "unlink" THEN {FALSE, applied} ELSE {applied}
  /\ lapses' = IF stop = "unlink" /\ applied' THEN lapses + 1 ELSE lapses
  /\ UNCHANGED <<callVars, stops>>

\* The hook is killed (its timeout, the end of the agent's process).
StopDies ==
  /\ stop # "none" /\ stop' = "none" /\ lapses' = lapses + 1
  /\ UNCHANGED <<callVars, stops, applied, outcomes, sessions>>

Next ==
  \/ \E c \in Calls : ToolStart(c, TRUE) \/ ToolStart(c, FALSE) \/ ToolEnd(c) \/ Find(c) \/ Close(c) \/ LoseEnd(c)
  \/ BeginStop \/ StopStep \/ StopDies

-----------------------------------------------------------------------------
\* The end of a call closes the row of its own start, as long as calls of that
\* tool do not run in parallel and no start row is lost: lost ends of earlier
\* calls do not matter (events/store.ts:143-156).
EndsCloseTheirOwn ==
  \A c \in Calls : closedBy[c] # 0 /\ tool[c] \notin blurred => closedBy[c] = c

\* The records an agent applied get one outcome, and one more for each Stop hook that
\* was killed or could not unlink their list (log.ts:540-555).
OutcomesOnce == outcomes <= 1 + lapses

HookRecords == EndsCloseTheirOwn /\ OutcomesOnce

\* Each call's duration is that of its start.  With two calls of one tool in
\* parallel it is not, and one row may be closed twice and another never.
EndsPair == \A c \in Calls : closedBy[c] \in {0, c}
=============================================================================
