----------------------------- MODULE EventTail ------------------------------
(***************************************************************************)
(* The tailers of events/tailer.ts, which the watchdog starts and stops:   *)
(* each reads the stdout.log of a headless agent from a byte offset and    *)
(* turns its lines into rows of events.db.  A line of the log is two       *)
(* halves, so that a poll may find the file in the middle of one; the n-th *)
(* line of log i is the pair <<i, n>>.  Line 1 of a log is the event that  *)
(* carries the session id.                                                 *)
(***************************************************************************)
EXTENDS Naturals, Sequences

CONSTANTS  \* natural numbers
  Lives,   \* bound: times the agent is slung, each with a log of its own
  Lines    \* bound: lines of a log

VARIABLES
  size,      \* halves written to each log
  newest,    \* the log findLatestStdoutLog returns, 0 before the first sling
  active,    \* the agent's row is not completed
  log,       \* the log the tailer reads, 0 without a tailer
  offset,    \* byteOffset
  pinned,    \* sessionIdPinned
  sid,       \* claudeSessionId of the row: the log it came from
  recorded,  \* the events of events.db
  restarted, \* whether ov watch was restarted
  torn       \* whether a poll ever met half a line

vars == <<size, newest, active, log, offset, pinned, sid, recorded, restarted, torn>>

Init ==
  /\ size = [i \in 1..Lives |-> 0] /\ newest = 0 /\ active = FALSE
  /\ log = 0 /\ offset = 0 /\ pinned = FALSE /\ sid = 0
  /\ recorded = <<>> /\ restarted = FALSE /\ torn = FALSE

\* ov sling: a new log directory and a fresh row.
Sling ==
  /\ ~active /\ newest < Lives
  /\ newest' = newest + 1 /\ active' = TRUE /\ sid' = 0
  /\ UNCHANGED <<size, log, offset, pinned, recorded, restarted, torn>>

\* The agent writes a line, or half of it.
Write ==
  /\ active /\ \E n \in 1..2 :
       /\ size[newest] + n =< 2 * Lines
       /\ size' = [size EXCEPT ![newest] = @ + n]
  /\ UNCHANGED <<newest, active, log, offset, pinned, sid, recorded, restarted, torn>>

\* The agent's session ends.
Complete ==
  /\ active /\ active' = FALSE
  /\ UNCHANGED <<size, newest, log, offset, pinned, sid, recorded, restarted, torn>>

\* startEventTailer, by a tick of the daemon for an active agent without a tailer.
Start ==
  /\ active /\ log = 0 /\ log' = newest
  /\ offset' = 0 /\ pinned' = FALSE
  /\ UNCHANGED <<size, newest, active, sid, recorded, restarted, torn>>

\* stop(), by the first tick that finds the agent completed; nothing is read
\* any more.
Stop ==
  /\ ~active /\ log # 0 /\ log' = 0
  /\ offset' = 0 /\ pinned' = FALSE
  /\ UNCHANGED <<size, newest, active, sid, recorded, restarted, torn>>

\* The lines whose two halves lie between the halves a and b.
Whole(a, b) == (a + 1) \div 2 + 1 .. b \div 2

\* These lines in their order, as events of log i.
InOrder(i, a, b) ==
  LET before == (a + 1) \div 2 IN [k \in 1..(b \div 2) - before |-> <<i, before + k>>]

\* Seeded bug for the runs: the offset stays where it was.
PollAgain ==
  /\ log # 0 /\ size[log] > offset
  /\ Len(recorded) < 2 * Lives * Lines
  /\ recorded' = recorded \o InOrder(log, offset, size[log])
  /\ torn' = (torn \/ size[log] % 2 = 1)
  /\ UNCHANGED <<size, newest, active, log, offset, pinned, sid, restarted>>

\* One poll: everything from the offset to the end of the file; the pieces that
\* are not whole lines are dropped, and the offset passes over them as well.
Poll ==
  LET seen == Whole(offset, size[log])
  IN  /\ log # 0 /\ size[log] > offset
      /\ offset' = size[log]
      /\ recorded' = recorded \o InOrder(log, offset, size[log])
      /\ torn' = (torn \/ size[log] % 2 = 1)
      /\ pinned' = (pinned \/ 1 \in seen)
      /\ sid' = IF ~pinned /\ 1 \in seen THEN log ELSE sid
      /\ UNCHANGED <<size, newest, active, log, restarted>>

\* ov watch is stopped or dies, and is started again: the registry is empty.
Restart ==
  /\ ~restarted /\ restarted' = TRUE
  /\ log' = 0 /\ offset' = 0 /\ pinned' = FALSE
  /\ UNCHANGED <<size, newest, active, sid, recorded, torn>>

Next == Sling \/ Write \/ Complete \/ Start \/ Stop \/ Poll \/ Restart

Spec == Init /\ [][Next]_vars

Earlier(x, y) == x[1] < y[1] \/ (x[1] = y[1] /\ x[2] < y[2])

\* Under one daemon the events are the agent's lines in the order they were
\* written, none twice, through stops and new logs (tailer.ts keeps a byte
\* cursor per tailer; daemon.ts:731-746 starts, and 986-991 stops them).
LinesOnceInOrder ==
  ~restarted => \A i, j \in DOMAIN recorded : i < j => Earlier(recorded[i], recorded[j])

\* A tailer that has caught up has recorded every line the file holds ("parses
\* NDJSON lines, and writes normalized events", tailer.ts:95): not the line a
\* poll has cut in two.
NoLineLost ==
  log # 0 /\ offset = size[log]
    => \A n \in 1..Lines : 2 * n =< offset => \E k \in DOMAIN recorded : recorded[k] = <<log, n>>

\* The tailer of an active agent reads its present log: not when the agent has
\* ended and was slung again between two ticks.
TailsTheLiveLog == active /\ log # 0 => log = newest
=============================================================================
