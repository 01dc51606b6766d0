-------------------------------- MODULE Feed --------------------------------
(***************************************************************************)
(* The live feed of ov serve (commands/serve/ws.ts): new rows of events.db *)
(* and mail.db are polled and sent to the sockets of a room, here that of a *)
(* run, where several agents write.  Pieces of text wait in a batch for    *)
(* each agent and session; the other events go out at once.                *)
(***************************************************************************)
EXTENDS Naturals, Sequences

CONSTANTS
  Sockets,
  Writers,   \* the sessions of agents that write events of the run
  MaxRows,   \* bound: events
  MaxMail    \* bound: messages

VARIABLES
  events,    \* the rows of events.db: who wrote it, and whether "text" or "tool"
  last,      \* lastEventId
  batch,     \* of each writer: ids of the pieces of text that wait for its timer
  mail,      \* the rows of mail.db: their times
  lastMail,  \* lastMailTs
  room,      \* the sockets of the room
  from,      \* the first event polled since a socket joined
  sent,      \* ids of the events a socket was sent
  told       \* messages a socket was sent

vars == <<events, last, batch, mail, lastMail, room, from, sent, told>>

Init ==
  /\ events = <<>> /\ last = 0 /\ batch = [w \in Writers |-> <<>>]
  /\ mail = <<>> /\ lastMail = 0 /\ room = {}
  /\ from = [s \in Sockets |-> 0]
  /\ sent = [s \in Sockets |-> <<>>] /\ told = [s \in Sockets |-> <<>>]

\* A bound: the writer of the first row is always the same.
AddEvent ==
  /\ Len(events) < MaxRows
  /\ \E w \in Writers, kind \in {"text", "tool"} :
       /\ events = <<>> => w = CHOOSE x \in Writers : TRUE
       /\ events' = Append(events, [by |-> w, kind |-> kind])
  /\ UNCHANGED <<last, batch, mail, lastMail, room, from, sent, told>>

\* created_at, to the millisecond: messages may share one.
Now == IF mail = <<>> THEN 1 ELSE mail[Len(mail)]
AddMail ==
  /\ Len(mail) < MaxMail
  /\ \E t \in {Now, Now + 1} : mail' = Append(mail, t)
  /\ UNCHANGED <<events, last, batch, lastMail, room, from, sent, told>>

\* joinRoom and leaveAllRooms.
Join(s) ==
  /\ s \notin room /\ room' = room \cup {s}
  /\ from' = [from EXCEPT ![s] = last + 1]
  /\ sent' = [sent EXCEPT ![s] = <<>>] /\ told' = [told EXCEPT ![s] = <<>>]
  /\ UNCHANGED <<events, last, batch, mail, lastMail>>

Leave(s) ==
  /\ s \in room /\ room' = room \ {s}
  /\ from' = [from EXCEPT ![s] = 0]
  /\ sent' = [sent EXCEPT ![s] = <<>>] /\ told' = [told EXCEPT ![s] = <<>>]
  /\ UNCHANGED <<events, last, batch, mail, lastMail>>

Broadcast(ids) == sent' = [s \in Sockets |-> IF s \in room THEN sent[s] \o ids ELSE sent[s]]

\* The events of these ids, in order; those that go out at once; each writer's text.
InOrder(ids) == SelectSeq([i \in 1 .. Len(events) |-> i], LAMBDA i : i \in ids)
New == (last + 1) .. Len(events)
IsTool(e) == e.kind = "tool"
AtOnce == InOrder({i \in New : IsTool(events[i])})
Batched ==
  [w \in Writers |-> batch[w] \o InOrder({i \in New : events[i].by = w /\ events[i].kind = "text"})]

\* Seeded bug for the runs: a poll remembers the last event it sent at once.
PollEventsSent ==
  /\ last < Len(events)
  /\ Broadcast(AtOnce) /\ batch' = Batched
  /\ last' = IF AtOnce = <<>> THEN last ELSE AtOnce[Len(AtOnce)]
  /\ UNCHANGED <<events, mail, lastMail, room, from, told>>

\* The timer of the events, with fanOutEvent for each row.
PollEvents ==
  /\ last < Len(events)
  /\ Broadcast(AtOnce) /\ batch' = Batched /\ last' = Len(events)
  /\ UNCHANGED <<events, mail, lastMail, room, from, told>>

\* The timer of a batch: whoever is in the room by then gets it.
FlushBatch(w) ==
  /\ batch[w] # <<>> /\ Broadcast(batch[w]) /\ batch' = [batch EXCEPT ![w] = <<>>]
  /\ UNCHANGED <<events, last, mail, lastMail, room, from, told>>

\* The timer of the mail asks for times after the last one it saw.
PollMail ==
  LET new == SelectSeq([i \in 1 .. Len(mail) |-> i], LAMBDA i : mail[i] > lastMail)
  IN  /\ new # <<>>
      /\ told' = [s \in Sockets |-> IF s \in room THEN told[s] \o new ELSE told[s]]
      /\ lastMail' = mail[Len(mail)]
      /\ UNCHANGED <<events, last, batch, mail, room, from, sent>>

\* stopBroadcaster, and ov serve again: it begins after what is there.
Restart ==
  /\ room' = {} /\ batch' = [w \in Writers |-> <<>>]
  /\ last' = Len(events) /\ lastMail' = IF mail = <<>> THEN 0 ELSE mail[Len(mail)]
  /\ from' = [s \in Sockets |-> 0]
  /\ sent' = [s \in Sockets |-> <<>>] /\ told' = [s \in Sockets |-> <<>>]
  /\ UNCHANGED <<events, mail>>

Next ==
  \/ \E s \in Sockets : Join(s) \/ Leave(s)
  \/ \E w \in Writers : FlushBatch(w)
  \/ AddEvent \/ AddMail \/ PollEvents \/ PollMail \/ Restart

-----------------------------------------------------------------------------
Of(s, Wanted(_)) == SelectSeq(sent[s], LAMBDA i : Wanted(events[i]))
Times(seq, x) == Len(SelectSeq(seq, LAMBDA y : y = x))
Rising(seq) == \A i \in 1 .. Len(seq) - 1 : seq[i] < seq[i + 1]

\* A socket gets every event that is polled while it is in the room once: the tool events
\* of all without a gap and in order, the pieces of text of each agent's session in order
\* among themselves; and no message twice (ws.ts:260-304).
EachEventOnce ==
  \A s \in room :
    /\ Rising(Of(s, IsTool)) /\ Rising(told[s])
    /\ \A w \in Writers : Rising(Of(s, LAMBDA e : e.by = w /\ e.kind = "text"))
    /\ \A i \in from[s] .. last : Times(sent[s] \o batch[events[i].by], i) = 1

\* What a socket gets is in the order of the rows.  Text waits, so a tool event
\* overtakes the text before it, and so does the text of an agent whose timer is earlier.
InRowOrder == \A s \in room : Rising(sent[s])

\* A message that no later poll will ask for was sent to those who were sent one before
\* it.  One with the time of a message that was polled is not.
NoMailMissed == \A s \in room : \A i, j \in DOMAIN mail :
  i < j /\ mail[j] <= lastMail /\ (\E n \in DOMAIN told[s] : told[s][n] = i)
    => \E n \in DOMAIN told[s] : told[s][n] = j
=============================================================================
