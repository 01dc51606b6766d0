------------------------------ MODULE Console -------------------------------
(***************************************************************************)
(* The coordinator's page of the web interface                             *)
(* (ui/src/routes/coordinator/ConsolePage.tsx): a thread of messages       *)
(* between the operator and the coordinator.  Messages reach the page in   *)
(* frames of a web socket and in the answers of a query that is repeated;  *)
(* a message the operator sends is shown at once, as a bubble of its own   *)
(* and an empty one for the reply.  The order of the turns, the notes of   *)
(* the page itself and the work shown inside a bubble are left out.        *)
(***************************************************************************)
EXTENDS Naturals, Sequences, FiniteSets

CONSTANTS Texts,      \* what the operator may type
          MaxSends,   \* bound: messages sent from the page
          MaxMail,    \* bound: messages in mail.db
          MaxBreaks   \* bound: times the web socket breaks

VARIABLES mails,      \* the messages of the two in mail.db
          frames,     \* messages on their way in the web socket
          breaks,     \* times it broke
          fetch,      \* the query under way: the halves that are read, and their messages
          posts,      \* the requests of handleSend, in order; a request is known by its number
          shown,      \* how often the thread shows a message
          asking,     \* requests whose message stands in a bubble of its own
          waiting,    \* requests with an empty bubble for the reply
          pending,    \* the request the page waits for, and its message if that is known
          pendingRef, \* the same, as the last effect copied it
          seen        \* messages the thread has shown

consoleVars == <<mails, frames, breaks, fetch, posts, shown, asking, waiting, pending,
                 pendingRef, seen>>

None == [token |-> 0, mid |-> 0]
Nothing == [read |-> {}, ids |-> {}]
Ids == DOMAIN mails
From(who) == {m \in Ids : mails[m].from = who}

ConsoleInit ==
  /\ mails = <<>> /\ frames = <<>> /\ breaks = 0 /\ fetch = Nothing
  /\ posts = <<>> /\ shown = [m \in 1 .. MaxMail |-> 0]
  /\ asking = {} /\ waiting = {} /\ pending = None /\ pendingRef = None /\ seen = {}

\* A turn of message m, and no turn of another changes.
Show(m) == shown' = [shown EXCEPT ![m] = @ + 1] /\ seen' = seen \cup {m}

-----------------------------------------------------------------------------
\* The server.  A new message goes to the page.
Mailed(from, thread, says) ==
  /\ Len(mails) < MaxMail
  /\ mails' = Append(mails, [from |-> from, thread |-> thread, says |-> says])
  /\ frames' = Append(frames, Len(mails) + 1)

\* The coordinator replies to a message, or writes of its own accord.
CoordinatorWrites ==
  /\ \E thread \in {0} \cup From("operator") : Mailed("coordinator", thread, "")
  /\ UNCHANGED <<breaks, fetch, posts, shown, asking, waiting, pending, pendingRef, seen>>

\* sendToCoordinator: the message of a request is in mail.db.
Posted(k) ==
  /\ posts[k].at = "posting" /\ Mailed("operator", 0, posts[k].says)
  /\ posts' = [posts EXCEPT ![k] = [@ EXCEPT !.at = "posted", !.mid = Len(mails) + 1]]
  /\ UNCHANGED <<breaks, fetch, shown, asking, waiting, pending, pendingRef, seen>>

\* What is sent until the socket is open again is lost.
SocketBreaks ==
  /\ frames # <<>> /\ breaks < MaxBreaks
  /\ frames' = <<>> /\ breaks' = breaks + 1
  /\ UNCHANGED <<mails, fetch, posts, shown, asking, waiting, pending, pendingRef, seen>>

-----------------------------------------------------------------------------
\* handleSend, up to its request.  The keyboard sends while another request is pending.
Send ==
  /\ Len(posts) < MaxSends
  /\ \E text \in Texts : posts' = Append(posts, [at |-> "posting", mid |-> 0, says |-> text])
  /\ LET k == Len(posts) + 1
     IN  asking' = asking \cup {k} /\ waiting' = waiting \cup {k} /\ pending' = [token |-> k, mid |-> 0]
  /\ UNCHANGED <<mails, breaks, frames, fetch, shown, pendingRef, seen>>

\* handleStop, and handleStartNewRun once the coordinator runs, send without a bubble.
SendPlain ==
  /\ Mailed("operator", 0, "stop")
  /\ UNCHANGED <<breaks, fetch, posts, shown, asking, waiting, pending, pendingRef, seen>>

\* The request is answered: the page knows its message.
Answered(k) ==
  /\ posts[k].at = "posted" /\ posts' = [posts EXCEPT ![k].at = "answered"]
  /\ pending' = IF pending.token = k THEN [pending EXCEPT !.mid = posts[k].mid] ELSE pending
  /\ UNCHANGED <<mails, breaks, frames, fetch, shown, asking, waiting, pendingRef, seen>>

\* Or it was refused, or its answer was lost: its bubbles go, and the page waits for nothing.
RipOut(k) ==
  /\ posts[k].at \in {"posting", "posted"} /\ posts' = [posts EXCEPT ![k].at = "failed"]
  /\ asking' = asking \ {k} /\ waiting' = waiting \ {k} /\ pending' = None
  /\ UNCHANGED <<mails, breaks, frames, fetch, shown, pendingRef, seen>>

\* The effect that keeps the reference runs after a render, and a frame may come first.
Effect ==
  /\ pendingRef # pending /\ pendingRef' = pending
  /\ UNCHANGED <<mails, breaks, frames, fetch, posts, shown, asking, waiting, pending, seen>>

-----------------------------------------------------------------------------
\* A message of the coordinator is taken for the reply to the request: by its thread or,
\* while the request is not answered, if the request is younger than STALL_AFTER_MS.
ByThread(m) == pendingRef.mid # 0 /\ mails[m].thread = pendingRef.mid
ByWindow == pendingRef # None /\ pendingRef.mid = 0

\* The reply takes the place of the empty bubble, if that is still there.
Settle(m) ==
  /\ IF pendingRef.token \in waiting THEN Show(m) ELSE UNCHANGED <<shown, seen>>
  /\ waiting' = waiting \ {pendingRef.token}
  /\ pending' = None /\ pendingRef' = None
  /\ UNCHANGED asking

\* The operator's message takes the place of the first bubble that says the same.
Same(m) == {k \in asking : mails[m].from = "operator" /\ posts[k].says = mails[m].says}
Place(m) ==
  /\ Show(m)
  /\ asking' = asking \ {k \in Same(m) : \A j \in Same(m) : k <= j}
  /\ UNCHANGED <<waiting, pending, pendingRef>>

\* ingestMail.  A message that is shown is not shown again.
IngestMail(m) ==
  IF shown[m] > 0 THEN UNCHANGED <<shown, seen, asking, waiting, pending, pendingRef>>
  ELSE IF mails[m].from = "coordinator" /\ ByThread(m) THEN Settle(m)
  ELSE Place(m) \/ (mails[m].from = "coordinator" /\ ByWindow /\ Settle(m))

HandleFrame ==
  /\ frames # <<>> /\ frames' = Tail(frames) /\ IngestMail(Head(frames))
  /\ UNCHANGED <<mails, breaks, fetch, posts>>

\* fetchInitialThread reads the two directions one by one, as they come.  One that fails
\* changes nothing.
FetchHalf(from) ==
  /\ from \notin fetch.read
  /\ fetch' = [read |-> fetch.read \cup {from}, ids |-> fetch.ids \cup From(from)]
  /\ UNCHANGED <<mails, breaks, frames, posts, shown, asking, waiting, pending, pendingRef, seen>>

\* Seeded bug for the runs: the answer takes the place of the thread.
MergedAlone(m) == IF m \in fetch.ids THEN 1 ELSE 0

\* The turns of the answer, and those of the thread it does not have.
Merged(m) == IF m \in fetch.ids THEN 1 ELSE shown[m]
Merge ==
  /\ fetch.read = {"operator", "coordinator"} /\ fetch' = Nothing
  /\ shown' = [m \in 1 .. MaxMail |-> Merged(m)] /\ seen' = seen \cup fetch.ids
  /\ UNCHANGED <<mails, breaks, frames, posts, asking, waiting, pending, pendingRef>>

ConsoleNext ==
  \/ CoordinatorWrites \/ SocketBreaks \/ Send \/ SendPlain \/ Effect \/ HandleFrame
  \/ \E k \in DOMAIN posts : Posted(k) \/ Answered(k) \/ RipOut(k)
  \/ FetchHalf("operator") \/ FetchHalf("coordinator") \/ Merge

-----------------------------------------------------------------------------
\* The thread keeps every message it has shown, however old the answer of a query is that
\* is merged into it, and shows none twice, whichever way it comes
\* (ConsolePage.tsx:174-192, 223-295).
ThreadKeeps == (\A m \in seen : shown[m] > 0) /\ (\A m \in 1 .. MaxMail : shown[m] <= 1)

\* While the page waits, the bubble it waits to fill is in the thread
\* (ConsolePage.tsx:254, 380-399).
PendingHasItsBubble == pending # None => pending.token \in waiting

\* A request whose reply is shown is not waited for (ConsolePage.tsx:235-237: the page is
\* to settle the bubble if a message is the reply to the latest request).  A reply that the
\* query brings first settles nothing, and its frame is then dropped as known.
AnsweredIsSettled ==
  pending.mid # 0 /\ pendingRef = pending /\ frames = <<>> =>
    \A m \in Ids : mails[m].thread = pending.mid => shown[m] = 0

\* A message of the operator does not stand beside its bubble once no frame is on its way.
\* It does when the query brings it first.
ShownOnce == frames = <<>> => \A k \in asking : posts[k].mid = 0 \/ shown[posts[k].mid] = 0
=============================================================================
