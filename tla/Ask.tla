--------------------------------- MODULE Ask ---------------------------------
(***************************************************************************)
(* Words for a persistent agent in its tmux pane: ov coordinator ask       *)
(* (commands/coordinator.ts) mails a question, nudges, and waits for the   *)
(* reply; ov nudge (commands/nudge.ts) types a line into the pane.         *)
(***************************************************************************)
EXTENDS Naturals, Sequences, FiniteSets

CONSTANTS
  Askers,    \* commands of the operator, one after the other or side by side
  MaxMail,   \* bound: messages
  Tries      \* MAX_RETRIES

VARIABLES
  mail,      \* mail.db: a message has a sender and the thread it belongs to
  row,       \* the state of the agent's row
  pane,      \* its tmux session is there
  lines,     \* per asker: times its line was typed into the pane
  recent,    \* nudge-state.json has a nudge of less than half a second ago
  pc,        \* per asker: where it is
  question,  \* its message
  tries,     \* how often it typed or failed to
  told,      \* what its nudge came to
  late,      \* its deadline has passed
  inTime,    \* a reply was there when its last round of the poll began
  answer     \* the reply it printed

vars == <<mail, row, pane, lines, recent, pc, question, tries, told, late, inTime, answer>>

Init ==
  /\ mail = <<>> /\ row = "working" /\ pane = TRUE /\ recent = FALSE
  /\ lines = [p \in Askers |-> 0] /\ pc = [p \in Askers |-> "start"]
  /\ question = [p \in Askers |-> 0] /\ tries = [p \in Askers |-> 0]
  /\ told = [p \in Askers |-> "nothing"]
  /\ late = [p \in Askers |-> FALSE] /\ inTime = [p \in Askers |-> FALSE]
  /\ answer = [p \in Askers |-> 0]

Goto(p, step) == pc' = [pc EXCEPT ![p] = step]
askVars == <<question, late, inTime, answer>>
nudgeVars == <<lines, recent, tries, told>>

-----------------------------------------------------------------------------
\* The agent replies in the thread of a message, or writes to the operator of its
\* own accord.
AgentWrites ==
  /\ pane /\ row = "working" /\ Len(mail) < MaxMail
  /\ \E thread \in {0} \cup {i \in DOMAIN mail : mail[i].from = "operator"} :
       mail' = Append(mail, [from |-> "agent", thread |-> thread])
  /\ UNCHANGED <<row, pane, lines, recent, pc, askVars, tries, told>>

AgentDies ==
  /\ pane /\ pane' = FALSE
  /\ UNCHANGED <<mail, row, lines, recent, pc, askVars, tries, told>>

DebounceEnds ==
  /\ recent /\ recent' = FALSE
  /\ UNCHANGED <<mail, row, pane, lines, pc, askVars, tries, told>>

\* askPersistentAgent up to its nudge: a dead agent becomes a zombie.
Begin(p) ==
  /\ pc[p] = "start"
  /\ IF row # "working" THEN Goto(p, "refused") /\ UNCHANGED <<mail, row, question>>
     ELSE IF ~pane THEN Goto(p, "refused") /\ row' = "zombie" /\ UNCHANGED <<mail, question>>
     ELSE /\ Len(mail) < MaxMail /\ Goto(p, "nudge")
          /\ mail' = Append(mail, [from |-> "operator", thread |-> 0])
          /\ question' = [question EXCEPT ![p] = Len(mail')]
          /\ UNCHANGED row
  /\ UNCHANGED <<pane, nudgeVars, late, inTime, answer>>

\* ov nudge is debounced; ask forces its nudge.
BeginNudge(p) ==
  /\ pc[p] = "start"
  /\ IF recent THEN Goto(p, "done") /\ told' = [told EXCEPT ![p] = "debounced"]
     ELSE Goto(p, "nudge") /\ UNCHANGED told
  /\ UNCHANGED <<mail, row, pane, lines, recent, tries, askVars>>

After(p) == IF question[p] = 0 THEN "done" ELSE "sleep"
Tell(p, what) == told' = [told EXCEPT ![p] = what] /\ Goto(p, After(p))

\* nudgeAgent: resolveTargetSession and isSessionAlive.
Resolve(p) ==
  /\ pc[p] = "nudge"
  /\ IF row = "working" /\ pane THEN Goto(p, "wait") /\ UNCHANGED told
     ELSE Tell(p, "no session")
  /\ UNCHANGED <<mail, row, pane, lines, recent, tries, askVars>>
\* waitForPaneIdle: an agent in mid-thought, and a pane that cannot be read, defer.
WaitIdle(p) ==
  /\ pc[p] = "wait"
  /\ \/ pane /\ Goto(p, "type") /\ UNCHANGED told
     \/ Tell(p, "deferred")
  /\ UNCHANGED <<mail, row, pane, lines, recent, tries, askVars>>

\* sendNudgeWithRetry: the line, and half a second later an empty one.  When
\* either fails it begins again with the line.
Type(p) ==
  /\ pc[p] = "type" /\ tries[p] < Tries
  /\ tries' = [tries EXCEPT ![p] = @ + 1]
  /\ \/ pane /\ lines' = [lines EXCEPT ![p] = @ + 1] /\ Goto(p, "enter")
     \/ UNCHANGED <<lines, pc>>
  /\ UNCHANGED <<mail, row, pane, recent, told, askVars>>
Enter(p) ==
  /\ pc[p] = "enter"
  /\ \/ pane /\ Tell(p, "delivered") /\ recent' = TRUE
     \/ Goto(p, "type") /\ UNCHANGED <<told, recent>>
  /\ UNCHANGED <<mail, row, pane, lines, tries, askVars>>
GiveUp(p) ==
  /\ pc[p] = "type" /\ tries[p] = Tries /\ Tell(p, "failed")
  /\ UNCHANGED <<mail, row, pane, lines, recent, tries, askVars>>

-----------------------------------------------------------------------------
Replies(p) == {i \in DOMAIN mail : mail[i].from = "agent" /\ mail[i].thread = question[p]}

\* The deadline of an ask passes.
Deadline(p) ==
  /\ pc[p] \in {"sleep", "look"} /\ ~late[p]
  /\ late' = [late EXCEPT ![p] = TRUE]
  /\ UNCHANGED <<mail, row, pane, nudgeVars, pc, question, inTime, answer>>

\* One round of the poll: the clock is read, then comes the sleep, then the look.
Sleep(p) ==
  /\ pc[p] = "sleep"
  /\ IF late[p] THEN Goto(p, "timed out") /\ UNCHANGED inTime
     ELSE Goto(p, "look") /\ inTime' = [inTime EXCEPT ![p] = Replies(p) # {}]
  /\ UNCHANGED <<mail, row, pane, nudgeVars, question, late, answer>>

\* Seeded bug for the runs: any mail of the agent is taken for the reply.
LookAnywhere(p) ==
  /\ pc[p] = "look"
  /\ LET any == {i \in DOMAIN mail : mail[i].from = "agent"}
     IN  IF any = {} THEN Goto(p, "sleep") /\ UNCHANGED answer
         ELSE /\ Goto(p, "done")
              /\ \E i \in any : answer' = [answer EXCEPT ![p] = i] /\ \A j \in any : i <= j
  /\ UNCHANGED <<mail, row, pane, nudgeVars, question, late, inTime>>

\* getByThread: the first of the agent's in the thread of the question.
Look(p) ==
  /\ pc[p] = "look"
  /\ IF Replies(p) = {} THEN Goto(p, "sleep") /\ UNCHANGED answer
     ELSE /\ Goto(p, "done")
          /\ \E i \in Replies(p) : answer' = [answer EXCEPT ![p] = i] /\ \A j \in Replies(p) : i <= j
  /\ UNCHANGED <<mail, row, pane, nudgeVars, question, late, inTime>>

Next ==
  \/ AgentWrites \/ AgentDies \/ DebounceEnds
  \/ \E p \in Askers :
       \/ Begin(p) \/ BeginNudge(p) \/ Resolve(p) \/ WaitIdle(p)
       \/ Type(p) \/ Enter(p) \/ GiveUp(p)
       \/ Deadline(p) \/ Sleep(p) \/ Look(p)

-----------------------------------------------------------------------------
\* An ask prints a reply to its own question, with others asking and the agent
\* writing late replies beside it; and one that timed out had no reply when
\* its last round of the poll began (coordinator.ts:1365-1397).  A reply between
\* the last look and the deadline goes unread.
AskGetsItsAnswer ==
  \A p \in Askers :
    /\ answer[p] # 0 => mail[answer[p]].thread = question[p] /\ answer[p] > question[p]
    /\ pc[p] = "timed out" => ~inTime[p]

\* A nudge that says it was delivered was typed; but a line may be typed again
\* when only the empty one after it failed.
TypedOnce == \A p \in Askers : told[p] = "delivered" => lines[p] = 1
=============================================================================
