------------------------------- MODULE Groups -------------------------------
(***************************************************************************)
(* Task groups (commands/group.ts): a group of issues in groups.json,      *)
(* which every command reads whole, changes, and writes whole; the tracker *)
(* is asked in between, issue by issue.                                    *)
(***************************************************************************)
EXTENDS Naturals, FiniteSets

CONSTANTS
  Commands,  \* processes of ov group
  Issues,
  MaxMails   \* bound: mails to the coordinator

VARIABLES
  file,      \* the group in groups.json
  closed,    \* issues that are closed in the tracker
  once,      \* issues that were closed at some time
  cmd,       \* per command: what it does, the group it read, the issues it asks for
  mails      \* status mails to the coordinator

vars == <<file, closed, once, cmd, mails>>

Idle == [does |-> "none"]
NoGroup == [members |-> {}, status |-> "none"]

Init ==
  /\ file = NoGroup /\ closed = {} /\ once = {} /\ mails = 0
  /\ cmd = [p \in Commands |-> Idle]

\* The tracker's users close and reopen issues.
Tracker(i) ==
  /\ closed' = IF i \in closed THEN closed \ {i} ELSE closed \cup {i}
  /\ once' = once \cup closed'
  /\ UNCHANGED <<file, cmd, mails>>

\* createGroup: a group that is new (its validation comes before it reads).
CreateGroup(p) ==
  /\ cmd[p] = Idle /\ file = NoGroup
  /\ \E ms \in (SUBSET Issues) \ {{}} : file' = [members |-> ms, status |-> "active"]
  /\ UNCHANGED <<closed, once, cmd, mails>>

\* Each command reads the file and then asks the tracker: getGroupProgress for
\* every member, addToGroup for those it adds.
BeginStatus(p) ==
  /\ cmd[p] = Idle /\ file # NoGroup
  /\ cmd' = [cmd EXCEPT ![p] = [does |-> "status", read |-> file, ask |-> file.members, all |-> TRUE]]
  /\ UNCHANGED <<file, closed, once, mails>>

BeginAdd(p) ==
  /\ cmd[p] = Idle /\ file # NoGroup
  /\ \E is \in (SUBSET (Issues \ file.members)) \ {{}} :
       cmd' = [cmd EXCEPT ![p] = [does |-> "add", read |-> file, new |-> is]]
  /\ UNCHANGED <<file, closed, once, mails>>

\* getIssueStatus of one member.
AskOne(p) ==
  /\ cmd[p].does = "status"
  /\ \E i \in cmd[p].ask :
       cmd' = [cmd EXCEPT ![p].ask = @ \ {i}, ![p].all = @ /\ i \in closed]
  /\ UNCHANGED <<file, closed, once, mails>>

\* The group is closed when every member was, and the coordinator is told.
EndStatus(p) ==
  /\ cmd[p].does = "status" /\ cmd[p].ask = {}
  /\ IF cmd[p].all /\ cmd[p].read.status = "active"
     THEN /\ file' = [cmd[p].read EXCEPT !.status = "completed"]
          /\ mails' = mails + 1
     ELSE UNCHANGED <<file, mails>>
  /\ cmd' = [cmd EXCEPT ![p] = Idle]
  /\ UNCHANGED <<closed, once>>

\* Seeded bug for the runs: a completed group stays completed.
AddedQuietly(group, new) == [members |-> group.members \cup new, status |-> group.status]

\* addToGroup: a completed group becomes active again.
Added(group, new) == [members |-> group.members \cup new, status |-> "active"]

EndAdd(p) ==
  /\ cmd[p].does = "add"
  /\ file' = Added(cmd[p].read, cmd[p].new)
  /\ cmd' = [cmd EXCEPT ![p] = Idle]
  /\ UNCHANGED <<closed, once, mails>>

\* removeFromGroup asks nobody; the last member stays.
RemoveFromGroup(p) ==
  /\ cmd[p] = Idle
  /\ \E is \in SUBSET file.members :
       /\ is # {} /\ file.members \ is # {}
       /\ file' = [file EXCEPT !.members = @ \ is]
  /\ UNCHANGED <<closed, once, cmd, mails>>

Next ==
  \/ \E i \in Issues : Tracker(i)
  \/ \E p \in Commands :
       \/ CreateGroup(p) \/ BeginStatus(p) \/ BeginAdd(p) \/ AskOne(p)
       \/ (mails < MaxMails /\ EndStatus(p)) \/ EndAdd(p) \/ RemoveFromGroup(p)

-----------------------------------------------------------------------------
\* A completed group holds only issues that were closed at some time, though
\* commands write back what they read before they asked (group.ts:178-209,
\* 252-291).
CompletedWasClosed == file.status = "completed" => file.members \subseteq once

\* The coordinator hears of a completion once: two commands side by side tell it
\* twice, and their writes undo an addition.
ToldOnce == mails <= 1
=============================================================================
