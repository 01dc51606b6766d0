------------------------------ MODULE Identity ------------------------------
(***************************************************************************)
(* The identity an agent keeps between its sessions, identity.yaml in a    *)
(* directory of its name (agents/identity.ts).  ov sling creates it if     *)
(* there is none, every session-end hook counts a session in it            *)
(* (commands/log.ts), and nothing locks it.  ov doctor checks it with a    *)
(* parser of its own (doctor/agents.ts).  One name.                        *)
(***************************************************************************)
EXTENDS Naturals, Sequences
LOCAL INSTANCE SequencesExt

CONSTANTS Slings,     \* runs of ov sling for the name
          Hooks,      \* session-end hooks, each of a task of its own
          Domains,    \* the domains of expertise the configuration names, a sequence
          MaxRecent,  \* how many tasks are remembered
          MaxDeaths   \* bound: processes killed while they write

VARIABLES files,      \* the lines of identity.yaml in the agent's directory and, by mistake, above it
          holds,      \* what a process read or is about to write
          pc,         \* where it stands
          ended,      \* the tasks of the hooks that wrote, in order
          deaths,     \* processes killed so far
          blurred     \* whether two processes overlapped, or one was killed

identityVars == <<files, holds, pc, ended, deaths, blurred>>

Users == Slings \cup Hooks
None == <<>>

\* A file that is not there; one that was opened for writing and is empty is <<>>.
Absent == <<<<"absent">>>>

-----------------------------------------------------------------------------
\* The lines of an identity: keys at the margin, the items of lists below them.
SerializeIdentity(id) ==
  <<<<"key", "name", id.name>>, <<"key", "capability", id.capability>>,
    <<"key", "created", id.created>>, <<"key", "sessionsCompleted", id.sessions>>>> \o
  (IF id.domains = <<>> THEN <<<<"key", "expertiseDomains", "[]">>>>
   ELSE <<<<"key", "expertiseDomains", "">>>> \o [i \in DOMAIN id.domains |-> <<"item", "", id.domains[i]>>]) \o
  (IF id.tasks = <<>> THEN <<<<"key", "recentTasks", "[]">>>>
   ELSE <<<<"key", "recentTasks", "">>>> \o
        FlattenSeq([i \in DOMAIN id.tasks |->
          <<<<"item", "taskId", id.tasks[i]>>, <<"more", "summary", "done">>, <<"more", "completedAt", "date">>>>]))

\* What a reader starts from: the fields of a file that does not name them.
Blank == [name |-> "", capability |-> "", created |-> "", sessions |-> 0, domains |-> <<>>, tasks |-> <<>>]

\* A task is known by its id; its summary and its date are kept with it.
AssignTaskField(task, line) == IF line[2] = "taskId" THEN line[3] ELSE task

\* One line read: a key sets a field and opens its list, an item goes to the list that is
\* open, and a task is begun by its first line.
Field == [name |-> "name", capability |-> "capability", created |-> "created", sessionsCompleted |-> "sessions"]
ReadLine(state, line) ==
  IF line[1] = "key"
  THEN IF line[2] \in DOMAIN Field
       THEN [section |-> "", id |-> [f \in DOMAIN Blank |-> IF f = Field[line[2]] THEN line[3] ELSE state.id[f]]]
       ELSE [state EXCEPT !.section = IF line[3] = "[]" THEN "" ELSE line[2]]
  ELSE IF line[1] = "item" /\ state.section = "expertiseDomains"
  THEN [state EXCEPT !.id.domains = Append(@, line[3])]
  ELSE IF line[1] = "item" /\ state.section = "recentTasks"
  THEN [state EXCEPT !.id.tasks = Append(@, AssignTaskField("", line))]
  ELSE IF line[1] = "more" /\ state.section = "recentTasks" /\ state.id.tasks # <<>>
  THEN [state EXCEPT !.id.tasks[Len(state.id.tasks)] = AssignTaskField(@, line)]
  ELSE state

ParseIdentity(lines) == FoldLeft(ReadLine, [section |-> "", id |-> Blank], lines).id

\* The last tasks are remembered.
\* Seeded bug for the runs: the first ones are.
CapFirst(tasks) == SubSeq(tasks, 1, IF Len(tasks) > MaxRecent THEN MaxRecent ELSE Len(tasks))
Cap(tasks) == SubSeq(tasks, IF Len(tasks) > MaxRecent THEN Len(tasks) - MaxRecent + 1 ELSE 1, Len(tasks))

\* One session more, and its task.
Updated(id, task) == [id EXCEPT !.sessions = @ + 1, !.tasks = Cap(Append(@, task))]

NewIdentity ==
  [name |-> "agent", capability |-> "builder", created |-> "date", sessions |-> 0,
   domains |-> Domains, tasks |-> <<>>]

\* The directory is the name in the identity: none, if the name is empty.
Directory(id) == IF id.name = "" THEN "above" ELSE id.name

-----------------------------------------------------------------------------
IdentityInit ==
  /\ files = [d \in {"agent", "above"} |-> Absent]
  /\ holds = [u \in Users |-> None] /\ pc = [u \in Users |-> "idle"]
  /\ ended = <<>> /\ deaths = 0 /\ blurred = FALSE

\* A process begins by reading the file: ov sling stops if there is one, the hook if there
\* is none.
LoadIdentity(u) ==
  /\ pc[u] = "idle"
  /\ LET there == files["agent"] # Absent
         id == ParseIdentity(files["agent"])
     IN IF (u \in Slings) = there
        THEN pc' = [pc EXCEPT ![u] = "done"] /\ UNCHANGED holds
        ELSE /\ holds' = [holds EXCEPT ![u] = IF u \in Slings THEN NewIdentity ELSE Updated(id, u)]
             /\ pc' = [pc EXCEPT ![u] = "writes"]
  /\ blurred' = (blurred \/ \E v \in Users \ {u} : pc[v] \in {"writes", "wrote"})
  /\ UNCHANGED <<files, ended, deaths>>

\* Opening the file for writing empties it.
Truncate(u) ==
  /\ pc[u] = "writes"
  /\ files' = [files EXCEPT ![Directory(holds[u])] = <<>>]
  /\ pc' = [pc EXCEPT ![u] = "wrote"]
  /\ UNCHANGED <<holds, ended, deaths, blurred>>

CreateIdentity(u) ==
  /\ pc[u] = "wrote"
  /\ files' = [files EXCEPT ![Directory(holds[u])] = SerializeIdentity(holds[u])]
  /\ ended' = IF u \in Hooks THEN Append(ended, u) ELSE ended
  /\ pc' = [pc EXCEPT ![u] = "done"] /\ holds' = [holds EXCEPT ![u] = None]
  /\ UNCHANGED <<deaths, blurred>>

Die(u) ==
  /\ pc[u] \in {"writes", "wrote"} /\ deaths < MaxDeaths /\ deaths' = deaths + 1
  /\ pc' = [pc EXCEPT ![u] = "done"] /\ holds' = [holds EXCEPT ![u] = None]
  /\ blurred' = TRUE
  /\ UNCHANGED <<files, ended>>

IdentityNext == \E u \in Users : LoadIdentity(u) \/ Truncate(u) \/ CreateIdentity(u) \/ Die(u)

-----------------------------------------------------------------------------
\* The keys the doctor misses: it reads lines wherever they stand, and looks only in the
\* directories of the agents.
CheckIdentity(lines) ==
  {key \in {"name", "capability", "created", "sessionsCompleted"} :
     \A i \in DOMAIN lines : lines[i][2] # key}

-----------------------------------------------------------------------------
\* An identity that is not just being written is the agent's own and whole, and the doctor
\* finds nothing wrong with it; one of no name lies above the directories of the agents.
OwnIdentity ==
  /\ files["agent"] \notin {Absent, <<>>} =>
       LET id == ParseIdentity(files["agent"]) IN
         /\ id.name = "agent" /\ id.domains = Domains /\ SerializeIdentity(id) = files["agent"]
         /\ CheckIdentity(files["agent"]) = {}
  /\ files["above"] \notin {Absent, <<>>} => ParseIdentity(files["above"]).name = "" /\ blurred

\* No session is counted twice, and no task is remembered that was not counted.
NeverOvercounts ==
  files["agent"] \notin {Absent, <<>>} =>
    LET id == ParseIdentity(files["agent"]) IN
      /\ id.sessions <= Len(ended) /\ Len(id.tasks) <= id.sessions
      /\ IsInjective(id.tasks) /\ ToSet(id.tasks) \subseteq ToSet(ended)

\* While processes come one after another and none is killed, every session is counted and
\* the last tasks are remembered in order.
CountedAlone ==
  ~blurred /\ files["agent"] # Absent /\ (\A u \in Users : pc[u] # "wrote") =>
    LET id == ParseIdentity(files["agent"]) IN
      /\ id.sessions = Len(ended)
      /\ IsSuffix(id.tasks, ended) /\ (Len(ended) <= MaxRecent => id.tasks = ended)
      /\ Len(ended) > MaxRecent => Len(id.tasks) = MaxRecent

\* Every session is counted (it is not: two hooks may read the same count).
EverySessionCounts ==
  (\A u \in Users : pc[u] # "wrote") /\ files["agent"] # Absent =>
    ParseIdentity(files["agent"]).sessions = Len(ended)
=============================================================================
