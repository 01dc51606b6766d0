------------------------------ MODULE HookFile ------------------------------
(***************************************************************************)
(* One .claude/settings.local.json and the commands that rewrite it: the   *)
(* start of an agent there, which deploys its hooks                        *)
(* (agents/hooks-deployer.ts), and `ov hooks install` and `uninstall`      *)
(* (commands/hooks.ts).  The project's root has one file for the           *)
(* coordinator, the supervisors, the monitor and the user's own session.   *)
(* Each command reads the file, awaits, and writes it whole; no lock.      *)
(*                                                                         *)
(* An entry of the file is <<kind, whose>>: "guard" and "log" entries are  *)
(* overstory's, recognised by their command; "mulch" is overstory's too    *)
(* but not recognised; "user" entries are the user's, numbered, and so are *)
(* "like" ones, whose command mentions ov and so looks like overstory's.   *)
(***************************************************************************)
EXTENDS Naturals, Sequences
LOCAL INSTANCE SequencesExt

CONSTANTS Starters,  \* processes that run one command at a time
          Agents,    \* agents started here
          MaxOps,    \* bound: commands
          MaxEdits   \* bound: hooks the user adds

VARIABLES settings,  \* the file: kind, whether it has hooks, and their entries
          op,        \* of each process: its command and the file it read
          mine,      \* ghost: per event, the hooks the user added and nobody removed
          lapsed,    \* ghost: a write went over one it had not seen, or was cut off
          latest,    \* ghost: whose deployment the file holds
          ops

hookFileVars == <<settings, op, mine, lapsed, latest, ops>>

Events == {"pre", "post"}  \* PreToolUse, and every other event of the template
NoHooks == [e \in Events |-> <<>>]
Contents(kind, hooked, hooks) == [kind |-> kind, hooked |-> hooked, hooks |-> hooks]
Absent == Contents("absent", FALSE, NoHooks)
Broken == Contents("broken", FALSE, NoHooks)
Idle == [do |-> "idle", agent |-> "", saw |-> Absent]

HookFileInit ==
  /\ settings \in {Absent, Contents("ok", FALSE, NoHooks)}
  /\ op = [p \in Starters |-> Idle]
  /\ mine = NoHooks /\ lapsed = FALSE /\ latest = "" /\ ops = 0

-----------------------------------------------------------------------------
\* isOverstoryHookEntry: the command holds "ov ", "overstory" or "OVERSTORY_".
IsOverstory(entry) == entry[1] \in {"guard", "log", "like"}
IsUsers(entry) == entry[1] \in {"user", "like"}
IsPlain(entry) == entry[1] = "user"

\* The template's hooks and the guards, which go first; a headless agent gets only guards.
Template(agent, headless) ==
  [e \in Events |->
     (IF e = "pre" THEN << <<"guard", agent>> >> ELSE <<>>)
     \o (IF headless THEN <<>> ELSE << <<"log", agent>> >>)]

\* .overstory/hooks.json, for the user's own session.
Orchestrators == [e \in Events |->
  << <<"log", "orchestrator">> >> \o (IF e = "post" THEN << <<"mulch", "">> >> ELSE <<>>)]

\* Seeded bug for the runs: entries of earlier deployments stay.
DeployedOver(saw, agent, headless) ==
  Contents("ok", TRUE, [e \in Events |-> Template(agent, headless)[e] \o saw.hooks[e]])

\* The new hooks, then what is not recognised as overstory's; a broken file counts as empty.
Deployed(saw, agent, headless) ==
  Contents("ok", TRUE,
    [e \in Events |-> Template(agent, headless)[e]
                      \o SelectSeq(saw.hooks[e], LAMBDA x : ~IsOverstory(x))])

\* mergeHooksByEventType: what is there, then what is not there yet.
Merged(there, incoming) ==
  [e \in Events |-> there[e] \o SelectSeq(incoming[e], LAMBDA x : x \notin {there[e][i] : i \in DOMAIN there[e]})]

-----------------------------------------------------------------------------
Begin(p, do, agent) ==
  /\ op[p] = Idle /\ ops < MaxOps
  /\ ops' = ops + 1
  /\ op' = [op EXCEPT ![p] = [do |-> do, agent |-> agent, saw |-> settings]]
  /\ UNCHANGED <<settings, mine, lapsed, latest>>

\* An agent is started, with or without a terminal.
Start(p) == \E a \in Agents, do \in {"deploy", "headless"} : Begin(p, do, a)

\* install stops when hooks are there and --force is not, and throws at a broken file.
Install(p) ==
  \E force \in BOOLEAN :
    /\ settings.kind # "broken" /\ (settings.hooked => force)
    /\ Begin(p, "install", "orchestrator")

Uninstall(p) == settings.kind = "ok" /\ settings.hooked /\ Begin(p, "uninstall", "")

\* What a command writes.
Result(p) ==
  LET o == op[p] IN
  CASE o.do \in {"deploy", "headless"} -> Deployed(o.saw, o.agent, o.do = "headless")
    [] o.do = "install" -> Contents("ok", TRUE, Merged(o.saw.hooks, Orchestrators))
    [] o.do = "uninstall" -> Contents("ok", FALSE, NoHooks)

\* The file is written.  When hooks were all it held, uninstall removes it.
Write(p) ==
  /\ op[p] # Idle
  /\ \/ settings' = Result(p)
     \/ op[p].do = "uninstall" /\ settings' = Absent
  /\ op' = [op EXCEPT ![p] = Idle]
  /\ mine' = IF op[p].do = "uninstall" THEN NoHooks ELSE mine
  /\ lapsed' = (lapsed \/ op[p].saw # settings)
  /\ latest' = IF op[p].do \in {"deploy", "headless"} THEN op[p].agent ELSE ""
  /\ UNCHANGED ops

\* The process dies before the write or in the middle of it.
Die(p) ==
  /\ op[p] # Idle
  /\ op' = [op EXCEPT ![p] = Idle]
  /\ \/ UNCHANGED <<settings, lapsed, latest>>
     \/ settings' = Broken /\ lapsed' = TRUE /\ latest' = ""
  /\ UNCHANGED <<mine, ops>>

Added == [e \in Events |-> Len(mine[e])]

\* The user adds a hook of their own.  A bound: those that mention ov are of post.
Edit ==
  /\ settings.kind # "broken" /\ Added["pre"] + Added["post"] < MaxEdits
  /\ \E e \in Events, kind \in {"user", "like"} :
       LET hook == <<kind, Added["pre"] + Added["post"] + 1>> IN
       /\ kind = "like" => e = "post"
       /\ settings' = Contents("ok", TRUE, [settings.hooks EXCEPT ![e] = Append(@, hook)])
       /\ mine' = [mine EXCEPT ![e] = Append(@, hook)]
  /\ UNCHANGED <<op, lapsed, latest, ops>>

HookFileNext ==
  \/ \E p \in Starters : Start(p) \/ Install(p) \/ Uninstall(p) \/ Write(p) \/ Die(p)
  \/ Edit

-----------------------------------------------------------------------------
\* As long as no two writes overlap and none is cut off, every hook of the user that does
\* not mention ov outlives every start and every install, once and in the order it was
\* added (hooks-deployer.ts:746-787, commands/hooks.ts).
UserHooksStay ==
  ~lapsed => \A e \in Events :
    SelectSeq(settings.hooks[e], IsPlain) = SelectSeq(mine[e], IsPlain)

\* The same of every hook of the user, whatever it mentions.
EveryUserHookStays ==
  ~lapsed => \A e \in Events : SelectSeq(settings.hooks[e], IsUsers) = mine[e]

\* What the last deployment left: hooks of that agent alone, each once, all before the
\* user's, so a guard is asked before anything else runs.
GuardsComeFirst ==
  latest # "" =>
    \A e \in Events :
      LET entries == settings.hooks[e]
          deployed == {i \in DOMAIN entries : entries[i][1] \in {"guard", "log"}} IN
      /\ \A i \in deployed, j \in DOMAIN entries :
           /\ entries[i][2] = latest
           /\ i # j => entries[i] # entries[j]
           /\ j \notin deployed => i < j
      /\ e = "pre" => <<"guard", latest>> \in {entries[i] : i \in DOMAIN entries}
=============================================================================
