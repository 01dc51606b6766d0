------------------------------- MODULE Roster -------------------------------
(***************************************************************************)
(* The roster of roles an overstory project may spawn: agent-manifest.json *)
(* and the .md file of each role.  ov init and ov update write them, file  *)
(* by file (commands/init.ts, commands/update.ts), the user edits them,    *)
(* every command that spawns an agent loads them (agents/manifest.ts), and *)
(* ov doctor has its own idea of a good manifest (doctor/agents.ts).       *)
(***************************************************************************)
EXTENDS Naturals, Sequences

CONSTANTS Touched,    \* the roles whose definitions the user edits
          MaxEdits,   \* bound: edits of the user
          MaxSetups   \* bound: runs of ov init and ov update

VARIABLES manifest,   \* agent-manifest.json, or None
          defs,       \* the .md files in agent-defs/
          configured, \* whether config.yaml is there
          setup,      \* the command that writes the files, and what it does next
          setups,     \* such commands so far
          edits,      \* edits so far
          edited,     \* whether the user edited since the command began
          fresh       \* whether a whole refresh ended and no edit came after its start

rosterVars == <<manifest, defs, configured, setup, setups, edits, edited, fresh>>

None == <<>>

\* What may be wrong with a definition: the definition itself, a field of the wrong type,
\* or an item of a list that is no string.
Fields == {"definition", "file", "model", "tools", "capabilities", "canSpawn", "constraints"}
Items == {"tools item", "capabilities item", "constraints item"}

Role(file, capabilities) == [file |-> file, capabilities |-> capabilities, flaws |-> {}]

Declaring(agents, cap) == {n \in DOMAIN agents : cap \in agents[n].capabilities}
Declared(agents) == UNION {agents[n].capabilities : n \in DOMAIN agents}

\* A role is listed under every capability it declares.  The order of a list tells nothing
\* here, and a capability a definition repeats counts once.
BuildCapabilityIndex(agents) == [cap \in Declared(agents) |-> Declaring(agents, cap)]

\* Seeded bug for the runs: the index of the file is taken as it stands.
CapabilityIndexFromFile(file) == file.index
CapabilityIndex(file) == BuildCapabilityIndex(file.agents)

-----------------------------------------------------------------------------
\* The file of a role.
FileOf == [builder |-> "builder.md", coordinator |-> "coordinator.md", lead |-> "lead.md",
           merger |-> "merger.md", monitor |-> "monitor.md", orchestrator |-> "orchestrator.md",
           reviewer |-> "reviewer.md", scout |-> "scout.md"]

\* What ov init writes.
StarterAgents ==
  [n \in DOMAIN FileOf |->
    Role(FileOf[n],
      CASE n = "scout" -> {"explore", "research"}
        [] n = "builder" -> {"implement", "refactor", "fix"}
        [] n = "reviewer" -> {"review", "validate"}
        [] n = "lead" -> {"coordinate", "implement", "review"}
        [] n = "merger" -> {"merge", "resolve-conflicts"}
        [] n = "coordinator" -> {"coordinate", "dispatch", "escalate"}
        [] n = "orchestrator" -> {"orchestrate", "coordinate", "dispatch", "escalate"}
        [] n = "monitor" -> {"monitor", "patrol"})]

BuildAgentManifest ==
  [wrong |-> {}, agents |-> StarterAgents, index |-> BuildCapabilityIndex(StarterAgents)]

\* The .md files of the package, but for that of the supervisor, which is not deployed
\* any more.
Deployed == <<"builder.md", "coordinator.md", "lead.md", "merger.md", "monitor.md",
              "orchestrator.md", "ov-co-creation.md", "reviewer.md", "scout.md">>

\* The order in which the commands write: init goes through all of it, update leaves the
\* configuration alone, and its flags choose one part.
Steps(cmd) ==
  LET files == [i \in 1 .. Len(Deployed) |-> <<"file", Deployed[i]>>]
      json == <<"manifest", "">>
  IN CASE cmd \in {"init", "init --force"} -> files \o <<<<"config", "">>, json>>
       [] cmd = "update" -> files \o <<json>>
       [] cmd = "update --agents" -> files
       [] cmd = "update --manifest" -> <<json>>

Whole == {"init", "init --force", "update"}

RosterInit ==
  /\ manifest = None /\ defs = {} /\ configured = FALSE
  /\ setup = [cmd |-> "", at |-> 0] /\ setups = 0
  /\ edits = 0 /\ edited = FALSE /\ fresh = FALSE

\* init does nothing in a project that has its configuration, unless forced; update does
\* nothing in one that has not.
Begin(cmd) ==
  /\ setup.cmd = "" /\ setups < MaxSetups
  /\ cmd = "init" => ~configured
  /\ cmd \notin {"init", "init --force"} => configured
  /\ setups' = setups + 1
  /\ setup' = [cmd |-> cmd, at |-> 1] /\ edited' = FALSE
  /\ UNCHANGED <<manifest, defs, configured, edits, fresh>>

\* One file is written, unless it already says what it should.
WriteStep ==
  /\ setup.cmd # "" /\ setup.at <= Len(Steps(setup.cmd))
  /\ LET step == Steps(setup.cmd)[setup.at] IN
       /\ defs' = IF step[1] = "file" THEN defs \cup {step[2]} ELSE defs
       /\ configured' = (configured \/ step[1] = "config")
       /\ manifest' = IF step[1] = "manifest" THEN BuildAgentManifest ELSE manifest
  /\ setup' = [setup EXCEPT !.at = @ + 1]
  /\ UNCHANGED <<setups, edits, edited, fresh>>

Finish ==
  /\ setup.cmd # "" /\ setup.at > Len(Steps(setup.cmd))
  /\ fresh' = ((setup.cmd \in Whole /\ ~edited) \/ fresh)
  /\ setup' = [cmd |-> "", at |-> 0]
  /\ UNCHANGED <<manifest, defs, configured, setups, edits, edited>>

\* The command is killed: what it wrote stays.
Die ==
  /\ setup.cmd # ""
  /\ setup' = [cmd |-> "", at |-> 0]
  /\ UNCHANGED <<manifest, defs, configured, setups, edits, edited, fresh>>

-----------------------------------------------------------------------------
\* The user edits the manifest or its files by hand.
Spoil(flaw) ==
  /\ manifest # None /\ flaw \in {"json", "version", "agents", "array", "index"}
  /\ manifest' = [manifest EXCEPT !.wrong = @ \cup {flaw}]
  /\ UNCHANGED defs

SpoilRole(n, flaw) ==
  /\ manifest # None /\ n \in DOMAIN manifest.agents
  /\ manifest' = [manifest EXCEPT !.agents[n].flaws = @ \cup {flaw}]
  /\ UNCHANGED defs

Declare(n, capabilities) ==
  /\ manifest # None /\ n \in DOMAIN manifest.agents
  /\ manifest' = [manifest EXCEPT !.agents[n].capabilities = capabilities]
  /\ UNCHANGED defs

Enlist(n, withFile) ==
  /\ manifest # None /\ n \notin DOMAIN manifest.agents
  /\ manifest' = [manifest EXCEPT !.agents = [m \in DOMAIN @ \cup {n} |->
                    IF m = n THEN Role("writer.md", {"implement"}) ELSE @[m]]]
  /\ defs' = IF withFile THEN defs \cup {"writer.md"} ELSE defs

Lose(file) == /\ file \in defs /\ defs' = defs \ {file} /\ UNCHANGED manifest

Edit ==
  /\ edits < MaxEdits /\ edits' = edits + 1
  /\ edited' = TRUE /\ fresh' = FALSE
  /\ \/ \E flaw \in {"json", "version", "agents", "array", "index"} : Spoil(flaw)
     \/ \E n \in Touched, flaw \in Fields \cup Items : SpoilRole(n, flaw)
     \/ \E n \in Touched, caps \in {{}, {"review"}} : Declare(n, caps)
     \/ \E withFile \in BOOLEAN : Enlist("writer", withFile)
     \/ \E n \in Touched : Lose(FileOf[n])
  /\ UNCHANGED <<configured, setup, setups>>

RosterNext ==
  \/ \E cmd \in Whole \cup {"update --agents", "update --manifest"} : Begin(cmd)
  \/ WriteStep \/ Finish \/ Die \/ Edit

-----------------------------------------------------------------------------
\* The loader: what is wrong with a definition.
ValidateAgentDefinition(def) == IF "definition" \in def.flaws THEN {"definition"} ELSE def.flaws

\* It takes a manifest whose every definition is sound and whose files are all there.
Accepts(file) ==
  /\ file # None /\ file.wrong \cap {"json", "version", "agents", "array"} = {}
  /\ \A n \in DOMAIN file.agents :
       ValidateAgentDefinition(file.agents[n]) = {} /\ file.agents[n].file \in defs

\* It holds the definitions and an index built from them, not that of the file.
Load(file) == [agents |-> file.agents, index |-> CapabilityIndex(file)]

FindByCapability(loaded, cap) ==
  IF cap \in DOMAIN loaded.index THEN loaded.index[cap] \cap DOMAIN loaded.agents ELSE {}

\* Its own check of what it holds: every name in the index is a role that declares it.
Validate(loaded) ==
  {n \in DOMAIN loaded.agents : ValidateAgentDefinition(loaded.agents[n]) # {}} \cup
  UNION {loaded.index[cap] \ Declaring(loaded.agents, cap) : cap \in DOMAIN loaded.index}

\* The doctor: what is wrong with the structure of the manifest.  It looks at no item of a
\* list, takes an array for an object, and wants an index and a capability of every role.
LoadAndValidateManifest(file) ==
  IF file = None \/ "json" \in file.wrong THEN {"unreadable"}
  ELSE IF "agents" \in file.wrong THEN {"agents"} \cup (file.wrong \cap {"version"})
  ELSE (file.wrong \cap {"version", "index"}) \cup
       UNION {IF "definition" \in file.agents[n].flaws THEN {"definition"}
              ELSE (file.agents[n].flaws \cap Fields) \cup
                   (IF file.agents[n].capabilities = {} THEN {"no capability"} ELSE {}) :
              n \in DOMAIN file.agents}

MissingFiles(file) == {n \in DOMAIN file.agents : file.agents[n].file \notin defs}

\* The capabilities for which the index of the file and the definitions disagree.
ValidateCapabilityIndex(file) ==
  LET listed == DOMAIN file.index
      declared == Declared(file.agents)
  IN {cap \in listed \cup declared :
        \/ cap \notin listed \/ cap \notin declared
        \/ file.index[cap] # Declaring(file.agents, cap)}

\* The checks the doctor passes: none after the first if the structure is wrong.
CheckAgents ==
  LET parsing == LoadAndValidateManifest(manifest) = {}
  IN {c \in {"Manifest parsing", "Agent definition files", "Capability index"} :
        /\ parsing
        /\ c = "Agent definition files" => MissingFiles(manifest) = {}
        /\ c = "Capability index" => ValidateCapabilityIndex(manifest) = {}}

AllChecks == {"Manifest parsing", "Agent definition files", "Capability index"}

-----------------------------------------------------------------------------
\* Whatever the user and killed commands left behind, what loads has a sound index: a
\* capability leads to the roles that declare it, and the loader's own check finds nothing.
LoadedIsSound ==
  Accepts(manifest) =>
    LET loaded == Load(manifest) IN
      /\ Validate(loaded) = {}
      /\ \A cap \in Declared(manifest.agents) \cup DOMAIN manifest.index :
           FindByCapability(loaded, cap) = Declaring(manifest.agents, cap)

\* After a whole init or update with no edit meanwhile, whatever was there before, the
\* manifest loads and the doctor has no complaint.
RefreshedIsSound == fresh => Accepts(manifest) /\ CheckAgents = AllChecks

\* A manifest the doctor passes loads, but for an array of definitions and list items of a
\* wrong type; one that loads is faulted only for its index and a role without capability.
DoctorKnowsTheLoader ==
  /\ {"Manifest parsing", "Agent definition files"} \subseteq CheckAgents =>
       \/ Accepts(manifest) \/ "array" \in manifest.wrong
       \/ \E n \in DOMAIN manifest.agents : manifest.agents[n].flaws \cap Items # {}
  /\ Accepts(manifest) => LoadAndValidateManifest(manifest) \subseteq {"index", "no capability"}

\* The doctor passes only what loads (it does not: it looks at no list items).
PassedLoads == CheckAgents = AllChecks => Accepts(manifest)
=============================================================================
