------------------------------- MODULE Config -------------------------------
(***************************************************************************)
(* The configuration of a project: ov init writes config.yaml with its own *)
(* serializer (commands/init.ts), loadConfig reads it and the local        *)
(* overrides back with its own parser (config.ts).                         *)
(*                                                                         *)
(* A document is flat: its entries in order, each a path of keys and a     *)
(* value, which is a scalar <<type, v>> or the mark of an object or array. *)
(* A scalar of type "str" stands for all strings YAML would read alike.    *)
(***************************************************************************)
EXTENDS Naturals, Sequences, SequencesExt, FiniteSets

CONSTANT MaxEdits  \* bound: groups of entries the user sets in a file

VARIABLES
  inFile,    \* the entries the user set in config.yaml
  full,      \* config.yaml came from ov init, or has these entries alone
  inLocal,   \* the entries of config.local.yaml
  where,     \* the directory the command runs in
  root,      \* the project root it found
  loaded     \* what loadConfig gave: a set of entries, or none yet

vars == <<inFile, full, inLocal, where, root, loaded>>

Obj == <<"object">>
Arr == <<"array">>
Undefined == <<"undefined">>
Index == <<"1", "2", "3", "4">>
NotLoaded == {<<"not loaded">>}
Invalid == {<<"validation error">>}

-----------------------------------------------------------------------------
(* Entries *)
E(p, v) == [path |-> p, val |-> v]
Str(v) == <<"str", v>>
Num(n) == <<"num", n>>
Bool(b) == <<"bool", b>>
Object(p) == E(p, <<"object">>)
Array(p) == E(p, <<"array">>)

Gate(i, name) ==
  LET p == <<"project", "qualityGates", i>>
  IN  <<Object(p), E(Append(p, "name"), Str(name)), E(Append(p, "command"), Str("with colon"))>>
Gateway ==
  LET p == <<"providers", "gateway">>
  IN  <<Object(p), E(Append(p, "type"), Str("gateway")), E(Append(p, "baseUrl"), Str("with colon"))>>
Domains ==
  <<E(<<"mulch", "domains", "1">>, Str("cli")), E(<<"mulch", "domains", "2">>, Str("with colon"))>>

\* The single values a user sets.
Values ==
  <<E(<<"project", "name">>, Str("~")), E(<<"project", "name">>, Str("with quote")),
    E(<<"agents", "maxConcurrent">>, Num(0)), E(<<"agents", "maxConcurrent">>, Num(3)),
    E(<<"watchdog", "tier0Enabled">>, Bool(FALSE)), E(<<"watchdog", "tier0IntervalMs">>, Num(60)),
    E(<<"watchdog", "tier1Enabled">>, Bool(TRUE)), E(<<"watchdog", "tier2Enabled">>, Bool(TRUE)),
    E(<<"models", "builder">>, <<"ref", "gateway">>), E(<<"models", "builder">>, Str("gpt")),
    E(<<"runtime", "default">>, Str("codex")), E(<<"seeds", "enabled">>, Bool(FALSE))>>
Set(section) == SelectSeq(Values, LAMBDA e : e.path[1] = section)

\* Every entry of a file, in the order they are written in.
All ==
  <<Object(<<"project">>), E(<<"project", "name">>, Str("word"))>> \o Set("project") \o
  <<Array(<<"project", "qualityGates">>)>> \o Gate("1", "tests") \o Gate("1", "mine") \o
  Gate("2", "lint") \o
  <<Object(<<"agents">>), E(<<"agents", "maxConcurrent">>, Num(25))>> \o Set("agents") \o
  <<Object(<<"taskTracker">>), E(<<"taskTracker", "backend">>, Str("auto")),
    E(<<"taskTracker", "enabled">>, Bool(TRUE)),
    Object(<<"mulch">>), Array(<<"mulch", "domains">>)>> \o Domains \o
  <<Object(<<"providers">>), Object(<<"providers", "anthropic">>),
    E(<<"providers", "anthropic", "type">>, Str("native"))>> \o Gateway \o
  <<Object(<<"watchdog">>), E(<<"watchdog", "tier0Enabled">>, Bool(TRUE)),
    E(<<"watchdog", "tier0IntervalMs">>, Num(30)), E(<<"watchdog", "tier1Enabled">>, Bool(FALSE)),
    E(<<"watchdog", "staleThresholdMs">>, Num(300)), E(<<"watchdog", "zombieThresholdMs">>, Num(600)),
    E(<<"watchdog", "triageTimeoutMs">>, Num(30))>> \o Set("watchdog") \o
  <<Object(<<"models">>)>> \o Set("models") \o
  <<Object(<<"runtime">>), E(<<"runtime", "default">>, Str("claude"))>> \o Set("runtime") \o
  <<Object(<<"seeds">>)>> \o Set("seeds")

Gates == {e \in ToSet(Gate("1", "mine")) : e.path[Len(e.path)] = "name"}
\* DEFAULT_CONFIG, abridged: every type of value, nested objects, an empty object, an empty
\* list, old keys.
Default ==
  (ToSet(All) \ (ToSet(Values) \cup ToSet(Gateway) \cup ToSet(Domains) \cup Gates))
    \ {Object(<<"seeds">>)}

\* What a user may set: groups of entries.
Edits ==
  {{Object(<<e.path[1]>>), e} : e \in ToSet(Values)}
  \cup {{Object(<<"mulch">>), Array(<<"mulch", "domains">>)} \cup ToSet(Domains),
        {Object(<<"project">>), Array(<<"project", "qualityGates">>)} \cup ToSet(Gate("1", "mine")),
        {Object(<<"providers">>)} \cup ToSet(Gateway)}

Below(p, q) == IsPrefix(p, q)
Children(doc, p) == SelectSeq(doc, LAMBDA e : Len(e.path) = Len(p) + 1 /\ Below(p, e.path))
IsItem(e) == Last(e.path) \in Range(Index)
InItem(e) == Len(e.path) > 2 /\ Front(e.path)[Len(e.path) - 1] \in Range(Index)

-----------------------------------------------------------------------------
\* formatYamlValue: how a scalar is put on its line.  Strings with a quote or a
\* backslash are escaped; those that merely look like null, a number or a list
\* without beginning with a digit are left bare.
Format(v) ==
  IF v[1] # "str" THEN <<"bare", v>>
  ELSE IF v[2] \in {"", "with colon", "true"} THEN <<"quoted", v>>
  ELSE IF v[2] = "with quote" THEN <<"escaped", v>>
  ELSE <<"bare", v>>

\* parseValue: quotes are cut off and nothing is unescaped.
ParseValue(raw) ==
  IF raw[1] = "escaped" THEN <<"str", "with quote and backslash">>
  ELSE IF raw[1] = "bare" /\ raw[2][1] = "str" /\ raw[2][2] = "~" THEN <<"null">>
  ELSE raw[2]

\* serializeObject: the line of an entry; an object in an array shares the line of
\* its first key.
Line(doc, e) ==
  LET first == Children(doc, Front(e.path))[1] = e
      text  == IF e.val = Arr /\ Children(doc, e.path) = <<>> THEN <<"bare", Arr>>
               ELSE IF e.val \in {Obj, Arr} THEN <<>> ELSE Format(e.val)
  IN  CASE IsItem(e) /\ e.val = Obj -> <<>>
        [] IsItem(e) /\ e.val # Obj ->
             <<[indent |-> Len(e.path) - 1, dash |-> TRUE, key |-> "", raw |-> text]>>
        [] InItem(e) /\ first ->
             <<[indent |-> Len(e.path) - 2, dash |-> TRUE, key |-> Last(e.path), raw |-> text]>>
        [] OTHER ->
             <<[indent |-> Len(e.path) - 1, dash |-> FALSE, key |-> Last(e.path), raw |-> text]>>

Serialize(doc) ==
  FoldLeft(LAMBDA lines, e : lines \o Line(doc, e), <<>>, doc)

-----------------------------------------------------------------------------
\* The state of parseYaml: the entries so far and the stack of open objects.
Put(doc, p, v) == SelectSeq(doc, LAMBDA e : ~Below(p, e.path)) \o <<[path |-> p, val |-> v]>>

\* A line "key: value", below the object on top of the stack.
KeyLine(s, ln) ==
  LET p == Append(Last(s.stack).path, ln.key)
  IN  IF ln.raw = <<>>
      THEN [doc |-> Put(s.doc, p, Obj), stack |-> Append(s.stack, [indent |-> ln.indent, path |-> p])]
      ELSE [s EXCEPT !.doc = Put(@, p, IF ln.raw = <<"bare", Arr>> THEN Arr ELSE ParseValue(ln.raw))]

\* A line "- value" or "- key: value": it goes to the array that is the last value
\* of the object on top, or makes one of the empty object that is on top.
DashLine(s, ln) ==
  LET top    == Children(s.doc, Last(s.stack).path)
      inTop  == top # <<>> /\ Last(top).val = Arr
      under  == IF Len(s.stack) < 2 THEN <<>> ELSE Children(s.doc, Last(Front(s.stack)).path)
      makes  == under # <<>> /\ Last(under).val = Obj /\ Children(s.doc, Last(under).path) = <<>>
      arr    == IF inTop THEN Last(top).path ELSE Last(under).path
      doc    == IF inTop THEN s.doc ELSE Put(s.doc, arr, Arr)
      stack  == IF inTop THEN s.stack ELSE Front(s.stack)
      item   == Append(arr, Index[Len(Children(doc, arr)) + 1])
  IN  IF ~inTop /\ ~makes THEN s
      ELSE IF ln.key = "" THEN [doc |-> Put(doc, item, ParseValue(ln.raw)), stack |-> stack]
      ELSE [doc   |-> Put(Put(doc, item, Obj), Append(item, ln.key),
                          IF ln.raw = <<>> THEN Obj ELSE ParseValue(ln.raw)),
            stack |-> Append(stack, [indent |-> ln.indent, path |-> item])]

\* Seeded bug for the runs: an object at the indent of the line stays open.
OpenWide(s, ln) ==
  [s EXCEPT !.stack = SelectSeq(@, LAMBDA o : o.indent <= ln.indent \/ o.path = <<>>)]

\* Objects that are not above the line are closed.
Open(s, ln) ==
  [s EXCEPT !.stack = SelectSeq(@, LAMBDA o : o.indent < ln.indent \/ o.path = <<>>)]

ParseYaml(lines) ==
  LET step(s, ln) == IF ln.dash THEN DashLine(Open(s, ln), ln) ELSE KeyLine(Open(s, ln), ln)
      start == [doc |-> <<>>, stack |-> <<[indent |-> 0, path |-> <<>>]>>]
  IN  FoldLeft(step, start, lines).doc

-----------------------------------------------------------------------------
Has(doc, p) == \E e \in doc : e.path = p
Val(doc, p) == IF Has(doc, p) THEN (CHOOSE e \in doc : e.path = p).val ELSE Undefined
With(doc, p, v) == {e \in doc : e.path # p} \cup {[path |-> p, val |-> v]}
Without(doc, p) == {e \in doc : ~Below(p, e.path)}

Dog(key) == <<"watchdog", key>>
\* Copies the value of one key to another; the old one stays as undefined.
Renamed(doc, old, new) ==
  IF Has(doc, Dog(old)) THEN With(With(doc, Dog(new), Val(doc, Dog(old))), Dog(old), Undefined)
  ELSE doc

\* migrateDeprecatedWatchdogKeys: a file with tier1Enabled and no tier0Enabled is
\* taken for an old one.
MigrateWatchdog(doc) ==
  IF ~Has(doc, Dog("tier1Enabled")) \/ Has(doc, Dog("tier0Enabled")) THEN doc
  ELSE LET a == Renamed(doc, "tier1Enabled", "tier0Enabled")
           b == Renamed(a, "tier1IntervalMs", "tier0IntervalMs")
       IN  Renamed(b, "tier2Enabled", "tier1Enabled")

\* migrateDeprecatedTaskTrackerKeys
MigrateTracker(doc) ==
  LET old == {k \in {"beads", "seeds"} : Has(doc, <<k>>)}
      k   == IF "beads" \in old THEN "beads" ELSE "seeds"
      on  == Val(doc, <<k, "enabled">>)
  IN  IF Has(doc, <<"taskTracker">>) \/ old = {} THEN doc
      ELSE Without(doc, <<k>>) \cup
             {[path |-> <<"taskTracker">>, val |-> Obj],
              [path |-> <<"taskTracker", "backend">>, val |-> <<"str", k>>],
              [path |-> <<"taskTracker", "enabled">>,
               val |-> IF on \in {Undefined, <<"null">>} THEN <<"bool", TRUE>> ELSE on]}

\* Seeded bug for the runs: the items of both lists are kept.
DeepMergeAppends(target, source) ==
  LET set == {s \in source : s.val # Undefined}
  IN  {e \in target : \A s \in set : Below(s.path, e.path) => s.val \in {Obj, Arr}} \cup set

\* deepMerge: objects are merged, every other value of the source replaces the
\* target's with all below it, and undefined is skipped.
DeepMerge(target, source) ==
  LET set == {s \in source : s.val # Undefined}
      replaces(s) == s.val # Obj \/ Val(target, s.path) # Obj
  IN  {e \in target : \A s \in set : Below(s.path, e.path) => ~replaces(s)} \cup set

-----------------------------------------------------------------------------
\* validateConfig, for the settings the documents here have.
Amount(doc, section, key) == Val(doc, <<section, key>>)[2]
Is(doc, p, v) == Val(doc, p) = <<"bool", v>>
ValidAgents(c) == Amount(c, "agents", "maxConcurrent") >= 1
ValidWatchdog(c) ==
  /\ Is(c, Dog("tier0Enabled"), TRUE) => Amount(c, "watchdog", "tier0IntervalMs") > 0
  /\ Amount(c, "watchdog", "zombieThresholdMs") > Amount(c, "watchdog", "staleThresholdMs")
  /\ Is(c, Dog("tier1Enabled"), TRUE) =>
       Amount(c, "watchdog", "triageTimeoutMs") < Amount(c, "watchdog", "tier0IntervalMs")
ValidProject(c) ==
  /\ Val(c, <<"taskTracker", "backend">>)[2] \in {"auto", "seeds", "beads"}
  /\ \A e \in c : Len(e.path) = 2 /\ e.path[1] = "providers" /\ e.val = Obj =>
       LET type == Val(c, Append(e.path, "type"))
       IN  /\ type \in {<<"str", "native">>, <<"str", "gateway">>}
           /\ type = <<"str", "gateway">> => Has(c, Append(e.path, "baseUrl"))
  /\ \A e \in c : Len(e.path) = 3 /\ e.path[2] = "qualityGates" =>
       \A k \in {"name", "command"} : Val(c, Append(e.path, k))[1] = "str"
\* A model is an alias, or names a provider of the file; codex takes any other too.
ValidModels(c) ==
  \A e \in c : Len(e.path) = 2 /\ e.path[1] = "models" =>
    IF e.val[1] = "ref" THEN Has(c, <<"providers", e.val[2]>>)
    ELSE e.val = <<"str", "opus">> \/ Val(c, <<"runtime", "default">>) = <<"str", "codex">>
Validate(c) == ValidAgents(c) /\ ValidWatchdog(c) /\ ValidProject(c) /\ ValidModels(c)

Parsed(doc) == MigrateTracker(MigrateWatchdog(Range(ParseYaml(Serialize(doc)))))

\* resolveProjectRoot: the override, the variable ov sling sets, the part of the
\* path before .overstory/worktrees/, the directory of git's common dir.
ResolveRoot(w) ==
  IF w.override # "none" THEN w.override
  ELSE IF w.env # "none" THEN w.env
  ELSE IF w.below # "none" /\ w.below \in w.projects THEN w.below
  ELSE IF w.git # "none" /\ w.git # w.dir /\ w.git \in w.projects THEN w.git
  ELSE w.dir

-----------------------------------------------------------------------------
\* The places a command runs in: the main checkout, an agent's worktree, which
\* may hold a tracked copy of the configuration, and a submodule in either.
AtMain == [override |-> "none", env |-> "none", dir |-> "main", below |-> "none", git |-> "main",
           projects |-> {"main"}]
Places ==
  {w \in [override : {"none"}, env : {"none", "main"}, dir : {"main", "tree", "submodule"},
          below : {"none", "main"}, git : {"main", "modules", "none"},
          projects : {{"main"} \cup p : p \in SUBSET {"tree", "submodule"}}] :
     w.below = IF w.dir = "main" THEN "none" ELSE "main"}

Doc(entries) == SelectSeq(All, LAMBDA e : e \in entries)
\* What config.yaml holds: what ov init wrote, as edited, or the edits alone.
Written == IF full THEN {e \in Default : \A f \in inFile : f.path # e.path} \cup inFile ELSE inFile

Init ==
  /\ inFile = {} /\ full \in BOOLEAN /\ inLocal = {}
  /\ where \in Places /\ root = "none" /\ loaded = NotLoaded

Fits(entries, file) == \A e \in entries, f \in file : e.path = f.path => e = f
Groups(file) == {g \in Edits : g \subseteq file}

EditFile(group) ==
  /\ where = AtMain /\ Fits(group, inFile) /\ Cardinality(Groups(inFile)) < MaxEdits
  /\ inFile' = inFile \cup group /\ root' = "none" /\ loaded' = NotLoaded
  /\ UNCHANGED <<full, inLocal, where>>
EditLocal(group) ==
  /\ where = AtMain /\ Fits(group, inLocal) /\ Cardinality(Groups(inLocal)) < MaxEdits
  /\ inLocal' = inLocal \cup group /\ root' = "none" /\ loaded' = NotLoaded
  /\ UNCHANGED <<full, inFile, where>>

\* loadConfig, with mergeLocalConfig.
Load ==
  /\ loaded = NotLoaded
  /\ root' = ResolveRoot(where)
  /\ LET merged == DeepMerge(DeepMerge(Default, Parsed(Doc(Written))), Parsed(Doc(inLocal)))
     IN  loaded' = IF Validate(merged) THEN merged ELSE Invalid
  /\ UNCHANGED <<inFile, full, inLocal, where>>

Next == Load \/ \E group \in Edits : EditFile(group) \/ EditLocal(group)

-----------------------------------------------------------------------------
Lossy == {<<"str", "~">>, <<"str", "with quote">>}
LooksOld(file) == Has(file, Dog("tier1Enabled")) /\ ~Has(file, Dog("tier0Enabled"))
Old == {<<"seeds">>, <<"seeds", "enabled">>}
\* A setting of one file that no later file overrides.
Stands(e, later) ==
  /\ \A f \in later : Below(f.path, e.path) => f.val = Obj \/ f = e
  /\ e.path[1] = "taskTracker" => ~Has(later, <<"seeds">>)
Kept(entries, later) ==
  \A e \in entries : e.val \notin Lossy /\ e.path \notin Old /\ Stands(e, later) => e \in loaded

\* The defaults, config.yaml and config.local.yaml are laid over one another
\* setting by setting, lists as a whole, and what ov init wrote is read back as
\* it was; with strings the parser takes for something else left aside, and files
\* that look old (config.ts:378-410, 865-870; init.ts:287-380).
SettingsWin ==
  (loaded \notin {NotLoaded, Invalid} /\ ~LooksOld(inLocal) /\ ~LooksOld(Written)) =>
    /\ Kept(inLocal, {}) /\ Kept(Written, inLocal)
    /\ \A e \in inLocal : e.val = Arr => {f \in loaded : Below(e.path, f.path)} \subseteq inLocal
    /\ Has(inLocal, <<"seeds">>) =>
         Val(loaded, <<"taskTracker", "enabled">>) = Val(inLocal, <<"seeds", "enabled">>)
    /\ {e.path : e \in loaded} \subseteq
         {e.path : e \in Default \cup Written \cup inLocal}

\* Whatever the directory, a command of an agent in its worktree works with the
\* state of the main checkout (config.ts:912-986).
AgentsShareTheRoot ==
  (root # "none" /\ where.dir # "main") =>
    (where.below # "none" \/ where.env # "none" => root = "main")

\* The same for files that look old: one that sets tier1Enabled alone sets tier 0
\* instead.
SettingsAlwaysWin ==
  loaded \notin {NotLoaded, Invalid} =>
    \A e \in inLocal : e \in loaded \/ e.path \in Old \/ e.val \in Lossy
=============================================================================
