------------------------------ MODULE Migrate ------------------------------
(***************************************************************************)
(* Opening a store upgrades its database: the session store and its JSON   *)
(* ancestor (sessions/store.ts, sessions/compat.ts), mail.db               *)
(* (mail/store.ts), metrics.db (metrics/store.ts) and the merge queue      *)
(* (merge/queue.ts).  Every command opens the stores it uses, several at a *)
(* time.  Each upgrade looks at the table and then, apart from that look,  *)
(* changes it; a change is a transaction.                                  *)
(***************************************************************************)
EXTENDS Naturals, Sequences, FiniteSets

CONSTANTS
  Openers,   \* processes that open the store, once each at a time
  Rows,      \* rows
  MaxOpens,  \* bound: opens in all
  MaxDeaths  \* bound: processes that die while they open it

VARIABLES
  store,     \* which store
  cols,      \* columns of the table besides the oldest; {} and ~exists: none
  exists,    \* the table exists
  strict,    \* it has its old constraint or key
  cells,     \* per row in the table, the columns that hold its data
  json,      \* rows of sessions.json
  wrote,     \* ghost: per row, the data of columns it was given
  at,        \* per opener: its step, 0 outside; Len + 1 with the store open
  born,      \* there was no database file when it began
  looked,    \* what it saw in the look of its step
  alone,     \* ghost: nobody else was opening the store meanwhile
  fails,     \* ghost: a lone open failed
  sound,     \* ghost: the last open to end had run alone and succeeded
  opens, deaths

vars == <<store, cols, exists, strict, cells, json, wrote, at, born, looked, alone, fails, sound,
          opens, deaths>>

\* The steps of an open.  A column that was renamed is "bead", then "task".
Steps == [
  sessions |-> <<"create", "rebuild", "rename", "c1", "c2", "import">>,
  mail     |-> <<"rebuild", "create">>,
  metrics  |-> <<"create", "rename", "c1", "c2", "rebuild">>,
  queue    |-> <<"create", "rename">>]
Added == [sessions |-> {"c1", "c2"}, mail |-> {"c1"}, metrics |-> {"c1", "c2"}, queue |-> {}]
Full == {"task"} \cup Added[store]
NoLook == [cols |-> {}, strict |-> FALSE, there |-> FALSE, did |-> FALSE, rows |-> {}]

Init ==
  /\ store \in DOMAIN Steps
  /\ exists \in BOOLEAN /\ strict \in BOOLEAN
  /\ \E old \in {"bead", "task"} : \E more \in SUBSET Added[store] :
       /\ cols = IF exists THEN {old} \cup more ELSE {}
       /\ store = "mail" => old = "task"
       /\ store = "queue" \/ ~exists => ~strict
       /\ strict \/ old = "bead" => more \in {{}, {"c1"}}
  /\ \E have \in SUBSET Rows :
       /\ cells = [r \in have |-> cols] /\ (~exists => have = {})
  /\ json \in SUBSET Rows /\ (store # "sessions" => json = {})
  /\ wrote = cells
  /\ at = [p \in Openers |-> 0] /\ looked = [p \in Openers |-> NoLook]
  /\ born = [p \in Openers |-> FALSE]
  /\ alone = [p \in Openers |-> TRUE] /\ fails = FALSE /\ sound = FALSE
  /\ opens = 0 /\ deaths = 0

Program == Steps[store]
Step(p) == Program[at[p]]
Opening == {p \in Openers : at[p] \in DOMAIN Program}
Ready(p) == at[p] = Len(Program) + 1
table == <<cols, exists, strict, cells>>
ghosts == <<wrote, alone, fails, sound>>

-----------------------------------------------------------------------------
Open(p) ==
  /\ at[p] = 0 /\ opens < MaxOpens /\ opens' = opens + 1
  /\ at' = [at EXCEPT ![p] = 1]
  /\ born' = [born EXCEPT ![p] = ~exists]
  /\ alone' = [q \in Openers |-> IF q = p THEN Opening = {} ELSE alone[q] /\ q \notin Opening]
  /\ UNCHANGED <<store, table, json, wrote, looked, fails, sound, deaths>>

\* The look of an upgrade: PRAGMA table_info, the recorded DDL, or the row count.
Look(p) ==
  /\ p \in Opening /\ ~looked[p].did
  /\ looked' = [looked EXCEPT ![p] =
       [cols |-> cols, strict |-> strict, there |-> exists, did |-> TRUE,
        rows |-> IF born[p] \/ cells = <<>> THEN json ELSE {}]]
  /\ UNCHANGED <<store, table, json, ghosts, at, born, opens, deaths>>

Pass(p) ==
  /\ at' = [at EXCEPT ![p] = @ + 1] /\ looked' = [looked EXCEPT ![p] = NoLook]
  /\ sound' = IF at[p] = Len(Program) THEN alone[p] ELSE sound
  /\ UNCHANGED fails
\* An upgrade that throws ends the open.
Throw(p) ==
  /\ at' = [at EXCEPT ![p] = 0] /\ looked' = [looked EXCEPT ![p] = NoLook]
  /\ fails' = (fails \/ alone[p]) /\ sound' = FALSE /\ UNCHANGED table
Rest == UNCHANGED <<store, json, wrote, alone, born, opens, deaths>>

\* CREATE TABLE IF NOT EXISTS with the present schema.
Create(p) ==
  /\ p \in Opening /\ Step(p) = "create" /\ looked[p].did
  /\ exists' = TRUE /\ cols' = IF exists THEN cols ELSE Full
  /\ Pass(p) /\ UNCHANGED <<strict, cells>> /\ Rest

\* ALTER TABLE ... RENAME COLUMN bead_id TO task_id.
Renamed(set) == {IF c = "bead" THEN "task" ELSE c : c \in set}
Rename(p) ==
  /\ p \in Opening /\ Step(p) = "rename" /\ looked[p].did
  /\ IF "bead" \notin looked[p].cols THEN Pass(p) /\ UNCHANGED table
     ELSE IF "bead" \notin cols THEN Throw(p)
     ELSE /\ cols' = Renamed(cols) /\ cells' = [r \in DOMAIN cells |-> Renamed(cells[r])]
          /\ Pass(p) /\ UNCHANGED <<exists, strict>>
  /\ Rest

\* ALTER TABLE ... ADD COLUMN throws when the column is there by now.
AddColumn(p) ==
  /\ p \in Opening /\ Step(p) \in {"c1", "c2"} /\ looked[p].did
  /\ IF Step(p) \in looked[p].cols THEN Pass(p) /\ UNCHANGED table
     ELSE IF Step(p) \in cols THEN Throw(p)
     ELSE cols' = cols \cup {Step(p)} /\ Pass(p) /\ UNCHANGED <<exists, strict, cells>>
  /\ Rest

\* What a rebuild is for.
MustRebuild(p) == looked[p].there /\ looked[p].strict
\* Seeded bug for the runs: the columns of the present schema are copied, seen or not.
CopiedFull(p) == IF store = "mail" THEN looked[p].cols ELSE Full
\* The columns a rebuild copies: sessions.db those it saw, mail.db the payload if it saw
\* it, metrics.db all there are today.
Copied(p) == IF store = "metrics" THEN Full ELSE looked[p].cols
Rebuilt(p) == IF store = "sessions" THEN looked[p].cols ELSE Full

\* migrateRelaxStateCheck, migrateSchema, migrateCompositeKeyWithRunId: a new table,
\* the rows copied, the old one dropped, in a transaction that the look is not part of.
Rebuild(p) ==
  /\ p \in Opening /\ Step(p) = "rebuild" /\ looked[p].did
  /\ IF MustRebuild(p) THEN
       IF ~(Copied(p) \subseteq cols) THEN Throw(p)
       ELSE /\ cells' = [r \in DOMAIN cells |-> cells[r] \cap Copied(p)]
            /\ cols' = Rebuilt(p) /\ strict' = FALSE /\ Pass(p) /\ UNCHANGED exists
     ELSE IF store = "mail" /\ looked[p].there /\ "c1" \notin looked[p].cols THEN
       IF "c1" \in cols THEN Throw(p)
       ELSE cols' = cols \cup {"c1"} /\ Pass(p) /\ UNCHANGED <<exists, strict, cells>>
     ELSE Pass(p) /\ UNCHANGED table
  /\ Rest

\* openSessionStore: when the table was empty the rows of sessions.json are upserted,
\* one after the other.
Import(p) ==
  /\ p \in Opening /\ Step(p) = "import" /\ looked[p].did
  /\ IF looked[p].rows = {} THEN Pass(p) /\ UNCHANGED cells
     ELSE /\ \E r \in looked[p].rows :
               /\ looked' = [looked EXCEPT ![p].rows = @ \ {r}]
               /\ cells' = [q \in DOMAIN cells \cup {r} |-> IF q = r THEN {"task"} ELSE cells[q]]
          /\ UNCHANGED <<at, fails, sound>>
  /\ UNCHANGED <<cols, exists, strict>> /\ Rest

\* The process writes a row with all its columns, or fails when one is missing.
Write(p, r) ==
  /\ Ready(p) /\ Full \subseteq cols
  /\ cells' = [q \in DOMAIN cells \cup {r} |-> IF q = r THEN Full ELSE cells[q]]
  /\ wrote' = [q \in DOMAIN wrote \cup {r} |-> IF q = r THEN Full ELSE wrote[q]]
  /\ UNCHANGED <<store, cols, exists, strict, json, at, born, looked, alone, fails, sound, opens, deaths>>

Close(p) ==
  /\ Ready(p) /\ at' = [at EXCEPT ![p] = 0]
  /\ UNCHANGED <<store, table, json, ghosts, born, looked, opens, deaths>>

Die(p) ==
  /\ p \in Opening /\ deaths < MaxDeaths /\ deaths' = deaths + 1
  /\ at' = [at EXCEPT ![p] = 0] /\ looked' = [looked EXCEPT ![p] = NoLook] /\ sound' = FALSE
  /\ UNCHANGED <<store, table, json, wrote, alone, born, fails, opens>>

Next ==
  \E p \in Openers :
    \/ Open(p) \/ Look(p) \/ Create(p) \/ Rename(p) \/ AddColumn(p) \/ Rebuild(p) \/ Import(p)
    \/ Close(p) \/ Die(p) \/ \E r \in Rows : Write(p, r)

-----------------------------------------------------------------------------
\* Whatever opens overlap or die, no row is lost, and none loses the data it had in
\* the columns every version has; an open that nothing disturbs does not fail; and
\* it leaves the present schema, whatever state opens before it died or threw in
\* (sessions/store.ts:230-392; mail/store.ts:112-189; metrics/store.ts:118-255;
\* merge/queue.ts:86-96).
UpgradesAreSafe ==
  /\ \A r \in DOMAIN wrote :
       /\ r \in DOMAIN cells
       /\ wrote[r] \cap {"bead", "task"} # {} => cells[r] \cap {"bead", "task"} # {}
  /\ ~fails
  /\ sound /\ Opening = {} => exists /\ Full \subseteq cols /\ ~strict

\* What a process wrote stays.  The rebuild of one that looked before another had
\* upgraded the table drops what was written to the newer columns since.
WrittenStays == \A r \in DOMAIN wrote : Renamed(wrote[r]) \subseteq Renamed(cells[r])

\* Every row of sessions.json is imported; after a death in the middle the table is
\* no longer empty, and the rest never is.
ImportedWhole ==
  store = "sessions" /\ sound /\ Opening = {} /\ json # {} =>
    json \subseteq DOMAIN cells \/ DOMAIN wrote # {}
=============================================================================
