------------------------------- MODULE Ingest -------------------------------
(***************************************************************************)
(* ov ingest (commands/ingest.ts, ingest/, tracker/seeds-plan.ts): the     *)
(* groups of a plan file become seeds of the tracker, and a manifest keeps *)
(* which seed belongs to which logical id, so that a later run of the same *)
(* file adopts what exists.                                                *)
(***************************************************************************)
EXTENDS Naturals, Sequences, FiniteSets

CONSTANTS
  Contents,  \* what the plan file may hold: functions from its groups to sets of units
  Order,     \* the order of groups in the file: a sequence of all of them
  Stamps,    \* the hashes a plan file may give for the document it was made from
  MaxRuns    \* bound: runs that apply

VARIABLES
  content,   \* the plan file
  stamp,     \* the contentHash it gives: whoever wrote the file fills it in
  manifest,  \* the entry of the file in ingestion-manifest.json, with the plan it is of
  made,      \* how many seeds the tracker has got for a logical id
  run,       \* the run that applies
  runs, fresh, killed, fell  \* runs so far; one was --new-plan, killed, failed

vars == <<content, stamp, manifest, made, run, runs, fresh, killed, fell>>

Groups == {Order[i] : i \in DOMAIN Order}
Units == UNION UNION {{c[g] : g \in DOMAIN c} : c \in Contents}
NoEntry == [hash |-> "none", partial |-> FALSE, of |-> <<>>, entries |-> <<>>]
NoRun == [at |-> "none"]

\* A standalone group has no units.
IsPlan(c, g) == c[g] # {}

Init ==
  /\ content \in Contents /\ stamp \in Stamps /\ manifest = NoEntry
  /\ made = [x \in Groups \cup Units |-> 0]
  /\ run = NoRun /\ runs = 0 /\ fresh = FALSE /\ killed = FALSE /\ fell = FALSE

\* Another file is written; what it holds and the hash it gives need not go together.
Edit ==
  /\ content' \in Contents /\ stamp' \in Stamps
  /\ UNCHANGED <<manifest, made, run, runs, fresh, killed, fell>>

\* classifySource: the hash decides, not the plan; a partial entry counts as changed.
Classify ==
  CASE manifest.hash = "none" -> "new"
    [] manifest.hash # "none" /\ (manifest.partial \/ manifest.hash # stamp) -> "changed"
    [] OTHER -> "unchanged"

\* The groups come in the order of the file.
Place(g) == CHOOSE i \in DOMAIN Order : Order[i] = g
IsNext(g) == g \in run.left /\ \A h \in run.left : Place(g) <= Place(h)

\* ingestCommand with --apply, up to its first call of sd.  --new-plan forgets
\* what the manifest knows.
Begin(new) ==
  /\ run = NoRun /\ runs < MaxRuns
  /\ new \/ Classify # "unchanged"
  /\ run' = [at |-> "create", left |-> DOMAIN content, of |-> content, hash |-> stamp,
             done |-> <<>>,
             old |-> IF new \/ Classify = "new" THEN <<>> ELSE manifest.entries]
  /\ runs' = runs + 1 /\ fresh' = (fresh \/ new)
  /\ UNCHANGED <<content, stamp, manifest, made, killed, fell>>

Put(f, x, v) == [y \in DOMAIN f \cup {x} |-> IF y = x THEN v ELSE f[y]]

\* What the manifest knows of a group of the same kind (renderGroup).
Known(g) == g \in DOMAIN run.old /\ run.old[g].plan = IsPlan(run.of, g)

\* executeCreate: a known seed is adopted, else sd create makes one.  The group
\* counts as started at once.
Create ==
  /\ run.at = "create"
  /\ \E g \in run.left :
       LET seed == IF Known(g) THEN run.old[g].seed ELSE made[g] + 1
           entry == [seed |-> seed, plan |-> IsPlan(run.of, g), units |-> <<>>, missing |-> {}]
       IN  /\ IsNext(g)
           /\ made' = IF Known(g) THEN made ELSE [made EXCEPT ![g] = @ + 1]
           /\ run' = [run EXCEPT
                !.done = Put(@, g, entry),
                !.at = IF IsPlan(run.of, g) THEN "submit" ELSE "create",
                !.left = IF IsPlan(run.of, g) THEN @ ELSE @ \ {g}]
  /\ UNCHANGED <<content, stamp, manifest, runs, fresh, killed, fell>>

\* buildSteps: the step of a unit names the seed the manifest has for it.
Existing(g) == IF Known(g) THEN run.old[g].units ELSE <<>>

\* executePlanSubmit: sd makes a child for every step that names none.  A unit for
\* which its answer has no child is left out, without a word (ingest.ts:404-409).
Submit ==
  /\ run.at = "submit"
  /\ \E g \in run.left : \E answered \in SUBSET run.of[g] :
       LET new == run.of[g] \ DOMAIN Existing(g)
           seeds == [u \in answered |-> IF u \in new THEN made[u] + 1 ELSE Existing(g)[u]]
       IN  /\ IsNext(g)
           /\ made' = [x \in DOMAIN made |-> IF x \in new THEN made[x] + 1 ELSE made[x]]
           /\ run' = [run EXCEPT
                !.done = Put(@, g,
                           [@[g] EXCEPT !.units = seeds, !.missing = run.of[g] \ answered]),
                !.at = "create", !.left = @ \ {g}]
  /\ UNCHANGED <<content, stamp, manifest, runs, fresh, killed, fell>>

\* Seeded bug for the runs: the entry of a run that failed is not marked.
UpdateManifestUnmarked(partial) ==
  manifest' = [hash |-> run.hash, partial |-> FALSE, of |-> run.of, entries |-> run.done]

\* updateManifest: the entry of the source is replaced, by the groups at hand.
UpdateManifest(partial) ==
  manifest' = [hash |-> run.hash, partial |-> partial, of |-> run.of, entries |-> run.done]

\* A call of sd fails: what was started is written down, as partial; a write that fails
\* too is passed over.
Fail ==
  /\ run.at = "submit" \/ (run.at = "create" /\ \E g \in run.left : IsNext(g) /\ ~Known(g))
  /\ (DOMAIN run.done # {} /\ UpdateManifest(TRUE)) \/ UNCHANGED manifest
  /\ run' = NoRun /\ fell' = TRUE
  /\ UNCHANGED <<content, stamp, made, runs, fresh, killed>>

Finish ==
  /\ run.at = "create" /\ run.left = {}
  /\ UpdateManifest(FALSE) /\ run' = NoRun
  /\ UNCHANGED <<content, stamp, made, runs, fresh, killed, fell>>

\* The process is killed: nothing is written down.
Killed ==
  /\ run # NoRun /\ run' = NoRun /\ killed' = TRUE
  /\ UNCHANGED <<content, stamp, manifest, made, runs, fresh, fell>>

Next == Edit \/ Begin(TRUE) \/ Begin(FALSE) \/ Create \/ Submit \/ Fail \/ Finish \/ Killed

-----------------------------------------------------------------------------
\* When a file counts as ingested and unchanged, so that no later run does anything, the
\* plan that the last run with its hash applied is all there: a seed for each of its
\* groups, and for each of its units for which sd answered one, whatever failed, was
\* killed or was adopted before (manifest.ts:37-41, ingest.ts:422-449).
UnchangedIsIngested ==
  Classify = "unchanged" =>
    \A g \in DOMAIN manifest.of :
      /\ g \in DOMAIN manifest.entries /\ manifest.entries[g].seed \in 1 .. made[g]
      /\ manifest.of[g] \subseteq
           DOMAIN manifest.entries[g].units \cup manifest.entries[g].missing

\* The same of the plan at hand, and of all of its units.  The hash is that of another
\* document, and the file may give one it was not made from; sd may answer too few.
UnchangedIsWhole ==
  Classify = "unchanged" =>
    \A g \in DOMAIN content :
      g \in DOMAIN manifest.entries /\ content[g] \subseteq DOMAIN manifest.entries[g].units

\* While no run is killed or asked for a fresh plan, and no group changes its
\* kind or leaves the file, a run after a failed one makes no second seed for a
\* group (ingest.ts:386-388, 422-425).
RerunAdopts == ~fresh /\ ~killed => \A g \in Groups : made[g] <= 1
=============================================================================
