------------------------------ MODULE Predict ------------------------------
(***************************************************************************)
(* `ov merge --dry-run` beside `ov merge`: the prediction made from        *)
(* merge-tree (merge/predict.ts, merge/git-version.ts), the tiers that     *)
(* take a conflict apart (merge/resolver.ts), and the history of past      *)
(* conflicts in mulch that rules tiers out for both.                       *)
(*                                                                         *)
(* A file is a sequence of lines.  "<", "=" and ">" are git's conflict     *)
(* markers, "old" and "new" lines of the two sides, " " a blank line.      *)
(***************************************************************************)
EXTENDS Naturals, Sequences, FiniteSets, Bags
LOCAL INSTANCE SequencesExt
LOCAL INSTANCE FiniteSetsExt

CONSTANTS
  Paths,       \* files
  Union,       \* those with the attribute merge=union
  Branches,    \* how the files of a branch conflict with the target: see Text
  MaxMerges    \* bound: merges


VARIABLES
  past,    \* bag of the recorded conflicts: tier, success, files
  ways,    \* per file, how it conflicts in the merge at hand
  listed,  \* files of the queue entry
  mergePc, \* "idle", "predict", a tier, or "done"
  guess,   \* the prediction: tier, whether git could write a tree
  left,    \* files still in conflict
  took,    \* the last tier tried, and whether it succeeded
  kept,    \* per file, its lines after a merge that succeeded without a model
  merges

vars == <<past, ways, listed, mergePc, guess, left, took, kept, merges>>

InConflict == {f \in Paths : ways[f].kind # "merged"}

-----------------------------------------------------------------------------
(* Conflict markers *)

\* What git writes to a file of kind "blocks": lines before, then the blocks.  A file
\* that one side changed and the other removed has no markers.
Text(way) ==
  IF way.kind # "blocks" THEN <<"old">>
  ELSE way.before \o FlattenSeq([i \in DOMAIN way.blocks |->
         <<"<">> \o way.blocks[i].ours \o <<"=">> \o way.blocks[i].theirs \o <<">">>])

After(s, i, line) == LET at == {j \in i + 1 .. Len(s) : s[j] = line} IN
  IF at = {} THEN 0 ELSE CHOOSE j \in at : \A k \in at : j <= k
\* The pattern /^<{7} .+\n([\s\S]*?)^={7}\n([\s\S]*?)^>{7} .+\n?/gm: the first separator
\* after the opening line and the first closing line after that.
SepOf(s, i) == IF s[i] = "<" THEN After(s, i, "=") ELSE 0
CloseOf(s, i) == IF SepOf(s, i) = 0 THEN 0 ELSE After(s, SepOf(s, i), ">")
Matches(s) == {i \in DOMAIN s : CloseOf(s, i) # 0 /\
                 \A j \in 1 .. i - 1 : CloseOf(s, j) = 0 \/ CloseOf(s, j) < i}
Canonical(s, i) == SubSeq(s, i + 1, SepOf(s, i) - 1)
Incoming(s, i) == SubSeq(s, SepOf(s, i) + 1, CloseOf(s, i) - 1)

\* content.replace(pattern, keep)
Replaced(s, both) ==
  LET rest[i \in 1 .. Len(s) + 1] ==
        IF i > Len(s) THEN <<>>
        ELSE IF CloseOf(s, i) # 0
             THEN (IF both THEN Canonical(s, i) ELSE <<>>) \o Incoming(s, i) \o rest[CloseOf(s, i) + 1]
             ELSE <<s[i]>> \o rest[i + 1]
  IN rest[1]
ResolveConflictsUnion(s) == Replaced(s, TRUE)
ResolveConflictsKeepIncoming(s) == Replaced(s, FALSE)

\* Seeded bug for the runs: only the first block of a file is looked at.
HasContentfulFirst(s) ==
  \E i \in Matches(s) : (\A j \in Matches(s) : i <= j) /\ \E l \in Range(Canonical(s, i)) : l # " "

HasContentfulCanonical(s) == \E i \in Matches(s) : \E l \in Range(Canonical(s, i)) : l # " "

\* tryAutoResolve, for one file: its lines, or <<>> for a file left in conflict.
AutoResolves(f) ==
  LET s == Text(ways[f]) IN
  Matches(s) # {} /\ (f \in Union \/ ~HasContentfulCanonical(s))
AutoResolved(f) ==
  IF f \in Union THEN ResolveConflictsUnion(Text(ways[f])) ELSE ResolveConflictsKeepIncoming(Text(ways[f]))

-----------------------------------------------------------------------------
(* The conflict history *)

\* buildConflictHistory: a tier that failed twice and never succeeded on a conflict
\* that shares a file.
Times(tier, ok, files) ==
  MapThenSumSet(LAMBDA r : past[r],
    {r \in DOMAIN past : r.tier = tier /\ r.ok = ok /\ r.files \cap files # {}})
SkipTiers(files) ==
  {tier \in {"auto", "ai", "reimagine"} : Times(tier, FALSE, files) >= 2 /\ Times(tier, TRUE, files) = 0}

\* recordConflictPattern is not waited for and may be lost.
Record(tier, ok, files) ==
  \/ past' = past (+) SetToBag({[tier |-> tier, ok |-> ok, files |-> files]})
  \/ past' = past

-----------------------------------------------------------------------------
(* The prediction *)

\* The output of the three-argument merge-tree: a section per file that both changed,
\* with the diff of the merged file; a blank line of context is a line with a space.
LegacySection(f) ==
  IF ways[f].kind = "removed" THEN <<<<"removed in remote", f>>, <<"their", f>>>>
  ELSE <<<<"changed in both", f>>, <<"our", f>>>> \o
       [i \in DOMAIN Text(ways[f]) |->
          CASE Text(ways[f])[i] \in {"<", ">"} -> <<"marker", f>>
            [] Text(ways[f])[i] = " " -> <<"blank", f>>
            [] OTHER -> <<"line", f>>]
LegacyOutput == FlattenSeq([i \in 1 .. Cardinality(InConflict) |->
                              LegacySection(SetToSeq(InConflict)[i])])

\* parseLegacyMergeTreeOutput: a section ends at the next header or at a blank line
\* once its path is known.
NoSection == [inside |-> FALSE, path |-> {}, marks |-> FALSE, found |-> {}]
Flushed(s) == IF s.inside /\ s.marks THEN s.found \cup s.path ELSE s.found
ParseLine(s, line) ==
  CASE line[1] = "changed in both" -> [NoSection EXCEPT !.inside = TRUE, !.found = Flushed(s)]
    [] line[1] = "blank" /\ s.inside /\ s.path # {} -> [NoSection EXCEPT !.found = Flushed(s)]
    [] line[1] \in {"our", "their"} /\ s.inside /\ s.path = {} -> [s EXCEPT !.path = {line[2]}]
    [] line[1] = "marker" /\ s.inside -> [s EXCEPT !.marks = TRUE]
    [] OTHER -> s
ParseLegacy(output) == Flushed(FoldLeft(ParseLine, NoSection, output))

\* predictConflictsImpl.  Git is one that writes a tree, an older one, or one whose
\* merge-tree fails.
Blocking(git) ==
  IF git = "old" THEN ParseLegacy(LegacyOutput) \ Union
  ELSE {f \in InConflict \ Union : ways[f].kind = "blocks" /\ HasContentfulCanonical(Text(ways[f]))}
Seen(git) == IF git = "old" THEN ParseLegacy(LegacyOutput) ELSE InConflict
Prediction(git) ==
  IF git = "broken" THEN "ai"
  ELSE IF Seen(git) = {} THEN "clean"
  ELSE IF Blocking(git) = {} THEN "auto"
  ELSE IF "ai" \in SkipTiers(Seen(git)) THEN "reimagine"
  ELSE "ai"

-----------------------------------------------------------------------------
Merged == [kind |-> "merged"]

Init ==
  /\ past = EmptyBag /\ ways = [f \in Paths |-> Merged] /\ listed = {}
  /\ mergePc = "idle" /\ guess = [tier |-> "clean", git |-> "new"]
  /\ left = {} /\ took = [tier |-> "clean", ok |-> TRUE] /\ kept = [f \in Paths |-> <<>>]
  /\ merges = 0

\* A branch comes up for its merge.  The files of its row are those it had changed when
\* it was queued.
NextBranch ==
  /\ mergePc = "idle" /\ merges < MaxMerges /\ merges' = merges + 1
  /\ ways' \in Branches
  /\ listed' \in SUBSET Paths
  /\ mergePc' = "predict"
  /\ left' = {} /\ took' = [tier |-> "clean", ok |-> FALSE] /\ kept' = [f \in Paths |-> <<>>]
  /\ UNCHANGED <<past, guess>>

Predict ==
  /\ mergePc = "predict" /\ mergePc' = "clean"
  /\ \E git \in {"new", "old", "broken"} : guess' = [tier |-> Prediction(git), git |-> git]
  /\ UNCHANGED <<past, ways, listed, left, took, kept, merges>>

Succeeds(tier) == mergePc' = "done" /\ took' = [tier |-> tier, ok |-> TRUE]
Fails(tier, to) == mergePc' = to /\ took' = [tier |-> tier, ok |-> FALSE]
Skips(to) == mergePc' = to /\ UNCHANGED took
still == UNCHANGED <<ways, listed, guess, merges>>

\* Tier 1: git merge.
TryCleanMerge ==
  /\ mergePc = "clean" /\ left' = InConflict
  /\ IF InConflict = {} THEN Succeeds("clean") ELSE Fails("clean", "auto")
  /\ UNCHANGED <<past, kept>> /\ still

\* Tier 2.  A commit needs every file resolved.
TryAutoResolve ==
  /\ mergePc = "auto"
  /\ IF "auto" \in SkipTiers(listed) THEN Skips("ai") /\ UNCHANGED <<past, left, kept>>
     ELSE IF \A f \in left : AutoResolves(f)
     THEN /\ Succeeds("auto") /\ Record("auto", TRUE, left) /\ left' = {}
          /\ kept' = [f \in Paths |-> IF f \in left THEN AutoResolved(f) ELSE <<>>]
     ELSE Fails("auto", "ai") /\ left' = {f \in left : ~AutoResolves(f)} /\ UNCHANGED <<past, kept>>
  /\ still

\* Tier 3: a model resolves each of them or answers in prose.
TryAiResolve ==
  /\ mergePc = "ai" /\ UNCHANGED kept
  /\ IF "ai" \in SkipTiers(listed) THEN Skips("reimagine") /\ UNCHANGED <<past, left>>
     ELSE \E prose \in SUBSET left :
            IF prose = {} THEN Succeeds("ai") /\ Record("ai", TRUE, left) /\ left' = {}
            ELSE Fails("ai", "reimagine") /\ left' = prose /\ UNCHANGED past
  /\ still

\* Tier 4, when it is enabled.
TryReimagine ==
  /\ mergePc = "reimagine" /\ UNCHANGED <<left, kept>>
  /\ \/ Skips("fail") /\ UNCHANGED past
     \/ /\ "reimagine" \notin SkipTiers(listed)
        /\ \/ Succeeds("reimagine") /\ Record("reimagine", TRUE, left)
           \/ Fails("reimagine", "fail") /\ UNCHANGED past
  /\ still

\* The merge is given up, and the last tier that was tried is recorded.
Abort ==
  /\ mergePc = "fail" /\ mergePc' = "done"
  /\ Record(took.tier, FALSE, left)
  /\ UNCHANGED <<left, took, kept>> /\ still

Done ==
  /\ mergePc = "done" /\ mergePc' = "idle"
  /\ ways' = [f \in Paths |-> Merged] /\ listed' = {} /\ left' = {}
  /\ kept' = [f \in Paths |-> <<>>]
  /\ took' = [tier |-> "clean", ok |-> TRUE] /\ guess' = [tier |-> "clean", git |-> "new"]
  /\ UNCHANGED <<past, merges>>

Next ==
  \/ NextBranch \/ Predict \/ TryCleanMerge \/ TryAutoResolve \/ TryAiResolve \/ TryReimagine
  \/ Abort \/ Done

-----------------------------------------------------------------------------
\* With a git that writes a tree, and when every conflict is one of text, the merge does
\* what was predicted: it needs a model when that was said and does without when it
\* was not, unless auto-resolve has failed on these files before (merge/predict.ts:10-15,
\* 280-385; merge/resolver.ts:790-900).
PredictionHolds ==
  mergePc = "done" /\ guess.git = "new" /\ (\A f \in InConflict : ways[f].kind = "blocks")
    /\ "auto" \notin SkipTiers(listed) =>
      IF guess.tier \in {"clean", "auto"} THEN took = [tier |-> guess.tier, ok |-> TRUE]
      ELSE took.tier \in {"ai", "reimagine", "auto"} /\ (took.tier = "auto" => ~took.ok)

\* A merge that no model was asked about keeps every line that the target had in the
\* conflict, and in a union file those of both sides, with no marker left
\* (merge/resolver.ts:159-221, 277-329).
CanonicalStays ==
  \A f \in Paths : kept[f] # <<>> /\ ways[f].kind = "blocks" =>
    LET count(s, l) == Cardinality({i \in DOMAIN s : s[i] = l}) IN
    /\ count(kept[f], "old") = count(Text(ways[f]), "old")
    /\ count(kept[f], "new") = count(Text(ways[f]), "new")
    /\ {"<", ">"} \cap Range(kept[f]) = {}

\* An older git is predicted for on the safe side: a conflict is never called a clean
\* merge.  The parser ends a section at its first blank line of context, and the
\* markers after it are not seen.
LegacyIsSafe == mergePc = "clean" /\ InConflict # {} => guess.tier # "clean"
=============================================================================
