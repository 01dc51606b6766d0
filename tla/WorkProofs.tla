------------------------------ MODULE WorkProofs -----------------------------
(***************************************************************************)
(* What the modules side by side in MCWork promise, for every value of the *)
(* constants.  MergeRun first: what the queue calls merged is on the       *)
(* target, a merge that failed leaves no trace, a branch has one row, and  *)
(* no step of a command loses a change of the user's.  Then CloseGate,     *)
(* Groups, Config's root, Roster, Clean, Ingest, Migrate and Doctor, each  *)
(* with its inductive invariant; the theorems at the end put them side by  *)
(* side.                                                                   *)
(***************************************************************************)
EXTENDS MCWork, SequenceTheorems, NaturalsInduction, WellFoundedInduction, TLAPS

-----------------------------------------------------------------------------
(* The command: its inductive invariant *)

\* The shapes of a row, of what happened to a file and of an entry of the stash.
Rows == [branch : Branches, files : SUBSET Files,
         status : {"pending", "merged", "conflict"}, landed : Commits \cup {None}]
Changes == {Clean} \cup [by : Who, stage : {"unstaged", "staged", "unmerged"}]
Entries == [edits : [Files -> Who \cup {None}], base : [Files -> SUBSET Who]]

RunTyped ==
  /\ reimagineEnabled \in BOOLEAN
  /\ tip \in [Branches -> Versions]
  /\ queue \in Seq(Rows)
  /\ tree \in [Files -> SUBSET Who]
  /\ ancestors \subseteq Commits
  /\ work \in [Files -> Changes]
  /\ mergeHead \in Commits \cup {None}
  /\ stash \in Seq(Entries)
  /\ untracked \subseteq Files
  /\ pc \in Steps
  /\ todo \subseteq DOMAIN queue
  /\ pc # "idle" => source \in Commits
  /\ pc \notin {"idle", "enlist"} => todo # {}
  /\ conflicts \subseteq Files
  /\ didStash \in BOOLEAN /\ ok \in BOOLEAN
  /\ crashes \in Nat

\* The steps between the stash and its return, and those of them after the first tier.
Middle == {"untracked", "merge", "auto", "ai", "reimagine", "abort"}
Tiers == {"auto", "ai", "reimagine", "abort"}

\* What a command knows of itself: a success and a stash are of this merge, and the
\* user's changes are out of its way.
OfThisMerge ==
  /\ ok => pc \in {"pop", "record"}
  /\ didStash => pc \in Middle \cup {"pop", "record"} /\ stash # <<>>
  /\ pc \in Middle => \A f \in Files : work[f].by # User

\* A merge in progress, perhaps of a command that was killed, has every file of its commit
\* staged or in conflict; git is done with it before the stash comes back.
AllClean == \A f \in Files : work[f] = Clean
HeadIsStaged ==
  /\ mergeHead # None =>
       /\ Changed[mergeHead] # {}
       /\ \A f \in Changed[mergeHead] :
            work[f].by = mergeHead /\ work[f].stage \in {"staged", "unmerged"}
  /\ pc \in {"untracked", "merge"} => AllClean
  /\ pc \in {"untracked", "merge", "pop", "record"} => mergeHead = None

\* A tier finds the merge of its commit, in conflict in just the files it believes, or
\* none at all.
InConflict ==
  /\ mergeHead = source /\ conflicts # {} /\ conflicts \subseteq Changed[source]
  /\ \A f \in Files : f \in conflicts <=> work[f].stage = "unmerged"
  /\ \A f \in Files \ Changed[source] : work[f] = Clean
NothingBegun == mergeHead = None /\ conflicts = {} /\ AllClean
TierFindsMerge ==
  /\ pc \in {"auto", "ai", "reimagine"} => InConflict \/ NothingBegun
  /\ pc = "abort" /\ ~reimagineEnabled => InConflict \/ NothingBegun

\* The target has what git knows to be merged, and what the rows say.
AncestorsHeld == \A c \in ancestors : \A f \in Changed[c] : Holds(f, c)
RowsAreTrue ==
  ~reimagineEnabled =>
    /\ ok => UpToDate
    /\ \A i \in DOMAIN queue : queue[i].status = "merged" =>
         /\ queue[i].landed \in Commits
         /\ \A f \in Changed[queue[i].landed] : Holds(f, queue[i].landed)

\* Without kills and reimagines no content of a branch stays about but by a merge.
NoTrace ==
  crashes = 0 /\ ~reimagineEnabled =>
    /\ pc \notin Tiers => mergeHead = None /\ \A f \in Files : work[f].by \notin Commits
    /\ \A i \in DOMAIN stash : \A f \in Files : stash[i].edits[f] \notin Commits
    /\ \A f \in Files : tree[f] \cap Commits \subseteq ancestors

\* Until a merge succeeds, the stash fits the target, and after a failed one the checkout
\* is free for it.
StashFits ==
  ~reimagineEnabled =>
    /\ didStash /\ (pc \in Middle \/ (pc = "pop" /\ ~ok)) => stash[1].base = tree
    /\ pc = "pop" /\ ~ok => AllClean
    /\ pc = "record" /\ ~ok => ~didStash

\* The inductive invariant of ov merge.
RunInv ==
  /\ RunTyped /\ OfThisMerge /\ HeadIsStaged /\ TierFindsMerge /\ AncestorsHeld
  /\ RowsAreTrue /\ NoTrace /\ StashFits

-----------------------------------------------------------------------------
(* Facts about commits and rows *)

LEMMA CommitFacts ==
  /\ None \notin Who /\ None \notin Commits
  /\ User \in Who /\ Tool \in Who /\ Commits \subseteq Who
  /\ User \notin Commits /\ Tool \notin Commits /\ User # Tool
  /\ \A c \in Commits : c[1] \in Branches /\ c[2] \in Nat /\ Changed[c] \subseteq Files
  /\ \A b \in Branches, v \in Versions : <<b, v>> \in Commits
  /\ \A c, d \in Commits : c[1] = d[1] /\ c[2] >= d[2] => Changed[d] \subseteq Changed[c]
<1>1. \A c \in Commits : c = <<c[1], c[2]>> /\ c[1] \in Branches /\ c[2] \in {1, 2}
  BY DEF Commits, Versions
<1>2. \A c, d \in Commits : c[1] = d[1] /\ c[2] >= d[2] => Changed[d] \subseteq Changed[c]
  <2> SUFFICES ASSUME NEW c \in Commits, NEW d \in Commits, c[1] = d[1], c[2] >= d[2]
               PROVE  Changed[d] \subseteq Changed[c]
    OBVIOUS
  <2>1. CASE c[2] = d[2]
    BY <1>1, <2>1
  <2>2. CASE c[2] = 2 /\ d[2] = 1
    BY <1>1, <2>2, MergeConstants
  <2> QED
    BY <1>1, <2>1, <2>2
<1> QED
  BY <1>1, <1>2, MergeConstants DEF None, User, Tool, Who, Commits, Versions

\* A set of row numbers has a least one.
LEMMA LeastFact ==
  ASSUME NEW rows \in SUBSET Nat, rows # {}
  PROVE  Least(rows) \in rows
<1>1. \E i \in rows : \A j \in rows : i <= j
  <2>1. IsWellFoundedOn(OpToRel(<, Nat), Nat)
    BY NatLessThanWellFounded
  <2>2. PICK i \in rows : \A j \in rows : ~ (<<j, i>> \in OpToRel(<, Nat))
    BY <2>1, WFMin
  <2>3. ASSUME NEW j \in rows
        PROVE  i <= j
    <3>1. <<j, i>> \in Nat \X Nat /\ <<j, i>>[1] = j /\ <<j, i>>[2] = i
      OBVIOUS
    <3>2. ~ (j < i)
      BY <2>2, <3>1 DEF OpToRel
    <3> QED
      BY <3>2
  <2> QED
    BY <2>3
<1> QED
  BY <1>1 DEF Least

\* The row of a branch, if it has one.
LEMMA IndexFact ==
  ASSUME RunTyped, NEW b \in Branches
  PROVE  /\ IndexOf(b) = 0 => \A i \in DOMAIN queue : queue[i].branch # b
         /\ IndexOf(b) # 0 => IndexOf(b) \in DOMAIN queue /\ queue[IndexOf(b)].branch = b
<1> DEFINE rows == {i \in DOMAIN queue : queue[i].branch = b}
<1>1. DOMAIN queue = 1..Len(queue) /\ Len(queue) \in Nat
  BY LenProperties DEF RunTyped
<1>2. rows \in SUBSET Nat /\ 0 \notin rows
  BY <1>1
<1>3. IndexOf(b) = IF rows = {} THEN 0 ELSE Least(rows)
  BY DEF IndexOf
<1>4. rows # {} => Least(rows) \in rows
  BY <1>2, LeastFact
<1> QED
  BY <1>2, <1>3, <1>4

\* A step that keeps what the target has loses nothing of what was merged.
LEMMA HoldsOn ==
  ASSUME NEW f \in Files, NEW c, Holds(f, c), tree[f] \subseteq tree'[f]
  PROVE  Holds(f, c)'
  BY DEF Holds

-----------------------------------------------------------------------------
(* Init *)

LEMMA RunInit == Init => RunInv
<1> SUFFICES ASSUME Init PROVE RunInv
  OBVIOUS
<1> USE DEF Init
<1>1. RunTyped
  <2>1. queue \in Seq(Rows) /\ stash \in Seq(Entries) /\ DOMAIN queue = {}
    BY EmptySeq
  <2>2. tip \in [Branches -> Versions] /\ tree \in [Files -> SUBSET Who]
        /\ work \in [Files -> Changes]
    BY DEF Versions, Changes
  <2> QED
    BY <2>1, <2>2 DEF RunTyped, Steps
<1>2. OfThisMerge /\ HeadIsStaged /\ TierFindsMerge
  BY CommitFacts DEF OfThisMerge, HeadIsStaged, TierFindsMerge, Middle
<1>3. AncestorsHeld /\ RowsAreTrue /\ StashFits
  BY DEF AncestorsHeld, RowsAreTrue, StashFits, Middle
<1>4. NoTrace
  BY CommitFacts DEF NoTrace, Clean
<1> QED
  BY <1>1, <1>2, <1>3, <1>4 DEF RunInv

-----------------------------------------------------------------------------
(* Others, between two commands *)

\* At most one file that was clean is changed, by somebody who is no branch.
OthersEffect ==
  /\ pc = "idle"
  /\ UNCHANGED <<reimagineEnabled, queue, tree, ancestors, mergeHead, stash, untracked, pc,
                 run_vars, crashes>>
  /\ tip' \in [Branches -> Versions]
  /\ work' \in [Files -> Changes]
  /\ \A f \in Files :
       \/ work'[f] = work[f]
       \/ work[f] = Clean /\ work'[f].by \notin Commits

LEMMA OthersSteps ==
  ASSUME RunInv,
         \/ \E f \in Files : ToolWrites(f) \/ \E s \in {"unstaged", "staged"} : UserEdits(f, s)
         \/ \E b \in Branches : AgentCommits(b)
         \/ UserSwitches
  PROVE  OthersEffect
<1> USE DEF Others, OthersEffect
<1>0. tip \in [Branches -> Versions] /\ work \in [Files -> Changes]
  BY DEF RunInv, RunTyped
<1>1. ASSUME NEW f \in Files, NEW e \in Changes, e.by \in {User, Tool},
             work[f].stage = "clean", work' = [work EXCEPT ![f] = e]
      PROVE  /\ work' \in [Files -> Changes]
             /\ \A g \in Files : work'[g] = work[g] \/ (work[g] = Clean /\ work'[g].by \notin Commits)
  <2>1. work[f] = Clean
    BY <1>0, <1>1 DEF Changes, Clean
  <2> QED
    BY <1>0, <1>1, <2>1, CommitFacts
<1>2. \A w \in Who, s \in {"unstaged", "staged"} : Edit(w, s) \in Changes /\ Edit(w, s).by = w
  BY DEF Edit, Changes
<1>3. CASE \E f \in Files : ToolWrites(f)
  BY <1>0, <1>1, <1>2, <1>3, CommitFacts DEF ToolWrites
<1>4. CASE \E f \in Files, s \in {"unstaged", "staged"} : UserEdits(f, s)
  <2> PICK f \in Files, s \in {"unstaged", "staged"} : UserEdits(f, s)
    BY <1>4
  <2> DEFINE e == Edit(User, s)
  <2>1. e \in Changes /\ e.by \in {User, Tool}
    BY <1>2, CommitFacts
  <2>2. work[f].stage = "clean" /\ work' = [work EXCEPT ![f] = e]
    BY DEF UserEdits
  <2> HIDE DEF e
  <2> QED
    BY <1>0, <1>1, <2>1, <2>2 DEF UserEdits
<1>5. CASE \E b \in Branches : AgentCommits(b)
  BY <1>0, <1>5 DEF AgentCommits, Versions
<1>6. CASE UserSwitches
  BY <1>0, <1>6 DEF UserSwitches
<1> QED
  BY <1>3, <1>4, <1>5, <1>6

LEMMA OthersKeep ==
  ASSUME RunInv, OthersEffect
  PROVE  RunInv'
<1> USE DEF RunInv, OthersEffect, run_vars
<1>1. RunTyped'
  BY DEF RunTyped
<1>2. OfThisMerge'
  BY DEF OfThisMerge, Middle
<1>3. HeadIsStaged'
  <2>1. mergeHead # None => \A f \in Changed[mergeHead] : f \in Files
    BY CommitFacts DEF RunTyped
  <2>2. \A f \in Files : work[f].stage \in {"staged", "unmerged"} => work'[f] = work[f]
    BY DEF Clean
  <2> QED
    BY <2>1, <2>2 DEF HeadIsStaged
<1>4. TierFindsMerge' /\ StashFits'
  BY DEF TierFindsMerge, StashFits, Middle
<1>5. AncestorsHeld' /\ RowsAreTrue'
  BY DEF AncestorsHeld, RowsAreTrue, Holds, UpToDate
<1>6. NoTrace'
  BY DEF NoTrace, Tiers
<1> QED
  BY <1>1, <1>2, <1>3, <1>4, <1>5, <1>6

-----------------------------------------------------------------------------
(* Starting and ending a command *)

\* Nothing of the checkout changes; what is wanted of the rows is wanted of old and new
\* rows alike.
CheckoutStays ==
  UNCHANGED <<reimagineEnabled, tip, tree, ancestors, work, mergeHead, stash, untracked>>

\* A row is added.
LEMMA EnqueueEffect ==
  ASSUME RunTyped, NEW commit \in Commits, Enqueue(commit)
  PROVE  /\ queue' \in Seq(Rows) /\ DOMAIN queue \subseteq DOMAIN queue'
         /\ DOMAIN queue' = DOMAIN queue \cup {Len(queue) + 1} /\ Len(queue) + 1 \notin DOMAIN queue
         /\ \A i \in DOMAIN queue : queue'[i] = queue[i]
         /\ queue'[Len(queue) + 1] = Row(commit[1], Changed[commit])
         /\ \A i \in DOMAIN queue' :
              \/ i \in DOMAIN queue /\ queue'[i] = queue[i]
              \/ queue'[i].status = "pending"
<1> DEFINE new == Row(commit[1], Changed[commit])
<1>1. new \in Rows /\ new.status = "pending"
  BY CommitFacts DEF Row, Rows
<1>2. queue \in Seq(Rows) /\ DOMAIN queue = 1..Len(queue) /\ Len(queue) \in Nat
  BY LenProperties DEF RunTyped
<1>3. queue' = Append(queue, new)
  BY DEF Enqueue
<1> HIDE DEF new
<1>4. /\ queue' \in Seq(Rows) /\ Len(queue') = Len(queue) + 1
      /\ \A i \in 1..Len(queue) : queue'[i] = queue[i]
      /\ queue'[Len(queue) + 1] = new
  BY <1>1, <1>2, <1>3, AppendProperties
<1>5. DOMAIN queue' = 1..(Len(queue) + 1)
  BY <1>2, <1>4, LenProperties
<1>6. DOMAIN queue' = DOMAIN queue \cup {Len(queue) + 1} /\ Len(queue) + 1 \notin DOMAIN queue
  BY <1>2, <1>5
<1> QED
  BY <1>1, <1>2, <1>4, <1>6 DEF new

\* What a look-up, a row and a beginning leave true.
LEMMA BeginKeeps ==
  ASSUME RunInv, CheckoutStays, UNCHANGED <<conflicts, didStash, ok, crashes>>,
         queue' \in Seq(Rows),
         \A i \in DOMAIN queue' :
           \/ i \in DOMAIN queue /\ queue'[i] = queue[i]
           \/ queue'[i].status = "pending",
         \/ DOMAIN queue \subseteq DOMAIN queue' /\ UNCHANGED <<pc, todo, source>>
         \/ /\ pc \in {"idle", "enlist"} /\ source' \in Commits
            /\ \/ pc' = "enlist" /\ todo' = todo /\ DOMAIN queue \subseteq DOMAIN queue'
               \/ pc' = "checkout" /\ todo' \subseteq DOMAIN queue' /\ todo' # {}
  PROVE  RunInv'
<1> USE DEF RunInv, CheckoutStays
<1>1. RunTyped'
  BY DEF RunTyped, Steps
<1>2. OfThisMerge' /\ HeadIsStaged'
  BY DEF OfThisMerge, HeadIsStaged, Middle, AllClean
<1>3. TierFindsMerge' /\ StashFits'
  BY DEF TierFindsMerge, StashFits, Middle, OfThisMerge, InConflict, NothingBegun, AllClean
<1>4. AncestorsHeld' /\ NoTrace'
  BY DEF AncestorsHeld, NoTrace, Holds, Tiers
<1>5. RowsAreTrue'
  BY DEF RowsAreTrue, OfThisMerge, Holds, UpToDate
<1> QED
  BY <1>1, <1>2, <1>3, <1>4, <1>5

LEMMA StartsKeep ==
  ASSUME RunInv,
         \/ \E b \in Branches : DryRun(b) \/ DryEnlists(b) \/ \E v \in Versions : MergeBranch(b, v)
         \/ MergeAll \/ Enlist
  PROVE  RunInv'
<1>0. /\ tip \in [Branches -> Versions] /\ queue \in Seq(Rows) /\ RunTyped
      /\ todo \subseteq DOMAIN queue
      /\ DOMAIN queue = 1..Len(queue) /\ \A i \in DOMAIN queue : queue[i] \in Rows
  BY LenProperties DEF RunInv, RunTyped
<1>1. CASE \E b \in Branches : DryRun(b)
  BY <1>0, <1>1, BeginKeeps DEF DryRun, CheckoutStays, co_vars, run_vars
<1>2. CASE \E b \in Branches : DryEnlists(b)
  <2> PICK b \in Branches : DryEnlists(b)
    BY <1>2
  <2>1. <<b, tip[b]>> \in Commits /\ Enqueue(<<b, tip[b]>>)
    BY <1>0, CommitFacts DEF DryEnlists
  <2>2. CheckoutStays /\ UNCHANGED <<conflicts, didStash, ok, crashes, pc, todo, source>>
    BY DEF DryEnlists, CheckoutStays, co_vars, run_vars, count_vars
  <2> QED
    BY <1>0, <2>1, <2>2, EnqueueEffect, BeginKeeps
<1>4. CASE \E b \in Branches, v \in Versions : MergeBranch(b, v)
  <2> PICK b \in Branches, v \in Versions : MergeBranch(b, v)
    BY <1>4
  <2>1. <<b, v>> \in Commits
    BY CommitFacts
  <2>2. CheckoutStays /\ UNCHANGED <<conflicts, didStash, ok, crashes, queue>> /\ pc = "idle"
    BY DEF MergeBranch, CheckoutStays, co_vars
  <2>3. CASE IndexOf(b) = 0
    BY <1>0, <2>1, <2>2, <2>3, BeginKeeps DEF MergeBranch
  <2>4. CASE IndexOf(b) # 0
    BY <1>0, <2>1, <2>2, <2>4, IndexFact, BeginKeeps DEF MergeBranch, Begin
  <2> QED
    BY <2>3, <2>4
<1>5. CASE Enlist
  <2>1. source \in Commits /\ Enqueue(source) /\ pc = "enlist"
    BY <1>0, <1>5 DEF Enlist, RunTyped
  <2>2. CheckoutStays /\ UNCHANGED <<conflicts, didStash, ok, crashes>>
    BY <1>5 DEF Enlist, CheckoutStays, co_vars, count_vars
  <2>3. pc' = "checkout" /\ source' = source /\ todo' = {Len(queue) + 1}
    BY <1>5 DEF Enlist, Begin
  <2> QED
    BY <1>0, <2>1, <2>2, <2>3, EnqueueEffect, BeginKeeps
<1>3. CASE MergeAll
  <2>1. Pending \subseteq DOMAIN queue /\ Pending # {} /\ Pending \in SUBSET Nat
    BY <1>0, <1>3 DEF MergeAll, Pending
  <2>2. Least(Pending) \in DOMAIN queue
    BY <2>1, LeastFact
  <2>3. SourceOf(Least(Pending)) \in Commits
    BY <1>0, <2>2, CommitFacts DEF SourceOf, Rows
  <2>4. /\ CheckoutStays /\ UNCHANGED <<conflicts, didStash, ok, crashes, queue>> /\ pc = "idle"
        /\ pc' = "checkout" /\ source' = SourceOf(Least(Pending)) /\ todo' = Pending
    BY <1>3 DEF MergeAll, CheckoutStays, co_vars, Begin
  <2> QED
    BY <1>0, <2>1, <2>3, <2>4, BeginKeeps
<1> QED
  BY <1>1, <1>2, <1>3, <1>4, <1>5

\* A command that ends or is killed leaves a checkout that is no worse.
LEMMA QuitKeeps ==
  ASSUME RunInv, CheckoutStays, Quit, queue' = queue,
         \/ crashes' = crashes /\ pc \notin Tiers
         \/ crashes' = crashes + 1
  PROVE  RunInv'
<1> USE DEF RunInv, CheckoutStays, Quit
<1>1. RunTyped'
  <2>1. crashes' \in Nat
    BY DEF RunTyped
  <2>2. /\ UNCHANGED <<reimagineEnabled, tip, queue, tree, ancestors, work, mergeHead, stash,
                       untracked>>
        /\ pc' = "idle" /\ todo' = {} /\ conflicts' = {} /\ ~didStash' /\ ~ok'
        /\ didStash' \in BOOLEAN /\ ok' \in BOOLEAN
    OBVIOUS
  <2> QED
    BY <2>1, <2>2 DEF RunTyped, Steps
<1>2. OfThisMerge' /\ HeadIsStaged'
  BY DEF OfThisMerge, HeadIsStaged, Middle, AllClean
<1>3. TierFindsMerge' /\ StashFits'
  BY DEF TierFindsMerge, StashFits, Middle
<1>4. AncestorsHeld' /\ RowsAreTrue'
  BY DEF AncestorsHeld, RowsAreTrue, Holds
<1>5. NoTrace'
  BY DEF NoTrace, Tiers, RunTyped
<1> QED
  BY <1>1, <1>2, <1>3, <1>4, <1>5

\* A command goes on without a change that counts.
LEMMA GoOnKeeps ==
  ASSUME RunInv, UNCHANGED <<reimagineEnabled, tip, queue, tree, ancestors, work, mergeHead,
                             stash, todo, source, conflicts, didStash, ok, crashes>>,
         untracked' \subseteq untracked,
         \/ pc = "checkout" /\ pc' = "commit"
         \/ pc = "untracked" /\ pc' = "merge"
         \/ pc = "stash" /\ pc' = "untracked" /\ AllClean
         \/ pc = "auto" /\ pc' = "ai"
         \/ pc = "ai" /\ pc' = "reimagine"
         \/ pc = "reimagine" /\ pc' = "abort"
  PROVE  RunInv'
<1> USE DEF RunInv
<1>1. RunTyped'
  BY DEF RunTyped, Steps
<1>2. pc' # "idle" /\ pc # "idle" /\ pc \notin {"pop", "record"} /\ pc' \notin {"pop", "record"}
  OBVIOUS
<1>3. AllClean => \A f \in Files : work[f].by # User /\ work[f].by \notin Commits
  BY CommitFacts DEF AllClean, Clean, User, None
<1>4. AllClean => mergeHead = None
  BY CommitFacts DEF AllClean, Clean, HeadIsStaged, RunTyped
<1>5. OfThisMerge'
  BY <1>2, <1>3 DEF OfThisMerge, Middle
<1>6. HeadIsStaged'
  BY <1>2, <1>4 DEF HeadIsStaged, AllClean
<1>7. TierFindsMerge'
  BY <1>2 DEF TierFindsMerge, InConflict, NothingBegun, AllClean
<1>8. AncestorsHeld' /\ RowsAreTrue'
  BY DEF AncestorsHeld, RowsAreTrue, Holds, UpToDate
<1>9. NoTrace'
  BY DEF NoTrace, Tiers
<1>10. StashFits'
  BY <1>2 DEF StashFits, OfThisMerge, Middle
<1> QED
  BY <1>1, <1>5, <1>6, <1>7, <1>8, <1>9, <1>10

LEMMA CheckoutKeeps ==
  ASSUME RunInv, Checkout
  PROVE  RunInv'
<1>1. UNCHANGED <<reimagineEnabled, tip, queue, tree, ancestors, work, mergeHead, stash,
                  untracked, crashes>> /\ pc = "checkout"
  BY DEF Checkout, Unchanged_else, count_vars
<1>2. CASE pc' = "commit" /\ UNCHANGED run_vars
  BY <1>1, <1>2, GoOnKeeps DEF run_vars
<1>3. CASE Quit
  BY <1>1, <1>3, QuitKeeps DEF CheckoutStays, Tiers
<1> QED
  BY <1>2, <1>3 DEF Checkout, Goto

-----------------------------------------------------------------------------
(* Commits *)

\* A commit of the index puts every staged change on the target, and the commit that was
\* being merged among the ancestors.
LEMMA CommitEffect ==
  ASSUME RunTyped, NEW w \in [Files -> Changes], CommitIndex(w)
  PROVE  /\ tree' \in [Files -> SUBSET Who]
         /\ \A f \in Files :
              /\ tree[f] \subseteq tree'[f]
              /\ tree'[f] \subseteq tree[f] \cup {w[f].by}
              /\ w[f].stage = "staged" => w[f].by \in tree'[f] /\ work'[f] = Clean
              /\ w[f].stage # "staged" => work'[f] = w[f]
         /\ work' \in [Files -> Changes]
         /\ ancestors' = ancestors \cup ({mergeHead} \ {None})
         /\ ancestors' \subseteq Commits
         /\ mergeHead' = None
<1>1. \A f \in Files : w[f].stage = "staged" => w[f].by \in Who
  BY DEF Changes, Clean
<1>2. /\ tree \in [Files -> SUBSET Who] /\ ancestors \subseteq Commits
      /\ mergeHead \in Commits \cup {None}
  BY DEF RunTyped
<1>3. tree' \in [Files -> SUBSET Who]
  BY <1>1, <1>2 DEF CommitIndex
<1>4. work' \in [Files -> Changes]
  BY DEF CommitIndex, Changes
<1> QED
  BY <1>2, <1>3, <1>4 DEF CommitIndex

\* If all files of the merge in progress are staged, the target has what is committed.
LEMMA CommitHolds ==
  ASSUME RunTyped, AncestorsHeld, NEW w \in [Files -> Changes], CommitIndex(w),
         mergeHead # None =>
           \A f \in Changed[mergeHead] : w[f].by = mergeHead /\ w[f].stage = "staged"
  PROVE  AncestorsHeld'
<1> SUFFICES ASSUME NEW c \in ancestors', NEW f \in Changed[c]
             PROVE  Holds(f, c)'
  BY DEF AncestorsHeld
<1>1. c \in Commits /\ f \in Files
  BY CommitEffect, CommitFacts
<1>2. CASE c \in ancestors
  BY <1>1, <1>2, CommitEffect DEF AncestorsHeld, Holds
<1>3. CASE c = mergeHead /\ mergeHead # None
  <2>1. c \in tree'[f]
    BY <1>1, <1>3, CommitEffect
  <2> QED
    BY <1>1, <2>1, CommitFacts DEF Holds
<1> QED
  BY <1>2, <1>3, CommitEffect

\* The rows stay true as long as the target only gains.
LEMMA RowsStayTrue ==
  ASSUME RunTyped, RowsAreTrue, UNCHANGED <<reimagineEnabled, queue>>,
         \A f \in Files : tree[f] \subseteq tree'[f],
         ~reimagineEnabled /\ ok' => UpToDate'
  PROVE  RowsAreTrue'
<1>1. \A c \in Commits : \A f \in Changed[c] : Holds(f, c) => Holds(f, c)'
  BY CommitFacts DEF Holds
<1> QED
  BY <1>1 DEF RowsAreTrue

LEMMA AutoCommitKeeps ==
  ASSUME RunInv, AutoCommit
  PROVE  RunInv'
<1> USE DEF RunInv
<1> DEFINE added == [f \in Files |-> IF f \in StateFiles \cap Dirty
                                       THEN Edit(work[f].by, "staged") ELSE work[f]]
<1>1. /\ UNCHANGED <<reimagineEnabled, tip, queue, stash, untracked, todo, source, conflicts,
                     didStash, ok, crashes>>
      /\ pc = "commit" /\ pc' = "stash"
  BY DEF AutoCommit, Unchanged_else, count_vars, run_vars, Goto
<1>2. ~ok /\ ~didStash
  BY <1>1 DEF OfThisMerge, Middle
<1>3. work \in [Files -> Changes]
  BY DEF RunTyped
<1>4. /\ added \in [Files -> Changes]
      /\ \A f \in Files :
           /\ added[f].by = work[f].by
           /\ work[f].stage \in {"staged", "unmerged"} => added[f].stage \in {"staged", "unmerged"}
  <2>1. \A f \in Files : f \in Dirty => work[f].by \in Who
    BY <1>3 DEF Dirty, Changes, Clean
  <2>2. \A w \in Who : Edit(w, "staged") \in Changes /\ Edit(w, "staged").by = w
                       /\ Edit(w, "staged").stage = "staged"
    BY DEF Edit, Changes
  <2> QED
    BY <1>3, <2>1, <2>2
<1>5. \/ CanCommit(added) /\ CommitIndex(added)
      \/ work' = added /\ UNCHANGED <<tree, ancestors, mergeHead>>
  BY DEF AutoCommit
<1> HIDE DEF added
<1>6. mergeHead # None => Changed[mergeHead] \subseteq Files
  BY CommitFacts DEF RunTyped
<1>7. CASE CanCommit(added) /\ CommitIndex(added)
  <2>1. RunTyped'
    BY <1>1, <1>4, <1>7, CommitEffect DEF RunTyped, Steps
  <2>2. mergeHead # None =>
          \A f \in Changed[mergeHead] : added[f].by = mergeHead /\ added[f].stage = "staged"
    BY <1>4, <1>6, <1>7 DEF HeadIsStaged, CanCommit
  <2>3. AncestorsHeld'
    BY <1>4, <1>7, <2>2, CommitHolds
  <2>4. RowsAreTrue'
    BY <1>1, <1>2, <1>4, <1>7, CommitEffect, RowsStayTrue
  <2>5. OfThisMerge' /\ TierFindsMerge' /\ StashFits'
    BY <1>1, <1>2 DEF OfThisMerge, TierFindsMerge, StashFits, Middle
  <2>6. HeadIsStaged'
    BY <1>1, <1>4, <1>7, CommitEffect DEF HeadIsStaged
  <2>7. NoTrace'
    BY <1>1, <1>4, <1>7, CommitEffect, CommitFacts DEF NoTrace, Tiers, Clean
  <2> QED
    BY <1>1, <2>1, <2>3, <2>4, <2>5, <2>6, <2>7
<1>8. CASE work' = added /\ UNCHANGED <<tree, ancestors, mergeHead>>
  <2>1. RunTyped'
    BY <1>1, <1>4, <1>8 DEF RunTyped, Steps
  <2>2. OfThisMerge' /\ TierFindsMerge' /\ StashFits'
    BY <1>1, <1>2 DEF OfThisMerge, TierFindsMerge, StashFits, Middle
  <2>3. HeadIsStaged'
    BY <1>1, <1>4, <1>6, <1>8 DEF HeadIsStaged
  <2>4. AncestorsHeld' /\ RowsAreTrue'
    BY <1>1, <1>2, <1>8 DEF AncestorsHeld, RowsAreTrue, Holds
  <2>5. NoTrace'
    BY <1>1, <1>4, <1>8 DEF NoTrace, Tiers
  <2> QED
    BY <2>1, <2>2, <2>3, <2>4, <2>5
<1> QED
  BY <1>5, <1>7, <1>8

-----------------------------------------------------------------------------
(* The stash *)

\* Putting an entry on the stash.
LEMMA PushEffect ==
  ASSUME RunTyped, NEW e \in Entries, stash' = <<e>> \o stash
  PROVE  /\ stash' \in Seq(Entries) /\ stash' # <<>> /\ stash'[1] = e
         /\ DOMAIN stash' = 1..(Len(stash) + 1)
         /\ \A i \in DOMAIN stash : i + 1 \in DOMAIN stash' /\ stash'[i + 1] = stash[i]
         /\ \A i \in DOMAIN stash' : stash'[i] = e \/ \E j \in DOMAIN stash : stash'[i] = stash[j]
<1>1. stash \in Seq(Entries) /\ <<e>> \in Seq(Entries) /\ Len(<<e>>) = 1 /\ <<e>>[1] = e
  BY DEF RunTyped
<1>2. DOMAIN stash = 1..Len(stash) /\ Len(stash) \in Nat
  BY <1>1, LenProperties
<1>3. /\ stash' \in Seq(Entries) /\ Len(stash') = 1 + Len(stash)
      /\ \A i \in 1..(1 + Len(stash)) : stash'[i] = IF i <= 1 THEN <<e>>[i] ELSE stash[i - 1]
  <2>1. /\ <<e>> \o stash \in Seq(Entries)
        /\ Len(<<e>> \o stash) = Len(<<e>>) + Len(stash)
        /\ \A i \in 1 .. Len(<<e>>) + Len(stash) :
             (<<e>> \o stash)[i] = IF i <= Len(<<e>>) THEN <<e>>[i] ELSE stash[i - Len(<<e>>)]
    BY <1>1, ConcatProperties
  <2> QED
    BY <1>1, <2>1
<1>4. DOMAIN stash' = 1..(Len(stash) + 1)
  BY <1>2, <1>3, LenProperties
<1>5. stash'[1] = e
  BY <1>1, <1>2, <1>3
<1>6. \A i \in DOMAIN stash' : stash'[i] = e \/ \E j \in DOMAIN stash : stash'[i] = stash[j]
  <2> SUFFICES ASSUME NEW i \in DOMAIN stash', i # 1
               PROVE  \E j \in DOMAIN stash : stash'[i] = stash[j]
    BY <1>5
  <2>1. i - 1 \in DOMAIN stash /\ stash'[i] = stash[i - 1]
    BY <1>2, <1>3, <1>4
  <2> QED
    BY <2>1
<1>7. stash' # <<>>
  BY <1>2, <1>3, EmptySeq
<1> QED
  BY <1>2, <1>3, <1>4, <1>5, <1>6, <1>7

LEMMA StashDirtyKeeps ==
  ASSUME RunInv, StashDirty
  PROVE  RunInv'
<1> USE DEF RunInv
<1>1. /\ UNCHANGED <<reimagineEnabled, tip, queue, tree, ancestors, untracked, crashes>>
      /\ pc = "stash"
  BY DEF StashDirty, Unchanged_else, count_vars
<1>2. work \in [Files -> Changes]
  BY DEF RunTyped
<1>3. CASE Dirty = {} /\ Goto("untracked") /\ UNCHANGED <<work, mergeHead, stash, run_vars>>
  <2>1. AllClean
    BY <1>2, <1>3 DEF Dirty, AllClean, Changes
  <2> QED
    BY <1>1, <1>3, <2>1, GoOnKeeps DEF Goto, run_vars
<1>4. CASE Quit /\ UNCHANGED <<work, mergeHead, stash>>
  BY <1>1, <1>4, QuitKeeps DEF CheckoutStays, Tiers
<1>5. CASE /\ stash' = <<[edits |-> [f \in Files |-> work[f].by], base |-> tree]>> \o stash
           /\ work' = [f \in Files |-> Clean] /\ mergeHead' = None /\ didStash' = TRUE
           /\ Goto("untracked") /\ UNCHANGED <<todo, source, conflicts, skip, ok>>
  <2> DEFINE e == [edits |-> [f \in Files |-> work[f].by], base |-> tree]
  <2>1. \A f \in Files : work[f].by \in Who \cup {None}
    BY <1>2 DEF Changes, Clean
  <2>2. e \in Entries /\ e.base = tree /\ \A f \in Files : e.edits[f] = work[f].by
    BY <2>1 DEF Entries, RunTyped
  <2>3. stash' = <<e>> \o stash
    BY <1>5
  <2> HIDE DEF e
  <2>4. AllClean'
    BY <1>5 DEF AllClean
  <2>5. RunTyped'
    BY <1>1, <1>5, <2>2, <2>3, PushEffect DEF RunTyped, Steps, Goto, Changes
  <2>6. ~ok /\ pc' = "untracked"
    BY <1>1, <1>5 DEF OfThisMerge, Goto
  <2>7. OfThisMerge'
    BY <1>5, <2>2, <2>3, <2>4, <2>6, PushEffect, CommitFacts
       DEF OfThisMerge, AllClean, Clean, Middle, User, None
  <2>8. HeadIsStaged' /\ TierFindsMerge'
    BY <1>5, <2>4, <2>6 DEF HeadIsStaged, TierFindsMerge
  <2>9. AncestorsHeld' /\ RowsAreTrue'
    BY <1>1, <1>5, <2>6 DEF AncestorsHeld, RowsAreTrue, Holds
  <2>10. StashFits'
    BY <1>1, <2>2, <2>3, <2>6, PushEffect DEF StashFits
  <2>11. NoTrace'
    <3>1. \A f \in Files : work'[f].by = None
      BY <1>5 DEF Clean
    <3> QED
      BY <1>1, <1>5, <2>2, <2>3, <2>6, <3>1, PushEffect, CommitFacts DEF NoTrace, Tiers
  <2> QED
    BY <2>5, <2>7, <2>8, <2>9, <2>10, <2>11
<1> QED
  BY <1>3, <1>4, <1>5 DEF StashDirty

LEMMA DeleteUntrackedKeeps ==
  ASSUME RunInv, DeleteUntracked
  PROVE  RunInv'
  BY GoOnKeeps DEF DeleteUntracked, Unchanged_else, count_vars, run_vars, Goto

\* What the steps of a merge do to its state keeps the shape of it.
LEMMA StaysTyped ==
  ASSUME RunTyped, pc \notin {"idle", "enlist"},
         UNCHANGED <<reimagineEnabled, tip, queue, stash, untracked, todo, source, didStash,
                     crashes>>,
         tree' \in [Files -> SUBSET Who], work' \in [Files -> Changes],
         ancestors' \subseteq Commits, mergeHead' \in Commits \cup {None},
         conflicts' \subseteq Files, ok' \in BOOLEAN, pc' \in Steps
  PROVE  RunTyped'
  BY DEF RunTyped

-----------------------------------------------------------------------------
(* Tier 1 *)

\* The merge of tier 1 lands.
LEMMA LandKeeps ==
  ASSUME RunInv, pc = "merge", Land, ok' = TRUE, pc' = "pop",
         UNCHANGED <<reimagineEnabled, tip, queue, stash, untracked, todo, source, conflicts,
                     didStash, crashes>>
  PROVE  RunInv'
<1> USE DEF RunInv
<1>1. source \in Commits /\ tree \in [Files -> SUBSET Who]
  BY DEF RunTyped
<1>2. /\ tree' \in [Files -> SUBSET Who]
      /\ \A f \in Files : tree[f] \subseteq tree'[f] /\ tree'[f] \subseteq tree[f] \cup {source}
      /\ \A f \in Changed[source] : source \in tree'[f]
      /\ ancestors' = ancestors \cup {source}
      /\ mergeHead' = None /\ AllClean' /\ work' \in [Files -> Changes]
  BY <1>1, CommitFacts DEF Land, AllClean, Changes
<1>3. RunTyped'
  BY <1>1, <1>2 DEF RunTyped, Steps
<1>4. OfThisMerge'
  BY DEF OfThisMerge, Middle
<1>5. HeadIsStaged' /\ TierFindsMerge' /\ StashFits'
  BY <1>2 DEF HeadIsStaged, TierFindsMerge, StashFits, Middle
<1>6. AncestorsHeld'
  <2> SUFFICES ASSUME NEW c \in ancestors', NEW f \in Changed[c]
               PROVE  Holds(f, c)'
    BY DEF AncestorsHeld
  <2>1. CASE c \in ancestors
    BY <1>2, <2>1, CommitFacts DEF AncestorsHeld, Holds, RunTyped
  <2>2. CASE c = source
    BY <1>1, <1>2, <2>2, CommitFacts DEF Holds
  <2> QED
    BY <1>2, <2>1, <2>2
<1>7. UpToDate'
  BY <1>1, <1>2, CommitFacts DEF UpToDate
<1>8. RowsAreTrue'
  BY <1>2, <1>7, RowsStayTrue
<1>9. NoTrace'
  BY <1>1, <1>2, CommitFacts DEF NoTrace, AllClean, Clean, Tiers
<1> QED
  BY <1>3, <1>4, <1>5, <1>6, <1>8, <1>9

LEMMA CleanMergeKeeps ==
  ASSUME RunInv, CleanMerge
  PROVE  RunInv'
<1> USE DEF RunInv
<1>1. /\ UNCHANGED <<reimagineEnabled, tip, queue, stash, untracked, todo, source, didStash,
                     crashes>>
      /\ pc = "merge"
  BY DEF CleanMerge, Unchanged_else, count_vars
<1>2. ~ok /\ AllClean /\ mergeHead = None /\ source \in Commits /\ Changed[source] \subseteq Files
  BY <1>1, CommitFacts DEF OfThisMerge, HeadIsStaged, RunTyped
<1>3. CASE /\ UpToDate /\ Succeed
           /\ UNCHANGED <<tree, ancestors, work, mergeHead, conflicts, skip>>
  <2>1. pc' = "pop" /\ ok' = TRUE
    BY <1>3 DEF Succeed, Goto
  <2>2. RunTyped'
    BY <1>1, <1>3, <2>1 DEF RunTyped, Steps
  <2>3. OfThisMerge' /\ HeadIsStaged' /\ TierFindsMerge'
    BY <1>1, <1>2, <1>3, <2>1 DEF OfThisMerge, HeadIsStaged, TierFindsMerge, Middle
  <2>4. AncestorsHeld' /\ RowsAreTrue'
    BY <1>1, <1>3 DEF AncestorsHeld, RowsAreTrue, Holds, UpToDate
  <2>5. NoTrace' /\ StashFits'
    BY <1>1, <1>2, <1>3, <2>1 DEF NoTrace, StashFits, Tiers, Middle
  <2> QED
    BY <2>2, <2>3, <2>4, <2>5
<1>4. CASE Land /\ Succeed /\ UNCHANGED <<conflicts, skip>>
  BY <1>1, <1>4, LandKeeps DEF Succeed, Goto
<1>5. CASE /\ \E hit \in (SUBSET Contested) \ {{}} :
                /\ work' = [f \in Files |->
                              IF f \notin Changed[source] THEN work[f]
                              ELSE Edit(source, IF f \in hit THEN "unmerged" ELSE "staged")]
                /\ conflicts' = hit
           /\ mergeHead' = source /\ Goto("auto")
           /\ UNCHANGED <<tree, ancestors, ok>>
  <2> PICK hit \in (SUBSET Contested) \ {{}} :
        /\ work' = [f \in Files |->
                      IF f \notin Changed[source] THEN work[f]
                      ELSE Edit(source, IF f \in hit THEN "unmerged" ELSE "staged")]
        /\ conflicts' = hit
    BY <1>5
  <2>1. hit # {} /\ hit \subseteq Changed[source]
    BY DEF Contested
  <2>2. /\ source \in Who /\ source \in Commits /\ source # None /\ source # User
    BY <1>2, CommitFacts
  <2>3. \A f \in Files :
          /\ f \notin Changed[source] => work'[f] = Clean
          /\ f \in Changed[source] =>
               /\ work'[f].by = source
               /\ work'[f].stage = IF f \in hit THEN "unmerged" ELSE "staged"
    BY <1>2 DEF AllClean, Edit
  <2>4. work' \in [Files -> Changes]
    BY <1>2, <2>2 DEF AllClean, Edit, Changes
  <2>5. InConflict'
    BY <1>1, <1>2, <1>5, <2>1, <2>3 DEF InConflict, Clean
  <2>6. RunTyped'
    BY <1>1, <1>2, <1>5, <2>1, <2>4 DEF RunTyped, Steps, Goto
  <2>7. OfThisMerge'
    <3>1. \A f \in Files : work'[f].by # User
      BY <2>2, <2>3, CommitFacts DEF Clean, None, User
    <3> QED
      BY <1>1, <1>2, <1>5, <3>1 DEF OfThisMerge, Goto, Middle
  <2>8. HeadIsStaged' /\ TierFindsMerge'
    BY <1>1, <1>2, <1>5, <2>1, <2>3, <2>5 DEF HeadIsStaged, TierFindsMerge, Goto
  <2>9. AncestorsHeld' /\ RowsAreTrue'
    BY <1>1, <1>2, <1>5 DEF AncestorsHeld, RowsAreTrue, Holds
  <2>10. NoTrace' /\ StashFits'
    BY <1>1, <1>2, <1>5 DEF NoTrace, StashFits, Goto, Tiers, Middle
  <2> QED
    BY <2>6, <2>7, <2>8, <2>9, <2>10
<1>6. CASE /\ conflicts' = {} /\ Goto("auto")
           /\ UNCHANGED <<tree, ancestors, work, mergeHead, ok>>
  <2>1. NothingBegun'
    BY <1>2, <1>6 DEF NothingBegun, AllClean
  <2>2. RunTyped'
    BY <1>1, <1>6 DEF RunTyped, Steps, Goto
  <2>3. OfThisMerge' /\ HeadIsStaged' /\ TierFindsMerge'
    BY <1>1, <1>2, <1>6, <2>1 DEF OfThisMerge, HeadIsStaged, TierFindsMerge, Goto, Middle
  <2>4. AncestorsHeld' /\ RowsAreTrue'
    BY <1>1, <1>2, <1>6 DEF AncestorsHeld, RowsAreTrue, Holds
  <2>5. NoTrace' /\ StashFits'
    BY <1>1, <1>2, <1>6 DEF NoTrace, StashFits, Goto, Tiers, Middle
  <2> QED
    BY <2>2, <2>3, <2>4, <2>5
<1> QED
  BY <1>3, <1>4, <1>5, <1>6 DEF CleanMerge

-----------------------------------------------------------------------------
(* Tiers 2 and 3 *)

LEMMA TierKeeps ==
  ASSUME RunInv, NEW enabled \in BOOLEAN,
         Tier("auto", enabled, "ai") \/ Tier("ai", enabled, "reimagine")
  PROVE  RunInv'
<1> USE DEF RunInv
<1>1. PICK step, next : /\ Tier(step, enabled, next)
                        /\ \/ step = "auto" /\ next = "ai"
                           \/ step = "ai" /\ next = "reimagine"
  OBVIOUS
<1>2. /\ UNCHANGED <<reimagineEnabled, tip, queue, stash, untracked, todo, source, didStash,
                     crashes>>
      /\ pc = step
  BY <1>1 DEF Tier, Unchanged_else, count_vars
<1>3. /\ ~ok /\ source \in Commits /\ Changed[source] \subseteq Files
      /\ InConflict \/ NothingBegun
  BY <1>1, <1>2, CommitFacts DEF OfThisMerge, TierFindsMerge, RunTyped
<1>4. CASE /\ Goto(next)
           /\ UNCHANGED <<tree, ancestors, work, mergeHead, conflicts, ok>>
  BY <1>1, <1>2, <1>4, GoOnKeeps DEF Goto
<1>5. CASE ResolveTier(next)
  <2> PICK fixed \in SUBSET conflicts :
        /\ conflicts' = conflicts \ fixed
        /\ \/ /\ fixed = conflicts /\ CanCommit(Resolved(fixed))
              /\ CommitIndex(Resolved(fixed))
              /\ Succeed
           \/ /\ fixed # conflicts \/ ~CanCommit(Resolved(fixed))
              /\ work' = Resolved(fixed)
              /\ Goto(next)
              /\ UNCHANGED <<tree, ancestors, mergeHead, ok>>
    BY <1>5 DEF ResolveTier
  <2> DEFINE w == Resolved(fixed)
  <2>1. source \in Who /\ source # None /\ source # User
    BY <1>3, CommitFacts
  <2>2. /\ w \in [Files -> Changes]
        /\ \A f \in Files : IF f \in fixed THEN w[f].by = source /\ w[f].stage = "staged"
                                           ELSE w[f] = work[f]
    BY <2>1 DEF RunTyped, Resolved, Edit, Changes
  <2> HIDE DEF w
  <2>3. CASE InConflict /\ fixed = conflicts /\ CommitIndex(w) /\ Succeed
    <3>1. pc' = "pop" /\ ok' = TRUE
      BY <2>3 DEF Succeed, Goto
    <3>2. /\ mergeHead = source
          /\ \A f \in Changed[mergeHead] : w[f].by = mergeHead /\ w[f].stage = "staged"
      <4>1. \A f \in Changed[source] :
              work[f].by = source /\ work[f].stage \in {"staged", "unmerged"}
        BY <2>1, <2>3 DEF InConflict, HeadIsStaged
      <4> QED
        BY <1>3, <2>2, <2>3, <4>1 DEF InConflict
    <3>3. RunTyped'
      <4>1. /\ tree' \in [Files -> SUBSET Who] /\ work' \in [Files -> Changes]
            /\ ancestors' \subseteq Commits /\ mergeHead' = None
        BY <2>2, <2>3, CommitEffect
      <4>2. conflicts' \subseteq Files
        BY DEF RunTyped
      <4> QED
        BY <1>1, <1>2, <1>3, <3>1, <4>1, <4>2, StaysTyped DEF Steps
    <3>4. AncestorsHeld'
      BY <2>2, <2>3, <3>2, CommitHolds
    <3>5. UpToDate'
      BY <1>2, <1>3, <2>1, <2>2, <2>3, <3>2, CommitEffect, CommitFacts DEF UpToDate
    <3>6. RowsAreTrue'
      BY <1>2, <2>2, <2>3, <3>5, CommitEffect, RowsStayTrue
    <3>7. AllClean' /\ mergeHead' = None
      BY <1>3, <2>2, <2>3, <3>2, CommitEffect DEF InConflict, AllClean, Clean
    <3>8. OfThisMerge' /\ HeadIsStaged' /\ TierFindsMerge' /\ StashFits'
      BY <1>1, <1>2, <3>1, <3>7
         DEF OfThisMerge, HeadIsStaged, TierFindsMerge, StashFits, Middle
    <3>9. NoTrace'
      <4>1. source \in ancestors' /\ ancestors \subseteq ancestors'
        BY <2>1, <2>2, <2>3, <3>2, CommitEffect
      <4>2. \A f \in Files : w[f].by \in {None, source}
        BY <2>2, <2>3, <3>2 DEF InConflict, Clean
      <4>3. \A f \in Files : tree'[f] \subseteq tree[f] \cup {None, source}
        BY <2>2, <2>3, <4>2, CommitEffect
      <4> QED
        BY <1>2, <3>7, <4>1, <4>3, CommitFacts DEF NoTrace, AllClean, Clean, Tiers
    <3> QED
      BY <1>2, <3>3, <3>4, <3>6, <3>8, <3>9
  <2>4. CASE InConflict /\ fixed # conflicts /\ work' = w /\ Goto(next)
             /\ UNCHANGED <<tree, ancestors, mergeHead, ok>>
    <3>1. InConflict'
      BY <1>2, <1>3, <2>2, <2>4 DEF InConflict, Clean
    <3>2. RunTyped'
      BY <1>1, <1>2, <2>2, <2>4 DEF RunTyped, Steps, Goto
    <3>3. OfThisMerge'
      BY <1>1, <1>2, <1>3, <2>1, <2>2, <2>4 DEF OfThisMerge, Goto, Middle
    <3>4. HeadIsStaged' /\ TierFindsMerge'
      BY <1>1, <1>2, <1>3, <2>2, <2>4, <3>1 DEF HeadIsStaged, TierFindsMerge, Goto, InConflict
    <3>5. AncestorsHeld' /\ RowsAreTrue'
      BY <1>2, <1>3, <2>4 DEF AncestorsHeld, RowsAreTrue, Holds
    <3>6. NoTrace' /\ StashFits'
      BY <1>1, <1>2, <1>3, <2>4 DEF NoTrace, StashFits, Goto, Tiers, Middle
    <3> QED
      BY <3>2, <3>3, <3>4, <3>5, <3>6
  <2>5. CASE NothingBegun
    <3>1. fixed = {} /\ conflicts' = conflicts
      BY <2>5 DEF NothingBegun
    <3>2. w = work
      BY <2>2, <3>1 DEF RunTyped
    <3>3. ~CanCommit(w)
      BY <2>5, <3>2 DEF NothingBegun, AllClean, CanCommit, Clean
    <3>4. Goto(next) /\ UNCHANGED <<tree, ancestors, work, mergeHead, conflicts, ok>>
      BY <3>1, <3>2, <3>3 DEF w
    <3> QED
      BY <1>4, <3>4
  <2>6. CASE InConflict /\ fixed = conflicts /\ ~CanCommit(w)
    <3>1. \A f \in Files : w[f].stage # "unmerged"
      BY <2>2, <2>6 DEF InConflict
    <3> QED
      BY <1>3, <2>1, <2>6, <3>1 DEF InConflict, CanCommit
  <2> QED
    BY <1>3, <2>3, <2>4, <2>5, <2>6 DEF w
<1> QED
  BY <1>1, <1>4, <1>5 DEF Tier

-----------------------------------------------------------------------------
(* Tier 4 and the end of a merge that failed *)

\* Without the reimagine tier the step changes nothing; with it the target only gains, and
\* what it writes is the commit's.
LEMMA ReimagineKeeps ==
  ASSUME RunInv, Reimagine
  PROVE  RunInv'
<1> USE DEF RunInv
<1>1. /\ UNCHANGED <<reimagineEnabled, tip, queue, ancestors, stash, untracked, todo, source,
                     conflicts, didStash, crashes>>
      /\ pc = "reimagine"
  BY DEF Reimagine, Unchanged_else, count_vars
<1>2. ~ok /\ source \in Commits /\ source \in Who /\ source # User
  BY <1>1, CommitFacts DEF OfThisMerge, RunTyped
<1>3. CASE Goto("abort") /\ UNCHANGED <<tree, work, mergeHead, ok>>
  BY <1>1, <1>3, GoOnKeeps DEF Goto
<1>4. CASE /\ reimagineEnabled /\ mergeHead' = None
           /\ tree' = [f \in Files |-> IF f \in EntryFiles THEN tree[f] \cup {source}
                                                           ELSE tree[f]]
           /\ work' = [f \in Files |-> Clean]
           /\ Succeed
  <2>1. pc' = "pop" /\ ok' = TRUE
    BY <1>4 DEF Succeed, Goto
  <2>2. /\ tree' \in [Files -> SUBSET Who] /\ work' \in [Files -> Changes]
        /\ \A f \in Files : tree[f] \subseteq tree'[f]
    BY <1>2, <1>4 DEF RunTyped, Changes
  <2>3. conflicts' \subseteq Files /\ ancestors' \subseteq Commits
    BY <1>1 DEF RunTyped
  <2>4. RunTyped'
    BY <1>1, <1>4, <2>1, <2>2, <2>3, StaysTyped DEF Steps
  <2>5. OfThisMerge' /\ HeadIsStaged' /\ TierFindsMerge'
    BY <1>1, <1>4, <2>1 DEF OfThisMerge, HeadIsStaged, TierFindsMerge, Middle
  <2>6. AncestorsHeld'
    BY <1>1, <2>2, CommitFacts DEF AncestorsHeld, Holds, RunTyped
  <2>7. RowsAreTrue' /\ NoTrace' /\ StashFits'
    BY <1>1, <1>4 DEF RowsAreTrue, NoTrace, StashFits
  <2> QED
    BY <2>4, <2>5, <2>6, <2>7
<1>5. CASE /\ reimagineEnabled /\ mergeHead' = None
           /\ \E added \in SUBSET EntryFiles :
                /\ added # EntryFiles
                /\ work' = [f \in Files |-> IF f \in added THEN Edit(source, "staged")
                                                           ELSE Clean]
                /\ Goto("abort")
                /\ UNCHANGED <<tree, ok>>
  <2> PICK added : /\ work' = [f \in Files |-> IF f \in added THEN Edit(source, "staged")
                                                              ELSE Clean]
                   /\ Goto("abort")
                   /\ UNCHANGED <<tree, ok>>
    BY <1>5
  <2>1. pc' = "abort"
    BY DEF Goto
  <2>2. /\ Edit(source, "staged") \in Changes /\ Edit(source, "staged").by # User
        /\ Clean \in Changes /\ Clean.by # User
    BY <1>2 DEF Edit, Changes, Clean, None, User
  <2>3. work' \in [Files -> Changes] /\ \A f \in Files : work'[f].by # User
    BY <2>2
  <2>4. /\ tree' \in [Files -> SUBSET Who] /\ conflicts' \subseteq Files
        /\ ancestors' \subseteq Commits /\ ok' \in BOOLEAN
    BY <1>1 DEF RunTyped
  <2>5. RunTyped'
    BY <1>1, <1>5, <2>1, <2>3, <2>4, StaysTyped DEF Steps
  <2>6. OfThisMerge' /\ HeadIsStaged' /\ TierFindsMerge'
    BY <1>1, <1>2, <1>5, <2>1, <2>3 DEF OfThisMerge, HeadIsStaged, TierFindsMerge, Middle
  <2>7. AncestorsHeld' /\ RowsAreTrue' /\ NoTrace' /\ StashFits'
    BY <1>1, <1>5
       DEF AncestorsHeld, RowsAreTrue, NoTrace, StashFits, Holds
  <2> QED
    BY <2>5, <2>6, <2>7
<1> QED
  BY <1>3, <1>4, <1>5 DEF Reimagine

\* The abort undoes the merge, if one was begun.
LEMMA AbortKeeps ==
  ASSUME RunInv, Abort
  PROVE  RunInv'
<1> USE DEF RunInv
<1>1. /\ UNCHANGED <<reimagineEnabled, tip, queue, tree, ancestors, stash, untracked, todo,
                     source, conflicts, didStash, ok, crashes>>
      /\ pc = "abort" /\ pc' = "pop" /\ mergeHead' = None
      /\ work' = IF mergeHead = None THEN work ELSE [f \in Files |-> Clean]
  BY DEF Abort, AbortMerge, Unchanged_else, count_vars, run_vars, Goto
<1>2. ~ok
  BY <1>1 DEF OfThisMerge
<1>3. ~reimagineEnabled => AllClean'
  <2>1. ASSUME ~reimagineEnabled, mergeHead # None
        PROVE  AllClean'
    BY <1>1, <2>1 DEF AllClean
  <2>2. ASSUME ~reimagineEnabled, mergeHead = None
        PROVE  AllClean'
    <3>1. source \in Commits
      BY <1>1 DEF RunTyped
    <3>2. NothingBegun
      BY <1>1, <2>2, <3>1, CommitFacts DEF TierFindsMerge, InConflict
    <3> QED
      BY <1>1, <2>2, <3>2 DEF NothingBegun, AllClean
  <2> QED
    BY <2>1, <2>2
<1>4. RunTyped'
  <2>1. work' \in [Files -> Changes]
    BY <1>1 DEF RunTyped, Changes
  <2>2. /\ tree' \in [Files -> SUBSET Who] /\ conflicts' \subseteq Files
        /\ ancestors' \subseteq Commits /\ ok' \in BOOLEAN
    BY <1>1 DEF RunTyped
  <2> QED
    BY <1>1, <2>1, <2>2, StaysTyped DEF Steps
<1>5. OfThisMerge' /\ HeadIsStaged' /\ TierFindsMerge'
  BY <1>1, <1>2 DEF OfThisMerge, HeadIsStaged, TierFindsMerge, Middle
<1>6. AncestorsHeld' /\ RowsAreTrue'
  BY <1>1, <1>2 DEF AncestorsHeld, RowsAreTrue, Holds
<1>7. NoTrace'
  BY <1>1, <1>3, CommitFacts DEF NoTrace, AllClean, Clean
<1>8. StashFits'
  BY <1>1, <1>2, <1>3 DEF StashFits, Middle
<1> QED
  BY <1>4, <1>5, <1>6, <1>7, <1>8

-----------------------------------------------------------------------------
(* The stash comes back *)

\* The pop goes well, leaves conflicts in some files that have moved, or is refused.
LEMMA PopEffect ==
  ASSUME RunInv, PopStash
  PROVE  /\ UNCHANGED <<reimagineEnabled, tip, queue, tree, ancestors, mergeHead, untracked,
                        todo, source, conflicts, ok, crashes>>
         /\ pc = "pop" /\ pc' = "record"
         /\ didStash' \in BOOLEAN /\ work' \in [Files -> Changes] /\ stash' \in Seq(Entries)
         /\ \/ UNCHANGED <<stash, work, didStash>>
               /\ (didStash => \E f \in Dirty : stash[1].edits[f] # None)
            \/ /\ didStash
               /\ \A f \in Files :
                    IF stash[1].edits[f] = None THEN work'[f] = work[f]
                    ELSE work[f].stage = "clean" /\ work'[f].by = stash[1].edits[f]
               /\ \/ stash' = stash
                  \/ stash' = Tail(stash) /\ stash # <<>>
               /\ didStash' => stash' = stash /\ Moved # {}
<1> USE DEF RunInv
<1>1. /\ UNCHANGED <<reimagineEnabled, tip, queue, tree, ancestors, mergeHead, untracked,
                     todo, source, conflicts, ok, crashes>>
      /\ pc = "pop" /\ pc' = "record"
  BY DEF PopStash, Unchanged_else, count_vars, Goto
<1>2. stash \in Seq(Entries) /\ work \in [Files -> Changes] /\ didStash \in BOOLEAN
  BY DEF RunTyped
<1>3. CASE /\ UNCHANGED <<stash, work, didStash>>
           /\ ~didStash \/ \E f \in Dirty : stash[1].edits[f] # None
  BY <1>1, <1>2, <1>3
<1>4. CASE /\ didStash
           /\ \A f \in Dirty : stash[1].edits[f] = None
           /\ \E hit \in SUBSET Moved :
                /\ work' = [f \in Files |->
                              IF stash[1].edits[f] = None THEN work[f]
                              ELSE Edit(stash[1].edits[f],
                                        IF f \in hit THEN "unmerged" ELSE "unstaged")]
                /\ stash' = IF hit = {} THEN Tail(stash) ELSE stash
                /\ didStash' = (hit # {})
  <2> PICK hit \in SUBSET Moved :
        /\ work' = [f \in Files |->
                      IF stash[1].edits[f] = None THEN work[f]
                      ELSE Edit(stash[1].edits[f],
                                IF f \in hit THEN "unmerged" ELSE "unstaged")]
        /\ stash' = IF hit = {} THEN Tail(stash) ELSE stash
        /\ didStash' = (hit # {})
    BY <1>4
  <2>1. stash # <<>>
    BY <1>1, <1>4 DEF OfThisMerge
  <2>2. stash[1] \in Entries /\ Tail(stash) \in Seq(Entries)
    BY <1>2, <2>1, HeadTailProperties
  <2>3. \A f \in Files : stash[1].edits[f] \in Who \cup {None}
    BY <2>2 DEF Entries
  <2>4. \A w \in Who, s \in {"unmerged", "unstaged"} : Edit(w, s) \in Changes /\ Edit(w, s).by = w
    BY DEF Edit, Changes
  <2>5. work' \in [Files -> Changes]
    BY <1>2, <2>3, <2>4
  <2>6. \A f \in Files : IF stash[1].edits[f] = None THEN work'[f] = work[f]
                         ELSE work[f].stage = "clean" /\ work'[f].by = stash[1].edits[f]
    BY <1>4, <2>3, <2>4 DEF Dirty
  <2>7. /\ didStash' \in BOOLEAN /\ stash' \in Seq(Entries)
        /\ stash' = stash \/ (stash' = Tail(stash) /\ stash # <<>>)
        /\ didStash' => stash' = stash /\ Moved # {}
    BY <1>2, <2>1, <2>2
  <2> QED
    BY <1>1, <1>4, <2>5, <2>6, <2>7
<1> QED
  BY <1>3, <1>4 DEF PopStash

LEMMA PopStashKeeps ==
  ASSUME RunInv, PopStash
  PROVE  RunInv'
<1> USE DEF RunInv
<1>1. /\ UNCHANGED <<reimagineEnabled, tip, queue, tree, ancestors, mergeHead, untracked,
                     todo, source, conflicts, ok, crashes>>
      /\ pc = "pop" /\ pc' = "record"
      /\ didStash' \in BOOLEAN /\ work' \in [Files -> Changes] /\ stash' \in Seq(Entries)
  BY PopEffect
<1>2. mergeHead = None /\ (didStash => stash # <<>>)
  BY <1>1 DEF HeadIsStaged, OfThisMerge
<1>3. /\ didStash' => didStash /\ stash' = stash
      /\ \A f \in Files : work'[f] = work[f] \/ (didStash /\ work'[f].by = stash[1].edits[f])
      /\ \A i \in DOMAIN stash' : \E j \in DOMAIN stash : stash'[i] = stash[j]
  <2>1. CASE UNCHANGED <<stash, work, didStash>>
    BY <2>1
  <2>2. CASE stash' = Tail(stash) /\ stash # <<>>
    <3>1. stash \in Seq(Entries) /\ Len(stash) \in Nat /\ DOMAIN stash = 1..Len(stash)
      BY LenProperties DEF RunTyped
    <3>2. Len(stash') = Len(stash) - 1 /\ DOMAIN stash' = 1..Len(stash')
          /\ \A i \in 1..(Len(stash) - 1) : stash'[i] = stash[i + 1]
      BY <2>2, <3>1, HeadTailProperties, LenProperties
    <3>3. \A i \in DOMAIN stash' : i + 1 \in DOMAIN stash /\ stash'[i] = stash[i + 1]
      BY <3>1, <3>2
    <3>4. \A i \in DOMAIN stash' : \E j \in DOMAIN stash : stash'[i] = stash[j]
      BY <3>3
    <3>5. /\ didStash' => didStash /\ stash' = stash
          /\ \A f \in Files : work'[f] = work[f] \/ (didStash /\ work'[f].by = stash[1].edits[f])
      BY PopEffect
    <3> QED
      BY <3>4, <3>5
  <2> QED
    BY <2>1, <2>2, PopEffect
<1>4. RunTyped'
  BY <1>1 DEF RunTyped, Steps
<1>5. OfThisMerge'
  BY <1>1, <1>2, <1>3 DEF OfThisMerge, Middle
<1>6. HeadIsStaged' /\ TierFindsMerge'
  BY <1>1, <1>2 DEF HeadIsStaged, TierFindsMerge
<1>7. AncestorsHeld'
  BY <1>1 DEF AncestorsHeld, Holds
<1>8. RowsAreTrue'
  BY <1>1, RowsStayTrue DEF RowsAreTrue, UpToDate
<1>9. NoTrace'
  <2>1. stash # <<>> => 1 \in DOMAIN stash
    BY LenProperties, EmptySeq DEF RunTyped
  <2> QED
    BY <1>1, <1>2, <1>3, <2>1 DEF NoTrace, Tiers
<1>10. StashFits'
  <2> SUFFICES ASSUME ~reimagineEnabled, ~ok, didStash'
               PROVE  FALSE
    BY <1>1 DEF StashFits, Middle
  <2>1. didStash /\ stash[1].base = tree /\ AllClean
    BY <1>1, <1>3 DEF StashFits
  <2>2. Moved = {} /\ Dirty = {}
    BY <2>1 DEF Moved, Dirty, AllClean, Clean
  <2> QED
    BY <2>2, PopEffect
<1> QED
  BY <1>1, <1>4, <1>5, <1>6, <1>7, <1>8, <1>9, <1>10

-----------------------------------------------------------------------------
(* The queue learns what became of the merge *)

\* Every row keeps its branch; those of the merged branch say what happened.
LEMMA RecordEffect ==
  ASSUME RunInv, Record
  PROVE  /\ queue' \in Seq(Rows) /\ DOMAIN queue' = DOMAIN queue
         /\ \A i \in DOMAIN queue :
              /\ queue'[i].branch = queue[i].branch
              /\ IF queue[i].branch = source[1]
                   THEN /\ queue'[i].status = IF ok THEN "merged" ELSE "conflict"
                        /\ ok => queue'[i].landed = source
                   ELSE queue'[i] = queue[i]
<1>1. /\ pc = "record" /\ source \in Commits /\ ok \in BOOLEAN
      /\ queue \in Seq(Rows) /\ DOMAIN queue = 1..Len(queue) /\ Len(queue) \in Nat
      /\ \A i \in DOMAIN queue : queue[i] \in Rows
  <2>1. pc = "record"
    BY DEF Record
  <2>2. source \in Commits /\ ok \in BOOLEAN /\ queue \in Seq(Rows)
    BY <2>1 DEF RunInv, RunTyped
  <2> QED
    BY <2>1, <2>2, LenProperties
<1> DEFINE q == [i \in DOMAIN queue |->
                   IF queue[i].branch = source[1]
                     THEN [queue[i] EXCEPT
                             !.status = IF ok THEN "merged" ELSE "conflict",
                             !.landed = IF ok THEN source ELSE @]
                     ELSE queue[i]]
<1>2. queue' = q
  BY DEF Record
<1>3. \A i \in DOMAIN queue :
        /\ q[i] \in Rows /\ q[i].branch = queue[i].branch
        /\ IF queue[i].branch = source[1]
             THEN /\ q[i].status = IF ok THEN "merged" ELSE "conflict"
                  /\ ok => q[i].landed = source
             ELSE q[i] = queue[i]
  <2> SUFFICES ASSUME NEW i \in DOMAIN queue
               PROVE  /\ q[i] \in Rows /\ q[i].branch = queue[i].branch
                      /\ IF queue[i].branch = source[1]
                           THEN /\ q[i].status = IF ok THEN "merged" ELSE "conflict"
                                /\ ok => q[i].landed = source
                           ELSE q[i] = queue[i]
    OBVIOUS
  <2> DEFINE r == queue[i]
  <2>1. r \in Rows
    BY <1>1
  <2>2. CASE r.branch = source[1]
    <3>1. q[i] = [r EXCEPT !.status = IF ok THEN "merged" ELSE "conflict",
                           !.landed = IF ok THEN source ELSE @]
      BY <2>2
    <3> HIDE DEF r, q
    <3>2. /\ q[i] \in Rows /\ q[i].branch = r.branch
          /\ q[i].status = IF ok THEN "merged" ELSE "conflict"
          /\ ok => q[i].landed = source
      BY <1>1, <2>1, <3>1 DEF Rows
    <3> QED
      BY <2>2, <3>2 DEF r
  <2>3. CASE r.branch # source[1]
    BY <2>1, <2>3
  <2> QED
    BY <2>2, <2>3
<1>4. q \in Seq(Rows)
  <2>1. q \in [1..Len(queue) -> Rows]
    BY <1>1, <1>3
  <2> HIDE DEF q
  <2> QED
    BY <1>1, <2>1, SeqDef
<1>5. DOMAIN q = DOMAIN queue
  OBVIOUS
<1> HIDE DEF q
<1> QED
  BY <1>2, <1>3, <1>4, <1>5

LEMMA RecordKeeps ==
  ASSUME RunInv, Record
  PROVE  RunInv'
<1> USE DEF RunInv
<1> DEFINE rest == todo \ {Least(todo)}
<1>1. /\ UNCHANGED <<reimagineEnabled, tip, tree, ancestors, work, mergeHead, stash, untracked,
                     crashes>>
      /\ pc = "record" /\ source \in Commits /\ mergeHead = None
  BY DEF Record, co_vars, count_vars, RunTyped, HeadIsStaged
<1>2. /\ ~ok' /\ ~didStash' /\ conflicts' = {} /\ ok' \in BOOLEAN /\ didStash' \in BOOLEAN
      /\ todo' = rest
      /\ \/ rest = {} /\ pc' = "idle"
         \/ rest # {} /\ pc' = "checkout" /\ source' = SourceOf(Least(rest))
  BY DEF Record, Quit, Begin
<1>3. rest # {} => SourceOf(Least(rest)) \in Commits
  <2>1. /\ DOMAIN queue = 1..Len(queue) /\ Len(queue) \in Nat
        /\ \A i \in DOMAIN queue : queue[i] \in Rows
        /\ tip \in [Branches -> Versions]
    BY LenProperties DEF RunTyped
  <2>2. rest \in SUBSET Nat /\ rest \subseteq DOMAIN queue
    BY <2>1 DEF RunTyped
  <2>3. rest # {} => Least(rest) \in DOMAIN queue
    BY <2>2, LeastFact
  <2> QED
    BY <2>1, <2>3, CommitFacts DEF SourceOf, Rows
<1>4. RunTyped'
  <2>1. todo' \subseteq DOMAIN queue'
    BY <1>2, RecordEffect DEF RunTyped
  <2> HIDE DEF rest
  <2>2. pc' = "idle" \/ (todo' # {} /\ source' \in Commits)
    BY <1>2, <1>3
  <2> QED
    BY <1>1, <1>2, <2>1, <2>2, RecordEffect DEF RunTyped, Steps
<1> HIDE DEF rest
<1>5. OfThisMerge' /\ HeadIsStaged' /\ TierFindsMerge' /\ StashFits'
  BY <1>1, <1>2 DEF OfThisMerge, HeadIsStaged, TierFindsMerge, StashFits, Middle
<1>6. AncestorsHeld' /\ NoTrace'
  BY <1>1, <1>2 DEF AncestorsHeld, NoTrace, Holds, Tiers
<1>8. RowsAreTrue'
  <2> SUFFICES ASSUME ~reimagineEnabled, NEW i \in DOMAIN queue, queue'[i].status = "merged"
               PROVE  /\ queue'[i].landed \in Commits
                      /\ \A f \in Changed[queue'[i].landed] : Holds(f, queue'[i].landed)
    BY <1>1, <1>2, RecordEffect DEF RowsAreTrue, Holds
  <2>1. CASE queue[i].branch = source[1]
    <3>1. ok /\ queue'[i].landed = source
      BY <2>1, RecordEffect
    <3>2. PICK c \in ancestors : c[1] = source[1] /\ c[2] >= source[2]
      BY <3>1 DEF RowsAreTrue, UpToDate
    <3>3. c \in Commits /\ Changed[source] \subseteq Changed[c] /\ c[2] \in Nat /\ source[2] \in Nat
      BY <1>1, <3>2, CommitFacts DEF RunTyped
    <3>4. ASSUME NEW f \in Changed[source]
          PROVE  Holds(f, source)
      <4>1. PICK d \in tree[f] : d[1] = c[1] /\ d[2] >= c[2]
        BY <3>2, <3>3 DEF AncestorsHeld, Holds
      <4>2. CASE d \in Commits
        BY <3>2, <3>3, <4>1, <4>2, CommitFacts DEF Holds
      <4>3. CASE d \notin Commits
        <5>1. f \in Files /\ d \in Who
          BY <1>1, <4>1, CommitFacts DEF RunTyped
        <5>2. d[2] = 0 /\ d[2] \in Nat
          BY <4>3, <5>1 DEF Who, User, Tool
        <5>3. c[2] \in Versions
          BY <3>3 DEF Commits
        <5> QED
          BY <4>1, <5>2, <5>3 DEF Versions
      <4> QED
        BY <4>2, <4>3
    <3> QED
      BY <1>1, <3>1, <3>4
  <2>2. CASE queue[i].branch # source[1]
    <3>1. queue'[i] = queue[i]
      BY <2>2, RecordEffect
    <3> QED
      BY <3>1 DEF RowsAreTrue
  <2> QED
    BY <2>1, <2>2
<1> QED
  BY <1>4, <1>5, <1>6, <1>8

-----------------------------------------------------------------------------
(* Every step *)

LEMMA RunStep == RunInv /\ [Next]_vars => RunInv'
<1> SUFFICES ASSUME RunInv, [Next]_vars PROVE RunInv'
  OBVIOUS
<1>1. CASE \/ \E f \in Files :
                ToolWrites(f) \/ \E s \in {"unstaged", "staged"} : UserEdits(f, s)
           \/ \E b \in Branches : AgentCommits(b)
           \/ UserSwitches
  BY <1>1, OthersSteps, OthersKeep
<1>2. CASE \/ \E b \in Branches :
                DryRun(b) \/ DryEnlists(b) \/ \E v \in Versions : MergeBranch(b, v)
           \/ MergeAll \/ Enlist
  BY <1>2, StartsKeep
<1>3. CASE Checkout \/ AutoCommit \/ StashDirty \/ DeleteUntracked
  BY <1>3, CheckoutKeeps, AutoCommitKeeps, StashDirtyKeeps, DeleteUntrackedKeeps
<1>4. CASE CleanMerge
  BY <1>4, CleanMergeKeeps
<1>5. CASE AutoResolve \/ AiResolve
  <2>1. TRUE \in BOOLEAN /\ AiEnabled \in BOOLEAN
    BY MergeConstants
  <2> QED
    BY <1>5, <2>1, TierKeeps DEF AutoResolve, AiResolve
<1>6. CASE Reimagine \/ Abort \/ PopStash \/ Record
  BY <1>6, ReimagineKeeps, AbortKeeps, PopStashKeeps, RecordKeeps
<1>7. CASE Crash
  BY <1>7, QuitKeeps DEF Crash, CheckoutStays, co_vars
<1>8. CASE UNCHANGED vars
  BY <1>8 DEF vars, co_vars, run_vars, count_vars, RunInv, RunTyped, OfThisMerge, HeadIsStaged,
              TierFindsMerge, InConflict, NothingBegun, AllClean, AncestorsHeld, RowsAreTrue,
              NoTrace, StashFits, Holds, UpToDate
<1> QED
  BY <1>1, <1>2, <1>3, <1>4, <1>5, <1>6, <1>7, <1>8 DEF Next

\* Every state of ov merge, of the checkout it works in and of its queue satisfies the
\* inductive invariant.
THEOREM RunInvHolds == Spec => []RunInv
<1>1. Init => RunInv
  BY RunInit
<1>2. RunInv /\ [Next]_vars => RunInv'
  BY RunStep
<1> QED
  BY <1>1, <1>2, PTL DEF Spec

-----------------------------------------------------------------------------
(* The rows of a branch *)

\* The row at hand is of the branch at hand, and its files are files of that branch.
RowsFit ==
  /\ \A i \in DOMAIN queue :
       queue[i].files \subseteq Changed[<<queue[i].branch, tip[queue[i].branch]>>]
  /\ pc = "enlist" => source[2] <= tip[source[1]]
  /\ pc \notin {"idle", "enlist"} => queue[Least(todo)].branch = source[1]

\* Who is about to enqueue a branch found no row of it, and nobody else is about to.
Enlisting(b) == pc = "enlist" /\ source[1] = b
RowsApart ==
  \A b \in Branches \ overlap :
    /\ ~(b \in dry /\ Enlisting(b))
    /\ b \in dry \/ Enlisting(b) => \A i \in DOMAIN queue : queue[i].branch # b
    /\ \A i, j \in DOMAIN queue : queue[i].branch = b /\ queue[j].branch = b => i = j

QueueInv == RowsFit /\ RowsApart

\* A commit's successors change no fewer files.
LEMMA GrowFact ==
  ASSUME tip \in [Branches -> Versions], NEW c \in Commits, c[2] <= tip[c[1]]
  PROVE  c[1] \in Branches /\ Changed[c] \subseteq Changed[<<c[1], tip[c[1]]>>]
<1> DEFINE d == <<c[1], tip[c[1]]>>
<1>1. c[1] \in Branches /\ c[2] \in Nat
  BY CommitFacts
<1>2. d \in Commits /\ d[1] = c[1] /\ d[2] >= c[2]
  BY <1>1, CommitFacts DEF Versions
<1> QED
  BY <1>1, <1>2, CommitFacts

\* Most steps leave the rows alone, and the branch at hand until they end.
QueueStill ==
  /\ UNCHANGED <<queue, tip, look_vars>>
  /\ \/ pc' = "idle"
     \/ UNCHANGED <<todo, source>> /\ pc \notin {"idle", "enlist"} /\ pc' \notin {"idle", "enlist"}
     \/ UNCHANGED <<pc, todo, source>>

LEMMA StillSteps ==
  ASSUME \/ \E f \in Files : ToolWrites(f) \/ \E s \in {"unstaged", "staged"} : UserEdits(f, s)
         \/ UserSwitches \/ Checkout \/ AutoCommit \/ StashDirty \/ DeleteUntracked
         \/ CleanMerge \/ AutoResolve \/ AiResolve \/ Reimagine \/ Abort \/ PopStash \/ Crash
         \/ UNCHANGED vars
  PROVE  QueueStill
<1> USE DEF QueueStill, Unchanged_else, run_vars
<1>1. CASE \/ \E f \in Files : ToolWrites(f) \/ \E s \in {"unstaged", "staged"} : UserEdits(f, s)
           \/ UserSwitches \/ UNCHANGED vars
  BY <1>1 DEF ToolWrites, UserEdits, UserSwitches, Others, vars
<1>2. CASE Checkout \/ StashDirty \/ Crash
  BY <1>2 DEF Checkout, StashDirty, Crash, Quit, Goto
<1>3. CASE AutoCommit \/ DeleteUntracked \/ Abort \/ PopStash
  BY <1>3 DEF AutoCommit, DeleteUntracked, Abort, PopStash, Goto
<1>4. CASE CleanMerge \/ Reimagine
  BY <1>4 DEF CleanMerge, Reimagine, Succeed, Goto
<1>5. CASE AutoResolve \/ AiResolve
  BY <1>5 DEF AutoResolve, AiResolve, Tier, ResolveTier, Succeed, Goto
<1> QED
  BY <1>1, <1>2, <1>3, <1>4, <1>5

LEMMA StillKeeps ==
  ASSUME QueueInv, QueueStill
  PROVE  QueueInv'
  BY DEF QueueInv, RowsFit, RowsApart, Enlisting, QueueStill, look_vars

\* A row is added by whoever looked for one.
LEMMA AddKeeps ==
  ASSUME RunInv, QueueInv, NEW commit \in Commits, Enqueue(commit), tip' = tip, overlap' = overlap,
         commit[2] <= tip[commit[1]],
         \/ commit[1] \in dry /\ dry' = dry \ {commit[1]} /\ UNCHANGED <<pc, todo, source>>
         \/ /\ pc = "enlist" /\ commit = source /\ dry' = dry
            /\ pc' = "checkout" /\ source' = source /\ todo' = {Len(queue) + 1}
  PROVE  QueueInv'
<1> DEFINE n == Len(queue) + 1
           b == commit[1]
<1>0. RunTyped /\ tip \in [Branches -> Versions] /\ n \in Nat /\ todo \in SUBSET Nat
      /\ todo \subseteq DOMAIN queue /\ (pc \notin {"idle", "enlist"} => todo # {})
  BY LenProperties DEF RunInv, RunTyped
<1>1. /\ DOMAIN queue' = DOMAIN queue \cup {n} /\ n \notin DOMAIN queue
      /\ \A i \in DOMAIN queue : queue'[i] = queue[i]
      /\ queue'[n].branch = b /\ queue'[n].files = Changed[commit]
  <2>1. queue'[n] = Row(b, Changed[commit])
    BY <1>0, EnqueueEffect
  <2>2. queue'[n].branch = b /\ queue'[n].files = Changed[commit]
    BY <2>1 DEF Row
  <2> QED
    BY <1>0, <2>2, EnqueueEffect
<1>2. b \in Branches /\ Changed[commit] \subseteq Changed[<<b, tip[b]>>]
  BY <1>0, GrowFact
<1>3. RowsFit'
  <2>1. \A i \in DOMAIN queue' :
          queue'[i].files \subseteq Changed[<<queue'[i].branch, tip'[queue'[i].branch]>>]
    BY <1>1, <1>2 DEF QueueInv, RowsFit
  <2>2. pc' = "enlist" => source'[2] <= tip'[source'[1]]
    BY DEF QueueInv, RowsFit
  <2>3. pc' \notin {"idle", "enlist"} => queue'[Least(todo')].branch = source'[1]
    <3>1. CASE UNCHANGED <<pc, todo, source>>
      <4>1. pc \notin {"idle", "enlist"} => Least(todo) \in DOMAIN queue
        BY <1>0, LeastFact
      <4> QED
        BY <1>1, <3>1, <4>1 DEF QueueInv, RowsFit
    <3>2. CASE commit = source /\ source' = source /\ todo' = {n}
      BY <1>0, <1>1, <3>2, LeastFact
    <3> QED
      BY <3>1, <3>2
  <2> QED
    BY <2>1, <2>2, <2>3 DEF RowsFit
<1>4. RowsApart'
  <2> SUFFICES ASSUME NEW c \in Branches \ overlap
               PROVE  /\ ~(c \in dry' /\ Enlisting(c)')
                      /\ c \in dry' \/ Enlisting(c)' => \A i \in DOMAIN queue' : queue'[i].branch # c
                      /\ \A i, j \in DOMAIN queue' :
                           queue'[i].branch = c /\ queue'[j].branch = c => i = j
    BY DEF RowsApart
  <2>1. /\ ~(c \in dry /\ Enlisting(c))
        /\ c \in dry \/ Enlisting(c) => \A i \in DOMAIN queue : queue[i].branch # c
        /\ \A i, j \in DOMAIN queue : queue[i].branch = c /\ queue[j].branch = c => i = j
    BY DEF QueueInv, RowsApart
  <2>2. /\ c \in dry' => c \in dry
        /\ Enlisting(c)' => Enlisting(c)
        /\ c = b => (c \in dry \/ Enlisting(c)) /\ ~(c \in dry' \/ Enlisting(c)')
    BY <2>1 DEF Enlisting
  <2> HIDE DEF n, b
  <2> QED
    BY <1>1, <2>1, <2>2
<1> QED
  BY <1>3, <1>4 DEF QueueInv

LEMMA QueueStep == RunInv /\ QueueInv /\ [Next]_vars => QueueInv'
<1> SUFFICES ASSUME RunInv, QueueInv, [Next]_vars PROVE QueueInv'
  OBVIOUS
<1>0. /\ RunTyped /\ tip \in [Branches -> Versions] /\ (pc # "idle" => source \in Commits)
      /\ \A i \in DOMAIN queue : queue[i] \in Rows /\ i \in Nat
      /\ todo \subseteq DOMAIN queue
  BY LenProperties DEF RunInv, RunTyped
<1>1. CASE \/ \E f \in Files : ToolWrites(f) \/ \E s \in {"unstaged", "staged"} : UserEdits(f, s)
           \/ UserSwitches \/ Checkout \/ AutoCommit \/ StashDirty \/ DeleteUntracked
           \/ CleanMerge \/ AutoResolve \/ AiResolve \/ Reimagine \/ Abort \/ PopStash \/ Crash
           \/ UNCHANGED vars
  BY <1>1, StillSteps, StillKeeps
<1>2. CASE \E b \in Branches : AgentCommits(b)
  <2> PICK b \in Branches : AgentCommits(b)
    BY <1>2
  <2>1. /\ UNCHANGED <<queue, dry, overlap, pc, todo, source>> /\ pc = "idle"
        /\ tip[b] = 1 /\ tip' = [tip EXCEPT ![b] = 2]
    BY DEF AgentCommits, Others, look_vars, run_vars
  <2>2. Changed[<<b, 1>>] \subseteq Changed[<<b, 2>>]
    BY MergeConstants
  <2>3. RowsFit'
    BY <1>0, <2>1, <2>2 DEF QueueInv, RowsFit, Rows
  <2>4. RowsApart'
    BY <2>1 DEF QueueInv, RowsApart, Enlisting
  <2> QED
    BY <2>3, <2>4 DEF QueueInv
<1>3. CASE \E b \in Branches : DryRun(b)
  <2> PICK b \in Branches : DryRun(b)
    BY <1>3
  <2>1. /\ UNCHANGED <<queue, tip, pc, todo, source>> /\ dry' = dry \cup {b}
        /\ overlap' = IF Enlisting(b) THEN overlap \cup {b} ELSE overlap
        /\ \A i \in DOMAIN queue : queue[i].branch # b
    BY <1>0, IndexFact DEF DryRun, run_vars, Enlisting
  <2>2. RowsFit'
    BY <2>1 DEF QueueInv, RowsFit
  <2>3. RowsApart'
    BY <2>1 DEF QueueInv, RowsApart, Enlisting
  <2> QED
    BY <2>2, <2>3 DEF QueueInv
<1>4. CASE \E b \in Branches : DryEnlists(b)
  <2> PICK b \in Branches : DryEnlists(b)
    BY <1>4
  <2> DEFINE c == <<b, tip[b]>>
  <2>1. c \in Commits /\ c[1] = b /\ c[2] <= tip[c[1]]
    <3>1. tip[b] \in 1..2 /\ tip[b] \in Versions
      BY <1>0 DEF Versions
    <3>2. c \in Commits
      BY <3>1, CommitFacts
    <3> QED
      BY <3>1, <3>2
  <2>2. /\ Enqueue(c) /\ tip' = tip /\ overlap' = overlap
        /\ c[1] \in dry /\ dry' = dry \ {c[1]} /\ UNCHANGED <<pc, todo, source>>
    BY DEF DryEnlists, run_vars
  <2> HIDE DEF c
  <2> QED
    BY <2>1, <2>2, AddKeeps
<1>5. CASE Enlist
  <2>1. /\ pc = "enlist" /\ source \in Commits /\ Enqueue(source)
        /\ UNCHANGED <<tip, dry, overlap>> /\ source[2] <= tip[source[1]]
        /\ pc' = "checkout" /\ source' = source /\ todo' = {Len(queue) + 1}
    BY <1>0, <1>5 DEF Enlist, Begin, look_vars, QueueInv, RowsFit
  <2> QED
    BY <2>1, AddKeeps
<1>6. CASE \E b \in Branches, v \in Versions : MergeBranch(b, v)
  <2> PICK b \in Branches, v \in Versions : MergeBranch(b, v)
    BY <1>6
  <2>1. /\ UNCHANGED <<queue, tip, dry>> /\ pc = "idle" /\ v <= tip[b]
        /\ source' = <<b, v>>
    BY DEF MergeBranch, Begin
  <2>2. CASE IndexOf(b) = 0
    <3>1. pc' = "enlist" /\ overlap' = overlap \cup ({b} \cap dry)
          /\ \A i \in DOMAIN queue : queue[i].branch # b
      BY <1>0, <2>2, IndexFact DEF MergeBranch
    <3>2. RowsFit'
      BY <2>1, <3>1 DEF QueueInv, RowsFit
    <3>3. RowsApart'
      BY <2>1, <3>1 DEF QueueInv, RowsApart, Enlisting
    <3> QED
      BY <3>2, <3>3 DEF QueueInv
  <2>3. CASE IndexOf(b) # 0
    <3>1. /\ pc' = "checkout" /\ overlap' = overlap /\ todo' = {IndexOf(b)}
          /\ IndexOf(b) \in DOMAIN queue /\ queue[IndexOf(b)].branch = b
      BY <1>0, <2>3, IndexFact DEF MergeBranch, Begin
    <3>2. Least(todo') = IndexOf(b)
      BY <1>0, <3>1, LeastFact
    <3>3. RowsFit'
      BY <2>1, <3>1, <3>2 DEF QueueInv, RowsFit
    <3>4. RowsApart'
      BY <2>1, <3>1 DEF QueueInv, RowsApart, Enlisting
    <3> QED
      BY <3>3, <3>4 DEF QueueInv
  <2> QED
    BY <2>2, <2>3
<1>7. CASE MergeAll
  <2>1. /\ UNCHANGED <<queue, tip, dry, overlap>> /\ pc = "idle" /\ pc' = "checkout"
        /\ todo' = Pending /\ source' = SourceOf(Least(Pending))
    BY <1>7 DEF MergeAll, Begin, look_vars
  <2>2. source'[1] = queue[Least(todo')].branch
    BY <2>1 DEF SourceOf
  <2>3. RowsFit'
    BY <2>1, <2>2 DEF QueueInv, RowsFit
  <2>4. RowsApart'
    BY <2>1 DEF QueueInv, RowsApart, Enlisting
  <2> QED
    BY <2>3, <2>4 DEF QueueInv
<1>8. CASE Record
  <2>1. /\ UNCHANGED <<tip, dry, overlap>> /\ pc = "record"
        /\ DOMAIN queue' = DOMAIN queue
        /\ \A i \in DOMAIN queue :
             queue'[i].branch = queue[i].branch /\ queue'[i].files = queue[i].files
    BY <1>0, <1>8 DEF Record, look_vars, Rows
  <2>2. \/ pc' = "idle"
        \/ pc' = "checkout" /\ source'[1] = queue[Least(todo')].branch
           /\ Least(todo') \in DOMAIN queue
    <3>1. CASE todo \ {Least(todo)} = {}
      BY <1>8, <3>1 DEF Record, Quit
    <3>2. CASE todo \ {Least(todo)} # {}
      <4>1. pc' = "checkout" /\ todo' = todo \ {Least(todo)} /\ source' = SourceOf(Least(todo'))
        BY <1>8, <3>2 DEF Record, Begin
      <4>2. Least(todo') \in todo'
        BY <1>0, <3>2, <4>1, LeastFact
      <4> QED
        BY <1>0, <4>1, <4>2 DEF SourceOf
    <3> QED
      BY <3>1, <3>2
  <2>3. RowsFit'
    BY <2>1, <2>2 DEF QueueInv, RowsFit
  <2>4. RowsApart'
    BY <2>1, <2>2 DEF QueueInv, RowsApart, Enlisting
  <2> QED
    BY <2>3, <2>4 DEF QueueInv
<1> QED
  BY <1>1, <1>2, <1>3, <1>4, <1>5, <1>6, <1>7, <1>8 DEF Next

\* What the rows say of branches holds at every step, by the invariant of the command.
THEOREM QueueInvHolds == Spec => []QueueInv
<1>1. Init => QueueInv
  BY DEF Init, QueueInv, RowsFit, RowsApart, Enlisting
<1>2. RunInv /\ QueueInv /\ [Next]_vars => QueueInv'
  BY QueueStep
<1> QED
  BY <1>1, <1>2, RunInvHolds, PTL DEF Spec

-----------------------------------------------------------------------------
(* What a merge promises *)

\* What is recorded as merged is on the target in every file of the commit, unless
\* reimagines are enabled; without them and without a kill a merge that failed leaves no
\* trace, and its stash is back before the queue is told; a branch has one row, unless two
\* commands that found none enqueued it side by side (resolver.ts resolve, merge.ts
\* 257-303).
THEOREM MergesHoldAlways == Spec => []MergesHold
<1>1. RunInv /\ QueueInv => MergesHold
  <2> SUFFICES ASSUME RunInv, QueueInv PROVE MergesHold
    OBVIOUS
  <2>1. GitMergeIsOnTarget
    BY DEF RunInv, RowsAreTrue, GitMergeIsOnTarget, MergedIsOnTarget
  <2>2. FailureLeavesNoTrace
    BY DEF RunInv, NoTrace, FailureLeavesNoTrace, Tiers
  <2>3. StashBackAfterGitMerge
    BY DEF RunInv, StashFits, StashBackAfterGitMerge, StashBackAfterFailure
  <2>4. OneRowUnlessOverlap
    <3>1. \A i \in DOMAIN queue : queue[i].branch \in Branches
      <4>1. \A i \in DOMAIN queue : queue[i] \in Rows
        BY LenProperties DEF RunInv, RunTyped
      <4> QED
        BY <4>1 DEF Rows
    <3> QED
      BY <3>1 DEF QueueInv, RowsApart, OneRowUnlessOverlap
  <2> QED
    BY <2>1, <2>2, <2>3, <2>4 DEF MergesHold
<1> QED
  BY <1>1, RunInvHolds, QueueInvHolds, PTL

-----------------------------------------------------------------------------
(* The user's work *)

\* Where the user's change of a file is.
UserHas(f) == work[f].by = User \/ InStash(f, stash)

\* A merge command changes the user's files only where it stashes, unstashes or commits them.
LEMMA WorkMoves ==
  ASSUME RunInv, [Next]_vars, NEW f \in Files, UserHas(f)
  PROVE  work'[f].by = User \/ InStash(f, stash') \/ User \in tree'[f]
<1> USE DEF UserHas, InStash
<1>1. CASE UNCHANGED <<work, stash>>
  BY <1>1
<1>2. CASE \/ \E g \in Files :
                ToolWrites(g) \/ \E s \in {"unstaged", "staged"} : UserEdits(g, s)
           \/ \E b \in Branches : AgentCommits(b)
           \/ UserSwitches
  <2>1. stash' = stash /\ (work'[f] = work[f] \/ work[f] = Clean)
    BY <1>2, OthersSteps DEF OthersEffect
  <2> QED
    BY <2>1, CommitFacts DEF Clean, User, None
<1>3. CASE \/ \E b \in Branches :
                DryRun(b) \/ DryEnlists(b) \/ \E v \in Versions : MergeBranch(b, v)
           \/ MergeAll \/ Enlist \/ Checkout \/ DeleteUntracked \/ Record \/ Crash
  BY <1>1, <1>3
     DEF DryRun, DryEnlists, MergeBranch, MergeAll, Enlist, Checkout, DeleteUntracked, Record,
         Crash, co_vars
<1>4. CASE AutoCommit
  <2> DEFINE added == [g \in Files |-> IF g \in StateFiles \cap Dirty
                                         THEN Edit(work[g].by, "staged") ELSE work[g]]
  <2>1. added[f].by = work[f].by /\ stash' = stash
    BY <1>4 DEF AutoCommit, Edit
  <2>2. work'[f] = added[f] \/ (tree'[f] = tree[f] \cup {added[f].by})
    BY <1>4 DEF AutoCommit, CommitIndex
  <2> HIDE DEF added
  <2> QED
    BY <2>1, <2>2
<1>5. CASE StashDirty
  <2>1. CASE UNCHANGED <<work, stash>>
    BY <1>1, <2>1
  <2>2. CASE stash' = <<[edits |-> [g \in Files |-> work[g].by], base |-> tree]>> \o stash
    <3> DEFINE e == [edits |-> [g \in Files |-> work[g].by], base |-> tree]
    <3>1. \A g \in Files : work[g].by \in Who \cup {None}
      BY DEF RunInv, RunTyped, Changes, Clean
    <3>2. e \in Entries /\ e.edits[f] = work[f].by
      BY <3>1 DEF Entries, RunInv, RunTyped
    <3>3. stash' = <<e>> \o stash
      BY <2>2
    <3> HIDE DEF e
    <3>4. 1 \in DOMAIN stash' /\ stash'[1] = e
          /\ \A i \in DOMAIN stash : i + 1 \in DOMAIN stash' /\ stash'[i + 1] = stash[i]
      <4>1. DOMAIN stash' = 1..(Len(stash) + 1) /\ Len(stash) \in Nat
        BY <3>2, <3>3, PushEffect, LenProperties DEF RunInv, RunTyped
      <4> QED
        BY <3>2, <3>3, <4>1, PushEffect DEF RunInv
    <3> QED
      BY <3>2, <3>4
  <2> QED
    BY <1>5, <2>1, <2>2 DEF StashDirty
<1>6. CASE CleanMerge \/ AutoResolve \/ AiResolve \/ Reimagine \/ Abort
  <2>1. stash' = stash /\ pc \in Middle
    BY <1>6 DEF CleanMerge, AutoResolve, AiResolve, Tier, Reimagine, Abort, Middle
  <2>2. work[f].by # User
    BY <2>1 DEF RunInv, OfThisMerge
  <2> QED
    BY <2>1, <2>2
<1>7. CASE PopStash
  <2>1. stash \in Seq(Entries) /\ DOMAIN stash = 1..Len(stash) /\ Len(stash) \in Nat
    BY LenProperties DEF RunInv, RunTyped
  <2>2. CASE UNCHANGED <<stash, work, didStash>>
    BY <1>1, <2>2
  <2>3. CASE /\ IF stash[1].edits[f] = None THEN work'[f] = work[f]
                ELSE work[f].stage = "clean" /\ work'[f].by = stash[1].edits[f]
             /\ stash' = stash \/ (stash' = Tail(stash) /\ stash # <<>>)
    <3>1. work[f].stage = "clean" => work[f].by # User
      BY CommitFacts DEF RunInv, RunTyped, Changes, Clean, None, User
    <3>2. work[f].by = User => work'[f].by = User
      BY <2>3, <3>1
    <3>3. ASSUME NEW i \in DOMAIN stash, stash[i].edits[f] = User
          PROVE  work'[f].by = User \/ \E j \in DOMAIN stash' : stash'[j].edits[f] = User
      <4>1. CASE stash' = stash
        BY <3>3, <4>1
      <4>2. CASE stash' = Tail(stash) /\ stash # <<>> /\ i = 1
        BY <2>3, <3>3, <4>2 DEF User, None
      <4>3. CASE stash' = Tail(stash) /\ stash # <<>> /\ i # 1
        <5>1. DOMAIN stash' = 1..(Len(stash) - 1)
              /\ \A j \in 1..(Len(stash) - 1) : stash'[j] = stash[j + 1]
          BY <2>1, <4>3, HeadTailProperties, LenProperties
        <5>2. i - 1 \in DOMAIN stash' /\ stash'[i - 1] = stash[i]
          BY <2>1, <4>3, <5>1
        <5> QED
          BY <3>3, <5>2
      <4> QED
        BY <2>3, <4>1, <4>2, <4>3
    <3> QED
      BY <3>2, <3>3
  <2> QED
    BY <1>7, <2>2, <2>3, PopEffect
<1>8. CASE UNCHANGED vars
  BY <1>1, <1>8 DEF vars, co_vars
<1> QED
  BY <1>2, <1>3, <1>4, <1>5, <1>6, <1>7, <1>8 DEF Next

\* Untracked files are removed only as files of the branch at hand.
LEMMA UntrackedMoves ==
  ASSUME RunInv, QueueInv, [Next]_vars, NEW f \in untracked \ untracked'
  PROVE  f \in Changed[<<source[1], tip[source[1]]>>]
<1>1. DeleteUntracked \/ untracked' = untracked
  BY DEF Next, vars, co_vars, ToolWrites, UserEdits, AgentCommits, UserSwitches, Others, DryRun,
         DryEnlists, MergeBranch, MergeAll, Enlist, Checkout, AutoCommit, StashDirty, CleanMerge,
         AutoResolve, AiResolve, Tier, Reimagine, Abort, PopStash, Record, Crash
<1>2. pc = "untracked" /\ f \in queue[Least(todo)].files
  BY <1>1 DEF DeleteUntracked, EntryFiles
<1>3. Least(todo) \in DOMAIN queue
  <2>1. todo \in SUBSET Nat /\ todo # {} /\ todo \subseteq DOMAIN queue
    BY <1>2, LenProperties DEF RunInv, RunTyped
  <2> QED
    BY <2>1, LeastFact
<1> QED
  BY <1>2, <1>3 DEF QueueInv, RowsFit

\* No step of a merge command, whether it succeeds, fails, is aborted or killed, loses a
\* change of a tracked file that the user had in the working tree: it stays there, is
\* stashed, comes back or is committed; and an untracked file is lost only if it is one of
\* the files of the branch at hand (resolver.ts resolve, stash, 741-764 and finally).
THEOREM UserWorkSurvives == Spec => UserWorkKept
<1> DEFINE Kept ==
      /\ \A f \in Files :
           (work[f].by = User \/ InStash(f, stash)) =>
             \/ work'[f].by = User
             \/ InStash(f, stash')
             \/ User \in tree'[f]
      /\ \A f \in untracked \ untracked' : f \in Changed[<<source[1], tip[source[1]]>>]
<1>1. RunInv /\ QueueInv /\ [Next]_vars => [Kept]_vars
  BY WorkMoves, UntrackedMoves DEF UserHas
<1> QED
  BY <1>1, RunInvHolds, QueueInvHolds, PTL DEF Spec, UserWorkKept

-----------------------------------------------------------------------------
(* ov doctor *)

\* What a fix deletes from the queue is old, or has a later row of its branch.
LEMMA FixSparesFresh ==
  ASSUME Doc!FreshRowsStay, Doc!Fix
  PROVE  Doc!FreshRowsStay'
<1>1. PICK fix \in doctor.found :
        lost' = (lost \/ \E r \in mergeRows \ Doc!Kept(fix) : r \in Doc!Last(r.branch) /\ ~r.old)
  BY DEF Doc!Fix
<1>2. \A r \in mergeRows \ Doc!Kept(fix) : r.old \/ r \notin Doc!Last(r.branch)
  <2>1. CASE fix = "stale"
    BY <2>1 DEF Doc!Kept, Doc!Stale
  <2>2. CASE fix = "twice"
    BY <2>2 DEF Doc!Kept, Doc!Twice
  <2> QED
    BY <2>1, <2>2 DEF Doc!Kept
<1> QED
  BY <1>1, <1>2 DEF Doc!FreshRowsStay

LEMMA DoctorStep == Doc!FreshRowsStay /\ [Doc!Next]_doctorVars => Doc!FreshRowsStay'
<1> SUFFICES ASSUME Doc!FreshRowsStay, [Doc!Next]_doctorVars PROVE Doc!FreshRowsStay'
  OBVIOUS
<1>1. CASE Doc!Fix
  BY <1>1, FixSparesFresh
<1>2. CASE ~Doc!Fix
  <2>1. UNCHANGED lost
    BY <1>2 DEF Doc!Next, Doc!InitAgain, Doc!Break, Doc!MergeBegins, Doc!MergeTakesLong,
                Doc!MergeEnds, Doc!Enqueue, Doc!UpdateStatus, Doc!RowAges, Doc!Begin,
                Doc!Check, Doc!ChecksEnd, doctorVars
  <2> QED
    BY <2>1 DEF Doc!FreshRowsStay
<1> QED
  BY <1>1, <1>2

-----------------------------------------------------------------------------
(* The lead's close *)

\* What the hooks have seen still holds when the tool call runs: the lead does nothing
\* else meanwhile, and what is merged stays merged.
Landed == resolvable => "lead" \notin ahead \ landed
GateInv ==
  /\ ready \in Nat /\ counted \in Nat
  /\ ready > 0 => asked # {}
  /\ gate = "received" /\ counted > 0 => asked # {}
  /\ gate \in {"git", "passed"} => asked # {}
  /\ gate = "passed" => Landed
  /\ Shutter!OwnWorkIsMerged

LEMMA GateInitHolds == Shutter!GateInit => GateInv
  BY DEF Shutter!GateInit, GateInv, Shutter!OwnWorkIsMerged

LEMMA GateStep == GateInv /\ [Shutter!GateNext]_gateVars => GateInv'
<1> SUFFICES ASSUME GateInv, [Shutter!GateNext]_gateVars PROVE GateInv'
  OBVIOUS
<1> USE DEF GateInv, Landed, Shutter!OwnWorkIsMerged
<1>1. ASSUME NEW w \in Shutter!Workers, Shutter!Report(w) PROVE GateInv'
  <2>1. "lead" \in ahead' => "lead" \in ahead
    BY <1>1, WorkConstants DEF Shutter!Report
  <2> QED
    BY <1>1, <2>1 DEF Shutter!Report
<1>2. ASSUME NEW b, Shutter!MergeReady(b) PROVE GateInv'
  BY <1>2 DEF Shutter!MergeReady
<1>3. ASSUME NEW b, Shutter!Merge(b) PROVE GateInv'
  BY <1>3 DEF Shutter!Merge
<1>4. CASE Shutter!Commit
  BY <1>4 DEF Shutter!Commit
<1>5. CASE Shutter!Close
  BY <1>5 DEF Shutter!Close
<1>6. CASE Shutter!CountSent
  BY <1>6 DEF Shutter!CountSent
<1>7. CASE Shutter!CountReceived
  BY <1>7 DEF Shutter!CountReceived, Shutter!Turn
<1>8. CASE Shutter!CheckBranch
  BY <1>8 DEF Shutter!CheckBranch, Shutter!Turn, Shutter!Ancestor
<1>9. CASE Shutter!Run
  BY <1>9 DEF Shutter!Run
<1>10. CASE UNCHANGED gateVars
  BY <1>10 DEF gateVars
<1> QED
  BY <1>1, <1>2, <1>3, <1>4, <1>5, <1>6, <1>7, <1>8, <1>9, <1>10 DEF Shutter!GateNext

-----------------------------------------------------------------------------
(* ov group *)

\* A command that asks the tracker knows of the members it has asked for; what it will
\* write back was right when it read it, and issues that were closed stay counted.
Fulfilled(g) == g.status = "completed" => g.members \subseteq once
Asking(c) == c.does = "status" => /\ Fulfilled(c.read)
                                  /\ c.all => c.read.members \ c.ask \subseteq once
GroupShape == [members : SUBSET Issues, status : {"none", "active", "completed"}]
CmdShape == {Task!Idle}
  \cup [does : {"status"}, read : GroupShape, ask : SUBSET Issues, all : BOOLEAN]
  \cup [does : {"add"}, read : GroupShape, new : SUBSET Issues]
GroupInv ==
  /\ group \in GroupShape /\ cmd \in [Commands -> CmdShape] /\ closed \subseteq once
  /\ Task!CompletedWasClosed
  /\ \A p \in Commands : Asking(cmd[p])

LEMMA GroupInitHolds == Task!Init => GroupInv
  BY DEF Task!Init, GroupInv, Task!Idle, Task!NoGroup, GroupShape, CmdShape, Asking,
         Task!CompletedWasClosed

LEMMA GroupStep == GroupInv /\ [Task!Next]_groupVars => GroupInv'
<1> SUFFICES ASSUME GroupInv, [Task!Next]_groupVars PROVE GroupInv'
  OBVIOUS
<1> USE DEF GroupInv, Task!CompletedWasClosed, Asking, Fulfilled
<1>1. ASSUME NEW i \in Issues, Task!Tracker(i) PROVE GroupInv'
  BY <1>1 DEF Task!Tracker
<1>2. ASSUME NEW p \in Commands, Task!CreateGroup(p) PROVE GroupInv'
  BY <1>2 DEF Task!CreateGroup, GroupShape
<1>3. ASSUME NEW p \in Commands, Task!BeginStatus(p) PROVE GroupInv'
  BY <1>3 DEF Task!BeginStatus, GroupShape, CmdShape
<1>4. ASSUME NEW p \in Commands, Task!BeginAdd(p) PROVE GroupInv'
  BY <1>4 DEF Task!BeginAdd, GroupShape, CmdShape
<1>5. ASSUME NEW p \in Commands, Task!AskOne(p) PROVE GroupInv'
  <2>1. cmd[p] \in [does : {"status"}, read : GroupShape, ask : SUBSET Issues, all : BOOLEAN]
    BY <1>5 DEF Task!AskOne, CmdShape, Task!Idle
  <2>2. PICK i \in cmd[p].ask :
          cmd' = [cmd EXCEPT ![p].ask = @ \ {i}, ![p].all = @ /\ i \in closed]
    BY <1>5 DEF Task!AskOne
  <2>3. /\ UNCHANGED <<group, closed, once, mails>>
        /\ cmd'[p].does = "status" /\ cmd'[p].read = cmd[p].read /\ cmd'[p].ask = cmd[p].ask \ {i}
        /\ cmd'[p].all = (cmd[p].all /\ i \in closed)
        /\ cmd'[p] \in CmdShape /\ \A q \in Commands \ {p} : cmd'[q] = cmd[q]
    BY <1>5, <2>1, <2>2 DEF Task!AskOne, CmdShape
  <2>4. cmd' \in [Commands -> CmdShape]
    BY <2>2, <2>3
  <2>5. \A q \in Commands : (Asking(cmd[q]))'
    BY <2>1, <2>3
  <2> QED
    BY <2>3, <2>4, <2>5
<1>6. ASSUME NEW p \in Commands, Task!EndStatus(p) PROVE GroupInv'
  BY <1>6 DEF Task!EndStatus, GroupShape, CmdShape, Task!Idle
<1>7. ASSUME NEW p \in Commands, Task!EndAdd(p) PROVE GroupInv'
  BY <1>7 DEF Task!EndAdd, Task!Added, GroupShape, CmdShape, Task!Idle
<1>8. ASSUME NEW p \in Commands, Task!RemoveFromGroup(p) PROVE GroupInv'
  BY <1>8 DEF Task!RemoveFromGroup, GroupShape
<1>9. CASE UNCHANGED groupVars
  BY <1>9 DEF groupVars
<1> QED
  BY <1>1, <1>2, <1>3, <1>4, <1>5, <1>6, <1>7, <1>8, <1>9 DEF Task!Next

-----------------------------------------------------------------------------
(* The root of a project *)

RootInv == where \in Conf!Places /\ root \in {"none", Conf!ResolveRoot(where)}

LEMMA RootInitHolds == Conf!Init => RootInv
  BY DEF Conf!Init, RootInv

LEMMA RootStep == RootInv /\ [Conf!Next]_confVars => RootInv'
<1> SUFFICES ASSUME RootInv, [Conf!Next]_confVars PROVE RootInv'
  OBVIOUS
<1>1. UNCHANGED where
  BY DEF Conf!Next, Conf!Load, Conf!EditFile, Conf!EditLocal, confVars
<1>2. root' \in {"none", root, Conf!ResolveRoot(where)}
  BY DEF Conf!Next, Conf!Load, Conf!EditFile, Conf!EditLocal, confVars
<1> QED
  BY <1>1, <1>2 DEF RootInv

LEMMA RootFact == RootInv => Conf!AgentsShareTheRoot
<1> SUFFICES ASSUME RootInv, root # "none", where.dir # "main",
                    where.below # "none" \/ where.env # "none"
             PROVE  root = "main"
  BY DEF Conf!AgentsShareTheRoot
<1>1. /\ where.override = "none" /\ where.env \in {"none", "main"}
      /\ where.below = "main" /\ "main" \in where.projects
  BY DEF RootInv, Conf!Places
<1> QED
  BY <1>1 DEF RootInv, Conf!ResolveRoot

-----------------------------------------------------------------------------
(* The roster *)

\* The loader's index names just the roles that declare a capability.
LEMMA LoadedFact == Roll!LoadedIsSound
<1> SUFFICES ASSUME Roll!Accepts(roster)
             PROVE  LET known == Roll!Load(roster) IN
                      /\ Roll!Validate(known) = {}
                      /\ \A cap \in Roll!Declared(roster.agents) \cup DOMAIN roster.index :
                           Roll!FindByCapability(known, cap) = Roll!Declaring(roster.agents, cap)
  BY DEF Roll!LoadedIsSound
<1> DEFINE known == Roll!Load(roster)
           agents == roster.agents
<1>1. /\ known.agents = agents
      /\ known.index = [cap \in Roll!Declared(agents) |-> Roll!Declaring(agents, cap)]
  BY DEF Roll!Load, Roll!CapabilityIndex, Roll!BuildCapabilityIndex
<1>2. \A n \in DOMAIN agents : Roll!ValidateAgentDefinition(agents[n]) = {}
  BY DEF Roll!Accepts
<1> HIDE DEF known
<1>3. Roll!Validate(known) = {}
  BY <1>1, <1>2 DEF Roll!Validate
<1>4. ASSUME NEW cap
      PROVE  Roll!FindByCapability(known, cap) = Roll!Declaring(agents, cap)
  <2>1. CASE cap \in Roll!Declared(agents)
    BY <1>1, <2>1 DEF Roll!FindByCapability, Roll!Declaring
  <2>2. CASE cap \notin Roll!Declared(agents)
    BY <1>1, <2>2 DEF Roll!FindByCapability, Roll!Declaring, Roll!Declared
  <2> QED
    BY <2>1, <2>2
<1> QED
  BY <1>3, <1>4 DEF known

\* What may be wrong with a manifest and with its definitions.
Wrongs == {"json", "version", "agents", "array", "index"}
RosterTyped ==
  roster # Roll!None =>
    /\ roster.wrong \subseteq Wrongs
    /\ \A n \in DOMAIN roster.agents : roster.agents[n].flaws \subseteq Roll!Fields \cup Roll!Items

LEMMA DoctorFact == RosterTyped => Roll!DoctorKnowsTheLoader
<1> SUFFICES ASSUME RosterTyped PROVE Roll!DoctorKnowsTheLoader
  OBVIOUS
<1> DEFINE agents == roster.agents
<1>1. ASSUME {"Manifest parsing", "Agent definition files"} \subseteq Roll!CheckAgents,
             "array" \notin roster.wrong,
             \A n \in DOMAIN agents : agents[n].flaws \cap Roll!Items = {}
      PROVE  Roll!Accepts(roster)
  <2>1. Roll!LoadAndValidateManifest(roster) = {} /\ Roll!MissingFiles(roster) = {}
    BY <1>1 DEF Roll!CheckAgents
  <2>2. /\ roster # Roll!None /\ "json" \notin roster.wrong /\ "agents" \notin roster.wrong
    BY <2>1 DEF Roll!LoadAndValidateManifest
  <2>6. /\ roster.wrong \cap {"version", "index"} = {}
        /\ \A n \in DOMAIN agents :
             (IF "definition" \in agents[n].flaws THEN {"definition"}
              ELSE (agents[n].flaws \cap Roll!Fields) \cup
                   (IF agents[n].capabilities = {} THEN {"no capability"} ELSE {})) = {}
    BY <2>1, <2>2 DEF Roll!LoadAndValidateManifest
  <2>5. /\ roster.wrong \cap {"version", "index"} = {}
        /\ \A n \in DOMAIN agents : "definition" \notin agents[n].flaws
        /\ \A n \in DOMAIN agents : agents[n].flaws \cap Roll!Fields = {}
    BY <2>6
  <2>3. \A n \in DOMAIN agents : agents[n].flaws = {}
    BY <1>1, <2>2, <2>5 DEF RosterTyped
  <2>4. \A n \in DOMAIN agents : agents[n].file \in defs
    BY <2>1 DEF Roll!MissingFiles
  <2> QED
    BY <1>1, <2>2, <2>3, <2>4, <2>5 DEF Roll!Accepts, Roll!ValidateAgentDefinition
<1>2. ASSUME Roll!Accepts(roster)
      PROVE  Roll!LoadAndValidateManifest(roster) \subseteq {"index", "no capability"}
  <2>1. \A n \in DOMAIN agents : agents[n].flaws = {}
    BY <1>2 DEF Roll!Accepts, Roll!ValidateAgentDefinition
  <2> QED
    BY <1>2, <2>1 DEF Roll!Accepts, Roll!LoadAndValidateManifest
<1> QED
  BY <1>1, <1>2 DEF Roll!DoctorKnowsTheLoader

\* What a sequence of nine elements looks like with one or two more at its end.
LEMMA LonelyEnd ==
  ASSUME NEW S, NEW f \in Seq(S), Len(f) = 9, NEW e \in S
  PROVE  /\ Len(f \o <<e>>) = 10 /\ (f \o <<e>>)[10] = e
         /\ \A i \in 1 .. 9 : (f \o <<e>>)[i] = f[i]
<1> DEFINE g == <<e>>
<1>1. g \in Seq(S) /\ Len(g) = 1 /\ g[1] = e
  OBVIOUS
<1> HIDE DEF g
<1>2. /\ Len(f \o g) = Len(f) + Len(g)
      /\ \A i \in 1 .. Len(f) + Len(g) : (f \o g)[i] = IF i <= Len(f) THEN f[i] ELSE g[i - Len(f)]
  BY <1>1, ConcatProperties, Zenon
<1>3. Len(f) + Len(g) = 10
  BY <1>1
<1>4. \A i \in 1 .. 10 : (f \o g)[i] = IF i <= 9 THEN f[i] ELSE g[i - 9]
  BY <1>2, <1>3, Zenon
<1>5. 10 \in 1 .. 10 /\ ~(10 <= 9) /\ 10 - 9 = 1
  OBVIOUS
<1>8. \A i \in 1 .. 9 : i \in 1 .. 10 /\ i <= 9
  OBVIOUS
<1>6. (f \o g)[10] = e
  BY <1>1, <1>4, <1>5, Zenon
<1>7. \A i \in 1 .. 9 : (f \o g)[i] = f[i]
  BY <1>4, <1>8, Zenon
<1> QED
  BY <1>2, <1>3, <1>6, <1>7, Zenon DEF g

LEMMA PairedEnd ==
  ASSUME NEW S, NEW f \in Seq(S), Len(f) = 9, NEW d \in S, NEW e \in S
  PROVE  /\ Len(f \o <<d, e>>) = 11 /\ (f \o <<d, e>>)[11] = e
         /\ \A i \in 1 .. 9 : (f \o <<d, e>>)[i] = f[i]
<1> DEFINE g == <<d, e>>
<1>1. g \in Seq(S) /\ Len(g) = 2 /\ g[2] = e
  OBVIOUS
<1> HIDE DEF g
<1>2. /\ Len(f \o g) = Len(f) + Len(g)
      /\ \A i \in 1 .. Len(f) + Len(g) : (f \o g)[i] = IF i <= Len(f) THEN f[i] ELSE g[i - Len(f)]
  BY <1>1, ConcatProperties, Zenon
<1>3. Len(f) + Len(g) = 11
  BY <1>1
<1>4. \A i \in 1 .. 11 : (f \o g)[i] = IF i <= 9 THEN f[i] ELSE g[i - 9]
  BY <1>2, <1>3, Zenon
<1>5. 11 \in 1 .. 11 /\ ~(11 <= 9) /\ 11 - 9 = 2
  OBVIOUS
<1>8. \A i \in 1 .. 9 : i \in 1 .. 11 /\ i <= 9
  OBVIOUS
<1>6. (f \o g)[11] = e
  BY <1>1, <1>4, <1>5, Zenon
<1>7. \A i \in 1 .. 9 : (f \o g)[i] = f[i]
  BY <1>4, <1>8, Zenon
<1> QED
  BY <1>2, <1>3, <1>6, <1>7, Zenon DEF g

\* The steps of the commands that write everything.
LEMMA WholeSteps ==
  ASSUME NEW c \in Roll!Whole
  PROVE  /\ Len(Roll!Steps(c)) \in {10, 11}
         /\ \A i \in 1 .. 9 : Roll!Steps(c)[i] = <<"file", Roll!Deployed[i]>>
         /\ Roll!Steps(c)[Len(Roll!Steps(c))] = <<"manifest", "">>
<1> DEFINE files == [i \in 1 .. Len(Roll!Deployed) |-> <<"file", Roll!Deployed[i]>>]
           settings == <<"config", "">>
           written == <<"manifest", "">>
           S == {files[i] : i \in 1 .. 9} \cup {settings, written}
<1>1. Len(Roll!Deployed) = 9
  BY DEF Roll!Deployed
<1>2. \A i \in 1 .. 9 : files[i] = <<"file", Roll!Deployed[i]>>
  BY <1>1
<1>3. files \in [1 .. 9 -> S]
  BY <1>1
<1>4. /\ c = "update" => Roll!Steps(c) = files \o <<written>>
      /\ c # "update" => Roll!Steps(c) = files \o <<settings, written>>
  BY DEF Roll!Steps, Roll!Whole
<1>5. settings \in S /\ written \in S
  OBVIOUS
<1> HIDE DEF files, settings, written, S
<1>6. files \in Seq(S) /\ Len(files) = 9
  <2>1. files \in Seq(S)
    BY <1>3, SeqDef
  <2> QED
    BY <1>3, <2>1, LenProperties
<1>7. CASE c = "update"
  <2>2. /\ Len(files \o <<written>>) = 10 /\ (files \o <<written>>)[10] = written
        /\ \A i \in 1 .. 9 : (files \o <<written>>)[i] = files[i]
    BY <1>5, <1>6, LonelyEnd
  <2>1. /\ Len(Roll!Steps(c)) = 10 /\ Roll!Steps(c)[10] = written
        /\ \A i \in 1 .. 9 : Roll!Steps(c)[i] = files[i]
    BY <1>4, <1>7, <2>2, Zenon
  <2> QED
    BY <1>2, <2>1, Zenon DEF written
<1>8. CASE c # "update"
  <2>2. /\ Len(files \o <<settings, written>>) = 11
        /\ (files \o <<settings, written>>)[11] = written
        /\ \A i \in 1 .. 9 : (files \o <<settings, written>>)[i] = files[i]
    BY <1>5, <1>6, PairedEnd
  <2>1. /\ Len(Roll!Steps(c)) = 11 /\ Roll!Steps(c)[11] = written
        /\ \A i \in 1 .. 9 : Roll!Steps(c)[i] = files[i]
    BY <1>4, <1>8, <2>2, Zenon
  <2> QED
    BY <1>2, <2>1, Zenon DEF written
<1> QED
  BY <1>7, <1>8

\* A step that was done and not undone.
Done(step) == /\ step[1] = "file" => step[2] \in defs
              /\ step[1] = "manifest" => roster = Roll!BuildAgentManifest
Refreshed == /\ roster = Roll!BuildAgentManifest
             /\ \A i \in 1 .. 9 : Roll!Deployed[i] \in defs
RosterInv ==
  /\ RosterTyped
  /\ setup.at \in Nat
  /\ refreshed => Refreshed
  /\ \A c \in Roll!Whole : c = setup.cmd /\ ~edited =>
       \A i \in 1 .. Len(Roll!Steps(c)) : i < setup.at => Done(Roll!Steps(c)[i])

LEMMA BuiltFact ==
  /\ Roll!BuildAgentManifest # Roll!None
  /\ Roll!BuildAgentManifest.wrong = {}
  /\ Roll!BuildAgentManifest.agents = Roll!StarterAgents
  /\ Roll!BuildAgentManifest.index = Roll!BuildCapabilityIndex(Roll!StarterAgents)
  /\ \A n \in DOMAIN Roll!StarterAgents :
       /\ Roll!StarterAgents[n].flaws = {} /\ Roll!StarterAgents[n].capabilities # {}
       /\ \E i \in 1 .. 9 : Roll!StarterAgents[n].file = Roll!Deployed[i]
<1>1. "wrong" \in DOMAIN Roll!BuildAgentManifest /\ DOMAIN Roll!None = {}
  BY DEF Roll!BuildAgentManifest, Roll!None
<1>2. ASSUME NEW n \in DOMAIN Roll!StarterAgents
      PROVE  /\ Roll!StarterAgents[n].flaws = {} /\ Roll!StarterAgents[n].capabilities # {}
             /\ Roll!StarterAgents[n].file = Roll!FileOf[n] /\ n \in DOMAIN Roll!FileOf
  BY DEF Roll!StarterAgents, Roll!Role, Roll!FileOf
<1>3. \A n \in DOMAIN Roll!FileOf : \E i \in 1 .. 9 : Roll!FileOf[n] = Roll!Deployed[i]
  BY DEF Roll!FileOf, Roll!Deployed
<1> QED
  BY <1>1, <1>2, <1>3 DEF Roll!BuildAgentManifest

LEMMA RefreshedFact == RosterInv => Roll!RefreshedIsSound
<1> SUFFICES ASSUME RosterInv, refreshed PROVE Roll!Accepts(roster) /\ Roll!CheckAgents = Roll!AllChecks
  BY DEF Roll!RefreshedIsSound
<1> DEFINE agents == roster.agents
<1>1. /\ roster # Roll!None /\ roster.wrong = {} /\ agents = Roll!StarterAgents
      /\ roster.index = [cap \in Roll!Declared(agents) |-> Roll!Declaring(agents, cap)]
      /\ \A n \in DOMAIN agents :
           agents[n].flaws = {} /\ agents[n].capabilities # {} /\ agents[n].file \in defs
  BY BuiltFact DEF RosterInv, Refreshed, Roll!BuildCapabilityIndex
<1> HIDE DEF agents
<1>2. Roll!Accepts(roster)
  BY <1>1 DEF Roll!Accepts, Roll!ValidateAgentDefinition, agents
<1>3. Roll!LoadAndValidateManifest(roster) = {} /\ Roll!MissingFiles(roster) = {}
  BY <1>1 DEF Roll!LoadAndValidateManifest, Roll!MissingFiles, agents
<1>4. Roll!ValidateCapabilityIndex(roster) = {}
  BY <1>1 DEF Roll!ValidateCapabilityIndex, agents
<1> QED
  BY <1>2, <1>3, <1>4 DEF Roll!CheckAgents, Roll!AllChecks

LEMMA RosterInitHolds == Roll!RosterInit => RosterInv
<1> SUFFICES ASSUME Roll!RosterInit PROVE RosterInv
  OBVIOUS
<1>1. setup.cmd = "" /\ setup.at = 0 /\ roster = Roll!None /\ ~refreshed
  BY DEF Roll!RosterInit
<1>2. setup.cmd \notin Roll!Whole
  BY <1>1 DEF Roll!Whole
<1>3. RosterTyped
  BY <1>1 DEF RosterTyped
<1>4. \A c \in Roll!Whole : c = setup.cmd /\ ~edited =>
       \A i \in 1 .. Len(Roll!Steps(c)) : i < setup.at => Done(Roll!Steps(c)[i])
  BY <1>2
<1>6. 0 \in Nat
  OBVIOUS
<1>5. setup.at \in Nat /\ ~refreshed
  BY <1>1, <1>6, Zenon
<1> QED
  BY <1>3, <1>4, <1>5, Zenon DEF RosterInv

LEMMA EditStep ==
  ASSUME RosterInv, Roll!Edit
  PROVE  RosterInv'
<1>1. /\ edited' = TRUE /\ refreshed' = FALSE /\ UNCHANGED setup
      /\ \/ \E flaw \in Wrongs : Roll!Spoil(flaw)
         \/ \E n \in Touched, flaw \in Roll!Fields \cup Roll!Items : Roll!SpoilRole(n, flaw)
         \/ \E n \in Touched, caps \in {{}, {"review"}} : Roll!Declare(n, caps)
         \/ \E withFile \in BOOLEAN : Roll!Enlist("writer", withFile)
         \/ UNCHANGED roster
  BY DEF Roll!Edit, Wrongs, Roll!Lose
<1>2. RosterTyped'
  <2>1. ASSUME NEW flaw \in Wrongs, Roll!Spoil(flaw) PROVE RosterTyped'
    <3>1. /\ roster # Roll!None /\ roster' = [roster EXCEPT !.wrong = @ \cup {flaw}]
      BY <2>1 DEF Roll!Spoil
    <3> QED
      BY <3>1 DEF RosterInv, RosterTyped
  <2>2. ASSUME NEW n \in Touched, NEW flaw \in Roll!Fields \cup Roll!Items, Roll!SpoilRole(n, flaw)
        PROVE  RosterTyped'
    BY <2>2 DEF RosterInv, RosterTyped, Roll!SpoilRole
  <2>3. ASSUME NEW n \in Touched, NEW caps, Roll!Declare(n, caps) PROVE RosterTyped'
    BY <2>3 DEF RosterInv, RosterTyped, Roll!Declare
  <2>4. ASSUME NEW withFile \in BOOLEAN, Roll!Enlist("writer", withFile) PROVE RosterTyped'
    BY <2>4 DEF RosterInv, RosterTyped, Roll!Enlist, Roll!Role
  <2>5. CASE UNCHANGED roster
    BY <2>5 DEF RosterInv, RosterTyped
  <2> QED
    BY <1>1, <2>1, <2>2, <2>3, <2>4, <2>5
<1> QED
  BY <1>1, <1>2 DEF RosterInv

LEMMA WriteStepHolds ==
  ASSUME RosterInv, Roll!WriteStep
  PROVE  RosterInv'
<1> PICK step : step = Roll!Steps(setup.cmd)[setup.at]
  OBVIOUS
<1>1. /\ setup' = [setup EXCEPT !.at = @ + 1] /\ UNCHANGED <<edited, refreshed>>
      /\ defs' = (IF step[1] = "file" THEN defs \cup {step[2]} ELSE defs)
      /\ roster' = (IF step[1] = "manifest" THEN Roll!BuildAgentManifest ELSE roster)
  BY DEF Roll!WriteStep
<1>2. setup'.at = setup.at + 1 /\ setup'.cmd = setup.cmd
  BY <1>1 DEF RosterInv
<1>3. RosterTyped'
  BY <1>1, BuiltFact DEF RosterInv, RosterTyped
<1>4. Done(step)'
  BY <1>1 DEF Done
<1>5. ASSUME NEW s, Done(s) PROVE Done(s)'
  BY <1>1, <1>5 DEF Done
<1>6. (refreshed => Refreshed)'
  BY <1>1 DEF RosterInv, Refreshed
<1>7. ASSUME NEW c \in Roll!Whole, c = setup.cmd, ~edited,
             NEW i \in 1 .. Len(Roll!Steps(c)), i < setup.at + 1
      PROVE  Done(Roll!Steps(c)[i])'
  <2>1. CASE i = setup.at
    BY <1>4, <1>7, <2>1
  <2>2. CASE i # setup.at
    <3>1. i \in Nat /\ setup.at \in Nat
      BY <1>7 DEF RosterInv
    <3>2. i < setup.at
      BY <1>7, <2>2, <3>1
    <3>3. Done(Roll!Steps(c)[i])
      BY <1>7, <3>2 DEF RosterInv
    <3> QED
      BY <1>5, <3>3
  <2> QED
    BY <2>1, <2>2
<1> QED
  BY <1>1, <1>2, <1>3, <1>6, <1>7 DEF RosterInv

LEMMA FinishStep ==
  ASSUME RosterInv, Roll!Finish
  PROVE  RosterInv'
<1>1. /\ UNCHANGED <<roster, defs, edited>> /\ setup'.cmd = "" /\ setup'.at = 0
      /\ refreshed' = ((setup.cmd \in Roll!Whole /\ ~edited) \/ refreshed)
      /\ setup.at > Len(Roll!Steps(setup.cmd))
  BY DEF Roll!Finish
<1>2. setup'.cmd \notin Roll!Whole
  BY <1>1 DEF Roll!Whole
<1>3. (refreshed => Refreshed)'
  <2>1. ASSUME NEW c \in Roll!Whole, c = setup.cmd, ~edited PROVE Refreshed
    <3> PICK n : n = Len(Roll!Steps(c))
      OBVIOUS
    <3>1. n \in {10, 11} /\ setup.at \in Nat /\ setup.at > n
      BY <1>1, <2>1, WholeSteps DEF RosterInv
    <3>6. /\ \A i \in 1 .. n : i < setup.at
          /\ \A i \in 1 .. 9 : i \in 1 .. n
          /\ n \in 1 .. n
      BY <3>1
    <3>5. /\ \A i \in 1 .. Len(Roll!Steps(c)) : i < setup.at
          /\ \A i \in 1 .. 9 : i \in 1 .. Len(Roll!Steps(c))
          /\ Len(Roll!Steps(c)) \in 1 .. Len(Roll!Steps(c))
      BY <3>6
    <3>2. \A i \in 1 .. Len(Roll!Steps(c)) : Done(Roll!Steps(c)[i])
      BY <2>1, <3>5, Zenon DEF RosterInv
    <3>3. \A i \in 1 .. 9 : Done(<<"file", Roll!Deployed[i]>>)
      BY <3>5, <3>2, WholeSteps, Zenon
    <3>4. Done(<<"manifest", "">>)
      BY <3>5, <3>2, WholeSteps, Zenon
    <3> QED
      BY <3>3, <3>4 DEF Done, Refreshed
  <2> QED
    BY <1>1, <2>1 DEF RosterInv, Refreshed
<1>4. RosterTyped'
  BY <1>1 DEF RosterInv, RosterTyped
<1>5. \A c \in Roll!Whole : (c = setup.cmd /\ ~edited)' =>
       \A i \in 1 .. Len(Roll!Steps(c)) : i < setup'.at => Done(Roll!Steps(c)[i])'
  BY <1>2
<1>7. 0 \in Nat
  OBVIOUS
<1>6. setup'.at \in Nat
  BY <1>1, <1>7, Zenon
<1> QED
  BY <1>3, <1>4, <1>5, <1>6, Zenon DEF RosterInv

LEMMA RosterStep == RosterInv /\ [Roll!RosterNext]_rosterVars => RosterInv'
<1> SUFFICES ASSUME RosterInv, [Roll!RosterNext]_rosterVars PROVE RosterInv'
  OBVIOUS
<1>1. ASSUME NEW c, Roll!Begin(c) PROVE RosterInv'
  <2>1. /\ UNCHANGED <<roster, defs, refreshed>> /\ setup'.cmd = c /\ setup'.at = 1
    BY <1>1 DEF Roll!Begin
  <2>2. ASSUME NEW d \in Roll!Whole, NEW i \in 1 .. Len(Roll!Steps(d)) PROVE ~(i < 1)
    <3> PICK n : n = Len(Roll!Steps(d))
      OBVIOUS
    <3>1. n \in {10, 11} /\ i \in 1 .. n
      BY <2>2, WholeSteps
    <3> QED
      BY <3>1
  <2>3. \A d \in Roll!Whole : (d = setup.cmd /\ ~edited)' =>
         \A i \in 1 .. Len(Roll!Steps(d)) : i < setup'.at => Done(Roll!Steps(d)[i])'
    BY <2>1, <2>2, Zenon
  <2>4. RosterTyped' /\ setup'.at \in Nat /\ (refreshed => Refreshed)'
    BY <2>1 DEF RosterInv, RosterTyped, Refreshed
  <2> QED
    BY <2>3, <2>4, Zenon DEF RosterInv
<1>2. CASE Roll!Die
  <2>1. /\ UNCHANGED <<roster, defs, refreshed>> /\ setup'.cmd = "" /\ setup'.at = 0
    BY <1>2 DEF Roll!Die
  <2>2. 0 \in Nat
    OBVIOUS
  <2>3. setup'.at \in Nat
    BY <2>1, <2>2, Zenon
  <2>4. setup'.cmd \notin Roll!Whole
    BY <2>1 DEF Roll!Whole
  <2>5. \A c \in Roll!Whole : (c = setup.cmd /\ ~edited)' =>
         \A i \in 1 .. Len(Roll!Steps(c)) : i < setup'.at => Done(Roll!Steps(c)[i])'
    BY <2>4
  <2>6. RosterTyped' /\ (refreshed => Refreshed)'
    BY <2>1 DEF RosterInv, RosterTyped, Refreshed
  <2> QED
    BY <2>3, <2>5, <2>6, Zenon DEF RosterInv
<1>3. CASE UNCHANGED rosterVars
  BY <1>3 DEF rosterVars, RosterInv, RosterTyped, Refreshed, Done
<1> QED
  BY <1>1, <1>2, <1>3, EditStep, WriteStepHolds, FinishStep DEF Roll!RosterNext

-----------------------------------------------------------------------------
(* ov clean *)

\* A step is taken only when those before it are over: the agents are ended before their
\* worktrees and rows go, and one agent before its worktree.
LEMMA OrderFact ==
  /\ Wipe!At("worktrees") => "pids" \notin clean.left
  /\ Wipe!At("sessions") => "pids" \notin clean.left
  /\ Wipe!At("agent worktree") => "agent kill" \notin clean.left
<1>1. Wipe!Place("worktrees") = 4
  BY DEF Wipe!Place
<1>2. Wipe!Place("pids") = 3 /\ Wipe!Place("agent worktree") = 3
  BY DEF Wipe!Place
<1>3. Wipe!Place("sessions") = 6
  BY DEF Wipe!Place
<1>4. Wipe!Place("agent kill") = 2
  BY DEF Wipe!Place
<1>5. ASSUME NEW s, NEW t, Wipe!At(s), t \in clean.left PROVE Wipe!Place(s) <= Wipe!Place(t)
  BY <1>5, Zenon DEF Wipe!At
<1>6. ~(4 <= 3) /\ ~(6 <= 3) /\ ~(3 <= 2)
  OBVIOUS
<1> QED
  BY <1>1, <1>2, <1>3, <1>4, <1>5, <1>6, Zenon

CleanInv ==
  /\ row \in [Agents -> {"none", "live", "completed"}] /\ procs \subseteq Agents
  /\ clean.ends = "agents" /\ clean.left \cap {"worktrees", "sessions"} # {}
       /\ "pids" \notin clean.left =>
       procs \subseteq apart
  /\ "worktrees" \in clean.left => clean.ends = "agents"
  /\ "agent worktree" \in clean.left /\ "agent kill" \notin clean.left =>
       clean.agent \notin procs \ apart
  /\ Wipe!NobodyIsPulledAway

LEMMA CleanInitHolds == Wipe!Init => CleanInv
BY DEF Wipe!Init, Wipe!None, CleanInv, Wipe!NobodyIsPulledAway

LEMMA GoFact ==
  ASSUME NEW s, Wipe!At(s), Wipe!Go(s)
  PROVE  /\ s \in clean.left /\ clean'.left = clean.left \ {s}
         /\ clean'.left # {} => clean'.agent = clean.agent /\ clean'.ends = clean.ends
<1>1. s \in clean.left
  BY DEF Wipe!At
<1>2. CASE clean.left = {s}
  BY <1>1, <1>2 DEF Wipe!Go, Wipe!None
<1>3. CASE clean.left # {s}
  BY <1>1, <1>3 DEF Wipe!Go
<1> QED
  BY <1>1, <1>2, <1>3

LEMMA BesideStep ==
  ASSUME CleanInv, NEW a \in Agents,
         \/ Wipe!SlingTree(a) \/ Wipe!SlingRow(a) \/ Wipe!Exit(a) \/ Wipe!PaneDies(a)
         \/ Wipe!Complete(a)
  PROVE  CleanInv'
<1> USE DEF CleanInv, Wipe!NobodyIsPulledAway
<1>1. CASE Wipe!SlingTree(a)
  BY <1>1 DEF Wipe!SlingTree
<1>2. CASE Wipe!SlingRow(a)
  <2>1. /\ row' = [row EXCEPT ![a] = "live"] /\ procs' = procs \cup {a} /\ a \in trees
        /\ UNCHANGED <<trees, clean>>
        /\ apart' = (IF clean # Wipe!None THEN apart \cup {a} ELSE apart)
    BY <1>2 DEF Wipe!SlingRow
  <2>2. row' \in [Agents -> {"none", "live", "completed"}]
    BY <2>1
  <2>3. clean = Wipe!None => clean.left = {}
    BY DEF Wipe!None
  <2>4. Wipe!NobodyIsPulledAway'
    BY <2>1
  <2> QED
    BY <2>1, <2>2, <2>3, <2>4
<1>3. CASE Wipe!Exit(a)
  BY <1>3 DEF Wipe!Exit
<1>4. CASE Wipe!PaneDies(a)
  BY <1>4 DEF Wipe!PaneDies
<1>5. CASE Wipe!Complete(a)
  <2>1. /\ row' = [row EXCEPT ![a] = "completed"] /\ UNCHANGED <<procs, trees, clean, apart>>
    BY <1>5 DEF Wipe!Complete
  <2> QED
    BY <2>1
<1> QED
  BY <1>1, <1>2, <1>3, <1>4, <1>5

LEMMA WipeStep ==
  ASSUME CleanInv, Wipe!Steps
  PROVE  CleanInv'
<1> DEFINE Rowed == [Agents -> {"none", "live", "completed"}]
<1>a. ASSUME NEW s, Wipe!At(s), Wipe!Go(s), procs' \subseteq procs, procs' \ apart' \subseteq procs \ apart,
             row' \in Rowed, procs' \ apart' \subseteq trees',
             \A a \in procs' \ apart' : row'[a] # "none",
             s = "pids" => procs' \subseteq apart', s = "agent kill" => clean.agent \notin procs' \ apart'
      PROVE  CleanInv'
  <2>1. /\ clean'.left = clean.left \ {s}
        /\ clean'.left # {} => clean'.agent = clean.agent /\ clean'.ends = clean.ends
    BY <1>a, GoFact, Zenon
  <2>2. Wipe!NobodyIsPulledAway'
    BY <1>a DEF Wipe!NobodyIsPulledAway
  <2>3. /\ clean'.ends = "agents" /\ clean'.left \cap {"worktrees", "sessions"} # {}
             /\ "pids" \notin clean'.left => procs' \subseteq apart'
        /\ "worktrees" \in clean'.left => clean'.ends = "agents"
    BY <1>a, <2>1 DEF CleanInv
  <2>4. "agent worktree" \in clean'.left /\ "agent kill" \notin clean'.left =>
          clean'.agent \notin procs' \ apart'
    BY <1>a, <2>1 DEF CleanInv
  <2>5. procs' \subseteq Agents
    BY <1>a DEF CleanInv
  <2> QED
    BY <1>a, <2>2, <2>3, <2>4, <2>5, Zenon DEF CleanInv
<1>b. ASSUME NEW s, Wipe!At(s), Wipe!Go(s), procs' \subseteq procs, procs' \ apart' \subseteq procs \ apart,
             UNCHANGED <<row, trees>>,
             s = "pids" => procs' \subseteq apart', s = "agent kill" => clean.agent \notin procs' \ apart'
      PROVE  CleanInv'
  <2>1. procs' \ apart' \subseteq trees' /\ \A a \in procs' \ apart' : row'[a] # "none"
    BY <1>b DEF CleanInv, Wipe!NobodyIsPulledAway
  <2>2. row' \in Rowed
    BY <1>b DEF CleanInv
  <2> QED
    BY <1>a, <1>b, <2>1, <2>2, Zenon
<1>1. ASSUME NEW s \in {"events", "agent event"}, Wipe!At(s), Wipe!Go(s),
             UNCHANGED <<row, procs, trees, apart>>
      PROVE  CleanInv'
  <2>1. s # "pids" /\ s # "agent kill" /\ procs' \subseteq procs /\ procs' \ apart' \subseteq procs \ apart
    BY <1>1
  <2> QED
    BY <1>1, <1>b, <2>1, Zenon
<1>2. CASE Wipe!KillTmux
  <2>1. /\ Wipe!At("tmux") /\ Wipe!Go("tmux") /\ procs' \subseteq procs /\ procs' \ apart' \subseteq procs \ apart
        /\ UNCHANGED <<row, trees>>
    BY <1>2 DEF Wipe!KillTmux
  <2>2. "tmux" # "pids" /\ "tmux" # "agent kill"
    OBVIOUS
  <2> QED
    BY <1>b, <2>1, <2>2, Zenon
<1>3. CASE Wipe!ReapPids
  <2>1. /\ Wipe!At("pids") /\ Wipe!Go("pids") /\ procs' \subseteq procs /\ procs' \subseteq apart'
        /\ procs' \ apart' \subseteq procs \ apart /\ UNCHANGED <<row, trees>>
    BY <1>3 DEF Wipe!ReapPids
  <2>2. "pids" # "agent kill"
    OBVIOUS
  <2> QED
    BY <1>b, <2>1, <2>2, Zenon
<1>4. CASE Wipe!RemoveTrees
  <2>1. /\ Wipe!At("worktrees") /\ Wipe!Go("worktrees") /\ UNCHANGED <<row, procs, apart>>
    BY <1>4 DEF Wipe!RemoveTrees
  <2>2. "worktrees" \in clean.left /\ "pids" \notin clean.left
    BY <2>1, OrderFact DEF Wipe!At
  <2>3. procs \subseteq apart /\ row \in Rowed
    BY <2>2 DEF CleanInv
  <2>4. /\ procs' \subseteq procs /\ procs' \ apart' \subseteq procs \ apart /\ procs' \ apart' \subseteq trees'
        /\ row' \in Rowed /\ \A a \in procs' \ apart' : row'[a] # "none"
        /\ "worktrees" # "pids" /\ "worktrees" # "agent kill"
    BY <2>1, <2>3
  <2> QED
    BY <1>a, <2>1, <2>4, Zenon
<1>5. CASE Wipe!DeleteBranches
  <2>1. /\ Wipe!At("branches") /\ Wipe!Go("branches") /\ procs' \subseteq procs
        /\ procs' \ apart' \subseteq procs \ apart /\ UNCHANGED <<row, trees>>
    BY <1>5 DEF Wipe!DeleteBranches
  <2>2. "branches" # "pids" /\ "branches" # "agent kill"
    OBVIOUS
  <2> QED
    BY <1>b, <2>1, <2>2, Zenon
<1>6. CASE Wipe!WipeSessions
  <2>1. /\ Wipe!At("sessions") /\ Wipe!Go("sessions") /\ UNCHANGED <<procs, trees>>
        /\ row' = [a \in Agents |-> "none"]
        /\ apart' = IF clean.ends = "agents" THEN apart ELSE procs
    BY <1>6 DEF Wipe!WipeSessions
  <2>2. "sessions" \in clean.left /\ "pids" \notin clean.left
    BY <2>1, OrderFact DEF Wipe!At
  <2>3. procs \subseteq apart'
    BY <2>1, <2>2 DEF CleanInv
  <2>4. /\ procs' \subseteq procs /\ procs' \ apart' = {} /\ row' \in Rowed
        /\ "sessions" # "pids" /\ "sessions" # "agent kill"
    BY <2>1, <2>3
  <2>5. /\ procs' \ apart' \subseteq procs \ apart /\ procs' \ apart' \subseteq trees'
        /\ \A a \in procs' \ apart' : row'[a] # "none"
    BY <2>4
  <2> QED
    BY <1>a, <2>1, <2>4, <2>5, Zenon
<1>7. CASE Wipe!KillAgent
  <2>1. /\ Wipe!At("agent kill") /\ Wipe!Go("agent kill") /\ procs' \subseteq procs
        /\ clean.agent \notin procs' \ apart'
        /\ procs' \ apart' \subseteq procs \ apart /\ UNCHANGED <<row, trees>>
    BY <1>7 DEF Wipe!KillAgent
  <2>2. "agent kill" # "pids"
    OBVIOUS
  <2> QED
    BY <1>b, <2>1, <2>2, Zenon
<1>8. CASE Wipe!RemoveTree
  <2>1. /\ Wipe!At("agent worktree") /\ Wipe!Go("agent worktree")
        /\ UNCHANGED <<row, procs, apart>> /\ trees \ {clean.agent} \subseteq trees'
    BY <1>8 DEF Wipe!RemoveTree
  <2>2. "agent worktree" \in clean.left /\ "agent kill" \notin clean.left
    BY <2>1, OrderFact DEF Wipe!At
  <2>3. clean.agent \notin procs \ apart
    BY <2>2 DEF CleanInv
  <2>4. /\ procs' \subseteq procs /\ procs' \ apart' \subseteq procs \ apart /\ procs' \ apart' \subseteq trees'
        /\ row' \in Rowed /\ \A a \in procs' \ apart' : row'[a] # "none"
        /\ "agent worktree" # "pids" /\ "agent worktree" # "agent kill"
    BY <2>1, <2>3 DEF CleanInv, Wipe!NobodyIsPulledAway
  <2> QED
    BY <1>a, <2>1, <2>4, Zenon
<1>9. CASE Wipe!DeleteBranch
  <2>1. /\ Wipe!At("agent branch") /\ Wipe!Go("agent branch") /\ procs' \subseteq procs
        /\ procs' \ apart' \subseteq procs \ apart /\ UNCHANGED <<row, trees>>
    BY <1>9 DEF Wipe!DeleteBranch
  <2>2. "agent branch" # "pids" /\ "agent branch" # "agent kill"
    OBVIOUS
  <2> QED
    BY <1>b, <2>1, <2>2, Zenon
<1>10. CASE Wipe!EndRow
  <2>1. /\ Wipe!At("agent row") /\ Wipe!Go("agent row") /\ UNCHANGED <<procs, trees, apart>>
        /\ row' = row \/ row' = [row EXCEPT ![clean.agent] = "completed"]
    BY <1>10 DEF Wipe!EndRow
  <2>2. row' \in Rowed /\ \A a \in Agents : row[a] # "none" => row'[a] # "none"
    BY <2>1 DEF CleanInv
  <2>3. /\ procs' \subseteq procs /\ procs' \ apart' \subseteq procs \ apart /\ procs' \ apart' \subseteq trees'
        /\ \A a \in procs' \ apart' : row'[a] # "none"
        /\ "agent row" # "pids" /\ "agent row" # "agent kill"
    BY <2>1, <2>2 DEF CleanInv, Wipe!NobodyIsPulledAway
  <2> QED
    BY <1>a, <2>1, <2>2, <2>3, Zenon
<1> QED
  BY <1>1, <1>2, <1>3, <1>4, <1>5, <1>6, <1>7, <1>8, <1>9, <1>10 DEF Wipe!Steps, Wipe!LogEnds

LEMMA CleanStep == CleanInv /\ [Wipe!Next]_cleanVars => CleanInv'
<1> SUFFICES ASSUME CleanInv, [Wipe!Next]_cleanVars PROVE CleanInv'
  OBVIOUS
<1>1. CASE Wipe!Begin
  <2>1. UNCHANGED <<row, procs, trees, apart>>
    BY <1>1 DEF Wipe!Begin
  <2>2. CASE \E flags \in SUBSET Wipe!Flags \ {{}} :
               clean' = [left |-> UNION flags, agent |-> "all",
                        ends |-> IF Wipe!TreeSteps \in flags THEN "agents" ELSE "none"]
    <3>1. PICK flags \in SUBSET Wipe!Flags :
            clean' = [left |-> UNION flags, agent |-> "all",
                        ends |-> IF Wipe!TreeSteps \in flags THEN "agents" ELSE "none"]
      BY <2>2
    <3>2. "agent worktree" \notin clean'.left
      <4>1. clean'.left = UNION flags
        BY <3>1
      <4>2. \A f \in Wipe!Flags : f = Wipe!TreeSteps \/ f = {"branches"} \/ f = {"sessions"}
        BY Zenon DEF Wipe!Flags
      <4>4. "agent worktree" \notin Wipe!TreeSteps \cup {"branches"} \cup {"sessions"}
        BY DEF Wipe!TreeSteps
      <4>3. flags \subseteq Wipe!Flags
        BY <3>1, Zenon
      <4> QED
        BY <4>1, <4>2, <4>3, <4>4, Zenon
    <3>3. clean'.ends = "agents" => "pids" \in clean'.left
      BY <3>1 DEF Wipe!TreeSteps
    <3>4. "worktrees" \in clean'.left => clean'.ends = "agents"
      BY <3>1 DEF Wipe!Flags, Wipe!TreeSteps
    <3> QED
      BY <2>1, <3>2, <3>3, <3>4 DEF CleanInv, Wipe!NobodyIsPulledAway
  <2>3. CASE \E a \in Agents :
               clean' = [left |-> Wipe!AgentSteps, agent |-> a, ends |-> "agents"]
    <3>1. /\ "agent kill" \in clean'.left /\ clean'.ends = "agents"
          /\ "worktrees" \notin clean'.left /\ "sessions" \notin clean'.left
      <4>1. clean'.left = Wipe!AgentSteps /\ clean'.ends = "agents"
        BY <2>3
      <4> QED
        BY <4>1 DEF Wipe!AgentSteps
    <3> QED
      BY <2>1, <3>1 DEF CleanInv, Wipe!NobodyIsPulledAway
  <2> QED
    BY <1>1, <2>2, <2>3 DEF Wipe!Begin
<1>2. CASE Wipe!Interrupt
  BY <1>2 DEF Wipe!Interrupt, Wipe!None, CleanInv, Wipe!NobodyIsPulledAway
<1>3. CASE UNCHANGED cleanVars
  BY <1>3 DEF cleanVars, CleanInv, Wipe!NobodyIsPulledAway
<1> QED
  BY <1>1, <1>2, <1>3, BesideStep, WipeStep DEF Wipe!Next

-----------------------------------------------------------------------------
(* ov ingest *)

Fields == {"seed", "plan", "units", "missing"}
RunFields == {"at", "left", "of", "hash", "done", "old"}

\* The entries of groups, each with a seed the tracker made for it.
Seeds(e, m) ==
  /\ DOMAIN e \subseteq Plan!Groups
  /\ \A g \in DOMAIN e : e[g].seed \in 1 .. m[g] /\ DOMAIN e[g] = Fields
\* All groups of a plan but those left have an entry, with all units but the unanswered.
Covers(e, c, rest) ==
  \A g \in DOMAIN c \ rest :
    g \in DOMAIN e /\ \A u \in c[g] : u \in DOMAIN e[g].units \cup e[g].missing

IngestInv ==
  /\ made \in [Plan!Groups \cup Plan!Units -> Nat]
  /\ content \in Contents
  /\ Seeds(manifest.entries, made)
  /\ manifest.hash # "none" /\ ~manifest.partial => Covers(manifest.entries, manifest.of, {})
  /\ run.at \in {"none", "create", "submit"}
  /\ run.at # "none" =>
       /\ DOMAIN run = RunFields
       /\ run.of \in Contents /\ run.left \subseteq DOMAIN run.of
       /\ Seeds(run.done, made) /\ Seeds(run.old, made)
       /\ Covers(run.done, run.of, run.left)
  /\ run.at = "submit" => \A g \in run.left : Plan!IsNext(g) => g \in DOMAIN run.done

LEMMA IngestFact == IngestInv => Plan!UnchangedIsIngested
<1> SUFFICES ASSUME IngestInv, Plan!Classify = "unchanged", NEW g \in DOMAIN manifest.of
             PROVE  /\ g \in DOMAIN manifest.entries /\ manifest.entries[g].seed \in 1 .. made[g]
                    /\ manifest.of[g] \subseteq
                         DOMAIN manifest.entries[g].units \cup manifest.entries[g].missing
  BY DEF Plan!UnchangedIsIngested
<1>1. manifest.hash # "none" /\ ~manifest.partial
  BY DEF Plan!Classify
<1>2. Covers(manifest.entries, manifest.of, {})
  BY <1>1 DEF IngestInv
<1> QED
  BY <1>2 DEF IngestInv, Seeds, Covers

LEMMA GroupsOfPlans == \A c \in Contents : DOMAIN c \subseteq Plan!Groups
BY WorkConstants DEF WorkConstants, Plan!Groups

LEMMA SeedsGrow ==
  ASSUME NEW D, NEW m \in [D -> Nat], NEW n \in [D -> Nat], Plan!Groups \subseteq D,
         \A x \in D : m[x] <= n[x], NEW e, Seeds(e, m)
  PROVE  Seeds(e, n)
<1>1. \A g \in Plan!Groups : m[g] \in Nat /\ n[g] \in Nat /\ m[g] <= n[g]
  OBVIOUS
<1> QED
  BY <1>1 DEF Seeds

LEMMA PutFact ==
  ASSUME NEW e, NEW m, Seeds(e, m), NEW g \in Plan!Groups, NEW r,
         r.seed \in 1 .. m[g], DOMAIN r = Fields
  PROVE  /\ Seeds(Plan!Put(e, g, r), m) /\ g \in DOMAIN Plan!Put(e, g, r)
         /\ \A c, rest : Covers(e, c, rest) /\ g \in rest => Covers(Plan!Put(e, g, r), c, rest)
         /\ \A c, rest : /\ Covers(e, c, rest) /\ g \in DOMAIN c
                         /\ \A u \in c[g] : u \in DOMAIN r.units \cup r.missing
                         => Covers(Plan!Put(e, g, r), c, rest \ {g})
<1> DEFINE f == Plan!Put(e, g, r)
<1>1. DOMAIN f = DOMAIN e \cup {g} /\ f[g] = r /\ \A h \in DOMAIN e \ {g} : f[h] = e[h]
  BY DEF Plan!Put
<1> HIDE DEF f
<1>2. Seeds(f, m) /\ g \in DOMAIN f
  BY <1>1 DEF Seeds
<1>3. ASSUME NEW c, NEW rest, Covers(e, c, rest), g \in rest PROVE Covers(f, c, rest)
  BY <1>1, <1>3 DEF Covers
<1>4. ASSUME NEW c, NEW rest, Covers(e, c, rest), g \in DOMAIN c,
             \A u \in c[g] : u \in DOMAIN r.units \cup r.missing
      PROVE  Covers(f, c, rest \ {g})
  BY <1>1, <1>4 DEF Covers
<1> QED
  BY <1>2, <1>3, <1>4 DEF f

LEMMA PutCovers ==
  ASSUME NEW e, NEW m, Seeds(e, m), NEW g \in Plan!Groups, NEW r,
         r.seed \in 1 .. m[g], DOMAIN r = Fields, NEW c, NEW rest, Covers(e, c, rest),
         g \in DOMAIN c, \A u \in c[g] : u \in DOMAIN r.units \cup r.missing
  PROVE  Covers(Plan!Put(e, g, r), c, rest \ {g})
BY PutFact

LEMMA PutEmpties ==
  ASSUME NEW e, NEW m, Seeds(e, m), NEW g \in Plan!Groups, NEW r,
         r.seed \in 1 .. m[g], DOMAIN r = Fields, NEW c, NEW rest, Covers(e, c, rest),
         g \in DOMAIN c, c[g] = {}
  PROVE  Covers(Plan!Put(e, g, r), c, rest \ {g})
<1>1. \A u \in c[g] : u \in DOMAIN r.units \cup r.missing
  OBVIOUS
<1> QED
  BY <1>1, PutCovers

LEMMA NextIsOne ==
  ASSUME NEW g \in Plan!Groups, NEW h \in Plan!Groups, Plan!IsNext(g), Plan!IsNext(h)
  PROVE  g = h
<1>1. ASSUME NEW x \in Plan!Groups
      PROVE  Plan!Place(x) \in Nat /\ Order[Plan!Place(x)] = x
  <2>1. \E i \in DOMAIN Order : Order[i] = x
    BY DEF Plan!Groups
  <2> QED
    BY <2>1, WorkConstants DEF WorkConstants, Plan!Place
<1>2. Plan!Place(g) <= Plan!Place(h) /\ Plan!Place(h) <= Plan!Place(g)
  BY DEF Plan!IsNext
<1> QED
  BY <1>1, <1>2

LEMMA IngestInitHolds == Plan!Init => IngestInv
<1> SUFFICES ASSUME Plan!Init PROVE IngestInv
  OBVIOUS
<1>1. /\ content \in Contents /\ manifest.hash = "none" /\ DOMAIN manifest.entries = {}
      /\ made = [x \in Plan!Groups \cup Plan!Units |-> 0] /\ run.at = "none"
  BY DEF Plan!Init, Plan!NoEntry, Plan!NoRun
<1>2. made \in [Plan!Groups \cup Plan!Units -> Nat] /\ Seeds(manifest.entries, made)
  BY <1>1 DEF Seeds
<1> QED
  BY <1>1, <1>2 DEF IngestInv

\* The parts of the invariant while a run goes on.
Running(r, m) ==
  /\ DOMAIN r = RunFields
  /\ r.of \in Contents /\ r.left \subseteq DOMAIN r.of
  /\ Seeds(r.done, m) /\ Seeds(r.old, m)
  /\ Covers(r.done, r.of, r.left)

LEMMA CreateStep ==
  ASSUME IngestInv, Plan!Create
  PROVE  IngestInv'
<1> DEFINE D == Plan!Groups \cup Plan!Units
<1>1. run.at = "create" /\ Running(run, made) /\ made \in [D -> Nat]
  BY DEF Plan!Create, IngestInv, Running
<1> PICK g, seed, rec :
      /\ g \in run.left
      /\ seed = (IF Plan!Known(g) THEN run.old[g].seed ELSE made[g] + 1)
      /\ rec = [seed |-> seed, plan |-> Plan!IsPlan(run.of, g), units |-> <<>>, missing |-> {}]
      /\ Plan!IsNext(g)
      /\ made' = (IF Plan!Known(g) THEN made ELSE [made EXCEPT ![g] = @ + 1])
      /\ run' = [run EXCEPT
            !.done = Plan!Put(@, g, rec),
            !.at = IF Plan!IsPlan(run.of, g) THEN "submit" ELSE "create",
            !.left = IF Plan!IsPlan(run.of, g) THEN @ ELSE @ \ {g}]
  BY DEF Plan!Create
<1>2. UNCHANGED <<content, manifest>>
  BY DEF Plan!Create
<1>3. g \in Plan!Groups /\ g \in DOMAIN run.of
  BY <1>1, GroupsOfPlans DEF Running
<1>4. /\ made' \in [D -> Nat] /\ \A x \in D : made[x] <= made'[x]
      /\ seed \in 1 .. made'[g]
  <2>1. CASE Plan!Known(g)
    <3>1. run.old[g].seed \in 1 .. made[g]
      BY <1>1, <2>1 DEF Plan!Known, Running, Seeds
    <3> QED
      BY <1>1, <2>1, <3>1
  <2>2. CASE ~Plan!Known(g)
    <3>1. made' = [made EXCEPT ![g] = @ + 1] /\ seed = made[g] + 1
      BY <2>2
    <3> QED
      BY <1>1, <1>3, <3>1
  <2> QED
    BY <2>1, <2>2
<1>5. Seeds(manifest'.entries, made') /\ Seeds(run.done, made') /\ Seeds(run.old, made')
  BY <1>1, <1>2, <1>4, SeedsGrow DEF IngestInv, Running
<1> DEFINE done == Plan!Put(run.done, g, rec)
<1>6. rec.seed \in 1 .. made'[g] /\ DOMAIN rec = Fields
  BY <1>4 DEF Fields
<1>7. /\ run'.done = done /\ run'.old = run.old /\ run'.of = run.of
      /\ DOMAIN run' = RunFields
      /\ run'.at = (IF Plan!IsPlan(run.of, g) THEN "submit" ELSE "create")
      /\ run'.left = (IF Plan!IsPlan(run.of, g) THEN run.left ELSE run.left \ {g})
  BY <1>1 DEF Running
<1>8. Seeds(done, made') /\ g \in DOMAIN done
  BY <1>3, <1>5, <1>6, PutFact
<1>9. Covers(done, run.of, run'.left)
  <2>1. CASE Plan!IsPlan(run.of, g)
    BY <1>1, <1>3, <1>5, <1>6, <1>7, <2>1, PutFact DEF Running
  <2>2. CASE ~Plan!IsPlan(run.of, g)
    <3>1. run.of[g] = {}
      BY <2>2 DEF Plan!IsPlan
    <3>2. Covers(done, run.of, run.left \ {g})
      BY <1>1, <1>3, <1>5, <1>6, <3>1, PutEmpties DEF Running
    <3> QED
      BY <1>7, <2>2, <3>2
  <2> QED
    BY <2>1, <2>2
<1>10. ASSUME run'.at = "submit", NEW h \in run'.left, Plan!IsNext(h)' PROVE h \in DOMAIN done
  <2>1. run'.left = run.left
    BY <1>7, <1>10
  <2>2. Plan!IsNext(h) /\ h \in Plan!Groups
    BY <1>1, <1>10, <2>1, GroupsOfPlans DEF Plan!IsNext, Running
  <2>3. h = g
    BY <1>3, <2>2, NextIsOne
  <2> QED
    BY <1>8, <2>3
<1> HIDE DEF done, D
<1>11. run'.at \in {"none", "create", "submit"} /\ run'.left \subseteq DOMAIN run'.of /\ run'.of \in Contents
  BY <1>1, <1>7 DEF Running
<1>12. made' \in [Plan!Groups \cup Plan!Units -> Nat]
  BY <1>4 DEF D
<1>13. (manifest.hash # "none" /\ ~manifest.partial => Covers(manifest.entries, manifest.of, {}))'
  BY <1>2 DEF IngestInv
<1>14. content' \in Contents
  BY <1>2 DEF IngestInv
<1> QED
  BY <1>5, <1>7, <1>8, <1>9, <1>10, <1>11, <1>12, <1>13, <1>14 DEF IngestInv

LEMMA SubmitStep ==
  ASSUME IngestInv, Plan!Submit
  PROVE  IngestInv'
<1> DEFINE D == Plan!Groups \cup Plan!Units
<1>1. run.at = "submit" /\ Running(run, made) /\ made \in [D -> Nat]
  BY DEF Plan!Submit, IngestInv, Running
<1> PICK g, more, answered, seeds :
      /\ g \in run.left
      /\ seeds = [u \in answered |-> IF u \in more THEN made[u] + 1 ELSE Plan!Existing(g)[u]]
      /\ Plan!IsNext(g)
      /\ made' = [x \in DOMAIN made |-> IF x \in more THEN made[x] + 1 ELSE made[x]]
      /\ run' = [run EXCEPT
           !.done = Plan!Put(@, g,
                      [@[g] EXCEPT !.units = seeds, !.missing = run.of[g] \ answered]),
           !.at = "create", !.left = @ \ {g}]
  <2>1. PICK g \in run.left : \E answered \in SUBSET run.of[g] :
          LET more == run.of[g] \ DOMAIN Plan!Existing(g)
              seeds == [u \in answered |-> IF u \in more THEN made[u] + 1 ELSE Plan!Existing(g)[u]]
          IN  /\ Plan!IsNext(g)
              /\ made' = [x \in DOMAIN made |-> IF x \in more THEN made[x] + 1 ELSE made[x]]
              /\ run' = [run EXCEPT
                   !.done = Plan!Put(@, g,
                              [@[g] EXCEPT !.units = seeds, !.missing = run.of[g] \ answered]),
                   !.at = "create", !.left = @ \ {g}]
    BY Zenon DEF Plan!Submit
  <2>2. PICK answered \in SUBSET run.of[g] :
          LET more == run.of[g] \ DOMAIN Plan!Existing(g)
              seeds == [u \in answered |-> IF u \in more THEN made[u] + 1 ELSE Plan!Existing(g)[u]]
          IN  /\ Plan!IsNext(g)
              /\ made' = [x \in DOMAIN made |-> IF x \in more THEN made[x] + 1 ELSE made[x]]
              /\ run' = [run EXCEPT
                   !.done = Plan!Put(@, g,
                              [@[g] EXCEPT !.units = seeds, !.missing = run.of[g] \ answered]),
                   !.at = "create", !.left = @ \ {g}]
    BY <2>1
  <2> QED
    BY <2>2, Zenon
<1> DEFINE rec == [run.done[g] EXCEPT !.units = seeds, !.missing = run.of[g] \ answered]
<1>2. UNCHANGED <<content, manifest>>
  BY DEF Plan!Submit
<1>3. g \in Plan!Groups /\ g \in DOMAIN run.of /\ g \in DOMAIN run.done
  BY <1>1, GroupsOfPlans DEF Running, IngestInv
<1>4. made' \in [D -> Nat] /\ \A x \in D : made[x] <= made'[x]
  BY <1>1
<1>5. Seeds(manifest'.entries, made') /\ Seeds(run.done, made') /\ Seeds(run.old, made')
  BY <1>1, <1>2, <1>4, SeedsGrow DEF IngestInv, Running
<1> DEFINE done == Plan!Put(run.done, g, rec)
<1>6. /\ rec.seed \in 1 .. made'[g] /\ DOMAIN rec = Fields
      /\ \A u \in run.of[g] : u \in DOMAIN rec.units \cup rec.missing
  <2>1. DOMAIN run.done[g] = Fields /\ run.done[g].seed \in 1 .. made'[g]
    BY <1>3, <1>5 DEF Seeds
  <2>2. rec.seed = run.done[g].seed /\ rec.units = seeds /\ DOMAIN rec = DOMAIN run.done[g]
        /\ rec.missing = run.of[g] \ answered /\ DOMAIN seeds = answered
    BY <2>1 DEF Fields
  <2> QED
    BY <2>1, <2>2
<1>7. /\ run'.done = done /\ run'.old = run.old /\ run'.of = run.of
      /\ DOMAIN run' = RunFields
      /\ run'.at = "create" /\ run'.left = run.left \ {g}
  BY <1>1 DEF Running
<1>8. Seeds(done, made')
  BY <1>3, <1>5, <1>6, PutFact
<1>9. Covers(done, run.of, run'.left)
  <2>1. Covers(done, run.of, run.left \ {g})
    BY <1>1, <1>3, <1>5, <1>6, PutCovers DEF Running
  <2> QED
    BY <1>7, <2>1
<1> HIDE DEF done, D
<1>11. run'.at \in {"none", "create", "submit"} /\ run'.left \subseteq DOMAIN run'.of /\ run'.of \in Contents
  BY <1>1, <1>7 DEF Running
<1>12. made' \in [Plan!Groups \cup Plan!Units -> Nat]
  BY <1>4 DEF D
<1>13. (manifest.hash # "none" /\ ~manifest.partial => Covers(manifest.entries, manifest.of, {}))'
  BY <1>2 DEF IngestInv
<1>14. content' \in Contents
  BY <1>2 DEF IngestInv
<1> QED
  BY <1>5, <1>7, <1>8, <1>9, <1>11, <1>12, <1>13, <1>14 DEF IngestInv

LEMMA IngestStep == IngestInv /\ [Plan!Next]_ingestVars => IngestInv'
<1> SUFFICES ASSUME IngestInv, [Plan!Next]_ingestVars PROVE IngestInv'
  OBVIOUS
<1>1. CASE Plan!Edit
  <2>1. content' \in Contents /\ UNCHANGED <<manifest, made, run>>
    BY <1>1 DEF Plan!Edit
  <2> QED
    BY <2>1 DEF IngestInv, Plan!IsNext
<1>2. ASSUME NEW anew \in BOOLEAN, Plan!Begin(anew) PROVE IngestInv'
  <2>1. /\ run' = [at |-> "create", left |-> DOMAIN content, of |-> content, hash |-> stamp,
                   done |-> <<>>,
                   old |-> IF anew \/ Plan!Classify = "new" THEN <<>> ELSE manifest.entries]
        /\ UNCHANGED <<content, manifest, made>>
    BY <1>2 DEF Plan!Begin
  <2>2. /\ run'.at = "create" /\ run'.left = DOMAIN content /\ run'.of = content
        /\ run'.done = <<>> /\ run'.old \in {<<>>, manifest.entries}
        /\ DOMAIN run' = RunFields
    BY <2>1 DEF RunFields
  <2>3. Seeds(<<>>, made) /\ Covers(<<>>, content, DOMAIN content)
    BY DEF Seeds, Covers
  <2>4. Seeds(run'.done, made) /\ Seeds(run'.old, made) /\ Covers(run'.done, run'.of, run'.left)
    BY <2>2, <2>3 DEF IngestInv
  <2> QED
    BY <2>1, <2>2, <2>4 DEF IngestInv
<1>3. CASE Plan!Fail
  <2>1. /\ run'.at = "none" /\ UNCHANGED <<content, made>> /\ run.at # "none"
        /\ \/ UNCHANGED manifest
           \/ manifest' = [hash |-> run.hash, partial |-> TRUE, of |-> run.of, entries |-> run.done]
    BY <1>3 DEF Plan!Fail, Plan!NoRun, Plan!UpdateManifest
  <2>2. Seeds(manifest'.entries, made)
    BY <2>1 DEF IngestInv
  <2>3. (manifest.hash # "none" /\ ~manifest.partial => Covers(manifest.entries, manifest.of, {}))'
    BY <2>1 DEF IngestInv
  <2> QED
    BY <2>1, <2>2, <2>3 DEF IngestInv
<1>4. CASE Plan!Finish
  <2>1. /\ run'.at = "none" /\ UNCHANGED <<content, made>> /\ run.at # "none" /\ run.left = {}
        /\ manifest' = [hash |-> run.hash, partial |-> FALSE, of |-> run.of, entries |-> run.done]
    BY <1>4 DEF Plan!Finish, Plan!NoRun, Plan!UpdateManifest
  <2>2. Seeds(manifest'.entries, made) /\ Covers(manifest'.entries, manifest'.of, {})
    BY <2>1 DEF IngestInv
  <2> QED
    BY <2>1, <2>2 DEF IngestInv
<1>5. CASE Plan!Killed
  <2>1. run'.at = "none" /\ UNCHANGED <<content, manifest, made>>
    BY <1>5 DEF Plan!Killed, Plan!NoRun
  <2> QED
    BY <2>1 DEF IngestInv
<1>6. CASE UNCHANGED ingestVars
  BY <1>6 DEF ingestVars, IngestInv, Plan!IsNext
<1> QED
  BY <1>1, <1>2, <1>3, <1>4, <1>5, <1>6, CreateStep, SubmitStep DEF Plan!Next

-----------------------------------------------------------------------------
(* Upgrades of databases *)

\* The step s comes before the k-th of the open of a store.
Past(st, k, s) == \E i \in 1 .. k - 1 : Db!Steps[st][i] = s
Kinds == {"create", "rebuild", "rename", "c1", "c2", "import"}

\* What the order of the steps is good for.
Ordered(st) ==
  LET P == Db!Steps[st]  L == Len(P) IN
    /\ L \in Nat /\ L >= 2 /\ DOMAIN P = 1 .. L
    /\ \A k \in 1 .. L :
         /\ P[k] \in Kinds
         /\ P[k] \in {"rename", "c1", "c2", "import"} => st # "mail" /\ Past(st, k, "create")
         /\ P[k] = "import" => Past(st, k, "rename")
         /\ P[k] = "create" /\ st = "mail" => Past(st, k, "rebuild")
         /\ P[k] = "rebuild" /\ st = "metrics" =>
              Past(st, k, "create") /\ Past(st, k, "rename") /\ Past(st, k, "c1") /\ Past(st, k, "c2")
         /\ P[k] = "rebuild" => st # "queue" /\ (st = "mail" => k = 1)
    /\ Past(st, L + 1, "create")
    /\ st # "mail" => Past(st, L + 1, "rename")
    /\ st # "queue" => Past(st, L + 1, "rebuild")
    /\ st \in {"sessions", "metrics"} => Past(st, L + 1, "c1") /\ Past(st, L + 1, "c2")

LEMMA SessionsOrdered == Ordered("sessions")
<1> DEFINE P == Db!Steps["sessions"]
<1>1. /\ Len(P) = 6 /\ DOMAIN P = 1 .. 6 /\ P[1] = "create" /\ P[2] = "rebuild" /\ P[3] = "rename"
      /\ P[4] = "c1" /\ P[5] = "c2" /\ P[6] = "import"
  BY DEF Db!Steps
<1> HIDE DEF P
<1>2. ASSUME NEW k \in 1 .. 7, NEW i \in 1 .. 6, i < k PROVE Past("sessions", k, P[i])
  BY <1>2 DEF Past, P
<1>3. /\ \A k \in 2 .. 7 : Past("sessions", k, "create")
      /\ \A k \in 3 .. 7 : Past("sessions", k, "rebuild")
      /\ \A k \in 4 .. 7 : Past("sessions", k, "rename")
      /\ Past("sessions", 7, "c1") /\ Past("sessions", 7, "c2")
  <2>1. ASSUME NEW k \in 2 .. 7 PROVE Past("sessions", k, P[1])
    BY <1>2
  <2>2. ASSUME NEW k \in 3 .. 7 PROVE Past("sessions", k, P[2])
    BY <1>2
  <2>3. ASSUME NEW k \in 4 .. 7 PROVE Past("sessions", k, P[3])
    BY <1>2
  <2>4. Past("sessions", 7, P[4]) /\ Past("sessions", 7, P[5])
    BY <1>2
  <2> QED
    BY <1>1, <2>1, <2>2, <2>3, <2>4
<1>4. \A k \in 1 .. 6 : /\ P[k] \in Kinds
                        /\ P[k] \in {"rename", "c1", "c2", "import"} => k \in 2 .. 7
                        /\ P[k] = "import" => k \in 4 .. 7
  BY <1>1 DEF Kinds
<1> QED
  BY <1>1, <1>3, <1>4 DEF Ordered, P

LEMMA MetricsOrdered == Ordered("metrics")
<1> DEFINE P == Db!Steps["metrics"]
<1>1. /\ Len(P) = 5 /\ DOMAIN P = 1 .. 5 /\ P[1] = "create" /\ P[2] = "rename" /\ P[3] = "c1"
      /\ P[4] = "c2" /\ P[5] = "rebuild"
  BY DEF Db!Steps
<1> HIDE DEF P
<1>2. ASSUME NEW k \in 1 .. 6, NEW i \in 1 .. 5, i < k PROVE Past("metrics", k, P[i])
  BY <1>2 DEF Past, P
<1>3. /\ \A k \in 2 .. 6 : Past("metrics", k, "create")
      /\ \A k \in 3 .. 6 : Past("metrics", k, "rename")
      /\ \A k \in 4 .. 6 : Past("metrics", k, "c1")
      /\ \A k \in 5 .. 6 : Past("metrics", k, "c2")
      /\ Past("metrics", 6, "rebuild")
  <2>1. ASSUME NEW k \in 2 .. 6 PROVE Past("metrics", k, P[1])
    BY <1>2
  <2>2. ASSUME NEW k \in 3 .. 6 PROVE Past("metrics", k, P[2])
    BY <1>2
  <2>3. ASSUME NEW k \in 4 .. 6 PROVE Past("metrics", k, P[3])
    BY <1>2
  <2>4. ASSUME NEW k \in 5 .. 6 PROVE Past("metrics", k, P[4])
    BY <1>2
  <2>5. Past("metrics", 6, P[5])
    BY <1>2
  <2> QED
    BY <1>1, <2>1, <2>2, <2>3, <2>4, <2>5
<1>4. \A k \in 1 .. 5 : /\ P[k] \in Kinds
                        /\ P[k] \in {"rename", "c1", "c2", "import"} => k \in 2 .. 6
                        /\ P[k] # "import"
                        /\ P[k] = "rebuild" => k = 5
  BY <1>1 DEF Kinds
<1> QED
  BY <1>1, <1>3, <1>4 DEF Ordered, P

LEMMA QueueOrdered == Ordered("queue")
<1> DEFINE P == Db!Steps["queue"]
<1>1. Len(P) = 2 /\ DOMAIN P = 1 .. 2 /\ P[1] = "create" /\ P[2] = "rename"
  BY DEF Db!Steps
<1> HIDE DEF P
<1>2. ASSUME NEW k \in 1 .. 3, NEW i \in 1 .. 2, i < k PROVE Past("queue", k, P[i])
  BY <1>2 DEF Past, P
<1>3. /\ Past("queue", 2, "create") /\ Past("queue", 3, "create") /\ Past("queue", 3, "rename")
  <2>1. Past("queue", 2, P[1]) /\ Past("queue", 3, P[1]) /\ Past("queue", 3, P[2])
    BY <1>2
  <2> QED
    BY <1>1, <2>1
<1>4. \A k \in 1 .. 2 : /\ P[k] \in Kinds
                        /\ P[k] \in {"rename", "c1", "c2", "import"} => k = 2
                        /\ P[k] # "import" /\ P[k] # "rebuild"
  BY <1>1 DEF Kinds
<1> QED
  BY <1>1, <1>3, <1>4 DEF Ordered, P

LEMMA MailOrdered == Ordered("mail")
<1> DEFINE P == Db!Steps["mail"]
<1>1. Len(P) = 2 /\ DOMAIN P = 1 .. 2 /\ P[1] = "rebuild" /\ P[2] = "create"
  BY DEF Db!Steps
<1> HIDE DEF P
<1>2. ASSUME NEW k \in 1 .. 3, NEW i \in 1 .. 2, i < k PROVE Past("mail", k, P[i])
  BY <1>2 DEF Past, P
<1>3. /\ Past("mail", 2, "rebuild") /\ Past("mail", 3, "rebuild") /\ Past("mail", 3, "create")
  <2>1. Past("mail", 2, P[1]) /\ Past("mail", 3, P[1]) /\ Past("mail", 3, P[2])
    BY <1>2
  <2> QED
    BY <1>1, <2>1
<1>4. \A k \in 1 .. 2 : /\ P[k] \in Kinds
                        /\ P[k] \notin {"rename", "c1", "c2", "import"}
                        /\ P[k] = "create" => k = 2
                        /\ P[k] = "rebuild" => k = 1
  BY <1>1 DEF Kinds
<1> QED
  BY <1>1, <1>3, <1>4 DEF Ordered, P

LEMMA ProgramFact == \A st \in DOMAIN Db!Steps : Ordered(st)
<1>1. DOMAIN Db!Steps = {"sessions", "mail", "metrics", "queue"}
  BY DEF Db!Steps
<1> QED
  BY <1>1, SessionsOrdered, MailOrdered, MetricsOrdered, QueueOrdered

LEMMA PastFact ==
  ASSUME NEW st \in DOMAIN Db!Steps, NEW s
  PROVE  /\ ~Past(st, 0, s) /\ ~Past(st, 1, s)
         /\ \A k \in 1 .. Len(Db!Steps[st]) :
              Past(st, k + 1, s) <=> Past(st, k, s) \/ Db!Steps[st][k] = s
<1>1. ~Past(st, 0, s) /\ ~Past(st, 1, s)
  BY DEF Past
<1>2. Len(Db!Steps[st]) \in Nat
  BY ProgramFact DEF Ordered
<1>3. ASSUME NEW k \in 1 .. Len(Db!Steps[st])
      PROVE  Past(st, k + 1, s) <=> Past(st, k, s) \/ Db!Steps[st][k] = s
  <2>1. k \in Nat /\ k >= 1 /\ 1 .. (k + 1) - 1 = 1 .. k /\ 1 .. k = (1 .. k - 1) \cup {k}
    BY <1>2
  <2> QED
    BY <2>1 DEF Past
<1> QED
  BY <1>1, <1>3

-----------------------------------------------------------------------------
\* Every version of a table has one of the two names of the key, the present schema the second.
OneKey(c) == \/ "bead" \in c /\ "task" \notin c
             \/ "bead" \notin c /\ "task" \in c


TableInv ==
  /\ store \in DOMAIN Db!Steps
  /\ exists => OneKey(cols)
  /\ ~exists => cols = {} /\ ~strict
  /\ store = "mail" => "bead" \notin cols
  /\ store = "queue" => ~strict
  /\ \A r \in DOMAIN cells : cells[r] \cap {"bead", "task"} \subseteq cols
  /\ \A r \in DOMAIN wrote :
       /\ r \in DOMAIN cells
       /\ wrote[r] \cap {"bead", "task"} # {} => cells[r] \cap {"bead", "task"} # {}
\* What an opener knows at its step, and what it saw in its look.
ViewInv(p) ==
  /\ at[p] \in Nat /\ at[p] <= Len(Db!Steps[store]) + 1
  /\ DOMAIN looked[p] = {"cols", "strict", "there", "did", "rows"}
  /\ Past(store, at[p], "create") => exists
  /\ Past(store, at[p], "rename") => "task" \in cols
  /\ looked[p].did =>
       /\ p \in Db!Opening
       /\ looked[p].there => exists /\ OneKey(looked[p].cols)
       /\ "task" \in looked[p].cols => "task" \in cols
       /\ store = "mail" => "bead" \notin looked[p].cols
       /\ Past(store, at[p], "create") => looked[p].there
\* For one that is alone, what it saw is true, and what it did is done.
LoneInv(p) ==
  alone[p] /\ p \in Db!Opening =>
    /\ Db!Opening = {p}
    /\ looked[p].did =>
         looked[p].cols = cols /\ looked[p].strict = strict /\ looked[p].there = exists
    /\ Past(store, at[p], "c1") => "c1" \in cols
    /\ Past(store, at[p], "c2") => "c2" \in cols
    /\ Past(store, at[p], "rebuild") => ~strict
    /\ Past(store, at[p], "rebuild") /\ store = "mail" /\ exists => "c1" \in cols
Upgraded == exists /\ Db!Full \subseteq cols /\ ~strict
MigrateInv ==
  /\ TableInv
  /\ DOMAIN at = Openers /\ DOMAIN looked = Openers
  /\ \A p \in Openers : ViewInv(p) /\ LoneInv(p)
  /\ ~fails
  /\ sound /\ Db!Opening = {} => Upgraded

LEMMA MigrateFact == MigrateInv => Db!UpgradesAreSafe
BY DEF MigrateInv, TableInv, Upgraded, Db!UpgradesAreSafe

LEMMA MigrateInitHolds == Db!Init => MigrateInv
<1> SUFFICES ASSUME Db!Init PROVE MigrateInv
  OBVIOUS
<1>1. store \in DOMAIN Db!Steps /\ wrote = cells /\ ~fails /\ ~sound
  BY DEF Db!Init
<1>2. /\ DOMAIN at = Openers /\ DOMAIN looked = Openers
      /\ \A p \in Openers : at[p] = 0 /\ looked[p] = Db!NoLook
  BY DEF Db!Init
<1>3. TableInv
  <2>1. PICK old \in {"bead", "task"}, more \in SUBSET Db!Added[store] :
          /\ cols = (IF exists THEN {old} \cup more ELSE {})
          /\ store = "mail" => old = "task"
          /\ store = "queue" \/ ~exists => ~strict
    BY DEF Db!Init
  <2>2. Db!Added[store] \subseteq {"c1", "c2"}
    BY <1>1 DEF Db!Added, Db!Steps
  <2>3. \A r \in DOMAIN cells : cells[r] = cols
    BY DEF Db!Init
  <2> QED
    BY <1>1, <2>1, <2>2, <2>3 DEF TableInv, OneKey
<1>4. Len(Db!Steps[store]) \in Nat
  BY <1>1, ProgramFact DEF Ordered
<1>5. ASSUME NEW p \in Openers PROVE ViewInv(p) /\ LoneInv(p)
  <2>1. at[p] = 0 /\ \A s : ~Past(store, at[p], s)
    BY <1>1, <1>2, PastFact
  <2>2. ~looked[p].did /\ DOMAIN looked[p] = {"cols", "strict", "there", "did", "rows"}
    BY <1>2 DEF Db!NoLook
  <2>3. ViewInv(p)
    BY <1>4, <2>1, <2>2 DEF ViewInv
  <2>4. p \notin Db!Opening
    BY <1>1, <2>1, ProgramFact DEF Db!Opening, Db!Program, Ordered
  <2> QED
    BY <2>3, <2>4 DEF LoneInv
<1> QED
  BY <1>1, <1>2, <1>3, <1>5 DEF MigrateInv

\* A process that leaves off, because it dies or because an upgrade of it throws.
LEMMA LeaveStep ==
  ASSUME MigrateInv, NEW p \in Openers, p \in Db!Opening,
         at' = [at EXCEPT ![p] = 0], looked' = [looked EXCEPT ![p] = Db!NoLook],
         ~sound', ~fails', UNCHANGED <<store, cols, exists, strict, cells, wrote, alone>>
  PROVE  MigrateInv'
<1>1. TableInv'
  BY DEF MigrateInv, TableInv
<1>2. DOMAIN at' = Openers /\ DOMAIN looked' = Openers
  BY DEF MigrateInv
<1>3. store \in DOMAIN Db!Steps
  BY DEF MigrateInv, TableInv
<1>4. ASSUME NEW q \in Openers PROVE ViewInv(q)' /\ LoneInv(q)'
  <2>1. CASE q = p
    <3>1. at'[q] = 0 /\ \A s : ~Past(store, at'[q], s)
      BY <1>3, <2>1, PastFact DEF MigrateInv
    <3>2. ~looked'[q].did /\ DOMAIN looked'[q] = {"cols", "strict", "there", "did", "rows"}
      BY <2>1 DEF MigrateInv, Db!NoLook
    <3>3. Len(Db!Steps[store]) \in Nat /\ DOMAIN Db!Steps[store] = 1 .. Len(Db!Steps[store])
      BY <1>3, ProgramFact DEF Ordered
    <3>4. ViewInv(q)'
      BY <3>1, <3>2, <3>3 DEF ViewInv
    <3>5. q \notin Db!Opening'
      BY <3>1, <3>3 DEF Db!Opening, Db!Program
    <3> QED
      BY <3>4, <3>5 DEF LoneInv
  <2>2. CASE q # p
    <3>1. at'[q] = at[q] /\ looked'[q] = looked[q]
      BY <2>2 DEF MigrateInv
    <3>4. q \in Db!Opening' <=> q \in Db!Opening
      BY <3>1 DEF Db!Opening, Db!Program
    <3>2. ViewInv(q)'
      BY <3>1, <3>4 DEF MigrateInv, ViewInv
    <3>3. ~(alone[q] /\ q \in Db!Opening)
      BY <2>2 DEF MigrateInv, LoneInv
    <3> QED
      BY <3>2, <3>3, <3>4 DEF LoneInv
  <2> QED
    BY <2>1, <2>2
<1> QED
  BY <1>1, <1>2, <1>4 DEF MigrateInv

\* A process that did its step.
LEMMA PassStep ==
  ASSUME MigrateInv, NEW p \in Openers, p \in Db!Opening, Db!Pass(p),
         UNCHANGED <<store, alone>>, TableInv',
         exists => exists', "task" \in cols => "task" \in cols',
         Db!Step(p) = "create" => exists', Db!Step(p) = "rename" => "task" \in cols',
         alone[p] =>
           /\ "c1" \in cols \/ Db!Step(p) = "c1" => "c1" \in cols'
           /\ (Past(store, at[p], "c2") /\ "c2" \in cols) \/ Db!Step(p) = "c2" => "c2" \in cols'
           /\ ~strict \/ Db!Step(p) = "rebuild" => ~strict'
           /\ (Past(store, at[p], "rebuild") \/ Db!Step(p) = "rebuild") /\ store = "mail" /\ exists' =>
                "c1" \in cols'
  PROVE  MigrateInv'
<1> DEFINE L == Len(Db!Steps[store])
           k == at[p]
<1>1. /\ store \in DOMAIN Db!Steps /\ L \in Nat /\ DOMAIN Db!Steps[store] = 1 .. L
      /\ k \in 1 .. L /\ Db!Step(p) = Db!Steps[store][k]
  BY ProgramFact DEF MigrateInv, TableInv, Ordered, Db!Opening, Db!Program, Db!Step
<1>2. /\ at' = [at EXCEPT ![p] = k + 1] /\ looked' = [looked EXCEPT ![p] = Db!NoLook]
      /\ sound' = (IF k = L THEN alone[p] ELSE sound) /\ fails' = fails
  BY DEF Db!Pass, Db!Program
<1>3. DOMAIN at' = Openers /\ DOMAIN looked' = Openers /\ ~fails' /\ at'[p] = k + 1
  BY <1>2 DEF MigrateInv
<1>4. ASSUME NEW s
      PROVE  Past(store, at'[p], s) <=> Past(store, k, s) \/ Db!Step(p) = s
  <2>1. Past(store, k + 1, s) <=> Past(store, k, s) \/ Db!Steps[store][k] = s
    BY <1>1, PastFact, Zenon
  <2> QED
    BY <1>1, <1>3, <2>1, Zenon
<1>5. ViewInv(p) /\ LoneInv(p)
  BY DEF MigrateInv
<1>6. ViewInv(p)'
  <2>1. ~looked'[p].did /\ DOMAIN looked'[p] = {"cols", "strict", "there", "did", "rows"}
    BY <1>2 DEF MigrateInv, Db!NoLook
  <2>2. Past(store, at'[p], "create") => exists'
    BY <1>4, <1>5 DEF ViewInv
  <2>3. Past(store, at'[p], "rename") => "task" \in cols'
    BY <1>4, <1>5 DEF ViewInv
  <2>4. at'[p] \in Nat /\ at'[p] <= L + 1
    BY <1>1, <1>3
  <2> QED
    BY <2>1, <2>2, <2>3, <2>4 DEF ViewInv
<1>7. ASSUME alone[p]
      PROVE  /\ Past(store, at'[p], "c1") => "c1" \in cols'
             /\ Past(store, at'[p], "c2") => "c2" \in cols'
             /\ Past(store, at'[p], "rebuild") => ~strict'
             /\ Past(store, at'[p], "rebuild") /\ store = "mail" /\ exists' => "c1" \in cols'
  BY <1>4, <1>5, <1>7 DEF LoneInv
<1>8. \A q \in Openers : q # p => at'[q] = at[q] /\ looked'[q] = looked[q]
  BY <1>2 DEF MigrateInv
<1>9. /\ Db!Opening' \subseteq Db!Opening /\ (k # L => p \in Db!Opening')
      /\ \A q \in Openers : q # p => (q \in Db!Opening' <=> q \in Db!Opening)
  <2>1. \A q \in Openers : q # p => (q \in Db!Opening' <=> q \in Db!Opening)
    BY <1>8 DEF Db!Opening, Db!Program
  <2>2. k # L => k + 1 \in DOMAIN Db!Steps[store]
    BY <1>1
  <2>3. k # L => p \in Db!Opening'
    BY <1>3, <2>2 DEF Db!Opening, Db!Program
  <2> QED
    BY <2>1, <2>3 DEF Db!Opening
<1>10. LoneInv(p)'
  <2>1. ~looked'[p].did
    BY <1>2 DEF MigrateInv, Db!NoLook
  <2>2. ASSUME alone[p], p \in Db!Opening' PROVE Db!Opening' = {p}
    BY <1>5, <1>9, <2>2 DEF LoneInv
  <2> QED
    BY <1>7, <2>1, <2>2 DEF LoneInv
<1>11. ASSUME NEW q \in Openers, q # p PROVE ViewInv(q)' /\ LoneInv(q)'
  <2>1. ViewInv(q)'
    BY <1>8, <1>9, <1>11 DEF MigrateInv, ViewInv
  <2>2. ~(alone[q] /\ q \in Db!Opening)
    BY <1>11 DEF MigrateInv, LoneInv
  <2> QED
    BY <1>9, <2>1, <2>2 DEF LoneInv
<1>12. ASSUME sound', Db!Opening' = {} PROVE Upgraded'
  <2>1. k = L /\ alone[p]
    BY <1>2, <1>9, <1>12
  <2>2. at'[p] = L + 1
    BY <1>3, <2>1
  <2>3. exists'
    BY <1>1, <1>6, <2>2, ProgramFact DEF ViewInv, Ordered
  <2>4. OneKey(cols') /\ (store = "mail" => "bead" \notin cols')
    BY <2>3 DEF TableInv
  <2>5. "task" \in cols'
    BY <1>1, <1>6, <2>2, <2>4, ProgramFact DEF ViewInv, Ordered, OneKey
  <2>6. ~strict'
    BY <1>1, <1>7, <2>1, <2>2, ProgramFact DEF Ordered, TableInv
  <2>7. store \in {"sessions", "metrics"} => "c1" \in cols' /\ "c2" \in cols'
    BY <1>1, <1>7, <2>1, <2>2, ProgramFact DEF Ordered
  <2>8. store = "mail" => "c1" \in cols'
    BY <1>1, <1>7, <2>1, <2>2, <2>3, ProgramFact DEF Ordered
  <2>9. Db!Full' \subseteq cols'
    <3>1. /\ store \in {"sessions", "mail", "metrics", "queue"} /\ store' = store
          /\ store = "sessions" => Db!Added[store] = {"c1", "c2"}
          /\ store = "metrics" => Db!Added[store] = {"c1", "c2"}
          /\ store = "mail" => Db!Added[store] = {"c1"}
          /\ store = "queue" => Db!Added[store] = {}
      BY <1>1 DEF Db!Steps, Db!Added
    <3> QED
      BY <2>5, <2>7, <2>8, <3>1 DEF Db!Full
  <2> QED
    BY <2>3, <2>6, <2>9 DEF Upgraded
<1> QED
  BY <1>3, <1>6, <1>10, <1>11, <1>12 DEF MigrateInv

LEMMA OpenStep ==
  ASSUME MigrateInv, NEW p \in Openers, Db!Open(p)
  PROVE  MigrateInv'
<1>1. /\ at[p] = 0 /\ at' = [at EXCEPT ![p] = 1]
      /\ alone' = [q \in Openers |-> IF q = p THEN Db!Opening = {} ELSE alone[q] /\ q \notin Db!Opening]
      /\ UNCHANGED <<store, cols, exists, strict, cells, wrote, looked, fails, sound>>
  BY DEF Db!Open, Db!table
<1>2. TableInv'
  BY <1>1 DEF MigrateInv, TableInv
<1>3. /\ store \in DOMAIN Db!Steps /\ Len(Db!Steps[store]) \in Nat /\ Len(Db!Steps[store]) >= 2
      /\ DOMAIN Db!Steps[store] = 1 .. Len(Db!Steps[store])
  BY ProgramFact DEF MigrateInv, TableInv, Ordered
<1>4. /\ at'[p] = 1 /\ \A q \in Openers : q # p => at'[q] = at[q]
      /\ DOMAIN at' = Openers /\ DOMAIN looked' = Openers
  BY <1>1 DEF MigrateInv
<1>5. /\ Db!Opening' = Db!Opening \cup {p} /\ p \notin Db!Opening
  <2>1. 1 \in DOMAIN Db!Steps[store] /\ 0 \notin DOMAIN Db!Steps[store]
    BY <1>3
  <2>2. store' = store
    BY <1>1
  <2> QED
    BY <1>1, <1>4, <2>1, <2>2, Zenon DEF Db!Opening, Db!Program
<1>6. ASSUME NEW q \in Openers, q # p PROVE ViewInv(q)' /\ LoneInv(q)'
  <2>1. ViewInv(q)'
    BY <1>1, <1>4, <1>5, <1>6 DEF MigrateInv, ViewInv
  <2>2. alone'[q] => q \notin Db!Opening
    BY <1>1, <1>6
  <2>3. q \in Db!Opening' => q \in Db!Opening
    BY <1>5, <1>6
  <2> QED
    BY <2>1, <2>2, <2>3 DEF LoneInv
<1>7. \A s : ~Past(store, at'[p], s) /\ ~Past(store, at[p], s)
  BY <1>1, <1>3, <1>4, PastFact
<1>8. ViewInv(p)'
  <2>1. ~looked'[p].did /\ DOMAIN looked'[p] = {"cols", "strict", "there", "did", "rows"}
    BY <1>1, <1>5 DEF MigrateInv, ViewInv
  <2> QED
    BY <1>1, <1>3, <1>4, <1>7, <2>1 DEF ViewInv
<1>9. LoneInv(p)'
  <2>1. ~looked'[p].did
    BY <1>1, <1>5 DEF MigrateInv, ViewInv
  <2>2. alone'[p] => Db!Opening' = {p}
    BY <1>1, <1>5
  <2> QED
    BY <1>7, <1>1, <2>1, <2>2 DEF LoneInv
<1> QED
  BY <1>1, <1>2, <1>4, <1>5, <1>6, <1>8, <1>9 DEF MigrateInv

LEMMA LookStep ==
  ASSUME MigrateInv, NEW p \in Openers, Db!Look(p)
  PROVE  MigrateInv'
<1>1. /\ p \in Db!Opening
      /\ looked' = [looked EXCEPT ![p] = [cols |-> cols, strict |-> strict, there |-> exists,
           did |-> TRUE, rows |-> IF born[p] \/ cells = <<>> THEN json ELSE {}]]
      /\ UNCHANGED <<store, cols, exists, strict, cells, wrote, at, alone, fails, sound>>
  BY DEF Db!Look, Db!table, Db!ghosts
<1>2. TableInv'
  BY <1>1 DEF MigrateInv, TableInv
<1>3. /\ DOMAIN looked' = Openers /\ \A q \in Openers : q # p => looked'[q] = looked[q]
      /\ looked'[p].cols = cols /\ looked'[p].strict = strict /\ looked'[p].there = exists
      /\ DOMAIN looked'[p] = {"cols", "strict", "there", "did", "rows"}
  BY <1>1 DEF MigrateInv
<1>4. Db!Opening' = Db!Opening
  BY <1>1 DEF Db!Opening, Db!Program
<1>5. ASSUME NEW q \in Openers, q # p PROVE ViewInv(q)' /\ LoneInv(q)'
  BY <1>1, <1>3, <1>4, <1>5 DEF MigrateInv, ViewInv, LoneInv
<1>6. ViewInv(p)'
  BY <1>1, <1>3, <1>4 DEF MigrateInv, ViewInv, TableInv
<1>7. LoneInv(p)'
  BY <1>1, <1>3, <1>4 DEF MigrateInv, LoneInv
<1>8. sound' /\ Db!Opening' = {} => Upgraded'
  BY <1>1, <1>4
<1> QED
  BY <1>1, <1>2, <1>3, <1>5, <1>6, <1>7, <1>8 DEF MigrateInv

LEMMA CreateTableStep ==
  ASSUME MigrateInv, NEW p \in Openers, Db!Create(p)
  PROVE  MigrateInv'
<1>1. /\ p \in Db!Opening /\ Db!Pass(p) /\ Db!Step(p) = "create"
      /\ exists' = TRUE /\ cols' = (IF exists THEN cols ELSE Db!Full)
      /\ UNCHANGED <<store, alone, strict, cells, wrote>>
  BY DEF Db!Create, Db!Rest
<1>2. store \in DOMAIN Db!Steps /\ Db!Full = {"task"} \cup Db!Added[store]
  BY DEF MigrateInv, TableInv, Db!Full
<1>3. /\ Db!Full \subseteq {"task", "c1", "c2"} /\ "task" \in Db!Full
      /\ store = "mail" => "c1" \in Db!Full
  BY <1>2 DEF Db!Steps, Db!Added
<1>4. TableInv'
  BY <1>1, <1>3 DEF MigrateInv, TableInv, OneKey
<1>5. ASSUME alone[p]
      PROVE  /\ "c1" \in cols => "c1" \in cols'
             /\ "c2" \in cols => "c2" \in cols'
             /\ ~strict => ~strict'
             /\ Past(store, at[p], "rebuild") /\ store = "mail" /\ exists' => "c1" \in cols'
  BY <1>1, <1>3, <1>5 DEF MigrateInv, TableInv, LoneInv
<1>6. "task" \in cols => "task" \in cols'
  BY <1>1, <1>3
<1> QED
  BY <1>1, <1>4, <1>5, <1>6, PassStep

\* A step that throws was not alone: what it saw is no longer so.
LEMMA ThrowStep ==
  ASSUME MigrateInv, NEW p \in Openers, p \in Db!Opening, Db!Throw(p), ~alone[p],
         UNCHANGED <<store, wrote, alone>>
  PROVE  MigrateInv'
<1>1. /\ at' = [at EXCEPT ![p] = 0] /\ looked' = [looked EXCEPT ![p] = Db!NoLook]
      /\ ~sound' /\ UNCHANGED <<cols, exists, strict, cells>> /\ fails' = (fails \/ alone[p])
  BY DEF Db!Throw, Db!table
<1>2. ~fails'
  BY <1>1 DEF MigrateInv
<1> QED
  BY <1>1, <1>2, LeaveStep

LEMMA RenameStep ==
  ASSUME MigrateInv, NEW p \in Openers, Db!Rename(p)
  PROVE  MigrateInv'
<1>1. /\ p \in Db!Opening /\ Db!Step(p) = "rename" /\ looked[p].did
      /\ UNCHANGED <<store, alone, wrote>>
  BY DEF Db!Rename, Db!Rest
<1>2. /\ looked[p].there /\ OneKey(looked[p].cols) /\ exists
      /\ "task" \in looked[p].cols => "task" \in cols
      /\ store # "mail"
  <2>1. /\ store \in DOMAIN Db!Steps /\ at[p] \in 1 .. Len(Db!Steps[store])
        /\ Db!Steps[store][at[p]] = "rename"
    BY <1>1, ProgramFact DEF MigrateInv, TableInv, Ordered, Db!Opening, Db!Program, Db!Step
  <2>2. Past(store, at[p], "create") /\ store # "mail"
    BY <2>1, ProgramFact DEF Ordered
  <2> QED
    BY <1>1, <2>2 DEF MigrateInv, ViewInv
<1>3. CASE "bead" \notin looked[p].cols
  <2>1. Db!Pass(p) /\ UNCHANGED <<cols, exists, strict, cells>>
    BY <1>3 DEF Db!Rename, Db!table
  <2>2. TableInv'
    BY <1>1, <2>1 DEF MigrateInv, TableInv
  <2>3. "task" \in cols'
    BY <1>2, <1>3, <2>1 DEF OneKey
  <2> QED
    BY <1>1, <1>2, <2>1, <2>2, <2>3, PassStep
<1>4. CASE "bead" \in looked[p].cols /\ "bead" \notin cols
  <2>1. Db!Throw(p)
    BY <1>4 DEF Db!Rename
  <2>2. ~alone[p]
    BY <1>1, <1>4 DEF MigrateInv, LoneInv
  <2> QED
    BY <1>1, <2>1, <2>2, ThrowStep
<1>5. CASE "bead" \in looked[p].cols /\ "bead" \in cols
  <2>1. /\ Db!Pass(p) /\ UNCHANGED <<exists, strict>>
        /\ cols' = Db!Renamed(cols) /\ cells' = [r \in DOMAIN cells |-> Db!Renamed(cells[r])]
    BY <1>5 DEF Db!Rename
  <2>2. ASSUME NEW c
        PROVE  /\ "bead" \notin Db!Renamed(c)
               /\ "task" \in Db!Renamed(c) <=> "task" \in c \/ "bead" \in c
               /\ "c1" \in Db!Renamed(c) <=> "c1" \in c
               /\ "c2" \in Db!Renamed(c) <=> "c2" \in c
    BY DEF Db!Renamed
  <2>3. /\ "bead" \notin cols' /\ "task" \in cols' /\ ("c1" \in cols' <=> "c1" \in cols)
        /\ ("c2" \in cols' <=> "c2" \in cols)
    BY <1>5, <2>1, <2>2
  <2>4. \A r \in DOMAIN cells' : cells'[r] \cap {"bead", "task"} \subseteq cols'
    BY <2>1, <2>2, <2>3
  <2>5. \A r \in DOMAIN wrote' :
          /\ r \in DOMAIN cells'
          /\ wrote'[r] \cap {"bead", "task"} # {} => cells'[r] \cap {"bead", "task"} # {}
    BY <1>1, <2>1, <2>2 DEF MigrateInv, TableInv
  <2>6. TableInv'
    BY <1>1, <1>2, <2>1, <2>3, <2>4, <2>5 DEF MigrateInv, TableInv, OneKey
  <2> QED
    BY <1>1, <1>2, <2>1, <2>3, <2>6, PassStep
<1> QED
  BY <1>3, <1>4, <1>5

LEMMA AddColumnStep ==
  ASSUME MigrateInv, NEW p \in Openers, Db!AddColumn(p)
  PROVE  MigrateInv'
<1> PICK s : s = Db!Step(p)
  OBVIOUS
<1>1. /\ p \in Db!Opening /\ s \in {"c1", "c2"} /\ looked[p].did /\ s = Db!Step(p)
      /\ UNCHANGED <<store, alone, wrote>>
  BY DEF Db!AddColumn, Db!Rest
<1>2. exists /\ store # "mail"
  <2>1. /\ store \in DOMAIN Db!Steps /\ at[p] \in 1 .. Len(Db!Steps[store])
        /\ Db!Steps[store][at[p]] = s
    BY <1>1, ProgramFact DEF MigrateInv, TableInv, Ordered, Db!Opening, Db!Program, Db!Step
  <2>2. Past(store, at[p], "create") /\ store # "mail"
    BY <1>1, <2>1, ProgramFact DEF Ordered
  <2> QED
    BY <1>1, <2>2 DEF MigrateInv, ViewInv
<1>3. CASE s \in looked[p].cols
  <2>1. Db!Pass(p) /\ UNCHANGED <<cols, exists, strict, cells>>
    BY <1>1, <1>3 DEF Db!AddColumn, Db!table
  <2>2. TableInv'
    BY <1>1, <2>1 DEF MigrateInv, TableInv
  <2>3. alone[p] => s \in cols'
    BY <1>1, <1>3, <2>1 DEF MigrateInv, LoneInv
  <2> QED
    BY <1>1, <1>2, <2>1, <2>2, <2>3, PassStep
<1>4. CASE s \notin looked[p].cols /\ s \in cols
  <2>1. Db!Throw(p)
    BY <1>1, <1>4 DEF Db!AddColumn
  <2>2. ~alone[p]
    BY <1>1, <1>4 DEF MigrateInv, LoneInv
  <2> QED
    BY <1>1, <2>1, <2>2, ThrowStep
<1>5. CASE s \notin looked[p].cols /\ s \notin cols
  <2>1. Db!Pass(p) /\ UNCHANGED <<exists, strict, cells>> /\ cols' = cols \cup {s}
    BY <1>1, <1>5 DEF Db!AddColumn
  <2>2. TableInv'
    BY <1>1, <1>2, <2>1 DEF MigrateInv, TableInv, OneKey
  <2> QED
    BY <1>1, <1>2, <2>1, <2>2, PassStep
<1> QED
  BY <1>3, <1>4, <1>5

LEMMA RebuildStep ==
  ASSUME MigrateInv, NEW p \in Openers, Db!Rebuild(p)
  PROVE  MigrateInv'
<1> DEFINE seen == looked[p].cols
<1>1. /\ p \in Db!Opening /\ Db!Step(p) = "rebuild" /\ looked[p].did
      /\ UNCHANGED <<store, alone, wrote>>
  BY DEF Db!Rebuild, Db!Rest
<1>2. /\ looked[p].there => exists /\ OneKey(seen)
      /\ "task" \in seen => "task" \in cols
      /\ store = "mail" => "bead" \notin seen
      /\ exists => OneKey(cols)
      /\ ~exists => ~strict
      /\ alone[p] => seen = cols /\ looked[p].strict = strict /\ looked[p].there = exists
  BY <1>1 DEF MigrateInv, ViewInv, LoneInv, TableInv
<1>3. /\ store \in {"sessions", "mail", "metrics"}
      /\ store \in DOMAIN Db!Steps /\ at[p] \in 1 .. Len(Db!Steps[store])
      /\ Db!Steps[store][at[p]] = "rebuild"
  <2>1. /\ store \in DOMAIN Db!Steps /\ at[p] \in 1 .. Len(Db!Steps[store])
        /\ Db!Steps[store][at[p]] = "rebuild"
    BY <1>1, ProgramFact DEF MigrateInv, TableInv, Ordered, Db!Opening, Db!Program, Db!Step
  <2>2. store # "queue"
    BY <2>1, ProgramFact DEF Ordered
  <2> QED
    BY <2>1, <2>2 DEF Db!Steps
<1>4. /\ store = "mail" => Db!Full = {"task", "c1"}
      /\ store # "mail" => Db!Full = {"task", "c1", "c2"}
  BY <1>3 DEF Db!Full, Db!Added
<1>5. store = "mail" => ~Past(store, at[p], "c2")
  <2>1. store = "mail" => at[p] = 1
    BY <1>3, ProgramFact DEF Ordered
  <2> QED
    BY <1>3, <2>1, PastFact
<1>6. store = "metrics" /\ alone[p] => Db!Full \subseteq cols
  <2>1. store = "metrics" =>
          /\ Past(store, at[p], "rename") /\ Past(store, at[p], "c1") /\ Past(store, at[p], "c2")
    BY <1>3, ProgramFact DEF Ordered
  <2> QED
    BY <1>1, <1>4, <2>1 DEF MigrateInv, ViewInv, LoneInv
<1>7. /\ store = "metrics" => Db!Copied(p) = Db!Full /\ Db!Rebuilt(p) = Db!Full
      /\ store = "sessions" => Db!Copied(p) = seen /\ Db!Rebuilt(p) = seen
      /\ store = "mail" => Db!Copied(p) = seen /\ Db!Rebuilt(p) = Db!Full
  BY DEF Db!Copied, Db!Rebuilt
<1> DEFINE copied == Db!Copied(p)
           rebuilt == Db!Rebuilt(p)
<1> HIDE DEF seen, copied, rebuilt
<1>8. CASE Db!MustRebuild(p) /\ ~(Db!Copied(p) \subseteq cols)
  <2>1. Db!Throw(p)
    BY <1>8 DEF Db!Rebuild
  <2>2. ~alone[p]
    BY <1>2, <1>3, <1>6, <1>7, <1>8
  <2> QED
    BY <1>1, <2>1, <2>2, ThrowStep
<1>9. CASE Db!MustRebuild(p) /\ Db!Copied(p) \subseteq cols
  <2>1. /\ cells' = [r \in DOMAIN cells |-> cells[r] \cap copied]
        /\ cols' = rebuilt /\ strict' = FALSE /\ Db!Pass(p) /\ UNCHANGED exists
    BY <1>9 DEF Db!Rebuild, copied, rebuilt
  <2>2. exists /\ OneKey(seen) /\ OneKey(cols) /\ copied \subseteq cols
    BY <1>2, <1>9 DEF Db!MustRebuild, copied
  <2>3. /\ OneKey(copied) /\ OneKey(rebuilt)
        /\ store = "mail" => "bead" \notin rebuilt
        /\ copied \cap {"bead", "task"} \subseteq rebuilt
        /\ "task" \in cols => "task" \in rebuilt
    BY <1>2, <1>3, <1>4, <1>7, <2>2 DEF OneKey, copied, rebuilt
  <2>4. \A r \in DOMAIN cells' : cells'[r] \cap {"bead", "task"} \subseteq cols'
    BY <2>1, <2>3
  <2>5. ASSUME NEW r \in DOMAIN cells, cells[r] \cap {"bead", "task"} # {}
        PROVE  cells'[r] \cap {"bead", "task"} # {}
    <3>1. cells[r] \cap {"bead", "task"} \subseteq cols /\ cells'[r] = cells[r] \cap copied
      BY <2>1 DEF MigrateInv, TableInv
    <3> QED
      BY <2>2, <2>3, <2>5, <3>1 DEF OneKey
  <2>6. \A r \in DOMAIN wrote' :
          /\ r \in DOMAIN cells'
          /\ wrote'[r] \cap {"bead", "task"} # {} => cells'[r] \cap {"bead", "task"} # {}
    BY <1>1, <2>1, <2>5 DEF MigrateInv, TableInv
  <2>7. TableInv'
    BY <1>1, <2>1, <2>2, <2>3, <2>4, <2>6 DEF MigrateInv, TableInv
  <2>8. ASSUME alone[p]
        PROVE  /\ "c1" \in cols => "c1" \in cols'
               /\ Past(store, at[p], "c2") /\ "c2" \in cols => "c2" \in cols'
               /\ store = "mail" => "c1" \in cols'
    BY <1>2, <1>3, <1>4, <1>5, <1>7, <2>1, <2>8 DEF rebuilt
  <2>9. ~strict'
    BY <2>1
  <2> QED
    BY <1>1, <2>1, <2>2, <2>3, <2>7, <2>8, <2>9, PassStep
<1>10. CASE ~Db!MustRebuild(p) /\ store = "mail" /\ looked[p].there /\ "c1" \notin seen
  <2>1. CASE "c1" \in cols
    <3>1. Db!Throw(p)
      BY <1>10, <2>1 DEF Db!Rebuild, seen
    <3>2. ~alone[p]
      BY <1>2, <1>10, <2>1
    <3> QED
      BY <1>1, <3>1, <3>2, ThrowStep
  <2>2. CASE "c1" \notin cols
    <3>1. Db!Pass(p) /\ UNCHANGED <<exists, strict, cells>> /\ cols' = cols \cup {"c1"}
      BY <1>10, <2>2 DEF Db!Rebuild, seen
    <3>2. TableInv'
      BY <1>1, <1>2, <1>10, <3>1 DEF MigrateInv, TableInv, OneKey
    <3>3. alone[p] => ~strict
      BY <1>2, <1>10 DEF Db!MustRebuild
    <3> QED
      BY <1>1, <3>1, <3>2, <3>3, PassStep
  <2> QED
    BY <2>1, <2>2
<1>11. CASE ~Db!MustRebuild(p) /\ ~(store = "mail" /\ looked[p].there /\ "c1" \notin seen)
  <2>1. Db!Pass(p) /\ UNCHANGED <<cols, exists, strict, cells>>
    BY <1>11 DEF Db!Rebuild, Db!table, seen
  <2>2. TableInv'
    BY <1>1, <2>1 DEF MigrateInv, TableInv
  <2>3. alone[p] => ~strict /\ (store = "mail" /\ exists => "c1" \in cols)
    BY <1>2, <1>11 DEF Db!MustRebuild
  <2> QED
    BY <1>1, <2>1, <2>2, <2>3, PassStep
<1> QED
  BY <1>8, <1>9, <1>10, <1>11

LEMMA ImportStep ==
  ASSUME MigrateInv, NEW p \in Openers, Db!Import(p)
  PROVE  MigrateInv'
<1>1. /\ p \in Db!Opening /\ Db!Step(p) = "import" /\ looked[p].did
      /\ UNCHANGED <<store, alone, wrote, cols, exists, strict>>
  BY DEF Db!Import, Db!Rest
<1>2. exists /\ "task" \in cols /\ store # "mail"
  <2>1. /\ store \in DOMAIN Db!Steps /\ at[p] \in 1 .. Len(Db!Steps[store])
        /\ Db!Steps[store][at[p]] = "import"
    BY <1>1, ProgramFact DEF MigrateInv, TableInv, Ordered, Db!Opening, Db!Program, Db!Step
  <2>2. Past(store, at[p], "create") /\ Past(store, at[p], "rename") /\ store # "mail"
    BY <2>1, ProgramFact DEF Ordered
  <2> QED
    BY <2>2 DEF MigrateInv, ViewInv
<1>3. CASE looked[p].rows = {}
  <2>1. Db!Pass(p) /\ UNCHANGED cells
    BY <1>3 DEF Db!Import
  <2>2. TableInv'
    BY <1>1, <2>1 DEF MigrateInv, TableInv
  <2> QED
    BY <1>1, <1>2, <2>1, <2>2, PassStep
<1>4. CASE looked[p].rows # {}
  <2>1. PICK r :
          /\ looked' = [looked EXCEPT ![p].rows = @ \ {r}]
          /\ cells' = [q \in DOMAIN cells \cup {r} |-> IF q = r THEN {"task"} ELSE cells[q]]
          /\ UNCHANGED <<at, fails, sound>>
    BY <1>4 DEF Db!Import
  <2>2. /\ \A q \in DOMAIN cells' : cells'[q] = {"task"} \/ (q \in DOMAIN cells /\ cells'[q] = cells[q])
        /\ DOMAIN cells \subseteq DOMAIN cells'
    BY <2>1
  <2>3. \A q \in DOMAIN cells' : cells'[q] \cap {"bead", "task"} \subseteq cols'
    BY <1>1, <1>2, <2>2 DEF MigrateInv, TableInv
  <2>4. \A q \in DOMAIN wrote' :
          /\ q \in DOMAIN cells'
          /\ wrote'[q] \cap {"bead", "task"} # {} => cells'[q] \cap {"bead", "task"} # {}
    BY <1>1, <2>2 DEF MigrateInv, TableInv
  <2>5. TableInv'
    BY <1>1, <2>3, <2>4 DEF MigrateInv, TableInv
  <2>6. /\ DOMAIN looked' = Openers /\ \A q \in Openers : q # p => looked'[q] = looked[q]
        /\ DOMAIN looked'[p] = {"cols", "strict", "there", "did", "rows"}
        /\ looked'[p].cols = looked[p].cols /\ looked'[p].strict = looked[p].strict
        /\ looked'[p].there = looked[p].there /\ looked'[p].did = looked[p].did
    BY <2>1 DEF MigrateInv, ViewInv
  <2>7. Db!Opening' = Db!Opening
    BY <1>1, <2>1 DEF Db!Opening, Db!Program
  <2>8. ASSUME NEW q \in Openers PROVE ViewInv(q)' /\ LoneInv(q)'
    <3>1. /\ looked'[q].cols = looked[q].cols /\ looked'[q].strict = looked[q].strict
          /\ looked'[q].there = looked[q].there /\ looked'[q].did = looked[q].did
          /\ DOMAIN looked'[q] = {"cols", "strict", "there", "did", "rows"}
      BY <2>6 DEF MigrateInv, ViewInv
    <3>2. ViewInv(q)'
      BY <1>1, <2>1, <2>7, <3>1 DEF MigrateInv, ViewInv
    <3>3. LoneInv(q)'
      BY <1>1, <2>1, <2>7, <3>1 DEF MigrateInv, LoneInv
    <3> QED
      BY <3>2, <3>3
  <2>9. (sound /\ Db!Opening = {} => Upgraded)'
    BY <1>1, <2>7
  <2>10. DOMAIN at' = Openers /\ ~fails'
    BY <2>1 DEF MigrateInv
  <2> QED
    BY <2>5, <2>6, <2>8, <2>9, <2>10 DEF MigrateInv
<1> QED
  BY <1>3, <1>4

LEMMA MigrateStep == MigrateInv /\ [Db!Next]_storeVars => MigrateInv'
<1> SUFFICES ASSUME MigrateInv, [Db!Next]_storeVars PROVE MigrateInv'
  OBVIOUS
<1>1. ASSUME NEW p \in Openers, NEW r \in Records, Db!Write(p, r) PROVE MigrateInv'
  <2>1. /\ Db!Full \subseteq cols
        /\ cells' = [q \in DOMAIN cells \cup {r} |-> IF q = r THEN Db!Full ELSE cells[q]]
        /\ wrote' = [q \in DOMAIN wrote \cup {r} |-> IF q = r THEN Db!Full ELSE wrote[q]]
        /\ UNCHANGED <<store, cols, exists, strict, at, looked, alone, fails, sound>>
    BY <1>1 DEF Db!Write
  <2>2. TableInv'
    BY <2>1 DEF MigrateInv, TableInv
  <2>3. Db!Opening' = Db!Opening /\ (Upgraded' <=> Upgraded)
    BY <2>1 DEF Db!Opening, Db!Program, Upgraded, Db!Full
  <2>4. ASSUME NEW q \in Openers PROVE ViewInv(q)' /\ LoneInv(q)'
    BY <2>1, <2>3 DEF MigrateInv, ViewInv, LoneInv
  <2> QED
    BY <2>1, <2>2, <2>3, <2>4 DEF MigrateInv
<1>2. ASSUME NEW p \in Openers, Db!Close(p) PROVE MigrateInv'
  <2>1. /\ at[p] = Len(Db!Steps[store]) + 1 /\ at' = [at EXCEPT ![p] = 0]
        /\ UNCHANGED <<store, cols, exists, strict, cells, wrote, looked, alone, fails, sound>>
    BY <1>2 DEF Db!Close, Db!Ready, Db!Program, Db!table, Db!ghosts
  <2>2. /\ store \in DOMAIN Db!Steps /\ Len(Db!Steps[store]) \in Nat
        /\ DOMAIN Db!Steps[store] = 1 .. Len(Db!Steps[store])
    BY ProgramFact DEF MigrateInv, TableInv, Ordered
  <2>3. TableInv'
    BY <2>1 DEF MigrateInv, TableInv
  <2>4. /\ DOMAIN at' = Openers /\ at'[p] = 0 /\ \A q \in Openers : q # p => at'[q] = at[q]
    BY <2>1 DEF MigrateInv
  <2>5. p \notin Db!Opening /\ Db!Opening' = Db!Opening
    <3>1. /\ Len(Db!Steps[store]) + 1 \notin DOMAIN Db!Steps[store]
          /\ 0 \notin DOMAIN Db!Steps[store]
      BY <2>2
    <3>2. store' = store
      BY <2>1
    <3> QED
      BY <2>1, <2>4, <3>1, <3>2, Zenon DEF Db!Opening, Db!Program
  <2>6. ASSUME NEW q \in Openers, q # p PROVE ViewInv(q)' /\ LoneInv(q)'
    BY <2>1, <2>4, <2>5, <2>6 DEF MigrateInv, ViewInv, LoneInv
  <2>7. ViewInv(p)' /\ LoneInv(p)'
    <3>1. ~looked'[p].did /\ DOMAIN looked'[p] = {"cols", "strict", "there", "did", "rows"}
      BY <2>1, <2>5 DEF MigrateInv, ViewInv
    <3>2. \A s : ~Past(store, at'[p], s)
      BY <2>2, <2>4, PastFact
    <3>3. ViewInv(p)'
      BY <2>1, <2>2, <2>4, <3>1, <3>2 DEF ViewInv
    <3> QED
      BY <2>5, <3>3 DEF LoneInv
  <2>8. Upgraded' <=> Upgraded
    BY <2>1 DEF Upgraded, Db!Full
  <2> QED
    BY <2>1, <2>3, <2>4, <2>5, <2>6, <2>7, <2>8 DEF MigrateInv
<1>3. ASSUME NEW p \in Openers, Db!Die(p) PROVE MigrateInv'
  <2>1. /\ p \in Db!Opening /\ at' = [at EXCEPT ![p] = 0]
        /\ looked' = [looked EXCEPT ![p] = Db!NoLook] /\ ~sound'
        /\ UNCHANGED <<store, cols, exists, strict, cells, wrote, alone, fails>>
    BY <1>3 DEF Db!Die, Db!table
  <2>2. ~fails'
    BY <2>1 DEF MigrateInv
  <2> QED
    BY <2>1, <2>2, LeaveStep
<1>4. CASE UNCHANGED storeVars
  <2>1. UNCHANGED <<store, cols, exists, strict, cells, wrote, at, looked, alone, fails, sound>>
    BY <1>4 DEF storeVars
  <2>2. Db!Opening' = Db!Opening /\ (Upgraded' <=> Upgraded)
    BY <2>1 DEF Db!Opening, Db!Program, Upgraded, Db!Full
  <2>3. ASSUME NEW q \in Openers PROVE ViewInv(q)' /\ LoneInv(q)'
    BY <2>1, <2>2 DEF MigrateInv, ViewInv, LoneInv
  <2>4. TableInv'
    BY <2>1 DEF MigrateInv, TableInv
  <2> QED
    BY <2>1, <2>2, <2>3, <2>4 DEF MigrateInv
<1> QED
  BY <1>1, <1>2, <1>3, <1>4, OpenStep, LookStep, CreateTableStep, RenameStep, AddColumnStep,
     RebuildStep, ImportStep DEF Db!Next

-----------------------------------------------------------------------------
(* The commands side by side *)

\* Each takes its own steps only.
LEMMA SideInits ==
  SideInit => /\ Init /\ Doc!FreshRowsStay /\ CleanInv /\ GateInv /\ MigrateInv
              /\ IngestInv /\ GroupInv /\ RootInv /\ RosterInv
<1>1. Doc!Init => Doc!FreshRowsStay
  BY DEF Doc!Init, Doc!FreshRowsStay
<1> QED
  BY <1>1, CleanInitHolds, GateInitHolds, MigrateInitHolds, IngestInitHolds, GroupInitHolds,
     RootInitHolds, RosterInitHolds DEF SideInit

LEMMA SideSteps ==
  [SideNext]_sideVars =>
    /\ [Next]_vars /\ [Doc!Next]_doctorVars /\ [Wipe!Next]_cleanVars /\ [Shutter!GateNext]_gateVars
    /\ [Db!Next]_storeVars /\ [Plan!Next]_ingestVars /\ [Task!Next]_groupVars
    /\ [Conf!Next]_confVars /\ [Roll!RosterNext]_rosterVars
BY DEF SideNext, sideVars

\* Repairs keep the last fresh row of a branch; cleaning takes no worktree or row from an
\* agent that was at work when the command began and whose end by it worked (nothing is said
\* of one slung beside it, one whose kill failed, one of --agent without its pane, or of
\* --sessions alone); a closed task's own work is merged, and upgrades of a database lose no
\* row (commands/doctor.ts, commands/clean.ts, the close gate of a lead, the stores).
THEOREM WorkIsKeptAlways == SideSpec => []WorkIsKept
<1>1. SideSpec => [](Doc!FreshRowsStay /\ CleanInv /\ GateInv /\ MigrateInv)
  <2>1. SideInit => Doc!FreshRowsStay /\ CleanInv /\ GateInv /\ MigrateInv
    BY SideInits
  <2>2. (Doc!FreshRowsStay /\ CleanInv /\ GateInv /\ MigrateInv) /\ [SideNext]_sideVars =>
          (Doc!FreshRowsStay /\ CleanInv /\ GateInv /\ MigrateInv)'
    BY SideSteps, DoctorStep, CleanStep, GateStep, MigrateStep
  <2> QED
    BY <2>1, <2>2, PTL DEF SideSpec
<1>2. Doc!FreshRowsStay /\ CleanInv /\ GateInv /\ MigrateInv => WorkIsKept
  BY MigrateFact DEF WorkIsKept, CleanInv, GateInv
<1> QED
  BY <1>1, <1>2, PTL

\* When a plan file counts as unchanged, the plan last applied with its hash is all there:
\* each of its groups has a seed, and each unit for which sd answered one, for any plans,
\* hashes and answers, whatever fails or is killed.  A completed group holds only issues that
\* were closed at some time while the commands ran (commands/ingest.ts, commands/group.ts).
THEOREM PlansHoldAlways == SideSpec => []PlansHold
<1>1. SideSpec => [](IngestInv /\ GroupInv)
  <2>1. SideInit => IngestInv /\ GroupInv
    BY SideInits
  <2>2. IngestInv /\ GroupInv /\ [SideNext]_sideVars => (IngestInv /\ GroupInv)'
    BY SideSteps, IngestStep, GroupStep
  <2> QED
    BY <2>1, <2>2, PTL DEF SideSpec
<1>2. IngestInv /\ GroupInv => PlansHold
  BY IngestFact DEF PlansHold, GroupInv
<1> QED
  BY <1>1, <1>2, PTL

\* Commands of an agent work in the root of the main checkout; a manifest that loads has a
\* sound index, and a refresh repairs it; what the doctor passes loads, but for an array of
\* definitions and list items of a wrong type, and what loads it faults only for its index and
\* for a role without capability, for any roles the user edits (config.ts resolveProjectRoot,
\* agents/manifest.ts, doctor/agents.ts).
THEOREM SettingsHoldAlways == SideSpec => []SettingsHold
<1>1. SideSpec => [](RootInv /\ RosterInv)
  <2>1. SideInit => RootInv /\ RosterInv
    BY SideInits
  <2>2. RootInv /\ RosterInv /\ [SideNext]_sideVars => (RootInv /\ RosterInv)'
    BY SideSteps, RootStep, RosterStep
  <2> QED
    BY <2>1, <2>2, PTL DEF SideSpec
<1>2. RootInv /\ RosterInv => SettingsHold
  <2>1. RosterInv => RosterTyped
    BY DEF RosterInv
  <2> QED
    BY <2>1, RootFact, LoadedFact, RefreshedFact, DoctorFact DEF SettingsHold
<1> QED
  BY <1>1, <1>2, PTL
=============================================================================
