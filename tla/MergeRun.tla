------------------------------ MODULE MergeRun ------------------------------
(***************************************************************************)
(* `ov merge`: the queue of branches, the resolver that lands one of them  *)
(* through its tiers, and the checkout it works in, which is the user's    *)
(* own.  Between two commands the user edits and stages files, the os-eco  *)
(* tools write their state files and agents commit to their branches; a    *)
(* command may be killed between any two steps.  Dry runs take no lock and *)
(* look up and enqueue beside it.                                          *)
(*                                                                         *)
(* A file is known by whose contributions it holds.  git itself is         *)
(* external: merge, stash, commit and checkout do to the checkout what the *)
(* resolver relies on.                                                     *)
(***************************************************************************)
EXTENDS Naturals, Sequences

CONSTANTS
  Files, StateFiles,   \* tracked files; those of the os-eco tools
  Branches,            \* worker branches
  Changed,             \* of <<b, v>>: the files that b changes up to version v
  AiEnabled,           \* merge.aiResolveEnabled
  MaxCommands,         \* bound: merge commands
  MaxEdits,            \* bound: things others do to the checkout
  MaxCrashes           \* bound: kills of a merge command

Versions == 1..2
Commits == Branches \X Versions

ASSUME MergeConstants ==
  /\ StateFiles \subseteq Files
  /\ Changed \in [Commits -> SUBSET Files]
  /\ \A b \in Branches : Changed[<<b, 1>>] \subseteq Changed[<<b, 2>>]
  /\ AiEnabled \in BOOLEAN

\* Who has changed a file: the user, an os-eco tool, a commit of a branch.
None == <<"none", 0>>
User == <<"user", 0>>
Tool == <<"tool", 0>>
Who == {User, Tool} \cup Commits

VARIABLES
  reimagineEnabled,   \* merge.reimagineEnabled, as configured
  tip,         \* of each branch: its newest version
  queue,       \* rows of merge-queue.db in id order
  dry,         \* branches that a dry run found no row of and is about to enqueue
  overlap,     \* branches that two commands have enqueued side by side
  onTarget,    \* whether HEAD is the target branch
  tree,        \* of each file: whose contributions the target has
  ancestors,   \* commits git knows to be merged into the target
  work,        \* of each file: who changed it in the working tree, and stage
  mergeHead,   \* the commit of a merge in progress, or None
  stash,       \* stack of stashed changes, each with the tree it was made on
  untracked,   \* untracked files of the user
  deleted,     \* those the resolver removed, with the commit it was to merge
  pc, todo,    \* progress of the command: step, rows it is to merge
  source,      \* the commit that is being merged
  conflicts,   \* files in conflict, as the resolver believes
  skip,        \* tiers that the conflict history rules out
  didStash,    \* whether this resolve pushed a stash
  ok,          \* whether a tier has succeeded
  commands, edits, crashes   \* counters

co_vars == <<onTarget, tree, ancestors, work, mergeHead, stash, untracked, deleted>>
run_vars == <<todo, source, conflicts, skip, didStash, ok>>
count_vars == <<commands, edits, crashes>>
look_vars == <<dry, overlap>>
vars == <<reimagineEnabled, tip, queue, look_vars, co_vars, pc, run_vars, count_vars>>

Clean == [by |-> None, stage |-> "clean"]
Edit(who, stage) == [by |-> who, stage |-> stage]

Row(b, files) == [branch |-> b, files |-> files, status |-> "pending", landed |-> None]

Steps == {"idle", "enlist", "checkout", "commit", "stash", "untracked", "merge", "auto",
          "ai", "reimagine", "abort", "pop", "record"}

MergeTypeOK ==
  /\ reimagineEnabled \in BOOLEAN
  /\ tip \in [Branches -> Versions]
  /\ \A i \in DOMAIN queue :
       /\ queue[i].branch \in Branches /\ queue[i].files \subseteq Files
       /\ queue[i].status \in {"pending", "merged", "conflict"}
  /\ dry \subseteq Branches /\ overlap \subseteq Branches
  /\ onTarget \in BOOLEAN
  /\ tree \in [Files -> SUBSET Who]
  /\ ancestors \subseteq Commits
  /\ \A f \in Files :
       /\ work[f].by \in Who \cup {None}
       /\ work[f].stage \in {"clean", "unstaged", "staged", "unmerged"}
       /\ work[f].by = None <=> work[f].stage = "clean"
  /\ mergeHead \in Commits \cup {None}
  /\ \A i \in DOMAIN stash : stash[i].edits \in [Files -> Who \cup {None}]
  /\ untracked \subseteq Files /\ deleted \subseteq Files \X Commits
  /\ pc \in Steps
  /\ todo \subseteq DOMAIN queue
  /\ source \in Commits \cup {None}
  /\ conflicts \subseteq Files
  /\ skip \subseteq {"auto", "ai", "reimagine"}
  /\ didStash \in BOOLEAN /\ ok \in BOOLEAN

Init ==
  /\ reimagineEnabled \in BOOLEAN
  /\ tip = [b \in Branches |-> 1]
  /\ queue = <<>> /\ dry = {} /\ overlap = {}
  /\ onTarget = TRUE
  /\ tree = [f \in Files |-> {}]
  /\ ancestors = {}
  /\ work = [f \in Files |-> Clean]
  /\ mergeHead = None
  /\ stash = <<>>
  /\ untracked \in SUBSET (Files \ StateFiles)
  /\ deleted = {}
  /\ pc = "idle" /\ todo = {} /\ source = None
  /\ conflicts = {} /\ skip = {} /\ didStash = FALSE /\ ok = FALSE
  /\ commands = 0 /\ edits = 0 /\ crashes = 0

-----------------------------------------------------------------------------
(* The checkout: what the resolver's git commands do to it *)

Dirty == {f \in Files : work[f].stage # "clean"}
Unmerged == {f \in Files : work[f].stage = "unmerged"}
Staged == {f \in Files : work[f].stage = "staged"}

\* `git commit`: everything staged, and the merge in progress if there is one.
\* It refuses while a file is unmerged and when there is nothing to commit.
CanCommit(w) ==
  /\ \A f \in Files : w[f].stage # "unmerged"
  /\ mergeHead # None \/ \E f \in Files : w[f].stage = "staged"

CommitIndex(w) ==
  /\ tree' = [f \in Files |-> IF w[f].stage = "staged" THEN tree[f] \cup {w[f].by}
                                                       ELSE tree[f]]
  /\ ancestors' = ancestors \cup ({mergeHead} \ {None})
  /\ work' = [f \in Files |-> IF w[f].stage = "staged" THEN Clean ELSE w[f]]
  /\ mergeHead' = None

\* `git merge --abort`: back to before the merge; fails if none is in progress.
AbortMerge ==
  /\ mergeHead' = None
  /\ work' = IF mergeHead = None THEN work ELSE [f \in Files |-> Clean]

\* Files of the source on whose target side somebody else has been since.
Contested ==
  {f \in Changed[source] :
     tree[f] \ {c \in ancestors : c[1] = source[1]} # {}}

-----------------------------------------------------------------------------
(* Others, between two commands *)

Others ==
  /\ pc = "idle"
  /\ edits < MaxEdits
  /\ edits' = edits + 1
  /\ UNCHANGED <<reimagineEnabled, queue, tree, ancestors, mergeHead, stash,
                 untracked, deleted, pc, look_vars,
                 run_vars, commands, crashes>>

\* The user changes a tracked file of the target and may stage it.
UserEdits(f, stage) ==
  /\ Others
  /\ f \notin StateFiles \cup untracked
  /\ work[f].stage = "clean"
  /\ work' = [work EXCEPT ![f] = Edit(User, stage)]
  /\ UNCHANGED <<tip, onTarget>>

\* An os-eco tool writes one of its state files.
ToolWrites(f) ==
  /\ Others
  /\ f \in StateFiles
  /\ work[f].stage = "clean"
  /\ work' = [work EXCEPT ![f] = Edit(Tool, "unstaged")]
  /\ UNCHANGED <<tip, onTarget>>

\* An agent commits again on its branch, for instance after a failed merge.
AgentCommits(b) ==
  /\ Others
  /\ tip[b] = 1
  /\ tip' = [tip EXCEPT ![b] = 2]
  /\ UNCHANGED <<work, onTarget>>

\* The user checks another branch out; changes are carried along.
UserSwitches ==
  /\ Others
  /\ onTarget
  /\ mergeHead = None /\ Unmerged = {}
  /\ onTarget' = FALSE
  /\ UNCHANGED <<tip, work>>

-----------------------------------------------------------------------------
(* Starting a command *)

Least(rows) == CHOOSE i \in rows : \A j \in rows : i <= j

\* The row of b, or 0.
IndexOf(b) ==
  LET rows == {i \in DOMAIN queue : queue[i].branch = b}
  IN  IF rows = {} THEN 0 ELSE Least(rows)

\* enqueue: whatever rows the branch has got since they were looked up.
Enqueue(commit) == queue' = Append(queue, Row(commit[1], Changed[commit]))

Begin(entries, commit) ==
  /\ todo' = entries
  /\ source' = commit
  /\ pc' = "checkout"

\* mergeBranch looks for a row of the branch: `ov merge --branch b` merges the
\* branch, `ov drive` an exact commit of it.
MergeBranch(b, v) ==
  /\ pc = "idle" /\ commands < MaxCommands
  /\ v <= tip[b]
  /\ commands' = commands + 1
  /\ IF IndexOf(b) # 0
       THEN Begin({IndexOf(b)}, <<b, v>>) /\ UNCHANGED overlap
       ELSE /\ pc' = "enlist" /\ source' = <<b, v>> /\ UNCHANGED todo
            /\ overlap' = overlap \cup ({b} \cap dry)
  /\ UNCHANGED <<reimagineEnabled, tip, queue, dry, co_vars, conflicts, skip, didStash, ok,
                 edits, crashes>>

\* If there is none, git is asked for the files of the commit and a row is made.
Enlist ==
  /\ pc = "enlist"
  /\ Enqueue(source)
  /\ Begin({Len(queue) + 1}, source)
  /\ UNCHANGED <<reimagineEnabled, tip, look_vars, co_vars, conflicts, skip, didStash, ok,
                 count_vars>>

\* A dry run merges nothing, but puts the branch into the queue.  It takes no lock.
\* (At most one of a branch at a time.)
DryRun(b) ==
  /\ commands < MaxCommands
  /\ IndexOf(b) = 0 /\ b \notin dry
  /\ commands' = commands + 1
  /\ dry' = dry \cup {b}
  /\ overlap' = IF pc = "enlist" /\ source[1] = b THEN overlap \cup {b} ELSE overlap
  /\ UNCHANGED <<reimagineEnabled, tip, queue, co_vars, pc, run_vars, edits, crashes>>

DryEnlists(b) ==
  /\ b \in dry /\ dry' = dry \ {b}
  /\ Enqueue(<<b, tip[b]>>)
  /\ UNCHANGED <<reimagineEnabled, tip, overlap, co_vars, pc, run_vars, count_vars>>

Pending == {i \in DOMAIN queue : queue[i].status = "pending"}

SourceOf(i) == <<queue[i].branch, tip[queue[i].branch]>>

\* handleAll: the pending entries as listed now, one after the other in id order.
MergeAll ==
  /\ pc = "idle" /\ commands < MaxCommands
  /\ Pending # {}
  /\ commands' = commands + 1
  /\ Begin(Pending, SourceOf(Least(Pending)))
  /\ UNCHANGED <<reimagineEnabled, tip, queue, look_vars, co_vars, conflicts, skip, didStash,
                 ok, edits, crashes>>

Goto(step) == pc' = step

\* The command ends; the lock and the queue handle go with it.
Quit ==
  /\ pc' = "idle" /\ todo' = {} /\ source' = None
  /\ conflicts' = {} /\ skip' = {} /\ didStash' = FALSE /\ ok' = FALSE

Unchanged_else == UNCHANGED <<reimagineEnabled, tip, queue, look_vars, count_vars>>

-----------------------------------------------------------------------------
(* resolve, step by step *)

\* The target is checked out unless it is already; git refuses over an
\* unmerged index, and may refuse over other changes: resolve throws.
Checkout ==
  /\ pc = "checkout"
  /\ \/ /\ onTarget \/ Unmerged = {}
        /\ onTarget' = TRUE
        /\ Goto("commit")
        /\ UNCHANGED run_vars
     \/ /\ ~onTarget /\ Dirty # {}
        /\ Quit
        /\ UNCHANGED onTarget
  /\ UNCHANGED <<tree, ancestors, work, mergeHead, stash, untracked, deleted>>
  /\ Unchanged_else

\* autoCommitStateFiles: `git add` of the dirty state files, `git commit`.
AutoCommit ==
  /\ pc = "commit"
  /\ Goto("stash")
  /\ LET added == [f \in Files |-> IF f \in StateFiles \cap Dirty
                                     THEN Edit(work[f].by, "staged") ELSE work[f]]
     IN  IF StateFiles \cap Dirty # {} /\ CanCommit(added)
           THEN CommitIndex(added)
           ELSE work' = added /\ UNCHANGED <<tree, ancestors, mergeHead>>
  /\ UNCHANGED <<onTarget, stash, untracked, deleted, run_vars>>
  /\ Unchanged_else

\* Whatever is still dirty is stashed; git refuses over an unmerged index and
\* resolve throws.  A merge that somebody left in progress is forgotten.
StashDirty ==
  /\ pc = "stash"
  /\ \/ /\ Dirty = {}
        /\ Goto("untracked")
        /\ UNCHANGED <<work, mergeHead, stash, run_vars>>
     \/ /\ Dirty # {} /\ Unmerged = {}
        /\ stash' = <<[edits |-> [f \in Files |-> work[f].by], base |-> tree]>> \o stash
        /\ work' = [f \in Files |-> Clean]
        /\ mergeHead' = None
        /\ didStash' = TRUE
        /\ Goto("untracked")
        /\ UNCHANGED <<todo, source, conflicts, skip, ok>>
     \/ /\ Unmerged # {}
        /\ Quit
        /\ UNCHANGED <<work, mergeHead, stash>>
  /\ UNCHANGED <<onTarget, tree, ancestors, untracked, deleted>>
  /\ Unchanged_else

EntryFiles == queue[Least(todo)].files

\* Untracked files in the way of the entry's files are deleted.
DeleteUntracked ==
  /\ pc = "untracked"
  /\ untracked' = untracked \ EntryFiles
  /\ deleted' = deleted \cup ((untracked \cap EntryFiles) \X {source})
  /\ Goto("merge")
  /\ UNCHANGED <<onTarget, tree, ancestors, work, mergeHead, stash, run_vars>>
  /\ Unchanged_else

\* A commit of the source with all its files.
Land ==
  /\ tree' = [f \in Files |-> IF f \in Changed[source] THEN tree[f] \cup {source}
                                                       ELSE tree[f]]
  /\ ancestors' = ancestors \cup {source}
  /\ work' = [f \in Files |-> Clean]
  /\ mergeHead' = None

Succeed == ok' = TRUE /\ Goto("pop")

UpToDate == \E c \in ancestors : c[1] = source[1] /\ c[2] >= source[2]

\* Tier 1.  git merges, finds conflicts, or refuses at once over an untracked
\* file that is in the way.  On failure the history is consulted.
CleanMerge ==
  /\ pc = "merge"
  /\ \/ /\ UpToDate
        /\ Succeed
        /\ UNCHANGED <<tree, ancestors, work, mergeHead, conflicts, skip>>
     \/ /\ ~UpToDate /\ untracked \cap Changed[source] = {}
        /\ Land /\ Succeed
        /\ UNCHANGED <<conflicts, skip>>
     \/ /\ ~UpToDate /\ untracked \cap Changed[source] = {}
        /\ \E hit \in (SUBSET Contested) \ {{}} :
             /\ work' = [f \in Files |->
                           IF f \notin Changed[source] THEN work[f]
                           ELSE Edit(source, IF f \in hit THEN "unmerged" ELSE "staged")]
             /\ conflicts' = hit
        /\ mergeHead' = source
        /\ skip' \in SUBSET {"auto", "ai", "reimagine"}
        /\ Goto("auto")
        /\ UNCHANGED <<tree, ancestors, ok>>
     \/ /\ ~UpToDate /\ untracked \cap Changed[source] # {}
        /\ conflicts' = {}
        /\ skip' \in SUBSET {"auto", "ai", "reimagine"}
        /\ Goto("auto")
        /\ UNCHANGED <<tree, ancestors, work, mergeHead, ok>>
  /\ UNCHANGED <<onTarget, stash, untracked, deleted, todo, source, didStash>>
  /\ Unchanged_else

\* Files that a tier resolves are written and added.
Resolved(fixed) ==
  [f \in Files |-> IF f \in fixed THEN Edit(source, "staged") ELSE work[f]]

\* Seeded bug for the runs: the merge is committed although some files were not
\* resolved; the target side of those is kept.
ResolveTierKeepsOurs(next) ==
  \E fixed \in SUBSET conflicts :
    /\ conflicts' = conflicts \ fixed
    /\ tree' = [f \in Files |-> IF f \in Changed[source] \ (conflicts \ fixed)
                                  THEN tree[f] \cup {source} ELSE tree[f]]
    /\ ancestors' = ancestors \cup {source}
    /\ work' = [f \in Files |-> Clean]
    /\ mergeHead' = None
    /\ Succeed

\* Tiers 2 and 3 go through the conflicting files: a file is resolved or not
\* (canonical side not empty, no markers, prose instead of code).  If none is
\* left the merge is committed, which fails if no merge was begun.
ResolveTier(next) ==
  \E fixed \in SUBSET conflicts :
    /\ conflicts' = conflicts \ fixed
    /\ \/ /\ fixed = conflicts /\ CanCommit(Resolved(fixed))
          /\ CommitIndex(Resolved(fixed))
          /\ Succeed
       \/ /\ fixed # conflicts \/ ~CanCommit(Resolved(fixed))
          /\ work' = Resolved(fixed)
          /\ Goto(next)
          /\ UNCHANGED <<tree, ancestors, mergeHead, ok>>

Tier(step, enabled, next) ==
  /\ pc = step
  /\ \/ enabled /\ step \notin skip /\ ResolveTier(next)
     \/ /\ ~enabled \/ step \in skip
        /\ Goto(next)
        /\ UNCHANGED <<tree, ancestors, work, mergeHead, conflicts, ok>>
  /\ UNCHANGED <<onTarget, stash, untracked, deleted, todo, source, skip, didStash>>
  /\ Unchanged_else

AutoResolve == Tier("auto", TRUE, "ai")
AiResolve == Tier("ai", AiEnabled, "reimagine")

\* Tier 4: the merge is aborted and the entry's files are written anew, each
\* added at once, until one fails; a plain commit concludes them.
Reimagine ==
  /\ pc = "reimagine"
  /\ \/ /\ reimagineEnabled /\ "reimagine" \notin skip
        /\ mergeHead' = None
        /\ \/ /\ tree' = [f \in Files |-> IF f \in EntryFiles THEN tree[f] \cup {source}
                                                              ELSE tree[f]]
              /\ work' = [f \in Files |-> Clean]
              /\ Succeed
           \/ \E written \in SUBSET EntryFiles :
                /\ written # EntryFiles
                /\ work' = [f \in Files |-> IF f \in written THEN Edit(source, "staged")
                                                             ELSE Clean]
                /\ Goto("abort")
                /\ UNCHANGED <<tree, ok>>
     \/ /\ ~reimagineEnabled \/ "reimagine" \in skip
        /\ Goto("abort")
        /\ UNCHANGED <<tree, work, mergeHead, ok>>
  /\ UNCHANGED <<onTarget, ancestors, stash, untracked, deleted, todo, source,
                 conflicts, skip, didStash>>
  /\ Unchanged_else

\* Seeded bug for the runs: the failed merge is not aborted.
AbortForgotten ==
  /\ pc = "abort"
  /\ Goto("pop")
  /\ UNCHANGED <<co_vars, run_vars>>
  /\ Unchanged_else

\* All tiers failed.
Abort ==
  /\ pc = "abort"
  /\ AbortMerge
  /\ Goto("pop")
  /\ UNCHANGED <<onTarget, tree, ancestors, stash, untracked, deleted, run_vars>>
  /\ Unchanged_else

\* The stashed files that the merge has changed since: git may find conflicts.
Moved == {f \in Files : stash[1].edits[f] # None /\ stash[1].base[f] # tree[f]}

\* Seeded bugs for the runs: only a success pops; a conflicting pop drops.
PopStashOnSuccess ==
  /\ pc = "pop"
  /\ Goto("record")
  /\ didStash' = (didStash /\ ~ok)
  /\ IF didStash /\ ok
       THEN /\ stash' = Tail(stash)
            /\ work' = [f \in Files |-> IF stash[1].edits[f] = None THEN work[f]
                                        ELSE Edit(stash[1].edits[f], "unstaged")]
       ELSE UNCHANGED <<stash, work>>
  /\ UNCHANGED <<onTarget, tree, ancestors, mergeHead, untracked, deleted, todo,
                 source, conflicts, skip, ok>>
  /\ Unchanged_else

PopStashAndDrop ==
  /\ pc = "pop"
  /\ Goto("record")
  /\ didStash' = FALSE
  /\ IF didStash THEN stash' = Tail(stash) ELSE UNCHANGED stash
  /\ UNCHANGED <<onTarget, tree, ancestors, work, mergeHead, untracked, deleted,
                 todo, source, conflicts, skip, ok>>
  /\ Unchanged_else

\* The finally block: `git stash pop`, whose result is ignored.  It refuses if
\* a stashed file has been changed in the working tree; a conflict with what
\* was merged is left in the file, and the stash is kept.
PopStash ==
  /\ pc = "pop"
  /\ Goto("record")
  /\ \/ ~didStash /\ UNCHANGED <<stash, work, didStash>>
     \/ /\ didStash
        /\ \E f \in Dirty : stash[1].edits[f] # None
        /\ UNCHANGED <<stash, work, didStash>>
     \/ /\ didStash
        /\ \A f \in Dirty : stash[1].edits[f] = None
        /\ \E hit \in SUBSET Moved :
             /\ work' = [f \in Files |->
                           IF stash[1].edits[f] = None THEN work[f]
                           ELSE Edit(stash[1].edits[f],
                                     IF f \in hit THEN "unmerged" ELSE "unstaged")]
             /\ stash' = IF hit = {} THEN Tail(stash) ELSE stash
             /\ didStash' = (hit # {})
  /\ UNCHANGED <<onTarget, tree, ancestors, mergeHead, untracked, deleted, todo,
                 source, conflicts, skip, ok>>
  /\ Unchanged_else

\* updateStatus, for every row of the branch; then the next entry, if any.
Record ==
  /\ pc = "record"
  /\ queue' = [i \in DOMAIN queue |->
                 IF queue[i].branch = source[1]
                   THEN [queue[i] EXCEPT
                           !.status = IF ok THEN "merged" ELSE "conflict",
                           !.landed = IF ok THEN source ELSE @]
                   ELSE queue[i]]
  /\ LET rest == todo \ {Least(todo)}
     IN  IF rest = {}
           THEN Quit
           ELSE /\ Begin(rest, SourceOf(Least(rest)))
                /\ conflicts' = {} /\ skip' = {} /\ didStash' = FALSE /\ ok' = FALSE
  /\ UNCHANGED <<reimagineEnabled, tip, look_vars, co_vars, count_vars>>

\* The command is killed.  The checkout stays as it is; the lock it leaves is
\* stale and the next command takes it over.
Crash ==
  /\ pc # "idle"
  /\ crashes < MaxCrashes
  /\ crashes' = crashes + 1
  /\ Quit
  /\ UNCHANGED <<reimagineEnabled, tip, queue, look_vars, co_vars, commands, edits>>

-----------------------------------------------------------------------------

Next ==
  \/ \E f \in Files : ToolWrites(f) \/ \E s \in {"unstaged", "staged"} : UserEdits(f, s)
  \/ \E b \in Branches : AgentCommits(b) \/ DryRun(b) \/ DryEnlists(b)
                           \/ \E v \in Versions : MergeBranch(b, v)
  \/ UserSwitches \/ MergeAll \/ Enlist
  \/ Checkout \/ AutoCommit \/ StashDirty \/ DeleteUntracked
  \/ CleanMerge \/ AutoResolve \/ AiResolve \/ Reimagine \/ Abort
  \/ PopStash \/ Record \/ Crash

Spec == Init /\ [][Next]_vars

-----------------------------------------------------------------------------
(* Properties *)

InStash(f, entries) == \E i \in DOMAIN entries : entries[i].edits[f] = User

\* A change of a tracked file that the user had in the working tree survives every
\* merge command, failed, aborted or killed: it is still there, in the stash, or
\* committed.  An untracked file survives it too, unless the branch at hand has the
\* file: that one is deleted (resolver.ts:741-764), whether or not the merge succeeds.
UserWorkKept ==
  [][/\ \A f \in Files :
          (work[f].by = User \/ InStash(f, stash)) =>
            \/ work'[f].by = User
            \/ InStash(f, stash')
            \/ User \in tree'[f]
     /\ \A f \in untracked \ untracked' : f \in Changed[<<source[1], tip[source[1]]>>]]_vars

\* The target has what commit c did to file f, or what its branch did later.
Holds(f, c) == \E d \in tree[f] : d[1] = c[1] /\ d[2] >= c[2]

\* A row says "merged" only if the target has the commit it was to merge, in
\* every file that commit changes ("the resolver merges EXACTLY this commit").
MergedIsOnTarget ==
  \A i \in DOMAIN queue :
    queue[i].status = "merged" =>
      \A f \in Changed[queue[i].landed] : Holds(f, queue[i].landed)

\* The same where tiers 1 to 3 do the merging.
GitMergeIsOnTarget == ~reimagineEnabled => MergedIsOnTarget

\* A merge that failed leaves nothing behind: when no command runs and none was
\* killed, no content of a branch lies in the working tree, and the target has
\* content of a branch only if a merge of it succeeded.
FailureLeavesNoTrace ==
  pc = "idle" /\ crashes = 0 /\ ~reimagineEnabled =>
    /\ mergeHead = None
    /\ \A f \in Files : work[f].by \notin Commits
    /\ \A f \in Files : tree[f] \cap Commits \subseteq ancestors

\* resolver.test.ts: "After failed merge, the stashed modification should be
\* restored".
StashBackAfterFailure == pc = "record" /\ ~ok => ~didStash

\* The same where no reimagine can leave files in the way of the pop and no
\* killed command has left a merge behind.
StashBackAfterGitMerge == crashes = 0 /\ ~reimagineEnabled => StashBackAfterFailure

\* A branch has one row, however often it is merged, dry-run or retried
\* (merge.ts:257-303).
OneRowPerBranch ==
  \A i, j \in DOMAIN queue : queue[i].branch = queue[j].branch => i = j

\* The same where no two commands looked for the row of the branch, found none and
\* enqueued it side by side; a dry run takes no lock (merge.ts:251-255).
OneRowUnlessOverlap ==
  \A i, j \in DOMAIN queue :
    queue[i].branch = queue[j].branch => i = j \/ queue[i].branch \in overlap

\* What is recorded as merged is on the target, unless reimagines are enabled; a branch has
\* one row, unless it was enqueued side by side; and where no reimagine is enabled and no
\* command was killed, a merge that fails in every tier leaves neither markers nor a merge
\* in progress and the user's stashed work comes back.
MergesHold ==
  GitMergeIsOnTarget /\ FailureLeavesNoTrace /\ StashBackAfterGitMerge /\ OneRowUnlessOverlap

\* "Auto-commit os-eco runtime state files": nothing else enters that commit.
AutoCommitsStateOnly ==
  [][pc = "commit" => \A f \in Files \ StateFiles : tree'[f] = tree[f]]_vars

\* "untracked file deleted before merge (branch version will be used)".
DeletedIsReplaced ==
  pc = "idle" => \A d \in deleted : d[2] \in tree[d[1]]
=============================================================================
