------------------------------- MODULE Doctor -------------------------------
(***************************************************************************)
(* ov doctor --fix (commands/doctor.ts, doctor/) beside merges and ov      *)
(* init.  Every check reads the project and leaves a closure that fixes    *)
(* what it found; the closures run after the last check.                   *)
(***************************************************************************)
EXTENDS Naturals, Sequences, FiniteSets

CONSTANTS
  Branches,
  MaxRows,    \* bound: rows of the merge queue
  MaxBreaks   \* bound: things that get lost

VARIABLES
  have,       \* what is in order, of Sound
  lock,       \* the lock file of the target: none, young, or older than five minutes
  merging,    \* its holder runs
  queue,      \* rows of merge-queue.db
  lost,       \* fresh rows that were their branch's last and went away unmerged
  breaks,
  doctor      \* the run of ov doctor

vars == <<have, lock, merging, queue, lost, breaks, doctor>>

\* The directory worktrees/, the other directories, the entries of .gitignore,
\* no leftover temp file, and WAL mode of the databases.
Sound == {"worktrees", "dirs", "gitignore", "no temp", "wal"}
Idle == [at |-> "idle"]

Init ==
  /\ have \in {Sound, Sound \ {"worktrees"}} /\ lock = "none" /\ merging = FALSE
  /\ queue = {} /\ lost = FALSE /\ breaks = 0 /\ doctor = Idle

\* initCommand, again, makes all of it; the databases turn to WAL.
InitAgain ==
  /\ have # Sound /\ have' = have \cup (Sound \ {"no temp"})
  /\ UNCHANGED <<lock, merging, queue, lost, breaks, doctor>>

Break ==
  /\ breaks < MaxBreaks /\ breaks' = breaks + 1
  /\ \E x \in have : have' = have \ {x}
  /\ UNCHANGED <<lock, merging, queue, lost, doctor>>

\* A merge takes the lock (a dead holder's, too), takes its time and gives it back.
MergeBegins ==
  /\ ~merging /\ merging' = TRUE /\ lock' = "young"
  /\ UNCHANGED <<have, queue, lost, breaks, doctor>>
MergeTakesLong ==
  /\ lock = "young" /\ lock' = "old"
  /\ UNCHANGED <<have, merging, queue, lost, breaks, doctor>>
MergeEnds(clean) ==
  /\ merging /\ merging' = FALSE /\ lock' = IF clean THEN "none" ELSE lock
  /\ UNCHANGED <<have, queue, lost, breaks, doctor>>

Ids == {r.id : r \in queue}
Last(b) == {r \in queue : r.branch = b /\ \A s \in queue : s.branch = b => s.id <= r.id}

Enqueue(b) ==
  /\ \E n \in 1 .. MaxRows : (\A i \in Ids : i < n)
       /\ queue' = queue \cup {[id |-> n, branch |-> b, open |-> TRUE, old |-> FALSE]}
  /\ UNCHANGED <<have, lock, merging, lost, breaks, doctor>>
RowAges ==
  /\ \E r \in queue : r.open /\ ~r.old /\ queue' = (queue \ {r}) \cup {[r EXCEPT !.old = TRUE]}
  /\ UNCHANGED <<have, lock, merging, lost, breaks, doctor>>
\* updateStatus settles all rows of a branch.
UpdateStatus(b) ==
  /\ queue' = {IF r.branch = b THEN [r EXCEPT !.open = FALSE] ELSE r : r \in queue}
  /\ UNCHANGED <<have, lock, merging, lost, breaks, doctor>>

-----------------------------------------------------------------------------
Stale == {r \in queue : r.open /\ r.old}
Twice == {r \in queue : r \notin Last(r.branch)}

\* What the check of a category finds that it has a closure for.
StructureFinds == ({"worktrees", "dirs", "gitignore", "no temp"} \ have)
                    \cup (IF lock = "old" THEN {"lock"} ELSE {})
DatabaseFinds == {"wal"} \ have
MergeFinds == (IF Stale # {} THEN {"stale"} ELSE {}) \cup (IF Twice # {} THEN {"twice"} ELSE {})

Finds(category) ==
  CASE category = "structure" -> StructureFinds
    [] category = "databases" -> DatabaseFinds
    [] category = "merge" -> MergeFinds
    [] OTHER -> {}

Categories == <<"structure", "databases", "consistency", "merge">>

\* runDoctorChecks: all categories in order, or one.
Begin ==
  /\ doctor = Idle
  /\ \E left \in {Categories} \cup {<<c>> : c \in {Categories[i] : i \in DOMAIN Categories}} :
       doctor' = [at |-> "check", left |-> left, found |-> {}]
  /\ UNCHANGED <<have, lock, merging, queue, lost, breaks>>

\* checkConsistency resolves worktrees/ and throws when it is not there: the
\* command fails, and no closure has run.
Check ==
  /\ doctor.at = "check" /\ doctor.left # <<>>
  /\ LET c == Head(doctor.left)
     IN  doctor' = IF c = "consistency" /\ "worktrees" \notin have THEN Idle
                   ELSE [doctor EXCEPT !.left = Tail(@), !.found = @ \cup Finds(c)]
  /\ UNCHANGED <<have, lock, merging, queue, lost, breaks>>

ChecksEnd ==
  /\ doctor.at = "check" /\ doctor.left = <<>>
  /\ doctor' = IF doctor.found = {} THEN Idle ELSE [at |-> "fix", found |-> doctor.found]
  /\ UNCHANGED <<have, lock, merging, queue, lost, breaks>>

\* Seeded bug for the runs: of the rows of a branch, the first stays.
KeptFirst(fix) ==
  CASE fix = "stale" -> queue \ Stale
    [] fix = "twice" -> {r \in queue : \A s \in queue : s.branch = r.branch => r.id <= s.id}
    [] OTHER -> queue

\* The two statements that delete rows look at the queue again.
Kept(fix) ==
  CASE fix = "stale" -> queue \ Stale
    [] fix = "twice" -> queue \ Twice
    [] OTHER -> queue

\* applyFixes: the closures, one after the other.
Fix ==
  /\ doctor.at = "fix"
  /\ \E fix \in doctor.found :
       /\ have' = have \cup ({fix} \cap Sound)
       /\ lock' = IF fix = "lock" THEN "none" ELSE lock
       /\ queue' = Kept(fix)
       /\ lost' = (lost \/ \E r \in queue \ Kept(fix) : r \in Last(r.branch) /\ ~r.old)
       /\ doctor' = IF doctor.found = {fix} THEN Idle ELSE [doctor EXCEPT !.found = @ \ {fix}]
  /\ UNCHANGED <<merging, breaks>>

Next ==
  \/ InitAgain \/ Break \/ MergeBegins \/ MergeTakesLong \/ MergeEnds(TRUE) \/ MergeEnds(FALSE)
  \/ \E b \in Branches : Enqueue(b) \/ UpdateStatus(b)
  \/ RowAges \/ Begin \/ Check \/ ChecksEnd \/ Fix

-----------------------------------------------------------------------------
\* What the fixes delete from the merge queue is stale or superseded, though the
\* queue moves on between a check and its fix: the last row of a branch stays
\* while it is fresh (doctor/merge-queue.ts:117-160).
FreshRowsStay == ~lost

\* A running merge has its lock file (lock.ts:1-15).  The fix of the stale lock
\* files goes by age alone and deletes a running merge's.
LockStaysHeld == merging => lock # "none"
=============================================================================
