-------------------------------- MODULE Drive --------------------------------
(***************************************************************************)
(* `ov drive <seed>`: one process that runs a seed task to completion.  It *)
(* spawns the top agent, drives the mail of every agent of its run in      *)
(* sweeps until none is live, has each builder branch reviewed, merges     *)
(* what passed, and reports one outcome.  A lead slings further agents     *)
(* from inside its turn: each runs its first turn in the sling's process,  *)
(* not in the driver's.  Branches may move at any time, and a deadline may *)
(* abort any turn the driver awaits.                                       *)
(*                                                                         *)
(* An agent is named as generateAgentName names it: <<capability, task>>.  *)
(* A commit of a branch is its position on the branch.                     *)
(***************************************************************************)
EXTENDS Naturals, Sequences, FiniteSets, SequencesExt

CONSTANTS
  Seed,             \* the seed task
  TopCapability,    \* --capability: "lead" or "builder"
  Kids,             \* agents that the lead may sling
  Correspondents,   \* bound: agents that other agents write mail to
  MaxTurns,         \* --max-turns
  NoProgressLimit,  \* quiescent sweeps before the breaker trips (3)
  NoMerge,          \* --no-merge
  Background,       \* a turn may end while its slings still run
  MaxHead,          \* bound: commits on a branch
  MaxMail           \* bound: verdict mails

Top == <<TopCapability, Seed>>
Builders == {a \in Kids \cup {Top} : a[1] = "builder"}
Reviewer(b) == <<"reviewer", b[2]>>
Agents == Kids \cup {Top} \cup {Reviewer(b) : b \in Builders}
Nobody == <<"nobody", Seed>>

ASSUME DriveConstants ==
  /\ TopCapability \in {"lead", "builder"}
  /\ IsFiniteSet(Kids) /\ Kids \subseteq {"builder", "scout"} \X {k[2] : k \in Kids}
  /\ MaxTurns \in Nat \ {0} /\ NoProgressLimit \in Nat \ {0} /\ MaxHead \in Nat \ {0}
  /\ {NoMerge, Background} \subseteq BOOLEAN

VARIABLES
  state,     \* of each agent: its session row
  rows,      \* agents of the run in the order their rows were inserted
  slinging,  \* agents whose `ov sling` has not inserted its row yet
  away,      \* agents whose first turn runs in their sling
  unread,    \* agents with unread mail
  head,      \* of each builder: the newest commit of its branch
  landed,    \* of each builder: the commit merged into the target, or 0
  mail,      \* verdict mails: <<sender, verdict>> in rowid order
  seed,      \* status of the seed task
  expired,   \* the wall-clock deadline has passed
  pc,        \* where the driver is
  turn,      \* the agent whose turn the driver awaits
  turns,     \* turnsUsed
  loop,      \* which sweep loop runs: "main" or "review"
  todo, drove, quiet,   \* runSweepEngine: rest of the sweep, its turns, counter
  builders,  \* builder sessions found by reconcile, in order
  results,   \* branchResults
  reviewed,  \* reviewedSha of the branch at hand
  snapshot,  \* reviewMailSeqSnapshot
  result,    \* the DriveResult
  saw,       \* ghost, of each builder: the commit its reviewer checked out
  said,      \* ghost, of each builder: the last verdict of its reviewer
  driven,    \* ghost: turns the driver ran
  killed     \* ghost: agents whose turn the deadline aborted

world == <<slinging, away, unread, head, mail, saw, said>>
engine == <<loop, todo, drove, quiet>>
review == <<builders, results, reviewed, snapshot>>
ghosts == <<driven, killed>>
vars == <<state, rows, world, landed, seed, expired, pc, turn, turns, engine,
          review, result, ghosts>>

Places == {"seed", "seedTurn", "loop", "sweep", "dispatch", "reconcile", "branch",
           "review", "reviewTurn", "verdict", "predict", "recheck", "merge",
           "tally", "gates", "done"}

Outcomes == {"merged", "merged_partial", "no_op", "failed", "review_failed",
             "merge_blocked", "breaker", "integration_failed",
             "integration_unverified"}

NoResult == [outcome |-> "none", breaker |-> "none", merged |-> {}, seed |-> "open"]

Live == {a \in Agents : state[a] = "live"}
IsBuilder(a) == a[1] = "builder"
Branch == builders[Len(results) + 1]
KindsOf(kind) == {i \in DOMAIN results : results[i].kind = kind}
MergedNames == {results[i].branch : i \in KindsOf("merged")}

Init ==
  /\ state = [a \in Agents |-> "none"]
  /\ rows = <<>> /\ slinging = {} /\ away = {} /\ unread = {}
  /\ head = [b \in Builders |-> 0]
  /\ landed = [b \in Builders |-> 0]
  /\ mail \in {<<>>} \cup {<< <<Reviewer(b), "pass">> >> : b \in Builders}
  /\ seed = "open" /\ expired = FALSE
  /\ pc = "seed" /\ turn = Nobody /\ turns = 0
  /\ loop = "main" /\ todo = {} /\ drove = FALSE /\ quiet = 0
  /\ builders = <<>> /\ results = <<>> /\ reviewed = 0 /\ snapshot = 0
  /\ result = NoResult
  /\ saw = [b \in Builders |-> 0] /\ said = [b \in Builders |-> "none"]
  /\ driven = 0 /\ killed = {}

-----------------------------------------------------------------------------
(* Breakers and the exit point *)

DeadlineBreaker == IF expired THEN "timeout" ELSE "none"
Breaker == IF turns >= MaxTurns THEN "max-turns" ELSE DeadlineBreaker

\* `finish`: rows still live are ended and the status of the seed is read.
EndWith(outcome, breaker, merged, status) ==
  /\ state' = [a \in Agents |-> IF a \in Live THEN "zombie" ELSE state[a]]
  /\ seed' = status
  /\ result' = [outcome |-> outcome, breaker |-> breaker, merged |-> merged,
                seed |-> status]
  /\ pc' = "done"
  /\ turn' = Nobody
  /\ UNCHANGED <<rows, world, expired, turns, engine, review>>

Finish(outcome, status) ==
  EndWith(outcome, "none", MergedNames, status) /\ UNCHANGED landed

\* Seeded bug for the runs: merges before the breaker are not reported.
TripForgetsMerges(breaker) ==
  EndWith("breaker", breaker, {}, seed) /\ UNCHANGED landed

Trip(breaker) == EndWith("breaker", breaker, MergedNames, seed) /\ UNCHANGED landed

\* Seeded bug for the runs: a killed turn is a failed one.
FailedOnly == Finish("failed", seed)

\* What a spawn that threw or a session found dead is reported as.
FailedOrTimedOut == IF expired THEN Trip("timeout") ELSE Finish("failed", seed)

\* The outer catch.
Abandon == Finish("failed", seed)

-----------------------------------------------------------------------------
(* Turns *)

HasRow(a) == \E i \in DOMAIN rows : rows[i] = a
Position(a) == CHOOSE i \in DOMAIN rows : rows[i] = a

\* The agents of a set in the order of their rows.
InRowOrder(set) ==
  {s \in SetToSeqs(set) :
     \A i, j \in DOMAIN s : i < j => Position(s[i]) < Position(s[j])}

\* Seeded bug for the runs: the row does not carry the id of the run.
SpawnedWithoutRun(a) ==
  /\ state' = [state EXCEPT ![a] = "live"]
  /\ rows' = rows
  /\ head' = IF IsBuilder(a) THEN [head EXCEPT ![a] = 1] ELSE head

\* The session row, and the branch of a builder.
Spawned(a) ==
  /\ state' = [state EXCEPT ![a] = "live"]
  /\ rows' = IF HasRow(a) THEN rows ELSE Append(rows, a)
  /\ head' = IF IsBuilder(a) THEN [head EXCEPT ![a] = 1] ELSE head

\* How a turn ends: with a clean result; without one, the mail of its batch
\* read or to be retried; killed by the stall timer or the deadline.
Ends == {"clean", "left", "retry", "killed"}

\* The row after the turn, by the legal moves of the session store.
Settled(a, how) ==
  IF how = "clean" THEN "completed"
  ELSE IF how = "killed" /\ state[a] = "live" THEN "zombie"
  ELSE state[a]

\* A turn is not over while an `ov sling` it runs in the foreground is.  The
\* abort of the deadline overrides however the turn was about to end.
MayEnd(how) ==
  /\ expired => how = "killed"
  /\ how = "killed" \/ Background \/ slinging \cup away = {}

\* The driver's await of runTurn returns.
TurnEnds(how) ==
  /\ turn # Nobody
  /\ MayEnd(how)
  /\ state' = [state EXCEPT ![turn] = Settled(turn, how)]
  /\ unread' = IF pc = "dispatch" /\ how \in {"retry", "killed"}
               THEN unread \cup {turn} ELSE unread
  /\ killed' = IF expired THEN killed \cup {turn} ELSE killed
  /\ driven' = driven + 1
  /\ turn' = Nobody
  /\ UNCHANGED <<rows, slinging, away, head, mail, landed, seed, expired, review,
                 result, saw, said>>

EnterLoop(which) ==
  /\ loop' = which /\ quiet' = 0 /\ todo' = {} /\ drove' = FALSE
  /\ pc' = "loop"

-----------------------------------------------------------------------------
(* The seed *)

SeedTrips ==
  /\ pc = "seed"
  /\ Breaker # "none"
  /\ Trip(Breaker)
  /\ UNCHANGED ghosts

\* A guard of spawnDriveAgent, the worktree or the start of the turn throws.
SeedRefused ==
  /\ pc \in {"seed", "seedTurn"}
  /\ FailedOrTimedOut
  /\ UNCHANGED ghosts

SpawnSeed ==
  /\ pc = "seed"
  /\ Breaker = "none"
  /\ Spawned(Top)
  /\ turn' = Top
  /\ pc' = "seedTurn"
  /\ UNCHANGED <<slinging, away, unread, mail, saw, said, landed, seed, expired,
                 turns, engine, review, result, ghosts>>

SeedTurnEnds(how) ==
  /\ pc = "seedTurn"
  /\ TurnEnds(how)
  /\ turns' = turns + 1
  /\ EnterLoop("main")

-----------------------------------------------------------------------------
(* runSweepEngine *)

BeforeDispatch == pc = "loop" \/ (pc = "sweep" /\ todo # {})

LoopEnds ==
  /\ BeforeDispatch
  /\ Live = {}
  /\ pc' = IF loop = "main" THEN "reconcile" ELSE "verdict"
  /\ UNCHANGED <<state, rows, world, landed, seed, expired, turn, turns, engine,
                 review, result, ghosts>>

LoopTrips ==
  /\ BeforeDispatch
  /\ Live # {}
  /\ Breaker # "none"
  /\ Trip(Breaker)
  /\ UNCHANGED ghosts

SweepBegins ==
  /\ pc = "loop"
  /\ Live # {} /\ Breaker = "none"
  /\ todo' = Live
  /\ drove' = FALSE
  /\ pc' = "sweep"
  /\ UNCHANGED <<state, rows, world, landed, seed, expired, turn, turns, loop, quiet,
                 review, result, ghosts>>

\* Agent a is the next of the sweep.
MayDispatch(a) ==
  /\ pc = "sweep" /\ a \in todo
  /\ \A b \in todo : Position(a) <= Position(b)
  /\ Live # {} /\ Breaker = "none"

\* dispatchUnreadOnce finds no mail.
SkipAgent(a) ==
  /\ MayDispatch(a)
  /\ a \notin unread
  /\ todo' = todo \ {a}
  /\ UNCHANGED <<state, rows, world, landed, seed, expired, pc, turn, turns, loop,
                 drove, quiet, review, result, ghosts>>

\* It drives a turn once the turn lock of the agent is free.
Dispatch(a) ==
  /\ MayDispatch(a)
  /\ a \in unread \ away
  /\ turn' = a
  /\ todo' = todo \ {a}
  /\ unread' = unread \ {a}
  /\ pc' = "dispatch"
  /\ UNCHANGED <<state, rows, slinging, away, head, mail, saw, said, landed, seed,
                 expired, turns, loop, drove, quiet, review, result, ghosts>>

\* The lock does not become free within its timeout: runTurn throws.
DispatchLocked(a) ==
  /\ MayDispatch(a)
  /\ a \in unread \cap away
  /\ Abandon
  /\ UNCHANGED ghosts

DispatchEnds(how) ==
  /\ pc = "dispatch"
  /\ TurnEnds(how)
  /\ turns' = turns + 1
  /\ drove' = TRUE
  /\ pc' = "sweep"
  /\ UNCHANGED <<loop, todo, quiet>>

\* runTurn throws while it sets the turn up or reads its output.
DispatchThrows ==
  /\ pc = "dispatch"
  /\ Abandon
  /\ UNCHANGED ghosts

\* Seeded bug for the runs: a sweep without a turn is not counted.
SweepEndsUncounted ==
  /\ pc = "sweep" /\ todo = {}
  /\ pc' = "loop"
  /\ UNCHANGED <<state, rows, world, landed, seed, expired, turn, turns, engine,
                 review, result, ghosts>>

SweepEnds ==
  /\ pc = "sweep" /\ todo = {}
  /\ \/ /\ drove \/ quiet + 1 < NoProgressLimit
        /\ quiet' = IF drove THEN 0 ELSE quiet + 1
        /\ pc' = "loop"
        /\ UNCHANGED <<state, rows, world, landed, seed, expired, turn, turns, loop,
                       todo, drove, review, result>>
     \/ /\ ~drove /\ quiet + 1 >= NoProgressLimit
        /\ Trip("no-progress")
  /\ UNCHANGED ghosts

-----------------------------------------------------------------------------
(* Reconcile: review and merge each builder branch *)

Reconcile ==
  /\ pc = "reconcile"
  /\ LET found == {b \in Builders : HasRow(b)}
     IN \/ state[Top] = "zombie" /\ FailedOrTimedOut
        \/ state[Top] # "zombie" /\ found = {} /\ Finish("no_op", seed)
        \/ /\ state[Top] # "zombie" /\ found # {}
           /\ builders' \in InRowOrder(found)
           /\ pc' = "branch"
           /\ UNCHANGED <<state, rows, world, landed, seed, expired, turn, turns,
                          engine, results, reviewed, snapshot, result>>
  /\ UNCHANGED ghosts

\* reviewAndMergeBranch returns; the loop over the builders goes on.
Conclude(kind) ==
  /\ results' = Append(results, [branch |-> Branch, kind |-> kind])
  /\ pc' = IF Len(results) + 1 < Len(builders) THEN "branch" ELSE "tally"
  /\ turn' = Nobody
  /\ UNCHANGED <<rows, world, seed, expired, turns, engine, builders, reviewed,
                 snapshot, result, ghosts>>

Proceed(place) ==
  /\ pc' = place
  /\ UNCHANGED <<rows, world, seed, expired, turn, turns, engine, review, result,
                 ghosts>>

\* Seeded bug for the runs: mail from before the review counts as its verdict.
PickBranchWithoutSnapshot ==
  /\ pc = "branch"
  /\ Breaker = "none"
  /\ reviewed' = head[Branch]
  /\ snapshot' = 0
  /\ pc' = "review"
  /\ UNCHANGED <<state, rows, world, landed, seed, expired, turn, turns, engine,
                 builders, results, result, ghosts>>

\* The sha and the mail rowid are taken before the reviewer is spawned.
PickBranch ==
  /\ pc = "branch"
  /\ Breaker = "none"
  /\ reviewed' = head[Branch]
  /\ snapshot' = Len(mail)
  /\ pc' = "review"
  /\ UNCHANGED <<state, rows, world, landed, seed, expired, turn, turns, engine,
                 builders, results, result, ghosts>>

BranchTrips ==
  /\ pc = "branch"
  /\ Breaker # "none"
  /\ Trip(Breaker)
  /\ UNCHANGED ghosts

\* The reviewer's worktree is made from the branch as it is now.
SpawnReviewer ==
  /\ pc = "review"
  /\ Spawned(Reviewer(Branch))
  /\ saw' = [saw EXCEPT ![Branch] = head[Branch]]
  /\ turn' = Reviewer(Branch)
  /\ pc' = "reviewTurn"
  /\ UNCHANGED <<slinging, away, unread, mail, said, landed, seed, expired, turns,
                 engine, review, result, ghosts>>

\* spawnDriveAgent throws before the turn or in it; it ends the row itself.
ReviewerRefused ==
  /\ pc \in {"review", "reviewTurn"}
  /\ \/ expired /\ Trip("timeout") /\ UNCHANGED ghosts
     \/ /\ ~expired
        /\ Conclude("failed")
        /\ state' = IF turn = Nobody THEN state ELSE [state EXCEPT ![turn] = "zombie"]
        /\ UNCHANGED landed

\* Seeded bug for the runs: the reviewer's first turn is free.
ReviewTurnEndsUncounted(how) ==
  /\ pc = "reviewTurn"
  /\ TurnEnds(how)
  /\ UNCHANGED turns
  /\ EnterLoop("review")

ReviewTurnEnds(how) ==
  /\ pc = "reviewTurn"
  /\ TurnEnds(how)
  /\ turns' = turns + 1
  /\ EnterLoop("review")

\* A verdict of the reviewer after the snapshot, and the newest of them.
After == {i \in DOMAIN mail : i > snapshot /\ mail[i][1] = Reviewer(Branch)}
Verdict(v) == \E i \in After : mail[i][2] = v /\ \A j \in After : j <= i

\* A dead reviewer gives no verdict; only an exact PASS goes on to the merge.
Judged ==
  \/ Verdict("fail") /\ Conclude("review_failed")
  \/ (After = {} \/ Verdict("unknown")) /\ Conclude("failed")
  \/ Verdict("pass") /\ NoMerge /\ Conclude("no_op")
  \/ Verdict("pass") /\ ~NoMerge /\ Proceed("predict")

ReadVerdict ==
  /\ pc = "verdict"
  /\ LET dead == state[Reviewer(Branch)] = "zombie"
     IN \/ dead /\ expired /\ Trip("timeout") /\ UNCHANGED ghosts
        \/ /\ (dead /\ ~expired /\ Conclude("failed")) \/ (~dead /\ Judged)
           /\ UNCHANGED <<state, landed>>

\* The dry run: a clean merge, a predicted conflict, or no usable prediction.
Predict ==
  /\ pc = "predict"
  /\ Proceed("recheck") \/ Conclude("merge_blocked") \/ Conclude("failed")
  /\ UNCHANGED <<state, landed>>

\* Seeded bug for the runs: the branch is not looked at again before the merge.
RecheckSkipped ==
  /\ pc = "recheck"
  /\ Proceed("merge")
  /\ UNCHANGED <<state, landed>>

Recheck ==
  /\ pc = "recheck"
  /\ IF head[Branch] = reviewed THEN Proceed("merge") ELSE Conclude("failed")
  /\ UNCHANGED <<state, landed>>

\* The real merge, of exactly the reviewed commit.
Merge ==
  /\ pc = "merge"
  /\ \/ Conclude("merged") /\ landed' = [landed EXCEPT ![Branch] = reviewed]
     \/ Conclude("merge_blocked") /\ UNCHANGED landed
     \/ Conclude("failed") /\ UNCHANGED landed
  /\ UNCHANGED state

\* mergeBranch throws, before git merged or after it: at a write of the queue.
MergeThrows ==
  /\ pc = "merge"
  /\ landed' \in {landed, [landed EXCEPT ![Branch] = reviewed]}
  /\ EndWith("failed", "none", MergedNames, seed)
  /\ UNCHANGED ghosts

-----------------------------------------------------------------------------
(* The outcome *)

\* Seeded bug for the runs: the seed is left as the agents left it.
IncompleteLeavesSeed(outcome) == Finish(outcome, seed)

\* ensureSeedWorkable; the tracker is taken to work.
Incomplete(outcome) == Finish(outcome, "open")
Complete == Finish("merged", "closed")

\* Seeded bug for the runs: without a merge the first branch decides.
NoneMergedFirst == results[1].kind

\* The first branch that did not end as a no-op decides.
NoneMerged ==
  LET others == DOMAIN results \ KindsOf("no_op")
  IN IF others = {} THEN "no_op"
     ELSE results[CHOOSE i \in others : \A j \in others : i <= j].kind

Tally ==
  /\ pc = "tally"
  /\ LET all == KindsOf("merged") = DOMAIN results
     IN \/ all /\ Len(results) = 1 /\ Complete
        \/ /\ all /\ Len(results) > 1
           /\ pc' = "gates"
           /\ UNCHANGED <<state, rows, world, landed, seed, expired, turn, turns,
                          engine, review, result>>
        \/ ~all /\ KindsOf("merged") # {} /\ Incomplete("merged_partial")
        \/ KindsOf("merged") = {} /\ Finish(NoneMerged, seed)
  /\ UNCHANGED ghosts

\* runQualityGates on the combined result, and the deadline after it; without
\* any gate configured nothing was verified.
Gates ==
  /\ pc = "gates"
  /\ \/ expired /\ Trip("timeout")
     \/ /\ ~expired
        /\ \/ Complete
           \/ Incomplete("integration_failed")
           \/ Incomplete("integration_unverified")
  /\ UNCHANGED ghosts

-----------------------------------------------------------------------------
(* Agents at work, time, and others *)

Running == (({turn} \ {Nobody}) \cup away)

Elsewhere ==
  UNCHANGED <<landed, pc, turn, turns, engine, review, result, ghosts>>

\* An agent sends mail to an agent of the run.
AgentMails(a, to) ==
  /\ a \in Running
  /\ HasRow(to) /\ to \notin unread
  /\ unread' = unread \cup {to}
  /\ UNCHANGED <<state, rows, slinging, away, head, mail, saw, said, seed, expired>>
  /\ Elsewhere

\* A reviewer sends its verdict, readable or not.
SendVerdict(b, v) ==
  /\ turn = Reviewer(b)
  /\ Len(mail) < MaxMail
  /\ mail' = Append(mail, <<turn, v>>)
  /\ said' = [said EXCEPT ![b] = v]
  /\ UNCHANGED <<state, rows, slinging, away, unread, head, saw, seed, expired>>
  /\ Elsewhere

\* A commit on a branch: by its builder, an orphan of it, or a person.
BranchMoves(b) ==
  /\ head[b] \in 1..(MaxHead - 1)
  /\ head' = [head EXCEPT ![b] = @ + 1]
  /\ UNCHANGED <<state, rows, slinging, away, unread, mail, saw, said, seed, expired>>
  /\ Elsewhere

\* A builder or a lead closes the seed task when it is done with it.
AgentClosesSeed(a) ==
  /\ a \in Running /\ a[1] \in {"lead", "builder"}
  /\ seed = "open"
  /\ seed' = "closed"
  /\ UNCHANGED <<state, rows, world, expired>>
  /\ Elsewhere

\* The lead runs `ov sling` in its turn.
Sling(k) ==
  /\ turn = Top /\ TopCapability = "lead"
  /\ k \in Kids \ slinging /\ ~HasRow(k)
  /\ slinging' = slinging \cup {k}
  /\ UNCHANGED <<state, rows, away, unread, head, mail, saw, said, seed, expired>>
  /\ Elsewhere

\* The sling inserts the row and starts the first turn, or gives up.
SlingSpawns(k) ==
  /\ k \in slinging
  /\ slinging' = slinging \ {k}
  /\ Spawned(k)
  /\ away' = away \cup {k}
  /\ UNCHANGED <<unread, mail, saw, said, seed, expired>>
  /\ Elsewhere

SlingFails(k) ==
  /\ k \in slinging
  /\ slinging' = slinging \ {k}
  /\ UNCHANGED <<state, rows, away, unread, head, mail, saw, said, seed, expired>>
  /\ Elsewhere

\* The first turn of a slung agent ends; the driver's deadline is not its own.
AwayEnds(k, how) ==
  /\ k \in away
  /\ state' = [state EXCEPT ![k] = Settled(k, how)]
  /\ away' = away \ {k}
  /\ UNCHANGED <<rows, slinging, unread, head, mail, saw, said, seed, expired>>
  /\ Elsewhere

Expire ==
  /\ ~expired /\ pc # "done"
  /\ expired' = TRUE
  /\ UNCHANGED <<state, rows, world, seed>>
  /\ Elsewhere

-----------------------------------------------------------------------------

SeedStep ==
  SeedTrips \/ SeedRefused \/ SpawnSeed \/ \E how \in Ends : SeedTurnEnds(how)

SweepStep ==
  \/ LoopEnds \/ LoopTrips \/ SweepBegins \/ DispatchThrows \/ SweepEnds
  \/ \E a \in Agents : SkipAgent(a) \/ Dispatch(a) \/ DispatchLocked(a)
  \/ \E how \in Ends : DispatchEnds(how)

ReviewStep ==
  \/ Reconcile \/ PickBranch \/ BranchTrips \/ SpawnReviewer \/ ReviewerRefused
  \/ ReadVerdict \/ Predict \/ Recheck \/ Merge \/ MergeThrows \/ Tally \/ Gates
  \/ \E how \in Ends : ReviewTurnEnds(how)

DriverStep == SeedStep \/ SweepStep \/ ReviewStep

SlingStep ==
  \E k \in Kids : SlingSpawns(k) \/ SlingFails(k) \/ \E how \in Ends : AwayEnds(k, how)

AgentStep ==
  \/ \E a \in Agents, to \in Correspondents : AgentMails(a, to)
  \/ \E b \in Builders : BranchMoves(b) \/ \E v \in {"pass", "fail", "unknown"} : SendVerdict(b, v)
  \/ \E a \in Agents : AgentClosesSeed(a)
  \/ \E k \in Kids : Sling(k)

Next == DriverStep \/ SlingStep \/ AgentStep \/ Expire

Spec == Init /\ [][Next]_vars

\* The driver's own steps, turns included, always come to an end: the stall
\* timer ends a turn that does not end by itself.  So does a sling, whose steps
\* are bounded in the same way.  The deadline is not relied on.
LiveSpec == Spec /\ WF_vars(DriverStep) /\ WF_vars(SlingStep)

-----------------------------------------------------------------------------
(* Properties *)

\* What lands on the target is the very commit the branch's own reviewer had
\* checked out, however the branch moves before, under and after the review.
OnlyReviewedWorkLands ==
  \A b \in Builders : landed[b] # 0 => landed[b] = saw[b]

\* A branch lands only if the last word of its own reviewer, in this run, was
\* PASS: a verdict left in the mailbox by an earlier run counts for nothing.
OnlyPassedWorkLands ==
  \A b \in Builders : landed[b] # 0 => said[b] = "pass"

\* The driver never runs more turns than --max-turns, reviewers included, and
\* blames that budget only when it is used up.
TurnBudgetKept ==
  /\ driven <= MaxTurns
  /\ result.breaker = "max-turns" => driven = MaxTurns

\* Whatever ends the run, breaker or exception, the result names only branches
\* that have changed the target, and all of them (drive.ts:509-517), but for the
\* one at hand when the queue could not be written after git had merged it: the
\* run has then failed (drive.ts:1104).
EveryMergeIsDisclosed ==
  LET changed == {b \in Builders : landed[b] # 0}
  IN  pc = "done" =>
        /\ result.merged \subseteq changed
        /\ \A b \in changed \ result.merged :
             result.outcome = "failed" /\ Len(results) < Len(builders) /\ b = Branch

\* "merged" is said, and the seed closed, only when every builder branch found
\* has landed; when only some have, or the combination was not verified, the
\* seed is left workable although an agent may have closed it.
SeedFollowsOutcome ==
  /\ result.outcome = "merged" =>
       \A i \in DOMAIN builders : landed[builders[i]] # 0
  /\ result.outcome = "merged" => result.seed = "closed"
  /\ result.outcome \in {"merged_partial", "integration_failed",
                         "integration_unverified"} => result.seed = "open"

\* A run that reports it had nothing to merge, which exits 0, has seen a PASS
\* for every builder branch: a failed review of any one of them is not masked.
NoOpMasksNoFailure ==
  result.outcome = "no_op" =>
    \A i \in DOMAIN builders : said[builders[i]] = "pass" /\ landed[builders[i]] = 0

\* When the deadline kills the turn of the top agent or of a reviewer, the run
\* is reported as stopped by a breaker, not as failed and never as a success.
AbortIsBreaker ==
  pc = "done" /\ killed \ Kids # {} => result.outcome = "breaker"

\* When the deadline kills any turn the driver awaits, the run is so reported.
KilledTurnIsReported ==
  pc = "done" /\ killed # {} => result.outcome = "breaker"

\* The sweeps do not give up while a child of the run is in its first turn.
StillWorkingChildIsAwaited ==
  [][result'.breaker = "no-progress" => away' = {}]_result

\* The result names every branch that has changed the target.
NoMergeIsHidden == pc = "done" => {b \in Builders : landed[b] # 0} \subseteq result.merged

\* After the driver has exited no session of the run is live.
NoLiveRowAfterFinish == pc = "done" => Live = {}

\* Every drive ends, even if the deadline never comes.
EveryDriveFinishes == <>(pc = "done")
=============================================================================
