----------------------------- MODULE DriveProofs -----------------------------
(***************************************************************************)
(* What `ov drive` promises, for any number of agents, branches, commits,  *)
(* verdict mails and turns, however turns, slings, pushes and the deadline *)
(* interleave: it keeps its turn budget, lands only the reviewed commit    *)
(* of a branch that passed, and says at the end what it did.               *)
(*                                                                         *)
(* The inductive invariant is built in layers, each assumed by the next:   *)
(* the shape of the run, reviewers, commits, verdicts, outcome.            *)
(***************************************************************************)
EXTENDS Drive, FiniteSetTheorems, SequenceTheorems, WellFoundedInduction, TLAPS

-----------------------------------------------------------------------------
(* The turn budget *)

\* Every turn that ran was counted, a turn is only ever begun below the budget,
\* and the budget is blamed only at the end of a run that has used it up.
Counted ==
  /\ turns \in Nat
  /\ driven = turns
  /\ turns <= MaxTurns

BelowBudget ==
  pc \in {"seedTurn", "dispatch", "review", "reviewTurn"} => turns < MaxTurns

Blamed == result.breaker = "max-turns" => turns = MaxTurns /\ pc = "done"

BudgetInv == Counted /\ BelowBudget /\ Blamed

\* An end of the run blames the budget only when Breaker found it used up.
LEMMA EndingKeepsBudget ==
  ASSUME BudgetInv, UNCHANGED ghosts,
         NEW outcome, NEW breaker, NEW merged, NEW status,
         EndWith(outcome, breaker, merged, status),
         breaker = "max-turns" => turns >= MaxTurns
  PROVE  BudgetInv'
  BY DriveConstants DEF BudgetInv, Counted, BelowBudget, Blamed, EndWith, ghosts

\* A breaker that is not "none" is the budget, used up, or the deadline.
LEMMA BreakerIsTrue ==
  ASSUME BudgetInv
  PROVE  Breaker = "max-turns" => turns >= MaxTurns
  BY DEF Breaker, DeadlineBreaker

LEMMA OpenBudget ==
  ASSUME BudgetInv, Breaker = "none"
  PROVE  turns < MaxTurns
  BY DriveConstants DEF Breaker, DeadlineBreaker, BudgetInv, Counted

\* Steps that neither count a turn nor end the run.
LEMMA QuietKeepsBudget ==
  ASSUME BudgetInv, UNCHANGED <<turns, result, ghosts>>,
         pc # "done" \/ pc' = "done",
         pc' \in {"seedTurn", "dispatch", "review", "reviewTurn"} =>
           turns < MaxTurns
  PROVE  BudgetInv'
  BY DEF BudgetInv, Counted, BelowBudget, Blamed, ghosts

\* The end of a turn counts it.
LEMMA CountingKeepsBudget ==
  ASSUME BudgetInv, NEW how, TurnEnds(how), turns' = turns + 1,
         pc \in {"seedTurn", "dispatch", "reviewTurn"},
         pc' \in {"loop", "sweep"}
  PROVE  BudgetInv'
  BY DriveConstants DEF BudgetInv, Counted, BelowBudget, Blamed, TurnEnds

LEMMA SeedKeepsBudget ==
  ASSUME BudgetInv, SeedStep
  PROVE  BudgetInv'
<1>1. CASE SeedTrips
  BY <1>1, EndingKeepsBudget, BreakerIsTrue DEF SeedTrips, Trip
<1>2. CASE SeedRefused
  BY <1>2, EndingKeepsBudget DEF SeedRefused, FailedOrTimedOut, Trip, Finish
<1>3. CASE SpawnSeed
  BY <1>3, QuietKeepsBudget, OpenBudget DEF SpawnSeed
<1>4. ASSUME NEW how \in Ends, SeedTurnEnds(how)
      PROVE  BudgetInv'
  BY <1>4, CountingKeepsBudget DEF SeedTurnEnds, EnterLoop
<1> QED
  BY <1>1, <1>2, <1>3, <1>4 DEF SeedStep

LEMMA SweepKeepsBudget ==
  ASSUME BudgetInv, SweepStep
  PROVE  BudgetInv'
<1>1. CASE LoopEnds
  BY <1>1, QuietKeepsBudget DEF LoopEnds, BeforeDispatch
<1>2. CASE LoopTrips
  BY <1>2, EndingKeepsBudget, BreakerIsTrue DEF LoopTrips, Trip
<1>3. CASE SweepBegins
  BY <1>3, QuietKeepsBudget DEF SweepBegins
<1>4. ASSUME NEW a \in Agents, SkipAgent(a)
      PROVE  BudgetInv'
  BY <1>4, QuietKeepsBudget DEF SkipAgent, MayDispatch
<1>5. ASSUME NEW a \in Agents, Dispatch(a)
      PROVE  BudgetInv'
  BY <1>5, QuietKeepsBudget, OpenBudget DEF Dispatch, MayDispatch
<1>6. CASE DispatchThrows \/ \E a \in Agents : DispatchLocked(a)
  BY <1>6, EndingKeepsBudget DEF DispatchLocked, DispatchThrows, Abandon, Finish
<1>7. CASE SweepEnds
  <2>1. CASE pc' = "loop" /\ UNCHANGED <<turns, result>>
    BY <1>7, <2>1, QuietKeepsBudget DEF SweepEnds
  <2>2. CASE Trip("no-progress")
    BY <1>7, <2>2, EndingKeepsBudget DEF SweepEnds, Trip
  <2> QED
    BY <1>7, <2>1, <2>2 DEF SweepEnds
<1>8. ASSUME NEW how \in Ends, DispatchEnds(how)
      PROVE  BudgetInv'
  BY <1>8, CountingKeepsBudget DEF DispatchEnds
<1> QED
  BY <1>1, <1>2, <1>3, <1>4, <1>5, <1>6, <1>7, <1>8 DEF SweepStep

\* The steps of one review that stay in the run.
LEMMA ConcludeKeepsBudget ==
  ASSUME BudgetInv, NEW kind, Conclude(kind), pc # "done"
  PROVE  BudgetInv'
  BY QuietKeepsBudget DEF Conclude

LEMMA ProceedKeepsBudget ==
  ASSUME BudgetInv, NEW place \in {"predict", "recheck", "merge"}, Proceed(place),
         pc # "done"
  PROVE  BudgetInv'
  BY QuietKeepsBudget DEF Proceed

LEMMA ReviewKeepsBudget ==
  ASSUME BudgetInv, ReviewStep
  PROVE  BudgetInv'
<1>1. CASE Reconcile
  <2>1. CASE FailedOrTimedOut
    BY <1>1, <2>1, EndingKeepsBudget DEF Reconcile, FailedOrTimedOut, Trip, Finish
  <2>2. CASE Finish("no_op", seed)
    BY <1>1, <2>2, EndingKeepsBudget DEF Reconcile, Finish
  <2>3. CASE pc' = "branch" /\ UNCHANGED <<turns, result>>
    BY <1>1, <2>3, QuietKeepsBudget DEF Reconcile
  <2> QED
    BY <1>1, <2>1, <2>2, <2>3 DEF Reconcile
<1>2. CASE PickBranch
  BY <1>2, QuietKeepsBudget, OpenBudget DEF PickBranch
<1>3. CASE BranchTrips
  BY <1>3, EndingKeepsBudget, BreakerIsTrue DEF BranchTrips, Trip
<1>4. CASE SpawnReviewer
  BY <1>4, QuietKeepsBudget DEF SpawnReviewer, BudgetInv, BelowBudget
<1>5. CASE ReviewerRefused
  <2>1. CASE Trip("timeout") /\ UNCHANGED ghosts
    BY <2>1, EndingKeepsBudget DEF Trip
  <2>2. CASE Conclude("failed")
    BY <1>5, <2>2, ConcludeKeepsBudget DEF ReviewerRefused
  <2> QED
    BY <1>5, <2>1, <2>2 DEF ReviewerRefused
<1>6. CASE ReadVerdict
  <2>1. CASE Trip("timeout") /\ UNCHANGED ghosts
    BY <2>1, EndingKeepsBudget DEF Trip
  <2>2. CASE \E kind \in {"failed", "review_failed", "no_op"} : Conclude(kind)
    BY <1>6, <2>2, ConcludeKeepsBudget DEF ReadVerdict
  <2>3. CASE Proceed("predict")
    BY <1>6, <2>3, ProceedKeepsBudget DEF ReadVerdict
  <2> QED
    BY <1>6, <2>1, <2>2, <2>3 DEF ReadVerdict, Judged
<1>7. CASE Predict
  BY <1>7, ConcludeKeepsBudget, ProceedKeepsBudget DEF Predict
<1>8. CASE Recheck
  BY <1>8, ConcludeKeepsBudget, ProceedKeepsBudget DEF Recheck
<1>9. CASE Merge
  BY <1>9, ConcludeKeepsBudget DEF Merge
<1>10. CASE MergeThrows
  BY <1>10, EndingKeepsBudget DEF MergeThrows
<1>11. CASE Tally
  <2>1. CASE \E outcome, status : Finish(outcome, status)
    BY <1>11, <2>1, EndingKeepsBudget DEF Tally, Finish
  <2>2. CASE pc' = "gates" /\ UNCHANGED <<turns, result>>
    BY <1>11, <2>2, QuietKeepsBudget DEF Tally
  <2> QED
    BY <1>11, <2>1, <2>2 DEF Tally, Complete, Incomplete
<1>12. CASE Gates
  BY <1>12, EndingKeepsBudget DEF Gates, Trip, Complete, Incomplete, Finish
<1>13. ASSUME NEW how \in Ends, ReviewTurnEnds(how)
       PROVE  BudgetInv'
  BY <1>13, CountingKeepsBudget DEF ReviewTurnEnds, EnterLoop
<1> QED
  BY <1>1, <1>2, <1>3, <1>4, <1>5, <1>6, <1>7, <1>8, <1>9, <1>10, <1>11, <1>12, <1>13
     DEF ReviewStep

LEMMA OthersKeepBudget ==
  ASSUME BudgetInv, SlingStep \/ AgentStep \/ Expire \/ UNCHANGED vars
  PROVE  BudgetInv'
<1>1. UNCHANGED <<pc, turns, result, ghosts>>
  <2>1. CASE SlingStep
    BY <2>1 DEF SlingStep, SlingSpawns, SlingFails, AwayEnds, Elsewhere
  <2>2. CASE AgentStep
    BY <2>2 DEF AgentStep, AgentMails, BranchMoves, SendVerdict, AgentClosesSeed,
                Sling, Elsewhere
  <2>3. CASE Expire
    BY <2>3 DEF Expire, Elsewhere
  <2>4. CASE UNCHANGED vars
    BY <2>4 DEF vars
  <2> QED
    BY <2>1, <2>2, <2>3, <2>4
<1> QED
  BY <1>1, QuietKeepsBudget DEF BudgetInv, BelowBudget

\* The driver never runs more turns than its budget and blames it only when it
\* is used up.
THEOREM TurnBudgetIsKept == Spec => []TurnBudgetKept
<1>1. Init => BudgetInv
  BY DriveConstants DEF Init, BudgetInv, Counted, BelowBudget, Blamed, NoResult
<1>2. BudgetInv /\ [Next]_vars => BudgetInv'
  BY SeedKeepsBudget, SweepKeepsBudget, ReviewKeepsBudget, OthersKeepBudget
     DEF Next, DriverStep
<1>3. BudgetInv => TurnBudgetKept
  BY DEF BudgetInv, Counted, Blamed, TurnBudgetKept
<1> QED
  BY <1>1, <1>2, <1>3, PTL DEF Spec

-----------------------------------------------------------------------------
(* The shape of the run *)

\* Where the driver is: in a sweep loop; before any branch was looked at; at a
\* branch, whose commit is pinned, whose reviewer was spawned.
InLoop == pc \in {"loop", "sweep", "dispatch"}
Before == pc \in {"seed", "seedTurn", "reconcile"} \/ (InLoop /\ loop = "main")
Reviewed ==
  \/ pc \in {"reviewTurn", "verdict", "predict", "recheck", "merge"}
  \/ InLoop /\ loop = "review"
Picked == pc = "review" \/ Reviewed
AtBranch == pc = "branch" \/ Picked
AtHand(b) == AtBranch /\ b = Branch

Verdicts == {"pass", "fail", "unknown"}
Kinds == {"failed", "review_failed", "no_op", "merge_blocked", "merged"}

\* The type invariant of what the proofs below read.
Typed ==
  /\ state \in [Agents -> {"none", "live", "completed", "zombie"}]
  /\ rows \in Seq(Agents)
  /\ head \in [Builders -> Nat] /\ saw \in [Builders -> Nat] /\ landed \in [Builders -> Nat]
  /\ said \in [Builders -> Verdicts \cup {"none"}]
  /\ pc \in Places /\ loop \in {"main", "review"}
  /\ builders \in Seq(Builders)
  /\ results \in Seq([branch : Builders, kind : Kinds])
  /\ reviewed \in Nat /\ snapshot \in Nat
  /\ DOMAIN mail = 1..Len(mail) /\ Len(mail) \in Nat

\* A pending sling is for an agent without a row, and a builder with a row has a
\* branch.
Fresh ==
  /\ slinging \subseteq Kids
  /\ slinging # {} => TopCapability = "lead"
  /\ \A k \in slinging : ~HasRow(k)
  /\ \A b \in Builders : HasRow(b) => head[b] > 0

\* The builders found are distinct, have rows, and are concluded in order, one
\* result each; before reconcile there are none.
Found ==
  /\ \A i, j \in DOMAIN builders : builders[i] = builders[j] => i = j
  /\ \A i \in DOMAIN builders : HasRow(builders[i])
  /\ Len(results) <= Len(builders)
  /\ \A i \in DOMAIN results : results[i].branch = builders[i]
  /\ Before => builders = <<>> /\ results = <<>>
  /\ AtBranch => Len(results) < Len(builders)
  /\ pc \in {"tally", "gates"} => Len(results) = Len(builders)

\* No two agents share a name, whatever the capabilities and tasks.
LEMMA Names ==
  /\ Kids \subseteq Agents /\ Builders \subseteq Agents /\ Top \in Agents
  /\ Nobody \notin Agents
  /\ \A b \in Builders : Reviewer(b) \in Agents \ (Kids \cup {Top} \cup Builders)
  /\ \A b, c \in Builders : Reviewer(b) = Reviewer(c) => b = c
  /\ \A a \in Agents : IsBuilder(a) <=> a \in Builders
  /\ TopCapability = "lead" => Top \notin Kids
<1>1. \A k \in Kids : k = <<k[1], k[2]>> /\ k[1] \in {"builder", "scout"}
  BY DriveConstants
<1>2. Top = <<Top[1], Top[2]>> /\ Top[1] = TopCapability /\ TopCapability \in {"lead", "builder"}
  BY DriveConstants DEF Top
<1>3. \A b \in Builders : b[1] = "builder" /\ b = <<b[1], b[2]>> /\ b \in Kids \cup {Top}
  BY <1>1, <1>2 DEF Builders
<1>4. \A b \in Builders : Reviewer(b)[1] = "reviewer" /\ Reviewer(b)[2] = b[2]
  BY DEF Reviewer
<1>5. \A b \in Builders : Reviewer(b) \in Agents \ (Kids \cup {Top} \cup Builders)
  BY <1>1, <1>2, <1>3, <1>4 DEF Agents
<1>6. \A b, c \in Builders : Reviewer(b) = Reviewer(c) => b = c
  BY <1>3, <1>4
<1>7. \A a \in Agents : IsBuilder(a) <=> a \in Builders
  BY <1>3, <1>4 DEF Agents, IsBuilder, Builders
<1>8. Nobody \notin Agents
  BY <1>1, <1>2, <1>4 DEF Agents, Nobody
<1>9. Kids \subseteq Agents /\ Builders \subseteq Agents /\ Top \in Agents
  BY DEF Agents, Builders
<1>10. TopCapability = "lead" => Top \notin Kids
  BY <1>1, <1>2
<1> QED
  BY <1>5, <1>6, <1>7, <1>8, <1>9, <1>10

\* What a spawn does to rows, states and branches, of this agent and of others.
LEMMA SpawnedFacts ==
  ASSUME Typed, NEW a \in Agents, Spawned(a)
  PROVE  /\ state' \in [Agents -> {"none", "live", "completed", "zombie"}]
         /\ state'[a] = "live" /\ \A b \in Agents \ {a} : state'[b] = state[b]
         /\ rows' \in Seq(Agents)
         /\ \A b : HasRow(b)' <=> HasRow(b) \/ b = a
         /\ head' \in [Builders -> Nat]
         /\ \A b \in Builders \ {a} : head'[b] = head[b]
         /\ a \in Builders => head'[a] = 1
<1>1. rows' \in Seq(Agents) /\ \A b : HasRow(b)' <=> HasRow(b) \/ b = a
  <2>1. CASE HasRow(a)
    BY <2>1 DEF Typed, Spawned, HasRow
  <2>2. CASE ~HasRow(a)
    <3>1. rows' = Append(rows, a)
      BY <2>2 DEF Spawned
    <3>2. /\ rows' \in Seq(Agents) /\ Len(rows') = Len(rows) + 1 /\ Len(rows) \in Nat
          /\ DOMAIN rows = 1..Len(rows) /\ DOMAIN rows' = 1..Len(rows')
          /\ \A i \in 1..Len(rows) : rows'[i] = rows[i]
          /\ rows'[Len(rows) + 1] = a
      BY <3>1, AppendProperties, LenProperties DEF Typed
    <3> QED
      BY <3>2 DEF HasRow
  <2> QED
    BY <2>1, <2>2
<1>2. /\ head' \in [Builders -> Nat]
      /\ \A b \in Builders \ {a} : head'[b] = head[b]
      /\ a \in Builders => head'[a] = 1
  BY Names DEF Typed, Spawned
<1>3. /\ state' \in [Agents -> {"none", "live", "completed", "zombie"}]
      /\ state'[a] = "live" /\ \A b \in Agents \ {a} : state'[b] = state[b]
  BY DEF Typed, Spawned
<1> QED
  BY <1>1, <1>2, <1>3

\* The branch at hand is a builder's, and none that was concluded.
LEMMA BranchAtHand ==
  ASSUME Typed, Found, Len(results) < Len(builders)
  PROVE  /\ Branch \in Builders
         /\ \A i \in DOMAIN results : results[i].branch # Branch
<1>1. /\ Len(results) \in Nat /\ Len(builders) \in Nat
      /\ DOMAIN results = 1..Len(results) /\ DOMAIN builders = 1..Len(builders)
  BY LenProperties DEF Typed
<1>2. Len(results) + 1 \in DOMAIN builders
  BY <1>1
<1>3. Branch \in Builders
  BY <1>1, <1>2, ElementOfSeq DEF Typed, Branch
<1>4. ASSUME NEW i \in DOMAIN results
      PROVE  results[i].branch # Branch
  <2>1. results[i].branch = builders[i]
    BY DEF Found
  <2>2. i \in DOMAIN builders /\ i # Len(results) + 1
    BY <1>1
  <2> QED
    BY <1>2, <2>1, <2>2 DEF Found, Branch
<1> QED
  BY <1>3, <1>4

\* Sorting a set of builders by their rows lists each once.
LEMMA OrderedRows ==
  ASSUME NEW set \in SUBSET Builders, NEW s \in InRowOrder(set)
  PROVE  /\ s \in Seq(Builders)
         /\ set # {} => Len(s) > 0
         /\ \A i \in DOMAIN s : s[i] \in set
         /\ \A i, j \in DOMAIN s : s[i] = s[j] => i = j
<1>1. IsFiniteSet(set)
  <2>1. IsFiniteSet(Kids \cup {Top})
    BY DriveConstants, FS_AddElement
  <2>2. set \subseteq Kids \cup {Top}
    BY DEF Builders
  <2> QED
    BY <2>1, <2>2, FS_Subset
<1>2. Cardinality(set) \in Nat /\ (set # {} => Cardinality(set) > 0)
  BY <1>1, FS_CardinalityType, FS_EmptySet
<1>3. /\ s \in [1..Cardinality(set) -> set]
      /\ \A i, j \in 1..Cardinality(set) : i # j => s[i] # s[j]
  BY DEF InRowOrder, SetToSeqs
<1>4. s \in Seq(Builders) /\ Len(s) = Cardinality(set)
  BY <1>2, <1>3
<1> QED
  BY <1>2, <1>3, <1>4

ShapeInv == Typed /\ Fresh /\ Found

\* An end of the run, a concluded branch, a step on to the next place, a turn.
LEMMA EndingKeepsShape ==
  ASSUME ShapeInv, NEW outcome, NEW breaker, NEW merged, NEW status,
         EndWith(outcome, breaker, merged, status), landed' \in [Builders -> Nat]
  PROVE  ShapeInv'
<1>1. Typed'
  BY DEF ShapeInv, Typed, EndWith, world, engine, review, Live, Places
<1>2. Fresh'
  BY DEF ShapeInv, Fresh, EndWith, world, HasRow
<1>3. Found'
  BY DEF ShapeInv, Found, EndWith, engine, review, HasRow, Before, AtBranch, Picked,
         Reviewed, InLoop
<1> QED
  BY <1>1, <1>2, <1>3 DEF ShapeInv

LEMMA ConcludingKeepsShape ==
  ASSUME ShapeInv, NEW kind \in Kinds, Conclude(kind), AtBranch,
         state' \in [Agents -> {"none", "live", "completed", "zombie"}],
         landed' \in [Builders -> Nat]
  PROVE  ShapeInv'
<1> USE DEF ShapeInv
<1>1. Branch \in Builders
  BY BranchAtHand DEF Found
<1>2. /\ results' \in Seq([branch : Builders, kind : Kinds])
      /\ Len(results') = Len(results) + 1
      /\ DOMAIN results = 1..Len(results) /\ DOMAIN results' = 1..Len(results')
      /\ Len(results) \in Nat /\ Len(builders) \in Nat
      /\ \A i \in 1..Len(results) : results'[i] = results[i]
      /\ results'[Len(results) + 1] = [branch |-> Branch, kind |-> kind]
  <2>1. [branch |-> Branch, kind |-> kind] \in [branch : Builders, kind : Kinds]
    BY <1>1
  <2>2. results' = Append(results, [branch |-> Branch, kind |-> kind])
    BY DEF Conclude
  <2> QED
    BY <2>1, <2>2, AppendProperties, LenProperties DEF Typed
<1>3. Typed'
  BY <1>2 DEF Typed, Conclude, world, engine, Places
<1>4. Fresh'
  BY DEF Fresh, Conclude, world, HasRow
<1>5. Found'
  <2>1. \A i \in DOMAIN results' : results'[i].branch = builders'[i]
    BY <1>2 DEF Found, Conclude, Branch
  <2>2. Len(results') <= Len(builders') /\ (pc' = "branch" => Len(results') < Len(builders'))
        /\ (pc' = "tally" => Len(results') = Len(builders')) /\ pc' \in {"branch", "tally"}
    BY <1>2 DEF Found, Conclude
  <2>3. /\ \A i, j \in DOMAIN builders' : builders'[i] = builders'[j] => i = j
        /\ (\A i \in DOMAIN builders : HasRow(builders[i]))'
    BY DEF Found, Conclude, HasRow
  <2> QED
    BY <2>1, <2>2, <2>3 DEF Found, Before, AtBranch, Picked, Reviewed, InLoop
<1> QED
  BY <1>3, <1>4, <1>5

LEMMA ProceedingKeepsShape ==
  ASSUME ShapeInv, NEW place \in {"predict", "recheck", "merge"}, Proceed(place), AtBranch,
         UNCHANGED <<state, landed>>
  PROVE  ShapeInv'
<1>1. Typed'
  BY DEF ShapeInv, Typed, Proceed, world, engine, review, Places
<1>2. Fresh'
  BY DEF ShapeInv, Fresh, Proceed, world, HasRow
<1>3. Found'
  BY DEF ShapeInv, Found, Proceed, engine, review, HasRow, Before, AtBranch, Picked,
         Reviewed, InLoop
<1> QED
  BY <1>1, <1>2, <1>3 DEF ShapeInv

\* A step that leaves alone what was found, and stays on the same side of reconcile.
LEMMA QuietKeepsShape ==
  ASSUME ShapeInv, UNCHANGED <<rows, slinging, head, builders, results>>,
         Typed', Before' => Before, AtBranch' => AtBranch,
         pc' \in {"tally", "gates"} => pc \in {"tally", "gates"}
  PROVE  ShapeInv'
<1>1. Fresh'
  BY DEF ShapeInv, Fresh, HasRow
<1>2. Found'
  BY DEF ShapeInv, Found, HasRow
<1> QED
  BY <1>1, <1>2 DEF ShapeInv

LEMMA TurnEndsTyped ==
  ASSUME Typed, NEW how \in Ends, TurnEnds(how), pc' \in Places, loop' \in {"main", "review"}
  PROVE  Typed'
<1>1. state' \in [Agents -> {"none", "live", "completed", "zombie"}]
  <2>1. CASE turn \in Agents
    <3>1. Settled(turn, how) \in {"none", "live", "completed", "zombie"}
      BY <2>1 DEF Typed, Settled
    <3> QED
      BY <3>1 DEF Typed, TurnEnds
  <2>2. CASE turn \notin Agents
    BY <2>2 DEF Typed, TurnEnds
  <2> QED
    BY <2>1, <2>2
<1> QED
  BY <1>1 DEF Typed, TurnEnds, review

\* A row is inserted that no pending sling is for.
LEMMA SpawningKeepsShape ==
  ASSUME ShapeInv, NEW a \in Agents, Spawned(a),
         slinging' \subseteq slinging, a \notin slinging', Typed', UNCHANGED <<builders, results>>,
         Before' => Before, AtBranch' => AtBranch,
         pc' \in {"tally", "gates"} => pc \in {"tally", "gates"}
  PROVE  ShapeInv'
<1>1. \A b : HasRow(b)' <=> HasRow(b) \/ b = a
  BY SpawnedFacts DEF ShapeInv
<1>2. Fresh'
  <2>1. \A k \in slinging' : ~HasRow(k)'
    BY <1>1 DEF ShapeInv, Fresh
  <2>2. ASSUME NEW b \in Builders, HasRow(b)'
        PROVE  head'[b] > 0
    BY <1>1, <2>2, SpawnedFacts DEF ShapeInv, Fresh
  <2> QED
    BY <2>1, <2>2 DEF ShapeInv, Fresh
<1>3. Found'
  BY <1>1 DEF ShapeInv, Found
<1> QED
  BY <1>2, <1>3 DEF ShapeInv

LEMMA SeedKeepsShape ==
  ASSUME ShapeInv, SeedStep
  PROVE  ShapeInv'
<1> USE DEF InLoop, Before, AtBranch, Picked, Reviewed
<1>1. CASE SeedTrips
  BY <1>1, EndingKeepsShape DEF SeedTrips, Trip, ShapeInv, Typed
<1>2. CASE SeedRefused
  BY <1>2, EndingKeepsShape DEF SeedRefused, FailedOrTimedOut, Trip, Finish, ShapeInv, Typed
<1>3. CASE SpawnSeed
  <2>1. Spawned(Top) /\ Top \in Agents
    BY <1>3, Names DEF SpawnSeed
  <2>2. Typed'
    BY <1>3, <2>1, SpawnedFacts DEF SpawnSeed, ShapeInv, Typed, review, engine, Places
  <2>3. Top \notin slinging
    BY Names DEF ShapeInv, Fresh
  <2> QED
    BY <1>3, <2>1, <2>2, <2>3, SpawningKeepsShape DEF SpawnSeed, review, engine
<1>4. ASSUME NEW how \in Ends, SeedTurnEnds(how)
      PROVE  ShapeInv'
  <2>1. Typed'
    BY <1>4, TurnEndsTyped DEF SeedTurnEnds, EnterLoop, ShapeInv, Places
  <2> QED
    BY <1>4, <2>1, QuietKeepsShape DEF SeedTurnEnds, EnterLoop, TurnEnds, review
<1> QED
  BY <1>1, <1>2, <1>3, <1>4 DEF SeedStep

LEMMA SweepKeepsShape ==
  ASSUME ShapeInv, SweepStep
  PROVE  ShapeInv'
<1> USE DEF InLoop, Before, AtBranch, Picked, Reviewed
<1>1. CASE LoopEnds
  <2>1. Typed'
    BY <1>1 DEF LoopEnds, ShapeInv, Typed, world, engine, review, Places
  <2>2. loop \in {"main", "review"} /\ UNCHANGED loop
    BY <1>1 DEF LoopEnds, ShapeInv, Typed, engine
  <2> QED
    BY <1>1, <2>1, <2>2, QuietKeepsShape DEF LoopEnds, BeforeDispatch, world, review
<1>2. CASE LoopTrips
  BY <1>2, EndingKeepsShape DEF LoopTrips, Trip, ShapeInv, Typed
<1>3. CASE SweepBegins
  <2>1. Typed'
    BY <1>3 DEF SweepBegins, ShapeInv, Typed, world, review, Places
  <2> QED
    BY <1>3, <2>1, QuietKeepsShape DEF SweepBegins, world, review
<1>4. ASSUME NEW a \in Agents, SkipAgent(a)
      PROVE  ShapeInv'
  <2>1. Typed'
    BY <1>4 DEF SkipAgent, ShapeInv, Typed, world, review
  <2> QED
    BY <1>4, <2>1, QuietKeepsShape DEF SkipAgent, world, review
<1>5. ASSUME NEW a \in Agents, Dispatch(a)
      PROVE  ShapeInv'
  <2>1. Typed'
    BY <1>5 DEF Dispatch, ShapeInv, Typed, review, Places
  <2> QED
    BY <1>5, <2>1, QuietKeepsShape DEF Dispatch, MayDispatch, review
<1>6. CASE DispatchThrows \/ \E a \in Agents : DispatchLocked(a)
  BY <1>6, EndingKeepsShape DEF DispatchLocked, DispatchThrows, Abandon, Finish, ShapeInv, Typed
<1>7. CASE SweepEnds
  <2>1. CASE pc' = "loop" /\ UNCHANGED <<state, rows, world, landed, loop, review>>
    <3>1. Typed'
      BY <2>1 DEF ShapeInv, Typed, world, review, Places
    <3> QED
      BY <1>7, <2>1, <3>1, QuietKeepsShape DEF SweepEnds, world, review
  <2>2. CASE Trip("no-progress")
    BY <2>2, EndingKeepsShape DEF Trip, ShapeInv, Typed
  <2> QED
    BY <1>7, <2>1, <2>2 DEF SweepEnds
<1>8. ASSUME NEW how \in Ends, DispatchEnds(how)
      PROVE  ShapeInv'
  <2>1. Typed'
    BY <1>8, TurnEndsTyped DEF DispatchEnds, ShapeInv, Typed, Places
  <2> QED
    BY <1>8, <2>1, QuietKeepsShape DEF DispatchEnds, TurnEnds, review
<1> QED
  BY <1>1, <1>2, <1>3, <1>4, <1>5, <1>6, <1>7, <1>8 DEF SweepStep

LEMMA ReviewKeepsShape ==
  ASSUME ShapeInv, ReviewStep
  PROVE  ShapeInv'
<1> USE DEF InLoop, Before, AtBranch, Picked, Reviewed
<1>0. landed \in [Builders -> Nat] /\ state \in [Agents -> {"none", "live", "completed", "zombie"}]
  BY DEF ShapeInv, Typed
<1>1. CASE Reconcile
  <2>1. CASE FailedOrTimedOut \/ Finish("no_op", seed)
    BY <1>0, <2>1, EndingKeepsShape DEF FailedOrTimedOut, Trip, Finish
  <2>2. CASE /\ pc' = "branch" /\ builders' \in InRowOrder({b \in Builders : HasRow(b)})
             /\ {b \in Builders : HasRow(b)} # {}
             /\ UNCHANGED <<state, rows, world, landed, loop, results, reviewed, snapshot>>
    <3>1. /\ builders' \in Seq(Builders)
          /\ \A i \in DOMAIN builders' : builders'[i] \in {b \in Builders : HasRow(b)}
          /\ \A i, j \in DOMAIN builders' : builders'[i] = builders'[j] => i = j
      BY <2>2, OrderedRows
    <3>2. Len(builders') > 0
      <4>1. {b \in Builders : HasRow(b)} \in SUBSET Builders
        OBVIOUS
      <4> QED
        BY <2>2, <4>1, OrderedRows
    <3>3. results = <<>>
      BY <1>1 DEF Reconcile, ShapeInv, Found
    <3>4. Typed'
      BY <2>2, <3>1 DEF ShapeInv, Typed, world, Places
    <3>5. Fresh'
      BY <2>2 DEF ShapeInv, Fresh, world, HasRow
    <3>6. Found'
      <4>1. (\A i \in DOMAIN builders : HasRow(builders[i]))'
        BY <2>2, <3>1 DEF HasRow
      <4> QED
        BY <2>2, <3>1, <3>2, <3>3, <4>1 DEF Found
    <3> QED
      BY <3>4, <3>5, <3>6 DEF ShapeInv
  <2> QED
    BY <1>1, <2>1, <2>2 DEF Reconcile, engine
<1>2. CASE PickBranch
  <2>1. Branch \in Builders
    BY <1>2, BranchAtHand DEF PickBranch, ShapeInv, Found
  <2>2. Typed'
    BY <1>2, <2>1 DEF PickBranch, ShapeInv, Typed, world, engine, Places
  <2> QED
    BY <1>2, <2>2, QuietKeepsShape DEF PickBranch, world, engine
<1>3. CASE BranchTrips
  BY <1>0, <1>3, EndingKeepsShape DEF BranchTrips, Trip
<1>4. CASE SpawnReviewer
  <2>1. Branch \in Builders
    BY <1>4, BranchAtHand DEF SpawnReviewer, ShapeInv, Found
  <2>2. /\ Reviewer(Branch) \in Agents /\ Reviewer(Branch) \notin Kids
        /\ Spawned(Reviewer(Branch))
    BY <1>4, <2>1, Names DEF SpawnReviewer
  <2>3. Typed'
    BY <1>4, <2>1, <2>2, SpawnedFacts DEF SpawnReviewer, ShapeInv, Typed, engine, review, Places
  <2>4. Reviewer(Branch) \notin slinging
    BY <2>2 DEF ShapeInv, Fresh
  <2> QED
    BY <1>4, <2>2, <2>3, <2>4, SpawningKeepsShape DEF SpawnReviewer, review, engine
<1>5. CASE ReviewerRefused
  <2>1. CASE Trip("timeout")
    BY <1>0, <2>1, EndingKeepsShape DEF Trip
  <2>2. CASE Conclude("failed") /\ UNCHANGED landed /\
             state' = IF turn = Nobody THEN state ELSE [state EXCEPT ![turn] = "zombie"]
    BY <1>0, <1>5, <2>2, ConcludingKeepsShape DEF ReviewerRefused, Kinds
  <2> QED
    BY <1>5, <2>1, <2>2 DEF ReviewerRefused
<1>6. CASE ReadVerdict
  <2>1. CASE Trip("timeout")
    BY <1>0, <2>1, EndingKeepsShape DEF Trip
  <2>2. CASE /\ UNCHANGED <<state, landed>>
             /\ \E kind \in {"failed", "review_failed", "no_op"} : Conclude(kind)
    BY <1>0, <1>6, <2>2, ConcludingKeepsShape DEF ReadVerdict, Kinds
  <2>3. CASE Proceed("predict") /\ UNCHANGED <<state, landed>>
    BY <1>6, <2>3, ProceedingKeepsShape DEF ReadVerdict
  <2> QED
    BY <1>6, <2>1, <2>2, <2>3 DEF ReadVerdict, Judged
<1>7. CASE Predict
  BY <1>0, <1>7, ConcludingKeepsShape, ProceedingKeepsShape DEF Predict, Kinds
<1>8. CASE Recheck
  BY <1>0, <1>8, ConcludingKeepsShape, ProceedingKeepsShape DEF Recheck, Kinds
<1>9. CASE Merge
  <2>1. landed' \in [Builders -> Nat]
    BY <1>0, <1>9 DEF Merge, ShapeInv, Typed
  <2> QED
    BY <1>0, <1>9, <2>1, ConcludingKeepsShape DEF Merge, Kinds
<1>10. CASE MergeThrows
  <2>1. landed' \in [Builders -> Nat]
    BY <1>0, <1>10 DEF MergeThrows, ShapeInv, Typed
  <2> QED
    BY <1>10, <2>1, EndingKeepsShape DEF MergeThrows
<1>11. CASE Tally
  <2>1. CASE \E outcome, status : Finish(outcome, status)
    BY <1>0, <2>1, EndingKeepsShape DEF Finish
  <2>2. CASE pc' = "gates" /\ UNCHANGED <<state, rows, world, landed, engine, review>>
    <3>1. Typed'
      BY <2>2 DEF ShapeInv, Typed, world, engine, review, Places
    <3> QED
      BY <1>11, <2>2, <3>1, QuietKeepsShape DEF Tally, world, engine, review
  <2> QED
    BY <1>11, <2>1, <2>2 DEF Tally, Complete, Incomplete
<1>12. CASE Gates
  BY <1>0, <1>12, EndingKeepsShape DEF Gates, Trip, Complete, Incomplete, Finish
<1>13. ASSUME NEW how \in Ends, ReviewTurnEnds(how)
       PROVE  ShapeInv'
  <2>1. Typed'
    BY <1>13, TurnEndsTyped DEF ReviewTurnEnds, EnterLoop, ShapeInv, Places
  <2> QED
    BY <1>13, <2>1, QuietKeepsShape DEF ReviewTurnEnds, EnterLoop, TurnEnds, review
<1> QED
  BY <1>1, <1>2, <1>3, <1>4, <1>5, <1>6, <1>7, <1>8, <1>9, <1>10, <1>11, <1>12, <1>13
     DEF ReviewStep

LEMMA OthersKeepShape ==
  ASSUME ShapeInv, SlingStep \/ AgentStep \/ Expire \/ UNCHANGED vars
  PROVE  ShapeInv'
<1> USE DEF InLoop, Before, AtBranch, Picked, Reviewed
<1>0. UNCHANGED <<pc, loop, builders, results>>
  BY DEF SlingStep, SlingSpawns, SlingFails, AwayEnds, AgentStep, AgentMails, BranchMoves,
         SendVerdict, AgentClosesSeed, Sling, Expire, vars, Elsewhere, engine, review
<1>1. ASSUME NEW k \in Kids, SlingSpawns(k)
      PROVE  ShapeInv'
  <2>1. k \in Agents /\ Spawned(k)
    BY <1>1, Names DEF SlingSpawns
  <2>2. Typed'
    BY <1>1, <2>1, SpawnedFacts DEF SlingSpawns, Elsewhere, ShapeInv, Typed, engine, review
  <2> QED
    BY <1>0, <1>1, <2>1, <2>2, SpawningKeepsShape DEF SlingSpawns
<1>2. ASSUME NEW k \in Kids, SlingFails(k)
      PROVE  ShapeInv'
  <2>1. Typed'
    BY <1>2 DEF SlingFails, Elsewhere, ShapeInv, Typed, engine, review
  <2>2. Fresh'
    BY <1>2 DEF SlingFails, ShapeInv, Fresh, HasRow
  <2>3. Found'
    BY <1>0, <1>2 DEF SlingFails, ShapeInv, Found, HasRow
  <2> QED
    BY <2>1, <2>2, <2>3 DEF ShapeInv
<1>3. ASSUME NEW k \in Kids, NEW how \in Ends, AwayEnds(k, how)
      PROVE  ShapeInv'
  <2>1. Settled(k, how) \in {"none", "live", "completed", "zombie"}
    BY Names DEF ShapeInv, Typed, Settled
  <2>2. Typed'
    BY <1>3, <2>1 DEF AwayEnds, Elsewhere, ShapeInv, Typed, engine, review
  <2> QED
    BY <1>0, <1>3, <2>2, QuietKeepsShape DEF AwayEnds
<1>4. ASSUME NEW b \in Builders, BranchMoves(b)
      PROVE  ShapeInv'
  <2>1. /\ head' \in [Builders -> Nat]
        /\ \A c \in Builders : head[c] > 0 => head'[c] > 0
    BY <1>4 DEF BranchMoves, ShapeInv, Typed
  <2>2. Typed'
    BY <1>4, <2>1 DEF BranchMoves, Elsewhere, ShapeInv, Typed, engine, review
  <2>3. Fresh'
    BY <1>4, <2>1 DEF BranchMoves, ShapeInv, Fresh, HasRow
  <2>4. Found'
    BY <1>0, <1>4 DEF BranchMoves, ShapeInv, Found, HasRow
  <2> QED
    BY <2>2, <2>3, <2>4 DEF ShapeInv
<1>5. ASSUME NEW b \in Builders, NEW v \in Verdicts, SendVerdict(b, v)
      PROVE  ShapeInv'
  <2>1. DOMAIN mail' = 1..Len(mail') /\ Len(mail') \in Nat
    BY <1>5 DEF SendVerdict, ShapeInv, Typed
  <2>2. Typed'
    BY <1>5, <2>1 DEF SendVerdict, Elsewhere, ShapeInv, Typed, engine, review
  <2> QED
    BY <1>0, <1>5, <2>2, QuietKeepsShape DEF SendVerdict
<1>6. ASSUME NEW k \in Kids, Sling(k)
      PROVE  ShapeInv'
  <2>1. Typed'
    BY <1>6 DEF Sling, Elsewhere, ShapeInv, Typed, engine, review
  <2>2. Fresh'
    BY <1>6 DEF Sling, ShapeInv, Fresh, HasRow
  <2>3. Found'
    BY <1>0, <1>6 DEF Sling, ShapeInv, Found, HasRow
  <2> QED
    BY <2>1, <2>2, <2>3 DEF ShapeInv
<1>7. CASE \/ \E a \in Agents, to \in Correspondents : AgentMails(a, to)
           \/ \E a \in Agents : AgentClosesSeed(a)
           \/ Expire \/ UNCHANGED vars
  <2>1. UNCHANGED <<state, rows, slinging, head, mail, saw, said, landed, pc, loop, review>>
    BY <1>7 DEF AgentMails, AgentClosesSeed, Expire, vars, Elsewhere, engine, world
  <2>2. Typed'
    BY <2>1 DEF ShapeInv, Typed, review
  <2> QED
    BY <1>0, <2>1, <2>2, QuietKeepsShape
<1> QED
  BY <1>1, <1>2, <1>3, <1>4, <1>5, <1>6, <1>7 DEF SlingStep, AgentStep, Verdicts

-----------------------------------------------------------------------------
(* Reviewers: none is live, awaited or in a sweep but the one of the branch *)
(* at hand, and only while its turns or its sweeps run.                   *)

ReviewerInv ==
  /\ turn # Nobody => pc \in {"seedTurn", "dispatch", "reviewTurn"}
  /\ pc = "reviewTurn" => turn = Reviewer(Branch)
  /\ \A b \in Builders :
       /\ state[Reviewer(b)] = "live" => AtHand(b) /\ (pc = "reviewTurn" \/ InLoop)
       /\ turn = Reviewer(b) => AtHand(b)
       /\ InLoop /\ Reviewer(b) \in todo => AtHand(b)

\* No reviewer is live, awaited or in a sweep.
LEMMA NoReviewer ==
  ASSUME turn' = Nobody, \A b \in Builders : state'[Reviewer(b)] # "live",
         pc' \notin {"loop", "sweep", "dispatch", "reviewTurn"}
  PROVE  ReviewerInv'
BY Names DEF ReviewerInv, InLoop

\* Nothing about reviewers changes.
LEMMA SameReviewer ==
  ASSUME ReviewerInv, UNCHANGED <<turn, pc, loop, todo, builders, results>>,
         \A b \in Builders : state'[Reviewer(b)] = "live" => state[Reviewer(b)] = "live"
  PROVE  ReviewerInv'
<1>1. \A b : AtHand(b)' <=> AtHand(b)
  BY DEF AtHand, AtBranch, Picked, Reviewed, InLoop, Branch
<1> QED
  BY <1>1 DEF ReviewerInv, InLoop, Branch

LEMMA EndingKeepsReviewer ==
  ASSUME Typed, NEW outcome, NEW breaker, NEW merged, NEW status,
         EndWith(outcome, breaker, merged, status)
  PROVE  ReviewerInv'
<1>1. \A a \in Agents : state'[a] # "live"
  BY DEF EndWith, Live, Typed
<1> QED
  BY <1>1, NoReviewer, Names DEF EndWith

LEMMA ConcludingKeepsReviewer ==
  ASSUME ReviewerInv, NEW kind, Conclude(kind), UNCHANGED state,
         pc \notin {"reviewTurn", "loop", "sweep", "dispatch"}
  PROVE  ReviewerInv'
<1>1. \A b \in Builders : state[Reviewer(b)] # "live"
  BY DEF ReviewerInv, InLoop
<1> QED
  BY <1>1, NoReviewer DEF Conclude

LEMMA ProceedingKeepsReviewer ==
  ASSUME ReviewerInv, NEW place \in {"predict", "recheck", "merge"}, Proceed(place),
         UNCHANGED state, pc \in {"verdict", "predict", "recheck"}
  PROVE  ReviewerInv'
<1>1. turn = Nobody /\ \A b \in Builders : state[Reviewer(b)] # "live"
  BY DEF ReviewerInv, InLoop
<1> QED
  BY <1>1, NoReviewer DEF Proceed

\* The end of a turn makes no agent live.
LEMMA TurnEndsRevivesNone ==
  ASSUME Typed, NEW how \in Ends, TurnEnds(how)
  PROVE  \A a \in Agents : state'[a] = "live" => state[a] = "live"
BY DEF TurnEnds, Typed, Settled

LEMMA SeedKeepsReviewer ==
  ASSUME ShapeInv, ReviewerInv, SeedStep
  PROVE  ReviewerInv'
<1>0. Typed
  BY DEF ShapeInv
<1>1. CASE SeedTrips \/ SeedRefused
  BY <1>0, <1>1, EndingKeepsReviewer
     DEF SeedTrips, SeedRefused, FailedOrTimedOut, Trip, Finish
<1>2. CASE SpawnSeed
  <2>1. /\ pc' = "seedTurn" /\ turn' = Top
        /\ \A b \in Builders : Reviewer(b) # Top /\ state'[Reviewer(b)] = state[Reviewer(b)]
    BY <1>0, <1>2, Names, SpawnedFacts DEF SpawnSeed
  <2>2. \A b \in Builders : state[Reviewer(b)] # "live"
    BY <1>2 DEF SpawnSeed, ReviewerInv, InLoop
  <2> QED
    BY <2>1, <2>2 DEF ReviewerInv, InLoop
<1>3. ASSUME NEW how \in Ends, SeedTurnEnds(how)
      PROVE  ReviewerInv'
  <2>1. \A b \in Builders : state[Reviewer(b)] # "live"
    BY <1>3 DEF SeedTurnEnds, ReviewerInv, InLoop
  <2>2. \A b \in Builders : state'[Reviewer(b)] # "live"
    BY <1>0, <1>3, <2>1, Names, TurnEndsRevivesNone DEF SeedTurnEnds
  <2> QED
    BY <1>3, <2>2, Names DEF SeedTurnEnds, TurnEnds, EnterLoop, ReviewerInv
<1> QED
  BY <1>1, <1>2, <1>3 DEF SeedStep

LEMMA SweepKeepsReviewer ==
  ASSUME ShapeInv, ReviewerInv, SweepStep
  PROVE  ReviewerInv'
<1>0. Typed
  BY DEF ShapeInv
<1>1. CASE LoopEnds
  <2>1. turn' = Nobody
    BY <1>1 DEF LoopEnds, BeforeDispatch, ReviewerInv
  <2>2. \A b \in Builders : state'[Reviewer(b)] # "live"
    BY <1>1, Names DEF LoopEnds, Live
  <2> QED
    BY <1>1, <2>1, <2>2, NoReviewer DEF LoopEnds
<1>2. CASE LoopTrips \/ DispatchThrows \/ \E a \in Agents : DispatchLocked(a)
  BY <1>0, <1>2, EndingKeepsReviewer
     DEF LoopTrips, Trip, DispatchThrows, DispatchLocked, Abandon, Finish
<1>3. CASE SweepBegins
  <2>1. \A b \in Builders : AtHand(b)' <=> AtHand(b)
    BY <1>3 DEF SweepBegins, review, AtHand, AtBranch, Picked, Reviewed, InLoop, Branch
  <2>2. \A b \in Builders : Reviewer(b) \in todo' => state[Reviewer(b)] = "live"
    BY <1>3 DEF SweepBegins, Live
  <2> QED
    BY <1>3, <2>1, <2>2 DEF SweepBegins, ReviewerInv, InLoop
<1>4. ASSUME NEW a \in Agents, SkipAgent(a)
      PROVE  ReviewerInv'
  <2>1. \A b \in Builders : AtHand(b)' <=> AtHand(b)
    BY <1>4 DEF SkipAgent, review, AtHand, AtBranch, Picked, Reviewed, InLoop, Branch
  <2> QED
    BY <1>4, <2>1 DEF SkipAgent, MayDispatch, ReviewerInv, InLoop
<1>5. ASSUME NEW a \in Agents, Dispatch(a)
      PROVE  ReviewerInv'
  <2>1. \A b \in Builders : AtHand(b)' <=> AtHand(b)
    BY <1>5 DEF Dispatch, MayDispatch, review, AtHand, AtBranch, Picked, Reviewed, InLoop,
                Branch
  <2> QED
    BY <1>5, <2>1 DEF Dispatch, MayDispatch, ReviewerInv, InLoop
<1>6. CASE SweepEnds
  <2>1. CASE pc' = "loop" /\ UNCHANGED <<state, turn, loop, todo, review>>
    <3>1. \A b \in Builders : AtHand(b)' <=> AtHand(b)
      BY <1>6, <2>1 DEF SweepEnds, review, AtHand, AtBranch, Picked, Reviewed, InLoop, Branch
    <3> QED
      BY <1>6, <2>1, <3>1 DEF SweepEnds, ReviewerInv, InLoop
  <2>2. CASE Trip("no-progress")
    BY <1>0, <2>2, EndingKeepsReviewer DEF Trip
  <2> QED
    BY <1>6, <2>1, <2>2 DEF SweepEnds
<1>7. ASSUME NEW how \in Ends, DispatchEnds(how)
      PROVE  ReviewerInv'
  <2>1. \A b \in Builders : AtHand(b)' <=> AtHand(b)
    BY <1>7 DEF DispatchEnds, TurnEnds, review, AtHand, AtBranch, Picked, Reviewed, InLoop,
                Branch
  <2>2. \A b \in Builders : state'[Reviewer(b)] = "live" => state[Reviewer(b)] = "live"
    BY <1>0, <1>7, Names, TurnEndsRevivesNone DEF DispatchEnds
  <2> QED
    BY <1>7, <2>1, <2>2, Names DEF DispatchEnds, TurnEnds, ReviewerInv, InLoop
<1> QED
  BY <1>1, <1>2, <1>3, <1>4, <1>5, <1>6, <1>7 DEF SweepStep

LEMMA ReviewKeepsReviewer ==
  ASSUME ShapeInv, ReviewerInv, ReviewStep
  PROVE  ReviewerInv'
<1>0. Typed
  BY DEF ShapeInv
<1>1. CASE Reconcile
  <2>1. CASE FailedOrTimedOut \/ Finish("no_op", seed)
    BY <1>0, <2>1, EndingKeepsReviewer DEF FailedOrTimedOut, Trip, Finish
  <2>2. CASE pc' = "branch" /\ UNCHANGED <<state, turn>>
    BY <1>1, <2>2, NoReviewer DEF Reconcile, ReviewerInv, InLoop
  <2> QED
    BY <1>1, <2>1, <2>2 DEF Reconcile
<1>2. CASE PickBranch
  BY <1>2, NoReviewer DEF PickBranch, ReviewerInv, InLoop
<1>3. CASE BranchTrips
  BY <1>0, <1>3, EndingKeepsReviewer DEF BranchTrips, Trip
<1>4. CASE SpawnReviewer
  <2>1. Branch \in Builders
    BY <1>4, BranchAtHand DEF SpawnReviewer, ShapeInv, Found, AtBranch, Picked
  <2>2. /\ pc' = "reviewTurn" /\ turn' = Reviewer(Branch) /\ Branch' = Branch
        /\ \A b \in Builders : b # Branch => state'[Reviewer(b)] = state[Reviewer(b)]
    BY <1>0, <1>4, <2>1, Names, SpawnedFacts DEF SpawnReviewer, review, Branch
  <2>3. \A b \in Builders : state[Reviewer(b)] # "live"
    BY <1>4 DEF SpawnReviewer, ReviewerInv, InLoop
  <2> QED
    BY <2>1, <2>2, <2>3, Names DEF ReviewerInv, AtHand, AtBranch, Picked, Reviewed, InLoop
<1>5. CASE ReviewerRefused
  <2>1. CASE Trip("timeout")
    BY <1>0, <2>1, EndingKeepsReviewer DEF Trip
  <2>2. CASE Conclude("failed") /\
             state' = IF turn = Nobody THEN state ELSE [state EXCEPT ![turn] = "zombie"]
    <3>1. \A b \in Builders : state'[Reviewer(b)] # "live"
      <4>1. CASE pc = "review"
        BY <2>2, <4>1 DEF ReviewerInv, InLoop
      <4>2. CASE pc = "reviewTurn"
        <5>1. turn = Reviewer(Branch) /\ Branch \in Builders
          BY <4>2, BranchAtHand DEF ReviewerInv, ShapeInv, Found, AtBranch, Picked, Reviewed
        <5>2. state' = [state EXCEPT ![Reviewer(Branch)] = "zombie"]
          BY <2>2, <5>1, Names
        <5>3. ASSUME NEW b \in Builders
              PROVE  state'[Reviewer(b)] # "live"
          <6>1. CASE b = Branch
            BY <1>0, <5>1, <5>2, <6>1, Names DEF Typed
          <6>2. CASE b # Branch
            <7>1. Reviewer(b) # Reviewer(Branch)
              BY <5>1, <6>2, Names
            <7>2. state[Reviewer(b)] # "live"
              BY <6>2 DEF ReviewerInv, AtHand
            <7> QED
              BY <1>0, <5>2, <7>1, <7>2, Names DEF Typed
          <6> QED
            BY <6>1, <6>2
        <5> QED
          BY <5>3
      <4> QED
        BY <1>5, <4>1, <4>2 DEF ReviewerRefused
    <3> QED
      BY <2>2, <3>1, NoReviewer DEF Conclude
  <2> QED
    BY <1>5, <2>1, <2>2 DEF ReviewerRefused
<1>6. CASE ReadVerdict
  <2>1. CASE Trip("timeout")
    BY <1>0, <2>1, EndingKeepsReviewer DEF Trip
  <2>2. CASE UNCHANGED state /\ \E kind : Conclude(kind)
    BY <1>6, <2>2, ConcludingKeepsReviewer DEF ReadVerdict
  <2>3. CASE UNCHANGED state /\ Proceed("predict")
    BY <1>6, <2>3, ProceedingKeepsReviewer DEF ReadVerdict
  <2> QED
    BY <1>6, <2>1, <2>2, <2>3 DEF ReadVerdict, Judged
<1>7. CASE Predict \/ Recheck
  BY <1>7, ConcludingKeepsReviewer, ProceedingKeepsReviewer DEF Predict, Recheck
<1>8. CASE Merge
  BY <1>8, ConcludingKeepsReviewer DEF Merge
<1>9. CASE MergeThrows
  BY <1>0, <1>9, EndingKeepsReviewer DEF MergeThrows
<1>10. CASE Tally
  <2>1. CASE \E outcome, status : Finish(outcome, status)
    BY <1>0, <2>1, EndingKeepsReviewer DEF Finish
  <2>2. CASE pc' = "gates" /\ UNCHANGED <<state, turn>>
    BY <1>10, <2>2, NoReviewer DEF Tally, ReviewerInv, InLoop
  <2> QED
    BY <1>10, <2>1, <2>2 DEF Tally, Complete, Incomplete
<1>11. CASE Gates
  BY <1>0, <1>11, EndingKeepsReviewer DEF Gates, Trip, Complete, Incomplete, Finish
<1>12. ASSUME NEW how \in Ends, ReviewTurnEnds(how)
       PROVE  ReviewerInv'
  <2>1. \A b \in Builders : AtHand(b) => AtHand(b)'
    BY <1>12 DEF ReviewTurnEnds, TurnEnds, EnterLoop, review, AtHand, AtBranch, Picked,
                 Reviewed, InLoop, Branch
  <2>2. \A b \in Builders : state'[Reviewer(b)] = "live" => state[Reviewer(b)] = "live"
    BY <1>0, <1>12, Names, TurnEndsRevivesNone DEF ReviewTurnEnds
  <2> QED
    BY <1>12, <2>1, <2>2, Names DEF ReviewTurnEnds, TurnEnds, EnterLoop, ReviewerInv, InLoop
<1> QED
  BY <1>1, <1>2, <1>3, <1>4, <1>5, <1>6, <1>7, <1>8, <1>9, <1>10, <1>11, <1>12
     DEF ReviewStep

LEMMA OthersKeepReviewer ==
  ASSUME ShapeInv, ReviewerInv, SlingStep \/ AgentStep \/ Expire \/ UNCHANGED vars
  PROVE  ReviewerInv'
<1>0. UNCHANGED <<turn, pc, loop, todo, builders, results>>
  BY DEF SlingStep, SlingSpawns, SlingFails, AwayEnds, AgentStep, AgentMails, BranchMoves,
         SendVerdict, AgentClosesSeed, Sling, Expire, vars, Elsewhere, engine, review
<1>1. ASSUME NEW b \in Builders
      PROVE  state'[Reviewer(b)] = state[Reviewer(b)]
  <2>1. Reviewer(b) \in Agents \ Kids /\ Typed
    BY Names DEF ShapeInv
  <2>2. CASE SlingStep
    <3>1. PICK k \in Kids : SlingSpawns(k) \/ SlingFails(k) \/ \E how \in Ends : AwayEnds(k, how)
      BY <2>2 DEF SlingStep
    <3>2. CASE SlingSpawns(k)
      BY <2>1, <3>2, SpawnedFacts, Names DEF SlingSpawns
    <3>3. CASE SlingFails(k) \/ \E how \in Ends : AwayEnds(k, how)
      BY <2>1, <3>3 DEF SlingFails, AwayEnds, Typed
    <3> QED
      BY <3>1, <3>2, <3>3
  <2>3. CASE AgentStep \/ Expire \/ UNCHANGED vars
    BY <2>3 DEF AgentStep, AgentMails, BranchMoves, SendVerdict, AgentClosesSeed, Sling,
                Expire, vars, world
  <2> QED
    BY <2>2, <2>3
<1> QED
  BY <1>0, <1>1, SameReviewer

-----------------------------------------------------------------------------
(* Commits: the pinned commit is no newer than the one the reviewer checked  *)
(* out, and that is no newer than the branch; the recheck squeezes them into *)
(* one.  A branch has landed exactly if its result says so, until the end.   *)

CommitInv ==
  /\ \A b \in Builders : landed[b] # 0 => landed[b] = saw[b]
  /\ pc # "done" => \A b \in Builders : landed[b] # 0 <=> b \in MergedNames
  /\ Picked => 0 < reviewed /\ reviewed <= head[Branch]
  /\ Reviewed => reviewed <= saw[Branch] /\ saw[Branch] <= head[Branch]
  /\ pc = "merge" => reviewed = saw[Branch]

\* An end of the run without a merge.
LEMMA EndingKeepsCommit ==
  ASSUME ShapeInv, CommitInv, NEW outcome, NEW breaker, NEW merged, NEW status,
         EndWith(outcome, breaker, merged, status), UNCHANGED landed
  PROVE  CommitInv'
BY DEF CommitInv, EndWith, world, Picked, Reviewed, InLoop

\* The branch at hand has not landed.
LEMMA NotYetLanded ==
  ASSUME ShapeInv, CommitInv, AtBranch
  PROVE  Branch \in Builders /\ landed[Branch] = 0 /\ Branch \notin MergedNames
<1>1. Branch \in Builders /\ \A i \in DOMAIN results : results[i].branch # Branch
  BY BranchAtHand DEF ShapeInv, Found
<1>2. Branch \notin MergedNames
  BY <1>1 DEF MergedNames, KindsOf
<1> QED
  BY <1>1, <1>2 DEF CommitInv, AtBranch, Picked, Reviewed, InLoop

\* What one more result adds to the merged branches.
LEMMA MergedGrows ==
  ASSUME ShapeInv, AtBranch, NEW kind \in Kinds, Conclude(kind)
  PROVE  MergedNames' = IF kind = "merged" THEN MergedNames \cup {Branch} ELSE MergedNames
<1>1. Branch \in Builders
  BY BranchAtHand DEF ShapeInv, Found
<1>2. /\ Len(results) \in Nat /\ Len(results') = Len(results) + 1
      /\ DOMAIN results = 1..Len(results) /\ DOMAIN results' = 1..Len(results')
      /\ \A i \in 1..Len(results) : results'[i] = results[i]
      /\ results'[Len(results) + 1] = [branch |-> Branch, kind |-> kind]
  <2>1. [branch |-> Branch, kind |-> kind] \in [branch : Builders, kind : Kinds]
    BY <1>1
  <2>2. results' = Append(results, [branch |-> Branch, kind |-> kind])
    BY DEF Conclude
  <2> QED
    BY <2>1, <2>2, AppendProperties, LenProperties DEF ShapeInv, Typed
<1>3. KindsOf("merged")' = IF kind = "merged" THEN KindsOf("merged") \cup {Len(results) + 1}
                           ELSE KindsOf("merged")
  BY <1>2 DEF KindsOf
<1>4. \A i \in KindsOf("merged") : i \in 1..Len(results)
  BY <1>2 DEF KindsOf
<1> QED
  BY <1>2, <1>3, <1>4 DEF MergedNames

\* A branch concluded without a merge.
LEMMA ConcludingKeepsCommit ==
  ASSUME ShapeInv, CommitInv, AtBranch, NEW kind \in Kinds \ {"merged"}, Conclude(kind),
         UNCHANGED landed
  PROVE  CommitInv'
<1>1. MergedNames' = MergedNames
  BY MergedGrows
<1>2. pc' \in {"branch", "tally"} /\ pc # "done"
  BY DEF Conclude, AtBranch, Picked, Reviewed, InLoop
<1> QED
  BY <1>1, <1>2 DEF CommitInv, Conclude, world, Picked, Reviewed, InLoop

\* Nothing about commits, merges or the place in a review changes.
LEMMA SameCommit ==
  ASSUME CommitInv, UNCHANGED <<landed, saw, head, results, builders, reviewed>>,
         Reviewed' => Reviewed, Picked' => Picked, pc' # "merge", pc = "done" => pc' = "done"
  PROVE  CommitInv'
BY DEF CommitInv, MergedNames, KindsOf, Branch

LEMMA SeedKeepsCommit ==
  ASSUME ShapeInv, CommitInv, SeedStep
  PROVE  CommitInv'
<1> USE DEF Picked, Reviewed, InLoop
<1>1. CASE SeedTrips \/ SeedRefused
  BY <1>1, EndingKeepsCommit DEF SeedTrips, SeedRefused, FailedOrTimedOut, Trip, Finish
<1>2. CASE SpawnSeed
  BY <1>2 DEF SpawnSeed, CommitInv, review, MergedNames, KindsOf
<1>3. ASSUME NEW how \in Ends, SeedTurnEnds(how)
      PROVE  CommitInv'
  BY <1>3, SameCommit DEF SeedTurnEnds, TurnEnds, EnterLoop, review
<1> QED
  BY <1>1, <1>2, <1>3 DEF SeedStep

LEMMA SweepKeepsCommit ==
  ASSUME ShapeInv, CommitInv, SweepStep
  PROVE  CommitInv'
<1> USE DEF Picked, Reviewed, InLoop
<1>1. CASE LoopEnds
  <2>1. loop \in {"main", "review"}
    BY DEF ShapeInv, Typed
  <2> QED
    BY <1>1, <2>1, SameCommit DEF LoopEnds, BeforeDispatch, world, engine, review
<1>2. CASE LoopTrips \/ DispatchThrows \/ \E a \in Agents : DispatchLocked(a)
  BY <1>2, EndingKeepsCommit
     DEF LoopTrips, Trip, DispatchThrows, DispatchLocked, Abandon, Finish
<1>3. CASE SweepBegins \/ \E a \in Agents : SkipAgent(a) \/ Dispatch(a)
  BY <1>3, SameCommit DEF SweepBegins, SkipAgent, Dispatch, MayDispatch, world, review
<1>4. CASE SweepEnds
  <2>1. CASE pc' = "loop" /\ UNCHANGED <<world, landed, loop, review>>
    BY <1>4, <2>1, SameCommit DEF SweepEnds, world, review
  <2>2. CASE Trip("no-progress")
    BY <2>2, EndingKeepsCommit DEF Trip
  <2> QED
    BY <1>4, <2>1, <2>2 DEF SweepEnds
<1>5. ASSUME NEW how \in Ends, DispatchEnds(how)
      PROVE  CommitInv'
  BY <1>5, SameCommit DEF DispatchEnds, TurnEnds, review
<1> QED
  BY <1>1, <1>2, <1>3, <1>4, <1>5 DEF SweepStep

LEMMA ReviewKeepsCommit ==
  ASSUME ShapeInv, CommitInv, ReviewStep
  PROVE  CommitInv'
<1> USE DEF Picked, Reviewed, InLoop
<1>1. CASE Reconcile
  <2>1. CASE FailedOrTimedOut \/ Finish("no_op", seed)
    BY <2>1, EndingKeepsCommit DEF FailedOrTimedOut, Trip, Finish
  <2>2. CASE pc' = "branch" /\ UNCHANGED <<world, landed, results, reviewed>>
    BY <1>1, <2>2 DEF Reconcile, CommitInv, world, MergedNames, KindsOf
  <2> QED
    BY <1>1, <2>1, <2>2 DEF Reconcile
<1>2. CASE PickBranch
  <2>1. Branch \in Builders /\ head[Branch] > 0
    <3>1. Branch \in Builders
      BY <1>2, BranchAtHand DEF PickBranch, ShapeInv, Found, AtBranch
    <3>2. Len(results) + 1 \in DOMAIN builders
      BY <1>2, LenProperties DEF PickBranch, ShapeInv, Found, Typed, AtBranch
    <3>3. HasRow(Branch)
      BY <3>2 DEF ShapeInv, Found, Branch
    <3> QED
      BY <3>1, <3>3 DEF ShapeInv, Fresh
  <2>2. head[Branch] \in Nat
    BY <2>1 DEF ShapeInv, Typed
  <2> QED
    BY <1>2, <2>1, <2>2 DEF PickBranch, CommitInv, world, engine, Branch, MergedNames, KindsOf
<1>3. CASE BranchTrips
  BY <1>3, EndingKeepsCommit DEF BranchTrips, Trip
<1>4. CASE SpawnReviewer
  <2>1. Branch \in Builders /\ landed[Branch] = 0
    BY <1>4, NotYetLanded DEF SpawnReviewer, AtBranch
  <2>2. Spawned(Reviewer(Branch)) /\ Reviewer(Branch) \in Agents \ Builders
    BY <1>4, <2>1, Names DEF SpawnReviewer
  <2>3. \A b \in Builders : head'[b] = head[b]
    BY <2>2, SpawnedFacts DEF ShapeInv
  <2>4. saw' = [saw EXCEPT ![Branch] = head[Branch]] /\ saw \in [Builders -> Nat]
        /\ head[Branch] \in Nat
    BY <1>4, <2>1 DEF SpawnReviewer, ShapeInv, Typed
  <2>5. /\ pc = "review" /\ pc' = "reviewTurn"
        /\ UNCHANGED <<landed, builders, results, reviewed>>
    BY <1>4 DEF SpawnReviewer, review
  <2> QED
    BY <2>1, <2>3, <2>4, <2>5 DEF CommitInv, Branch, MergedNames, KindsOf
<1>5. CASE ReviewerRefused
  BY <1>5, EndingKeepsCommit, ConcludingKeepsCommit
     DEF ReviewerRefused, Trip, Kinds, AtBranch
<1>6. CASE ReadVerdict
  <2>1. CASE Trip("timeout")
    BY <2>1, EndingKeepsCommit DEF Trip
  <2>2. CASE /\ UNCHANGED landed
             /\ \E kind \in {"failed", "review_failed", "no_op"} : Conclude(kind)
    BY <1>6, <2>2, ConcludingKeepsCommit DEF ReadVerdict, Kinds, AtBranch
  <2>3. CASE UNCHANGED landed /\ Proceed("predict")
    BY <1>6, <2>3, SameCommit DEF ReadVerdict, Proceed, world, review
  <2> QED
    BY <1>6, <2>1, <2>2, <2>3 DEF ReadVerdict, Judged
<1>7. CASE Predict
  <2>1. CASE Proceed("recheck")
    BY <1>7, <2>1, SameCommit DEF Predict, Proceed, world, review
  <2>2. CASE Conclude("merge_blocked") \/ Conclude("failed")
    BY <1>7, <2>2, ConcludingKeepsCommit DEF Predict, Kinds, AtBranch
  <2> QED
    BY <1>7, <2>1, <2>2 DEF Predict
<1>8. CASE Recheck
  <2>1. CASE Conclude("failed")
    BY <1>8, <2>1, ConcludingKeepsCommit DEF Recheck, Kinds, AtBranch
  <2>2. CASE head[Branch] = reviewed /\ Proceed("merge")
    <3>1. Branch \in Builders
      BY <1>8, NotYetLanded DEF Recheck, AtBranch
    <3>2. saw[Branch] \in Nat /\ head[Branch] \in Nat /\ reviewed \in Nat
      BY <3>1 DEF ShapeInv, Typed
    <3>3. reviewed = saw[Branch]
      BY <1>8, <2>2, <3>2 DEF Recheck, CommitInv
    <3> QED
      BY <1>8, <2>2, <3>3 DEF Recheck, Proceed, CommitInv, world, review, Branch,
                              MergedNames, KindsOf
  <2> QED
    BY <1>8, <2>1, <2>2 DEF Recheck
<1>9. CASE Merge
  <2>1. CASE Conclude("merged") /\ landed' = [landed EXCEPT ![Branch] = reviewed]
    <3>1. Branch \in Builders /\ landed[Branch] = 0
      BY <1>9, NotYetLanded DEF Merge, AtBranch
    <3>2. MergedNames' = MergedNames \cup {Branch}
      BY <1>9, <2>1, MergedGrows DEF Merge, AtBranch, Kinds
    <3>3. reviewed = saw[Branch] /\ reviewed # 0
      BY <1>9, <3>1 DEF Merge, CommitInv, ShapeInv, Typed
    <3>4. landed \in [Builders -> Nat]
      BY DEF ShapeInv, Typed
    <3>5. pc = "merge" /\ pc' \in {"branch", "tally"} /\ UNCHANGED saw
      BY <1>9, <2>1 DEF Merge, Conclude, world
    <3> QED
      BY <2>1, <3>1, <3>2, <3>3, <3>4, <3>5 DEF CommitInv
  <2>2. CASE UNCHANGED landed /\ (Conclude("merge_blocked") \/ Conclude("failed"))
    BY <1>9, <2>2, ConcludingKeepsCommit DEF Merge, Kinds, AtBranch
  <2> QED
    BY <1>9, <2>1, <2>2 DEF Merge
<1>10. CASE MergeThrows
  <2>1. CASE UNCHANGED landed
    BY <1>10, <2>1, EndingKeepsCommit DEF MergeThrows
  <2>2. CASE landed' = [landed EXCEPT ![Branch] = reviewed]
    <3>1. Branch \in Builders
      BY <1>10, NotYetLanded DEF MergeThrows, AtBranch
    <3>2. landed \in [Builders -> Nat]
      BY DEF ShapeInv, Typed
    <3>3. pc = "merge" /\ pc' = "done" /\ UNCHANGED saw
      BY <1>10 DEF MergeThrows, EndWith, world
    <3> QED
      BY <2>2, <3>1, <3>2, <3>3 DEF CommitInv
  <2> QED
    BY <1>10, <2>1, <2>2 DEF MergeThrows
<1>11. CASE Tally
  <2>1. CASE \E outcome, status : Finish(outcome, status)
    BY <2>1, EndingKeepsCommit DEF Finish
  <2>2. CASE pc' = "gates" /\ UNCHANGED <<world, landed, review>>
    BY <1>11, <2>2, SameCommit DEF Tally, world, review
  <2> QED
    BY <1>11, <2>1, <2>2 DEF Tally, Complete, Incomplete
<1>12. CASE Gates
  BY <1>12, EndingKeepsCommit DEF Gates, Trip, Complete, Incomplete, Finish
<1>13. ASSUME NEW how \in Ends, ReviewTurnEnds(how)
       PROVE  CommitInv'
  BY <1>13, SameCommit DEF ReviewTurnEnds, TurnEnds, EnterLoop, review
<1> QED
  BY <1>1, <1>2, <1>3, <1>4, <1>5, <1>6, <1>7, <1>8, <1>9, <1>10, <1>11, <1>12, <1>13
     DEF ReviewStep

LEMMA OthersKeepCommit ==
  ASSUME ShapeInv, CommitInv, SlingStep \/ AgentStep \/ Expire \/ UNCHANGED vars
  PROVE  CommitInv'
<1>1. UNCHANGED <<pc, loop, landed, saw, builders, results, reviewed>>
  BY DEF SlingStep, SlingSpawns, SlingFails, AwayEnds, AgentStep, AgentMails, BranchMoves,
         SendVerdict, AgentClosesSeed, Sling, Expire, vars, Elsewhere, engine, review, world
<1>2. \A b \in Builders : HasRow(b) => head[b] <= head'[b]
  <2>0. head \in [Builders -> Nat] /\ Typed
    BY DEF ShapeInv, Typed
  <2>1. ASSUME NEW k \in Kids, SlingSpawns(k), NEW b \in Builders, HasRow(b)
        PROVE  head'[b] = head[b]
    <3>1. b # k
      BY <2>1 DEF SlingSpawns, ShapeInv, Fresh
    <3> QED
      BY <2>0, <2>1, <3>1, SpawnedFacts, Names DEF SlingSpawns
  <2>2. ASSUME NEW b \in Builders, BranchMoves(b), NEW c \in Builders
        PROVE  head[c] <= head'[c]
    BY <2>0, <2>2 DEF BranchMoves
  <2>3. ASSUME head' = head, NEW b \in Builders
        PROVE  head[b] <= head'[b]
    BY <2>0, <2>3
  <2>4. CASE SlingStep
    <3>1. PICK k \in Kids : SlingSpawns(k) \/ SlingFails(k) \/ \E how \in Ends : AwayEnds(k, how)
      BY <2>4 DEF SlingStep
    <3>2. ASSUME NEW b \in Builders, HasRow(b), SlingSpawns(k)
          PROVE  head[b] <= head'[b]
      BY <2>0, <2>1, <3>2
    <3>3. CASE SlingFails(k) \/ \E how \in Ends : AwayEnds(k, how)
      BY <2>3, <3>3 DEF SlingFails, AwayEnds
    <3> QED
      BY <3>1, <3>2, <3>3
  <2>5. CASE AgentStep
    BY <2>2, <2>3, <2>5 DEF AgentStep, AgentMails, SendVerdict, AgentClosesSeed, Sling, world
  <2>6. CASE Expire \/ UNCHANGED vars
    BY <2>3, <2>6 DEF Expire, vars, world
  <2> QED
    BY <2>4, <2>5, <2>6
<1>3. ASSUME Picked
      PROVE  Branch \in Builders /\ head[Branch] <= head'[Branch]
  <2>1. Branch \in Builders
    BY <1>3, BranchAtHand DEF ShapeInv, Found, AtBranch
  <2>2. Len(results) + 1 \in DOMAIN builders
    BY <1>3, LenProperties DEF ShapeInv, Found, Typed, AtBranch
  <2>3. HasRow(Branch)
    BY <2>2 DEF ShapeInv, Found, Branch
  <2> QED
    BY <1>2, <2>1, <2>3
<1>4. Typed /\ Typed'
  BY OthersKeepShape DEF ShapeInv
<1>5. Branch \in Builders => head[Branch] \in Nat /\ head'[Branch] \in Nat /\ saw[Branch] \in Nat
  BY <1>4 DEF Typed
<1> QED
  <2>1. Picked' = Picked /\ Reviewed' = Reviewed /\ Branch' = Branch /\ MergedNames' = MergedNames
    BY <1>1 DEF Picked, Reviewed, InLoop, Branch, MergedNames, KindsOf
  <2>2. Reviewed => Picked
    BY DEF Picked
  <2>3. reviewed \in Nat
    BY <1>4 DEF Typed
  <2> QED
    BY <1>1, <1>3, <1>5, <2>1, <2>2, <2>3 DEF CommitInv

-----------------------------------------------------------------------------
(* Verdicts: mail after the snapshot tells the last word of its reviewer, and *)
(* a reviewer has no word after its branch was concluded.                     *)

VerdictInv ==
  /\ Picked => \A b \in Builders, i \in DOMAIN mail :
       /\ i > snapshot /\ mail[i][1] = Reviewer(b)
       /\ \A j \in DOMAIN mail : j > i => mail[j][1] # Reviewer(b)
       => said[b] = mail[i][2]
  /\ pc \in {"predict", "recheck", "merge"} => said[Branch] = "pass"
  /\ \A b \in Builders : landed[b] # 0 => said[b] = "pass"
  /\ \A i \in DOMAIN results :
       results[i].kind \in {"merged", "no_op"} => said[results[i].branch] = "pass"

\* Nothing about verdicts changes.
LEMMA SameVerdict ==
  ASSUME VerdictInv, UNCHANGED <<landed, mail, said, results, builders, snapshot>>,
         Picked' => Picked,
         pc' \in {"predict", "recheck", "merge"} => pc \in {"predict", "recheck"}
  PROVE  VerdictInv'
BY DEF VerdictInv, Branch

LEMMA EndingKeepsVerdict ==
  ASSUME VerdictInv, NEW outcome, NEW breaker, NEW merged, NEW status,
         EndWith(outcome, breaker, merged, status), UNCHANGED landed
  PROVE  VerdictInv'
BY SameVerdict DEF EndWith, world, review, Picked, Reviewed, InLoop

\* A branch that is concluded as merged or as a no-op has its PASS.
LEMMA ConcludingKeepsVerdict ==
  ASSUME ShapeInv, VerdictInv, AtBranch, NEW kind \in Kinds, Conclude(kind),
         kind \in {"merged", "no_op"} => said[Branch] = "pass",
         \A b \in Builders \ {Branch} : landed'[b] = landed[b],
         landed'[Branch] # 0 => said[Branch] = "pass"
  PROVE  VerdictInv'
<1>1. Branch \in Builders
  BY BranchAtHand DEF ShapeInv, Found
<1>2. /\ DOMAIN results = 1..Len(results) /\ Len(results) \in Nat
      /\ DOMAIN results' = 1..Len(results) + 1
      /\ \A i \in 1..Len(results) : results'[i] = results[i]
      /\ results'[Len(results) + 1] = [branch |-> Branch, kind |-> kind]
  <2>1. [branch |-> Branch, kind |-> kind] \in [branch : Builders, kind : Kinds]
    BY <1>1
  <2>2. results' = Append(results, [branch |-> Branch, kind |-> kind])
    BY DEF Conclude
  <2> QED
    BY <2>1, <2>2, AppendProperties, LenProperties DEF ShapeInv, Typed
<1>3. pc' \in {"branch", "tally"} /\ UNCHANGED said
  BY DEF Conclude, world
<1>4. \A i \in DOMAIN results' :
        results'[i].kind \in {"merged", "no_op"} => said[results'[i].branch] = "pass"
  BY <1>2 DEF VerdictInv
<1>5. \A b \in Builders : landed'[b] # 0 => said[b] = "pass"
  BY DEF VerdictInv
<1> QED
  BY <1>3, <1>4, <1>5 DEF VerdictInv, Picked, Reviewed, InLoop

\* What the driver reads is the last word of the branch's reviewer.
LEMMA VerdictIsLastWord ==
  ASSUME ShapeInv, VerdictInv, Picked, NEW v, Verdict(v)
  PROVE  said[Branch] = v
<1>1. Branch \in Builders
  BY BranchAtHand DEF ShapeInv, Found, AtBranch
<1>2. PICK i \in After : mail[i][2] = v /\ \A j \in After : j <= i
  BY DEF Verdict
<1>3. i \in DOMAIN mail /\ i > snapshot /\ mail[i][1] = Reviewer(Branch)
  BY <1>2 DEF After
<1>4. ASSUME NEW j \in DOMAIN mail, j > i
      PROVE  mail[j][1] # Reviewer(Branch)
  <2>1. i \in Nat /\ j \in Nat /\ snapshot \in Nat
    BY <1>3 DEF ShapeInv, Typed
  <2> QED
    BY <1>2, <1>3, <1>4, <2>1 DEF After
<1> QED
  BY <1>1, <1>2, <1>3, <1>4 DEF VerdictInv

LEMMA SeedKeepsVerdict ==
  ASSUME ShapeInv, VerdictInv, SeedStep
  PROVE  VerdictInv'
<1> USE DEF Picked, Reviewed, InLoop
<1>1. CASE SeedTrips \/ SeedRefused
  BY <1>1, EndingKeepsVerdict DEF SeedTrips, SeedRefused, FailedOrTimedOut, Trip, Finish
<1>2. CASE SpawnSeed
  BY <1>2, SameVerdict DEF SpawnSeed, review
<1>3. ASSUME NEW how \in Ends, SeedTurnEnds(how)
      PROVE  VerdictInv'
  BY <1>3, SameVerdict DEF SeedTurnEnds, TurnEnds, EnterLoop, review
<1> QED
  BY <1>1, <1>2, <1>3 DEF SeedStep

LEMMA SweepKeepsVerdict ==
  ASSUME ShapeInv, VerdictInv, SweepStep
  PROVE  VerdictInv'
<1> USE DEF Picked, Reviewed, InLoop
<1>1. CASE LoopEnds
  <2>1. loop \in {"main", "review"}
    BY DEF ShapeInv, Typed
  <2> QED
    BY <1>1, <2>1, SameVerdict DEF LoopEnds, BeforeDispatch, world, engine, review
<1>2. CASE LoopTrips \/ DispatchThrows \/ \E a \in Agents : DispatchLocked(a)
  BY <1>2, EndingKeepsVerdict
     DEF LoopTrips, Trip, DispatchThrows, DispatchLocked, Abandon, Finish
<1>3. CASE SweepBegins \/ \E a \in Agents : SkipAgent(a) \/ Dispatch(a)
  BY <1>3, SameVerdict DEF SweepBegins, SkipAgent, Dispatch, MayDispatch, world, review
<1>4. CASE SweepEnds
  <2>1. CASE pc' = "loop" /\ UNCHANGED <<world, landed, loop, review>>
    BY <1>4, <2>1, SameVerdict DEF SweepEnds, world, review
  <2>2. CASE Trip("no-progress")
    BY <2>2, EndingKeepsVerdict DEF Trip
  <2> QED
    BY <1>4, <2>1, <2>2 DEF SweepEnds
<1>5. ASSUME NEW how \in Ends, DispatchEnds(how)
      PROVE  VerdictInv'
  BY <1>5, SameVerdict DEF DispatchEnds, TurnEnds, review
<1> QED
  BY <1>1, <1>2, <1>3, <1>4, <1>5 DEF SweepStep

LEMMA ReviewKeepsVerdict ==
  ASSUME ShapeInv, CommitInv, VerdictInv, ReviewStep
  PROVE  VerdictInv'
<1> USE DEF Picked, Reviewed, InLoop
<1>1. CASE Reconcile
  <2>1. CASE FailedOrTimedOut \/ Finish("no_op", seed)
    BY <2>1, EndingKeepsVerdict DEF FailedOrTimedOut, Trip, Finish
  <2>2. CASE pc' = "branch" /\ UNCHANGED <<world, landed, results>>
    BY <1>1, <2>2 DEF Reconcile, VerdictInv, world
  <2> QED
    BY <1>1, <2>1, <2>2 DEF Reconcile
<1>2. CASE PickBranch
  <2>1. \A i \in DOMAIN mail : ~(i > snapshot')
    BY <1>2 DEF PickBranch, ShapeInv, Typed
  <2> QED
    BY <1>2, <2>1 DEF PickBranch, VerdictInv, world
<1>3. CASE BranchTrips
  BY <1>3, EndingKeepsVerdict DEF BranchTrips, Trip
<1>4. CASE SpawnReviewer
  BY <1>4, SameVerdict DEF SpawnReviewer, review
<1>5. CASE ReviewerRefused
  <2>1. CASE Trip("timeout")
    BY <2>1, EndingKeepsVerdict DEF Trip
  <2>2. CASE Conclude("failed") /\ UNCHANGED landed
    <3>1. Branch \in Builders /\ landed[Branch] = 0
      BY <1>5, NotYetLanded DEF ReviewerRefused, AtBranch
    <3> QED
      BY <1>5, <2>2, <3>1, ConcludingKeepsVerdict DEF ReviewerRefused, Kinds, AtBranch
  <2> QED
    BY <1>5, <2>1, <2>2 DEF ReviewerRefused
<1>6. CASE ReadVerdict
  <2>0. pc = "verdict" /\ Picked /\ AtBranch /\ landed[Branch] = 0
    BY <1>6, NotYetLanded DEF ReadVerdict, AtBranch
  <2>1. CASE Trip("timeout")
    BY <2>1, EndingKeepsVerdict DEF Trip
  <2>2. CASE UNCHANGED landed /\ (Conclude("failed") \/ Conclude("review_failed"))
    BY <2>0, <2>2, ConcludingKeepsVerdict DEF Kinds
  <2>3. CASE UNCHANGED landed /\ Verdict("pass") /\ Conclude("no_op")
    BY <2>0, <2>3, VerdictIsLastWord, ConcludingKeepsVerdict DEF Kinds
  <2>4. CASE UNCHANGED landed /\ Verdict("pass") /\ Proceed("predict")
    <3>1. said[Branch] = "pass"
      BY <2>0, <2>4, VerdictIsLastWord
    <3> QED
      BY <2>0, <2>4, <3>1 DEF Proceed, VerdictInv, world, review, Branch
  <2> QED
    BY <1>6, <2>1, <2>2, <2>3, <2>4 DEF ReadVerdict, Judged
<1>7. CASE Predict \/ Recheck
  <2>0. pc \in {"predict", "recheck"} /\ AtBranch /\ landed[Branch] = 0 /\ UNCHANGED landed
    BY <1>7, NotYetLanded DEF Predict, Recheck, AtBranch
  <2>1. CASE Conclude("merge_blocked") \/ Conclude("failed")
    BY <2>0, <2>1, ConcludingKeepsVerdict DEF Kinds
  <2>2. CASE Proceed("recheck") \/ Proceed("merge")
    BY <2>0, <2>2, SameVerdict DEF Proceed, world, review
  <2> QED
    BY <1>7, <2>1, <2>2 DEF Predict, Recheck
<1>8. CASE Merge
  <2>0. /\ pc = "merge" /\ AtBranch /\ Branch \in Builders /\ landed[Branch] = 0
        /\ said[Branch] = "pass"
    BY <1>8, NotYetLanded DEF Merge, AtBranch, VerdictInv
  <2>1. landed \in [Builders -> Nat]
    BY DEF ShapeInv, Typed
  <2>2. \A b \in Builders \ {Branch} : landed'[b] = landed[b]
    BY <1>8, <2>1 DEF Merge
  <2> QED
    BY <1>8, <2>0, <2>2, ConcludingKeepsVerdict DEF Merge, Kinds
<1>9. CASE MergeThrows
  <2>1. CASE UNCHANGED landed
    BY <1>9, <2>1, EndingKeepsVerdict DEF MergeThrows
  <2>2. CASE landed' = [landed EXCEPT ![Branch] = reviewed]
    <3>1. Branch \in Builders /\ said[Branch] = "pass"
      BY <1>9, NotYetLanded DEF MergeThrows, AtBranch, VerdictInv
    <3>2. landed \in [Builders -> Nat]
      BY DEF ShapeInv, Typed
    <3>3. pc' = "done" /\ UNCHANGED <<said, results>>
      BY <1>9 DEF MergeThrows, EndWith, world, review
    <3> QED
      BY <2>2, <3>1, <3>2, <3>3 DEF VerdictInv
  <2> QED
    BY <1>9, <2>1, <2>2 DEF MergeThrows
<1>10. CASE Tally
  <2>1. CASE \E outcome, status : Finish(outcome, status)
    BY <2>1, EndingKeepsVerdict DEF Finish
  <2>2. CASE pc' = "gates" /\ UNCHANGED <<world, landed, review>>
    BY <1>10, <2>2, SameVerdict DEF Tally, world, review
  <2> QED
    BY <1>10, <2>1, <2>2 DEF Tally, Complete, Incomplete
<1>11. CASE Gates
  BY <1>11, EndingKeepsVerdict DEF Gates, Trip, Complete, Incomplete, Finish
<1>12. ASSUME NEW how \in Ends, ReviewTurnEnds(how)
       PROVE  VerdictInv'
  BY <1>12, SameVerdict DEF ReviewTurnEnds, TurnEnds, EnterLoop, review
<1> QED
  BY <1>1, <1>2, <1>3, <1>4, <1>5, <1>6, <1>7, <1>8, <1>9, <1>10, <1>11, <1>12
     DEF ReviewStep

LEMMA OthersKeepVerdict ==
  ASSUME ShapeInv, ReviewerInv, CommitInv, VerdictInv,
         SlingStep \/ AgentStep \/ Expire \/ UNCHANGED vars
  PROVE  VerdictInv'
<1>1. UNCHANGED <<pc, loop, landed, builders, results, snapshot>>
  BY DEF SlingStep, SlingSpawns, SlingFails, AwayEnds, AgentStep, AgentMails, BranchMoves,
         SendVerdict, AgentClosesSeed, Sling, Expire, vars, Elsewhere, engine, review, world
<1>2. ASSUME NEW b \in Builders, NEW v \in Verdicts, SendVerdict(b, v)
      PROVE  VerdictInv'
  <2>1. AtHand(b) /\ pc \in {"seedTurn", "dispatch", "reviewTurn"}
    BY <1>2, Names DEF SendVerdict, ReviewerInv
  <2>2. Branch = b /\ landed[b] = 0 /\ \A i \in DOMAIN results : results[i].branch # b
    BY <2>1, NotYetLanded, BranchAtHand DEF AtHand, ShapeInv, Found
  <2>3. /\ DOMAIN mail = 1..Len(mail) /\ Len(mail) \in Nat
        /\ DOMAIN mail' = 1..Len(mail) + 1
        /\ \A i \in 1..Len(mail) : mail'[i] = mail[i]
        /\ mail'[Len(mail) + 1] = <<Reviewer(b), v>>
    BY <1>2 DEF SendVerdict, ShapeInv, Typed
  <2>4. said'[b] = v /\ \A c \in Builders \ {b} : said'[c] = said[c]
    BY <1>2 DEF SendVerdict, ShapeInv, Typed
  <2>5. ASSUME Picked, NEW c \in Builders, NEW i \in DOMAIN mail',
               i > snapshot /\ mail'[i][1] = Reviewer(c),
               \A j \in DOMAIN mail' : j > i => mail'[j][1] # Reviewer(c)
        PROVE  said'[c] = mail'[i][2]
    <3>1. CASE c = b
      BY <2>3, <2>4, <2>5, <3>1
    <3>2. CASE c # b
      <4>1. Reviewer(c) # Reviewer(b)
        BY <3>2, Names
      <4>2. i \in DOMAIN mail /\ mail'[i] = mail[i]
        BY <2>3, <2>5, <4>1
      <4>3. \A j \in DOMAIN mail : j > i => mail[j][1] # Reviewer(c)
        BY <2>3, <2>5
      <4> QED
        BY <2>4, <2>5, <3>2, <4>2, <4>3 DEF VerdictInv
    <3> QED
      BY <3>1, <3>2
  <2>6. \A i \in DOMAIN results :
          results[i].kind \in {"merged", "no_op"} => said'[results[i].branch] = "pass"
    <3>1. ASSUME NEW i \in DOMAIN results
          PROVE  results[i].branch \in Builders
      <4>1. /\ results \in Seq([branch : Builders, kind : Kinds])
            /\ DOMAIN results = 1..Len(results)
        BY LenProperties DEF ShapeInv, Typed
      <4>2. results[i] \in [branch : Builders, kind : Kinds]
        BY <4>1, ElementOfSeq
      <4> QED
        BY <4>2
    <3> QED
      BY <2>2, <2>4, <3>1 DEF VerdictInv
  <2>7. \A c \in Builders : landed[c] # 0 => said'[c] = "pass"
    BY <2>2, <2>4 DEF VerdictInv
  <2>8. (Picked' <=> Picked) /\ pc' \notin {"predict", "recheck", "merge"}
    BY <1>1, <2>1 DEF Picked, Reviewed, InLoop
  <2>9. \A c \in Builders, i \in DOMAIN mail' :
          Picked' /\ i > snapshot' /\ mail'[i][1] = Reviewer(c)
          /\ (\A j \in DOMAIN mail' : j > i => mail'[j][1] # Reviewer(c))
          => said'[c] = mail'[i][2]
    BY <1>1, <2>5, <2>8
  <2> QED
    BY <1>1, <2>6, <2>7, <2>8, <2>9 DEF VerdictInv
<1>3. CASE UNCHANGED <<mail, said>>
  BY <1>1, <1>3 DEF VerdictInv, Picked, Reviewed, InLoop, Branch
<1> QED
  BY <1>2, <1>3 DEF SlingStep, SlingSpawns, SlingFails, AwayEnds, AgentStep, AgentMails,
     BranchMoves, AgentClosesSeed, Sling, Expire, vars, world, Verdicts

-----------------------------------------------------------------------------
(* The outcome *)

\* The driver has no result before it exits; what it then says of merges, of
\* the seed and of a run without a merge is what came to pass.
OutcomeInv ==
  /\ pc # "done" => result = NoResult
  /\ pc = "gates" => KindsOf("merged") = DOMAIN results
  /\ EveryMergeIsDisclosed
  /\ SeedFollowsOutcome
  /\ NoOpMasksNoFailure

\* Every builder branch found has landed; has its PASS and has not landed.
AllLanded == \A i \in DOMAIN builders : landed[builders[i]] # 0
AllPassed == \A i \in DOMAIN builders : said[builders[i]] = "pass" /\ landed[builders[i]] = 0

\* A nonempty set of naturals has a least element.
LEMMA Least ==
  ASSUME NEW S \in SUBSET Nat, S # {}
  PROVE  \E i \in S : \A j \in S : i <= j
<1>1. IsWellFoundedOn(OpToRel(<, Nat), Nat)
  BY NatLessThanWellFounded
<1>2. PICK i \in S : \A j \in S : ~ (<<j, i>> \in OpToRel(<, Nat))
  BY <1>1, WFMin
<1>3. ASSUME NEW j \in S
      PROVE  i <= j
  <2>1. <<j, i>> \in Nat \X Nat /\ <<j, i>>[1] = j /\ <<j, i>>[2] = i
    OBVIOUS
  <2>2. ~ (j < i)
    BY <1>2, <2>1 DEF OpToRel
  <2> QED
    BY <2>2
<1> QED
  BY <1>3

\* The conditions an end of the run must meet, and two that meet them.
LEMMA EndingKeepsOutcome ==
  ASSUME NEW outcome, NEW breaker, NEW merged, NEW status,
         EndWith(outcome, breaker, merged, status),
         \A b \in merged : b \in Builders /\ landed'[b] # 0,
         \A b \in Builders : landed'[b] # 0 /\ b \notin merged =>
           outcome = "failed" /\ Len(results) < Len(builders) /\ b = Branch,
         outcome = "merged" => status = "closed" /\ AllLanded /\ UNCHANGED landed,
         outcome \in {"merged_partial", "integration_failed",
                      "integration_unverified"} => status = "open",
         outcome = "no_op" => AllPassed /\ UNCHANGED landed
  PROVE  OutcomeInv'
<1>1. /\ UNCHANGED <<results, builders, said>> /\ pc' = "done" /\ Branch' = Branch
      /\ result' = [outcome |-> outcome, breaker |-> breaker, merged |-> merged,
                    seed |-> status]
  BY DEF EndWith, review, world, Branch
<1>2. EveryMergeIsDisclosed'
  BY <1>1 DEF EveryMergeIsDisclosed
<1> QED
  BY <1>1, <1>2 DEF OutcomeInv, SeedFollowsOutcome, NoOpMasksNoFailure, AllLanded, AllPassed

\* Until the end, the results name the branches that landed.
LEMMA MergedAreNamed ==
  ASSUME ShapeInv, CommitInv, pc # "done"
  PROVE  MergedNames = {b \in Builders : landed[b] # 0}
<1>1. MergedNames \subseteq Builders
  <2>1. ASSUME NEW i \in DOMAIN results
        PROVE  results[i].branch \in Builders
    <3>1. /\ results \in Seq([branch : Builders, kind : Kinds])
          /\ DOMAIN results = 1..Len(results)
      BY LenProperties DEF ShapeInv, Typed
    <3>2. results[i] \in [branch : Builders, kind : Kinds]
      BY <3>1, ElementOfSeq
    <3> QED
      BY <3>2
  <2> QED
    BY <2>1 DEF MergedNames, KindsOf
<1> QED
  BY <1>1 DEF CommitInv

LEMMA FinishingKeepsOutcome ==
  ASSUME ShapeInv, CommitInv, pc # "done", NEW outcome, NEW status,
         Finish(outcome, status),
         outcome = "merged" => status = "closed" /\ AllLanded,
         outcome \in {"merged_partial", "integration_failed",
                      "integration_unverified"} => status = "open",
         outcome = "no_op" => AllPassed
  PROVE  OutcomeInv'
BY MergedAreNamed, EndingKeepsOutcome DEF Finish

LEMMA TrippingKeepsOutcome ==
  ASSUME ShapeInv, CommitInv, pc # "done", NEW breaker, Trip(breaker)
  PROVE  OutcomeInv'
BY MergedAreNamed, EndingKeepsOutcome DEF Trip

\* A step that stays in the run.
LEMMA SameOutcome ==
  ASSUME OutcomeInv, pc # "done", pc' # "done", UNCHANGED result,
         pc' = "gates" => (KindsOf("merged") = DOMAIN results)'
  PROVE  OutcomeInv'
BY DEF OutcomeInv, EveryMergeIsDisclosed, SeedFollowsOutcome, NoOpMasksNoFailure, NoResult

LEMMA SeedKeepsOutcome ==
  ASSUME ShapeInv, CommitInv, OutcomeInv, SeedStep
  PROVE  OutcomeInv'
<1>1. CASE SeedTrips
  BY <1>1, TrippingKeepsOutcome DEF SeedTrips
<1>2. CASE SeedRefused
  BY <1>2, TrippingKeepsOutcome, FinishingKeepsOutcome DEF SeedRefused, FailedOrTimedOut
<1>3. CASE SpawnSeed
  BY <1>3, SameOutcome DEF SpawnSeed
<1>4. ASSUME NEW how \in Ends, SeedTurnEnds(how)
      PROVE  OutcomeInv'
  BY <1>4, SameOutcome DEF SeedTurnEnds, TurnEnds, EnterLoop
<1> QED
  BY <1>1, <1>2, <1>3, <1>4 DEF SeedStep

LEMMA SweepKeepsOutcome ==
  ASSUME ShapeInv, CommitInv, OutcomeInv, SweepStep
  PROVE  OutcomeInv'
<1>1. CASE LoopTrips
  BY <1>1, TrippingKeepsOutcome DEF LoopTrips, BeforeDispatch
<1>2. CASE DispatchThrows \/ \E a \in Agents : DispatchLocked(a)
  BY <1>2, FinishingKeepsOutcome DEF DispatchThrows, DispatchLocked, MayDispatch, Abandon
<1>3. CASE LoopEnds \/ SweepBegins \/ \E a \in Agents : SkipAgent(a) \/ Dispatch(a)
  BY <1>3, SameOutcome DEF LoopEnds, BeforeDispatch, SweepBegins, SkipAgent, Dispatch, MayDispatch
<1>4. CASE SweepEnds
  <2>1. CASE pc' = "loop" /\ UNCHANGED result
    BY <1>4, <2>1, SameOutcome DEF SweepEnds
  <2>2. CASE Trip("no-progress")
    BY <1>4, <2>2, TrippingKeepsOutcome DEF SweepEnds
  <2> QED
    BY <1>4, <2>1, <2>2 DEF SweepEnds
<1>5. ASSUME NEW how \in Ends, DispatchEnds(how)
      PROVE  OutcomeInv'
  BY <1>5, SameOutcome DEF DispatchEnds, TurnEnds
<1> QED
  BY <1>1, <1>2, <1>3, <1>4, <1>5 DEF SweepStep

\* With every branch concluded, what all results say all branches found bear.
LEMMA ResultsSpeakForAll ==
  ASSUME ShapeInv, CommitInv, VerdictInv, pc \in {"tally", "gates"}
  PROVE  /\ KindsOf("merged") = DOMAIN results => AllLanded
         /\ KindsOf("no_op") = DOMAIN results => AllPassed
<1>1. /\ DOMAIN builders = DOMAIN results
      /\ \A i \in DOMAIN results : results[i].branch = builders[i] /\ builders[i] \in Builders
      /\ \A i, j \in DOMAIN results : builders[i] = builders[j] => i = j
  <2>1. DOMAIN builders = 1..Len(builders) /\ DOMAIN results = 1..Len(results)
    BY LenProperties DEF ShapeInv, Typed
  <2>2. Len(builders) = Len(results)
    BY DEF ShapeInv, Found
  <2>3. \A i \in DOMAIN builders : builders[i] \in Builders
    BY <2>1, ElementOfSeq DEF ShapeInv, Typed
  <2> QED
    BY <2>1, <2>2, <2>3 DEF ShapeInv, Found
<1>2. pc # "done" /\ \A b \in Builders : landed[b] # 0 <=> b \in MergedNames
  BY DEF CommitInv
<1>3. ASSUME KindsOf("merged") = DOMAIN results
      PROVE  AllLanded
  BY <1>1, <1>2, <1>3 DEF AllLanded, MergedNames
<1>4. ASSUME KindsOf("no_op") = DOMAIN results
      PROVE  AllPassed
  BY <1>1, <1>2, <1>4 DEF AllPassed, MergedNames, KindsOf, VerdictInv
<1> QED
  BY <1>3, <1>4

\* Without a merge the report is a no-op only if every branch was.
LEMMA NoOpIsUnanimous ==
  ASSUME ShapeInv
  PROVE  NoneMerged = "no_op" => KindsOf("no_op") = DOMAIN results
<1> DEFINE others == DOMAIN results \ KindsOf("no_op")
<1>1. CASE others = {}
  BY <1>1 DEF KindsOf
<1>2. CASE others # {}
  <2>1. others \subseteq Nat
    BY LenProperties DEF ShapeInv, Typed
  <2>2. \E i \in others : \A j \in others : i <= j
    BY <1>2, <2>1, Least
  <2>3. (CHOOSE i \in others : \A j \in others : i <= j) \in others
    BY <2>2
  <2>4. NoneMerged # "no_op"
    BY <1>2, <2>3 DEF NoneMerged, KindsOf
  <2> QED
    BY <2>4
<1> QED
  BY <1>1, <1>2

\* NoneMerged names no outcome that speaks of a merge.
LEMMA NoneMergedIsNoMerge ==
  ASSUME ShapeInv, KindsOf("merged") = {}
  PROVE  NoneMerged \in Kinds \ {"merged"}
<1> DEFINE others == DOMAIN results \ KindsOf("no_op")
<1>1. CASE others = {}
  BY <1>1 DEF NoneMerged, Kinds
<1>2. CASE others # {}
  <2>1. others \subseteq Nat
    BY LenProperties DEF ShapeInv, Typed
  <2>2. \E i \in others : \A j \in others : i <= j
    BY <1>2, <2>1, Least
  <2>3. PICK i \in others : NoneMerged = results[i].kind
    BY <1>2, <2>2 DEF NoneMerged
  <2>4. results[i].kind \in Kinds
    <3>1. /\ results \in Seq([branch : Builders, kind : Kinds])
          /\ DOMAIN results = 1..Len(results)
      BY LenProperties DEF ShapeInv, Typed
    <3>2. results[i] \in [branch : Builders, kind : Kinds]
      BY <3>1, ElementOfSeq
    <3> QED
      BY <3>2
  <2> QED
    BY <2>3, <2>4 DEF KindsOf
<1> QED
  BY <1>1, <1>2

LEMMA ReviewKeepsOutcome ==
  ASSUME ShapeInv, CommitInv, VerdictInv, OutcomeInv, ReviewStep
  PROVE  OutcomeInv'
<1>0. ASSUME NEW kind, Conclude(kind), pc # "done"
      PROVE  OutcomeInv'
  BY <1>0, SameOutcome DEF Conclude
<1>1. CASE Reconcile
  <2>1. CASE FailedOrTimedOut
    BY <1>1, <2>1, TrippingKeepsOutcome, FinishingKeepsOutcome DEF Reconcile, FailedOrTimedOut
  <2>2. CASE Finish("no_op", seed)
    <3>1. pc # "done" /\ builders = <<>>
      BY <1>1 DEF Reconcile, ShapeInv, Found, Before
    <3>2. AllPassed
      BY <3>1 DEF AllPassed
    <3> QED
      BY <2>2, <3>1, <3>2, FinishingKeepsOutcome
  <2>3. CASE pc' = "branch" /\ UNCHANGED result
    BY <1>1, <2>3, SameOutcome DEF Reconcile
  <2> QED
    BY <1>1, <2>1, <2>2, <2>3 DEF Reconcile
<1>2. CASE PickBranch \/ SpawnReviewer
  BY <1>2, SameOutcome DEF PickBranch, SpawnReviewer, review
<1>3. CASE BranchTrips
  BY <1>3, TrippingKeepsOutcome DEF BranchTrips
<1>4. CASE ReviewerRefused
  BY <1>0, <1>4, TrippingKeepsOutcome DEF ReviewerRefused
<1>5. CASE ReadVerdict
  <2>1. CASE Proceed("predict")
    BY <1>5, <2>1, SameOutcome DEF ReadVerdict, Proceed
  <2> QED
    BY <1>0, <1>5, <2>1, TrippingKeepsOutcome DEF ReadVerdict, Judged
<1>6. CASE Predict \/ Recheck
  <2>1. CASE Proceed("recheck") \/ Proceed("merge")
    BY <1>6, <2>1, SameOutcome DEF Predict, Recheck, Proceed
  <2> QED
    BY <1>0, <1>6, <2>1 DEF Predict, Recheck
<1>7. CASE Merge
  BY <1>0, <1>7 DEF Merge
<1>8. CASE MergeThrows
  <2>1. pc # "done"
    BY <1>8 DEF MergeThrows
  <2>2. /\ Branch \in Builders /\ Branch \notin MergedNames
        /\ Len(results) < Len(builders) /\ landed \in [Builders -> Nat]
    BY <1>8, NotYetLanded DEF MergeThrows, AtBranch, Picked, Reviewed, ShapeInv, Found, Typed
  <2>3. \A b \in Builders \ {Branch} : landed'[b] = landed[b]
    BY <1>8, <2>2 DEF MergeThrows
  <2>4. /\ \A b \in MergedNames : b \in Builders /\ landed'[b] # 0
        /\ \A b \in Builders : landed'[b] # 0 /\ b \notin MergedNames => b = Branch
    BY <2>1, <2>2, <2>3, MergedAreNamed
  <2> QED
    BY <1>8, <2>2, <2>4, EndingKeepsOutcome DEF MergeThrows
<1>9. CASE Tally
  <2>1. pc = "tally" /\ pc # "done"
    BY <1>9 DEF Tally
  <2>2. CASE KindsOf("merged") = DOMAIN results /\ Complete
    BY <2>1, <2>2, ResultsSpeakForAll, FinishingKeepsOutcome DEF Complete
  <2>3. CASE KindsOf("merged") = DOMAIN results /\ pc' = "gates" /\ UNCHANGED <<review, result>>
    BY <2>1, <2>3, SameOutcome DEF review, KindsOf
  <2>4. CASE Incomplete("merged_partial")
    BY <2>1, <2>4, FinishingKeepsOutcome DEF Incomplete
  <2>5. CASE KindsOf("merged") = {} /\ Finish(NoneMerged, seed)
    BY <2>1, <2>5, ResultsSpeakForAll, NoOpIsUnanimous, NoneMergedIsNoMerge,
       FinishingKeepsOutcome DEF Kinds
  <2> QED
    BY <1>9, <2>2, <2>3, <2>4, <2>5 DEF Tally
<1>10. CASE Gates
  <2>1. pc = "gates" /\ pc # "done" /\ AllLanded
    BY <1>10, ResultsSpeakForAll DEF Gates, OutcomeInv
  <2> QED
    BY <1>10, <2>1, TrippingKeepsOutcome, FinishingKeepsOutcome DEF Gates, Complete, Incomplete
<1>11. ASSUME NEW how \in Ends, ReviewTurnEnds(how)
       PROVE  OutcomeInv'
  BY <1>11, SameOutcome DEF ReviewTurnEnds, TurnEnds, EnterLoop
<1> QED
  BY <1>1, <1>2, <1>3, <1>4, <1>5, <1>6, <1>7, <1>8, <1>9, <1>10, <1>11 DEF ReviewStep

LEMMA OthersKeepOutcome ==
  ASSUME ReviewerInv, OutcomeInv, SlingStep \/ AgentStep \/ Expire \/ UNCHANGED vars
  PROVE  OutcomeInv'
<1>1. UNCHANGED <<pc, landed, builders, results, result>>
  BY DEF SlingStep, SlingSpawns, SlingFails, AwayEnds, AgentStep, AgentMails, BranchMoves,
         SendVerdict, AgentClosesSeed, Sling, Expire, vars, Elsewhere, review
<1>2. pc = "done" => UNCHANGED said
  <2>1. pc = "done" => turn = Nobody
    BY DEF ReviewerInv
  <2>2. \A b \in Builders : Reviewer(b) # Nobody
    BY Names
  <2> QED
    BY <2>1, <2>2 DEF SlingStep, SlingSpawns, SlingFails, AwayEnds, AgentStep, AgentMails,
       BranchMoves, SendVerdict, AgentClosesSeed, Sling, Expire, vars, world
<1>3. CASE pc # "done"
  BY <1>1, <1>3, SameOutcome DEF OutcomeInv, KindsOf
<1>4. CASE pc = "done"
  BY <1>1, <1>2, <1>4 DEF OutcomeInv, EveryMergeIsDisclosed, SeedFollowsOutcome,
     NoOpMasksNoFailure, Branch
<1> QED
  BY <1>3, <1>4

-----------------------------------------------------------------------------
(* The theorems *)

\* The inductive invariant.
DriveInv == ShapeInv /\ ReviewerInv /\ CommitInv /\ VerdictInv /\ OutcomeInv

LEMMA InitialInv == Init => DriveInv
<1> SUFFICES ASSUME Init PROVE DriveInv
  OBVIOUS
<1>1. ShapeInv
  <2>1. Typed
    <3>1. mail = <<>> \/ \E b \in Builders : mail = << <<Reviewer(b), "pass">> >>
      BY DEF Init
    <3>2. DOMAIN mail = 1..Len(mail) /\ Len(mail) \in Nat
      BY <3>1
    <3> QED
      BY <3>2 DEF Init, Typed, Places
  <2>2. Fresh /\ Found
    BY DEF Init, Fresh, Found, HasRow, Before, AtBranch, Picked, Reviewed, InLoop
  <2> QED
    BY <2>1, <2>2 DEF ShapeInv
<1>2. ReviewerInv
  <2>1. \A b \in Builders : Reviewer(b) \in Agents /\ Reviewer(b) # Nobody
    BY Names
  <2> QED
    BY <2>1 DEF Init, ReviewerInv, InLoop
<1>3. CommitInv /\ VerdictInv
  BY DEF Init, CommitInv, VerdictInv, Picked, Reviewed, InLoop, MergedNames, KindsOf
<1>4. OutcomeInv
  BY DEF Init, OutcomeInv, EveryMergeIsDisclosed, SeedFollowsOutcome, NoOpMasksNoFailure, NoResult
<1> QED
  BY <1>1, <1>2, <1>3, <1>4 DEF DriveInv

LEMMA DriveStep == DriveInv /\ [Next]_vars => DriveInv'
<1> SUFFICES ASSUME DriveInv, [Next]_vars PROVE DriveInv'
  OBVIOUS
<1> USE DEF DriveInv
<1>1. CASE SeedStep
  BY <1>1, SeedKeepsShape, SeedKeepsReviewer, SeedKeepsCommit, SeedKeepsVerdict,
     SeedKeepsOutcome
<1>2. CASE SweepStep
  BY <1>2, SweepKeepsShape, SweepKeepsReviewer, SweepKeepsCommit, SweepKeepsVerdict,
     SweepKeepsOutcome
<1>3. CASE ReviewStep
  BY <1>3, ReviewKeepsShape, ReviewKeepsReviewer, ReviewKeepsCommit, ReviewKeepsVerdict,
     ReviewKeepsOutcome
<1>4. CASE SlingStep \/ AgentStep \/ Expire \/ UNCHANGED vars
  BY <1>4, OthersKeepShape, OthersKeepReviewer, OthersKeepCommit, OthersKeepVerdict,
     OthersKeepOutcome
<1> QED
  BY <1>1, <1>2, <1>3, <1>4 DEF Next, DriverStep

THEOREM DriveInvHolds == Spec => []DriveInv
  BY InitialInv, DriveStep, PTL DEF Spec

\* What lands is the very commit the branch's reviewer had checked out, with any
\* number of agents, branches, commits and mails, however they interleave.
THEOREM OnlyReviewedWorkIsMerged == Spec => []OnlyReviewedWorkLands
<1>1. DriveInv => OnlyReviewedWorkLands
  BY DEF DriveInv, CommitInv, OnlyReviewedWorkLands
<1> QED
  BY <1>1, DriveInvHolds, PTL

\* A branch lands only on a PASS that was the last word of its own reviewer.
THEOREM OnlyPassedWorkIsMerged == Spec => []OnlyPassedWorkLands
<1>1. DriveInv => OnlyPassedWorkLands
  BY DEF DriveInv, VerdictInv, OnlyPassedWorkLands
<1> QED
  BY <1>1, DriveInvHolds, PTL

\* However the run ends, its result names exactly the branches that changed the
\* target, but for one whose merge could not be recorded: that run has failed.
THEOREM MergesAreDisclosed == Spec => []EveryMergeIsDisclosed
<1>1. DriveInv => EveryMergeIsDisclosed
  BY DEF DriveInv, OutcomeInv
<1> QED
  BY <1>1, DriveInvHolds, PTL

\* "merged" means that all of them landed and the seed was closed; a lesser
\* outcome leaves the seed open.
THEOREM SeedIsLeftByOutcome == Spec => []SeedFollowsOutcome
<1>1. DriveInv => SeedFollowsOutcome
  BY DEF DriveInv, OutcomeInv
<1> QED
  BY <1>1, DriveInvHolds, PTL

\* A run that exits as a no-op has a PASS for every branch it found.
THEOREM NoOpIsHonest == Spec => []NoOpMasksNoFailure
<1>1. DriveInv => NoOpMasksNoFailure
  BY DEF DriveInv, OutcomeInv
<1> QED
  BY <1>1, DriveInvHolds, PTL
=============================================================================
