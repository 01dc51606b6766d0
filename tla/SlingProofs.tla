----------------------------- MODULE SlingProofs -----------------------------
(***************************************************************************)
(* For any number of processes, agents and limits.                         *)
(*                                                                         *)
(* The limits: commands that check side by side, with no lock, exceed them *)
(* by at most the number of the other processes.  The checks compare what  *)
(* is recorded; the invariant counts what is admitted and not yet recorded *)
(* as well.                                                                *)
(*                                                                         *)
(* The worktrees: git's refusal of an existing branch makes the command    *)
(* that created a worktree its only owner, so that what it rolls back is   *)
(* its own; the invariant follows the worktree of a drive's row from there *)
(* to the end of the row.                                                  *)
(*                                                                         *)
(* The tasks: while no two commands overlap, what the admission saw of a   *)
(* task's holder is true, or the task free, when the row is written.  It   *)
(* rests on the rows having an oldest one among any of them.               *)
(***************************************************************************)
EXTENDS Sling, FiniteSetTheorems, NaturalsInduction, WellFoundedInduction, TLAPS

PendingOf(par) == {p \in Pending : cmd[p].parent = par}

Shapes ==
  /\ at = [p \in Procs |-> at[p]] /\ cmd = [p \in Procs |-> cmd[p]]
  /\ state = [n \in Names |-> state[n]] /\ parentOf = [n \in Names |-> parentOf[n]]
  /\ IsFiniteSet(Active)

SlingInv == Shapes /\ ConcurrencyBounded /\ LeadCeilingBounded

\* Two finite sets that lose nothing but elements: their sizes do not grow.
LEMMA Shrink ==
  ASSUME NEW S, NEW T, NEW U, NEW V, NEW b \in Int, IsFiniteSet(S), IsFiniteSet(T),
         U \subseteq S, V \subseteq T, Cardinality(S) + Cardinality(T) <= b
  PROVE  IsFiniteSet(U) /\ Cardinality(U) + Cardinality(V) <= b
<1>1. IsFiniteSet(U) /\ Cardinality(U) <= Cardinality(S)
  BY FS_Subset
<1>2. IsFiniteSet(V) /\ Cardinality(V) <= Cardinality(T)
  BY FS_Subset
<1>3. /\ Cardinality(S) \in Int /\ Cardinality(T) \in Int
      /\ Cardinality(U) \in Int /\ Cardinality(V) \in Int
  BY <1>1, <1>2, FS_CardinalityType
<1> QED
  BY <1>1, <1>2, <1>3

\* One element moves from the second set to the first.
LEMMA Move ==
  ASSUME NEW S, NEW T, NEW U, NEW V, NEW x, NEW y \in T, NEW b \in Int,
         IsFiniteSet(S), IsFiniteSet(T), U \subseteq S \cup {x}, V \subseteq T \ {y},
         Cardinality(S) + Cardinality(T) <= b
  PROVE  IsFiniteSet(U) /\ Cardinality(U) + Cardinality(V) <= b
<1>1. IsFiniteSet(S \cup {x}) /\ Cardinality(S \cup {x}) <= Cardinality(S) + 1
  <2>1. Cardinality(S) \in Nat
    BY FS_CardinalityType
  <2>2. /\ IsFiniteSet(S \cup {x})
        /\ Cardinality(S \cup {x}) = IF x \in S THEN Cardinality(S) ELSE Cardinality(S) + 1
    BY FS_AddElement
  <2> QED
    BY <2>1, <2>2
<1>2. IsFiniteSet(T \ {y}) /\ Cardinality(T \ {y}) = Cardinality(T) - 1
  BY FS_RemoveElement
<1>3. Cardinality(S \cup {x}) + Cardinality(T \ {y}) <= b
  <2>1. Cardinality(S) \in Int /\ Cardinality(T) \in Int /\ Cardinality(S \cup {x}) \in Int
    BY <1>1, FS_CardinalityType
  <2> QED
    BY <1>1, <1>2, <2>1
<1> QED
  BY <1>1, <1>2, <1>3, Shrink

\* When the first set is below its limit, any of the processes may be in the second.
LEMMA Join ==
  ASSUME NEW S, NEW V, NEW limit \in Nat,
         IsFiniteSet(S), Cardinality(S) < limit, V \subseteq Procs
  PROVE  Cardinality(S) + Cardinality(V) <= limit + Cardinality(Procs) - 1
<1>1. Cardinality(V) <= Cardinality(Procs)
  BY SlingConstants, FS_Subset
<1>2. IsFiniteSet(V)
  BY SlingConstants, FS_Subset
<1>3. Cardinality(S) \in Int /\ Cardinality(V) \in Int /\ Cardinality(Procs) \in Int
  BY <1>2, SlingConstants, FS_CardinalityType
<1> QED
  BY <1>1, <1>3

LEMMA LimitTypes ==
  MaxConcurrent + Cardinality(Procs) - 1 \in Int /\ MaxPerLead + Cardinality(Procs) - 1 \in Int
<1>1. Cardinality(Procs) \in Nat
  BY SlingConstants, FS_CardinalityType
<1> QED
  BY <1>1, SlingConstants

LEMMA FiniteParts ==
  ASSUME Shapes
  PROVE  /\ IsFiniteSet(Pending)
         /\ \A par : IsFiniteSet(Children(par)) /\ IsFiniteSet(PendingOf(par))
<1>1. IsFiniteSet(Pending)
  BY SlingConstants, FS_Subset DEF Pending
<1>2. \A par : Children(par) \subseteq Active /\ PendingOf(par) \subseteq Pending
  BY DEF Children, PendingOf
<1> QED
  BY <1>1, <1>2, FS_Subset DEF Shapes

\* A step after which fewer agents are active and fewer commands pending.
LEMMA Fewer ==
  ASSUME SlingInv, at' = [p \in Procs |-> at'[p]], cmd' = [p \in Procs |-> cmd'[p]],
         state' = [n \in Names |-> state'[n]], parentOf' = [n \in Names |-> parentOf'[n]],
         Active' \subseteq Active, Pending' \subseteq Pending,
         \A par \in Names :
           Children(par)' \subseteq Children(par) /\ PendingOf(par)' \subseteq PendingOf(par)
  PROVE  SlingInv'
<1>1. IsFiniteSet(Active') /\ Cardinality(Active') + Cardinality(Pending')
                               <= MaxConcurrent + Cardinality(Procs) - 1
  BY LimitTypes, FiniteParts, Shrink DEF SlingInv, Shapes, ConcurrencyBounded
<1>2. ASSUME NEW par \in Names, MaxPerLead # 0
      PROVE  Cardinality(Children(par)') + Cardinality(PendingOf(par)')
               <= MaxPerLead + Cardinality(Procs) - 1
  <2>1. Cardinality(Children(par)) + Cardinality(PendingOf(par))
          <= MaxPerLead + Cardinality(Procs) - 1
    BY <1>2 DEF SlingInv, LeadCeilingBounded, PendingOf
  <2>2. IsFiniteSet(Children(par)) /\ IsFiniteSet(PendingOf(par))
    BY FiniteParts DEF SlingInv
  <2> QED
    BY <2>1, <2>2, LimitTypes, Shrink
<1>3. LeadCeilingBounded'
  BY <1>2 DEF LeadCeilingBounded, PendingOf
<1> QED
  BY <1>1, <1>3 DEF SlingInv, Shapes, ConcurrencyBounded

\* What a step does to the rows when it starts no agent.
OnlyEnds ==
  /\ state' = [n \in Names |-> state'[n]] /\ parentOf' = [n \in Names |-> parentOf'[n]]
  /\ Active' \subseteq Active
  /\ \A par \in Names : Children(par)' \subseteq Children(par)

LEMMA RowsKept ==
  ASSUME Shapes, UNCHANGED rows
  PROVE  OnlyEnds
BY DEF Shapes, rows, OnlyEnds, Active, Children

LEMMA UpdateEnds ==
  ASSUME Shapes, NEW names, NEW new \in {"completed", "zombie"}, UpdateState(names, new)
  PROVE  OnlyEnds
BY DEF Shapes, UpdateState, OnlyEnds, Active, Children

LEMMA RemovalEnds ==
  ASSUME Shapes, NEW names, NoOne \notin Names, RemoveRows(names)
  PROVE  OnlyEnds
<1>1. \A n \in Names : state'[n] = "live" => state[n] = "live" /\ parentOf'[n] = parentOf[n]
  BY DEF RemoveRows
<1>2. Active' \subseteq Active /\ \A par \in Names : Children(par)' \subseteq Children(par)
  BY <1>1 DEF Active, Children
<1> QED
  BY <1>2 DEF OnlyEnds, RemoveRows

\* A step that is not a command's.
LEMMA Elsewhere ==
  ASSUME SlingInv, OnlyEnds, UNCHANGED <<at, cmd>>
  PROVE  SlingInv'
<1>1. Pending' = Pending /\ \A par : PendingOf(par)' = PendingOf(par)
  BY DEF Pending, PendingOf
<1> QED
  BY <1>1, Fewer DEF SlingInv, Shapes, OnlyEnds

\* A step of a command that is pending already, or is not pending afterwards.
LEMMA Walk ==
  ASSUME SlingInv, OnlyEnds, NEW p \in Procs, NEW place, Goto(p, place),
         p \in Pending \/ place \notin {"worktree", "prepare", "record"}
  PROVE  SlingInv'
<1>1. at' = [q \in Procs |-> IF q = p THEN place ELSE at[q]]
  BY DEF SlingInv, Shapes, Goto
<1>2. cmd' = [q \in Procs |-> IF q = p /\ place = "idle" THEN NoCommand ELSE cmd[q]]
  BY DEF SlingInv, Shapes, Goto
<1>3. Pending' \subseteq Pending
  BY <1>1 DEF Pending
<1>4. \A q \in Pending' : cmd'[q] = cmd[q]
  BY <1>1, <1>2 DEF Pending
<1>5. \A par : PendingOf(par)' \subseteq PendingOf(par)
  BY <1>3, <1>4 DEF PendingOf
<1> QED
  BY <1>1, <1>2, <1>3, <1>5, Fewer DEF OnlyEnds

\* A step that gives a command something new to know before it is admitted.
LEMMA Prelude ==
  ASSUME SlingInv, UNCHANGED rows, NEW p \in Procs, NEW place, NEW c, Proceed(p, place, c),
         place \notin {"worktree", "prepare", "record"}
  PROVE  SlingInv'
<1>1. OnlyEnds
  BY RowsKept DEF SlingInv
<1>2. at' = [q \in Procs |-> IF q = p THEN place ELSE at[q]]
  BY DEF SlingInv, Shapes, Proceed
<1>3. cmd' = [q \in Procs |-> IF q = p THEN c ELSE cmd[q]]
  BY DEF SlingInv, Shapes, Proceed
<1>4. Pending' \subseteq Pending /\ p \notin Pending'
  BY <1>2 DEF Pending
<1>5. \A par : PendingOf(par)' \subseteq PendingOf(par)
  BY <1>3, <1>4 DEF PendingOf, Pending
<1> QED
  BY <1>1, <1>2, <1>3, <1>4, <1>5, Fewer DEF OnlyEnds

\* Admission: the limits held a moment ago, and the others are fewer than all.
LEMMA Admission ==
  ASSUME SlingInv, NEW p \in Procs, Admit(p)
  PROVE  SlingInv'
<1> DEFINE c == cmd[p]
           d == Command(AgentName(c), c.named, c.given, Parent(c), c.run)
<1>1. OnlyEnds
  BY RowsKept DEF SlingInv, Admit, fleet, rows
<1>2. CASE ~Admissible(c)
  BY <1>1, <1>2, Walk DEF Admit
<1>3. CASE Admissible(c)
  <2>1. Proceed(p, "worktree", d)
    BY <1>3 DEF Admit
  <2>2. at' = [q \in Procs |-> IF q = p THEN "worktree" ELSE at[q]]
    BY <2>1 DEF SlingInv, Shapes, Proceed
  <2>3. cmd' = [q \in Procs |-> IF q = p THEN d ELSE cmd[q]]
    BY <2>1 DEF SlingInv, Shapes, Proceed
  <2>4. Active' = Active /\ \A par : Children(par)' = Children(par)
    BY DEF Admit, fleet, rows, Active, Children
  <2>5. ConcurrencyBounded'
    <3>1. IsFiniteSet(Active) /\ Cardinality(Active) < MaxConcurrent /\ MaxConcurrent \in Nat
      BY <1>3, SlingConstants DEF SlingInv, Shapes, Admissible, BelowConcurrent
    <3>2. Pending' \subseteq Procs
      BY DEF Pending
    <3> QED
      BY <3>1, <3>2, <2>4, Join DEF ConcurrencyBounded
  <2>6. ASSUME NEW par \in Names, MaxPerLead # 0
        PROVE  Cardinality(Children(par)') + Cardinality(PendingOf(par)')
                 <= MaxPerLead + Cardinality(Procs) - 1
    <3>1. IsFiniteSet(Children(par)) /\ IsFiniteSet(PendingOf(par))
      BY FiniteParts DEF SlingInv
    <3>2. CASE Parent(c) = par
      <4>1. Cardinality(Children(par)) < MaxPerLead /\ MaxPerLead \in Nat
        BY <1>3, <2>6, <3>2, SlingConstants DEF Admissible, BelowLeadLimit
      <4>2. PendingOf(par)' \subseteq Procs
        BY DEF Pending, PendingOf
      <4> QED
        BY <2>4, <3>1, <4>1, <4>2, Join
    <3>3. CASE Parent(c) # par
      <4>1. d.parent # par
        BY <3>3 DEF Command
      <4>2. PendingOf(par)' \subseteq PendingOf(par)
        BY <2>2, <2>3, <4>1 DEF Pending, PendingOf
      <4>3. Cardinality(Children(par)) + Cardinality(PendingOf(par))
              <= MaxPerLead + Cardinality(Procs) - 1
        BY <2>6 DEF SlingInv, LeadCeilingBounded, PendingOf
      <4> HIDE DEF c, d
      <4> QED
        BY <2>4, <3>1, <4>2, <4>3, LimitTypes, Shrink
    <3> QED
      BY <3>2, <3>3
  <2>7. LeadCeilingBounded'
    BY <2>6 DEF LeadCeilingBounded, PendingOf
  <2>8. Shapes'
    BY <1>1, <2>2, <2>3, <2>4 DEF SlingInv, Shapes, OnlyEnds
  <2> QED
    BY <2>5, <2>7, <2>8 DEF SlingInv
<1> QED
  BY <1>2, <1>3

\* The row takes the place of the command that was pending.
LEMMA Recording ==
  ASSUME SlingInv, NEW p \in Procs, Record(p)
  PROVE  SlingInv'
<1> DEFINE n == cmd[p].name
           parent == cmd[p].parent
<1>1. at' = [q \in Procs |-> IF q = p THEN "turn" ELSE at[q]] /\ cmd' = cmd
  BY DEF SlingInv, Shapes, Record, Goto
<1>2. state' = [m \in Names |-> IF m = n THEN "live" ELSE state[m]]
  BY DEF SlingInv, Shapes, Record, Upsert
<1>3. parentOf' = [m \in Names |-> IF m = n THEN parent ELSE parentOf[m]]
  BY DEF SlingInv, Shapes, Record, Upsert
<1>4. p \in Pending /\ Pending' \subseteq Pending \ {p}
  BY <1>1 DEF Record, Pending
<1>5. Active' \subseteq Active \cup {n}
  BY <1>2 DEF Active
<1>6. IsFiniteSet(Active') /\ Cardinality(Active') + Cardinality(Pending')
                               <= MaxConcurrent + Cardinality(Procs) - 1
  <2>1. IsFiniteSet(Active) /\ IsFiniteSet(Pending)
    BY FiniteParts DEF SlingInv, Shapes
  <2>2. Cardinality(Active) + Cardinality(Pending) <= MaxConcurrent + Cardinality(Procs) - 1
    BY DEF SlingInv, ConcurrencyBounded
  <2> DEFINE bound == MaxConcurrent + Cardinality(Procs) - 1
  <2>3. bound \in Int /\ Cardinality(Active) + Cardinality(Pending) <= bound
    BY <2>2, LimitTypes
  <2> HIDE DEF n, parent, bound
  <2>4. IsFiniteSet(Active') /\ Cardinality(Active') + Cardinality(Pending') <= bound
    BY <1>4, <1>5, <2>1, <2>3, Move
  <2> QED
    BY <2>4 DEF bound
<1>7. ASSUME NEW par \in Names, MaxPerLead # 0
      PROVE  Cardinality(Children(par)') + Cardinality(PendingOf(par)')
               <= MaxPerLead + Cardinality(Procs) - 1
  <2>1. IsFiniteSet(Children(par)) /\ IsFiniteSet(PendingOf(par))
    BY FiniteParts DEF SlingInv
  <2>2. Cardinality(Children(par)) + Cardinality(PendingOf(par))
          <= MaxPerLead + Cardinality(Procs) - 1
    BY <1>7 DEF SlingInv, LeadCeilingBounded, PendingOf
  <2>3. CASE parent = par
    <3>1. p \in PendingOf(par) /\ PendingOf(par)' \subseteq PendingOf(par) \ {p}
      BY <1>1, <1>4, <2>3 DEF PendingOf
    <3>2. Children(par)' \subseteq Children(par) \cup {n}
      BY <1>2, <1>3 DEF Active, Children
    <3> DEFINE bound == MaxPerLead + Cardinality(Procs) - 1
               S == Children(par)
               T == PendingOf(par)
               U == Children(par)'
               V == PendingOf(par)'
    <3>3. bound \in Int /\ Cardinality(S) + Cardinality(T) <= bound
      BY <2>2, LimitTypes
    <3>4. IsFiniteSet(S) /\ IsFiniteSet(T) /\ U \subseteq S \cup {n} /\ p \in T /\ V \subseteq T \ {p}
      BY <2>1, <3>1, <3>2
    <3> HIDE DEF n, parent, bound, S, T, U, V
    <3>5. IsFiniteSet(U) /\ Cardinality(U) + Cardinality(V) <= bound
      BY <3>3, <3>4, Move
    <3> QED
      BY <3>5 DEF bound, U, V
  <2>4. CASE parent # par
    <3>1. PendingOf(par)' \subseteq PendingOf(par)
      BY <1>1, <1>4 DEF PendingOf
    <3>2. Children(par)' \subseteq Children(par)
      BY <1>2, <1>3, <2>4 DEF Active, Children
    <3> HIDE DEF n, parent
    <3> QED
      BY <2>1, <2>2, <3>1, <3>2, LimitTypes, Shrink
  <2> QED
    BY <2>3, <2>4
<1>8. LeadCeilingBounded'
  BY <1>7 DEF LeadCeilingBounded, PendingOf
<1>9. Shapes'
  <2> HIDE DEF n, parent
  <2> QED
    BY <1>1, <1>2, <1>3, <1>6 DEF SlingInv, Shapes
<1> QED
  BY <1>6, <1>8, <1>9 DEF SlingInv, ConcurrencyBounded

LEMMA CommandSteps ==
  ASSUME SlingInv, NEW p \in Procs, SlingStep(p)
  PROVE  SlingInv'
<1> USE DEF fleet
<1>1. ASSUME NEW n \in Names, NEW isNamed \in BOOLEAN, NEW par \in Names \cup {NoOne},
             Start(p, n, isNamed, par)
      PROVE  SlingInv'
  BY <1>1, Prelude DEF Start
<1>2. CASE InheritRun(p)
  BY <1>2, Prelude DEF InheritRun
<1>3. CASE ReadCurrentRun(p)
  BY <1>3, Prelude DEF ReadCurrentRun
<1>4. ASSUME UNCHANGED rows PROVE OnlyEnds
  BY <1>4, RowsKept DEF SlingInv
<1>5. CASE WriteCurrentRun(p)
  BY <1>4, <1>5, Walk DEF WriteCurrentRun
<1>6. CASE Admit(p)
  BY <1>6, Admission
<1>7. CASE TaskRefused(p)
  BY <1>4, <1>7, Walk DEF TaskRefused
<1>8. CASE CreateWorktree(p)
  <2>1. p \in Pending
    BY <1>8 DEF CreateWorktree, Pending
  <2> QED
    BY <1>4, <1>8, <2>1, Walk DEF CreateWorktree
<1>9. CASE Prepare(p)
  <2>1. p \in Pending
    BY <1>9 DEF Prepare, Pending
  <2> QED
    BY <1>4, <1>9, <2>1, Walk DEF Prepare
<1>10. CASE Record(p)
  BY <1>10, Recording
<1>11. ASSUME NEW names, UpdateState(names, "zombie") PROVE OnlyEnds
  BY <1>11, UpdateEnds DEF SlingInv
<1>12. CASE FirstTurn(p)
  <2>1. OnlyEnds
    BY <1>4, <1>11, <1>12 DEF FirstTurn
  <2>2. Goto(p, "idle") \/ Goto(p, "rollback")
    BY <1>12 DEF FirstTurn
  <2> QED
    BY <2>1, <2>2, Walk
<1>13. CASE Rollback(p)
  BY <1>4, <1>13, Walk DEF Rollback
<1>14. CASE Terminalize(p)
  BY <1>11, <1>14, Walk DEF Terminalize
<1>15. CASE Crash(p)
  BY <1>4, <1>15, Walk DEF Crash
<1> QED
  BY <1>1, <1>2, <1>3, <1>5, <1>6, <1>7, <1>8, <1>9, <1>10, <1>12, <1>13, <1>14, <1>15
     DEF SlingStep

LEMMA OtherSteps ==
  ASSUME SlingInv, AgentStep \/ CleanStep
  PROVE  SlingInv'
<1>1. UNCHANGED <<at, cmd>>
  BY DEF AgentStep, AgentCommits, BranchMerges, AgentEnds, CleanStep, CleanStart, CleanCheck,
         CleanRemove, CleanWalked, CleanMark, CleanPrune
<1>2. \/ UNCHANGED rows
      \/ \E names, new : new \in {"completed", "zombie"} /\ UpdateState(names, new)
      \/ \E names : NoOne \notin names /\ RemoveRows(names)
  <2> USE DEF fleet
  <2>1. CASE \E n \in Names : AgentCommits(n) \/ BranchMerges(n)
    BY <2>1 DEF AgentCommits, BranchMerges
  <2>2. CASE \E n \in Names, end \in {"completed", "zombie"} : AgentEnds(n, end)
    BY <2>2 DEF AgentEnds
  <2>3. CASE \E isAll, isForce \in BOOLEAN : CleanStart(isAll, isForce)
    BY <2>3 DEF CleanStart
  <2>4. CASE \E n \in Names : CleanCheck(n)
    BY <2>4 DEF CleanCheck
  <2>5. CASE CleanRemove \/ CleanWalked
    BY <2>5 DEF CleanRemove, CleanWalked
  <2>6. CASE CleanMark
    BY <2>6 DEF CleanMark
  <2>7. CASE CleanPrune
    BY <2>7, SlingConstants DEF CleanPrune
  <2> QED
    BY <2>1, <2>2, <2>3, <2>4, <2>5, <2>6, <2>7 DEF AgentStep, CleanStep
<1>3. NoOne \notin Names
  BY SlingConstants
<1>4. OnlyEnds
  BY <1>2, <1>3, RowsKept, UpdateEnds, RemovalEnds DEF SlingInv
<1> QED
  BY <1>1, <1>4, Elsewhere

LEMMA SlingInit == Init => SlingInv
<1> SUFFICES ASSUME Init PROVE SlingInv
  OBVIOUS
<1>1. Active = {} /\ Pending = {}
  BY DEF Init, Active, Pending
<1>2. \A par : Children(par) = {} /\ PendingOf(par) = {}
  BY <1>1 DEF Children, PendingOf
<1>3. Cardinality({}) = 0 /\ IsFiniteSet({})
  BY FS_EmptySet
<1>4. Cardinality(Procs) \in Nat
  BY SlingConstants, FS_CardinalityType
<1>5. Shapes
  BY <1>1, <1>3 DEF Init, Shapes
<1>6. Cardinality(Procs) >= 1
  BY <1>4, SlingConstants, FS_EmptySet
<1>7. ConcurrencyBounded
  BY <1>1, <1>3, <1>4, SlingConstants DEF ConcurrencyBounded
<1>8. \A par : Cardinality(Children(par)) = 0 /\ Cardinality(PendingOf(par)) = 0
  BY <1>2, <1>3
<1>9. MaxPerLead + Cardinality(Procs) - 1 >= 0
  BY <1>4, <1>6, SlingConstants
<1>10. \A par : Cardinality(Children(par)) + Cardinality(PendingOf(par)) = 0
  BY <1>8
<1>11. LeadCeilingBounded
  BY <1>9, <1>10 DEF LeadCeilingBounded, PendingOf
<1> QED
  BY <1>5, <1>7, <1>11 DEF SlingInv

LEMMA SlingNext == SlingInv /\ [Next]_vars => SlingInv'
<1> SUFFICES ASSUME SlingInv, [Next]_vars PROVE SlingInv'
  OBVIOUS
<1>1. CASE UNCHANGED vars
  <2>1. OnlyEnds
    BY <1>1, RowsKept DEF SlingInv, vars, fleet
  <2> QED
    BY <1>1, <2>1, Elsewhere DEF vars
<1> QED
  BY <1>1, CommandSteps, OtherSteps DEF Next

\* However many commands check side by side, agents.maxConcurrent and
\* agents.maxAgentsPerLead are exceeded by at most one agent for each other process.
THEOREM LimitsBounded == Spec => [](ConcurrencyBounded /\ LeadCeilingBounded)
<1>1. SlingInv => ConcurrencyBounded /\ LeadCeilingBounded
  BY DEF SlingInv
<1> QED
  BY SlingInit, SlingNext, <1>1, PTL DEF Spec

-----------------------------------------------------------------------------
(* Who owns a worktree.  git refuses a branch that exists, so that a command *)
(* that made one is alone with it until it takes it away.                    *)

Rowed == {n \in Names : state[n] # "none"}

Typed ==
  /\ spawner = [n \in Names |-> spawner[n]] /\ older = [n \in Names |-> older[n]]
  /\ tree = [n \in Names |-> tree[n]]
  /\ cleans \in Nat /\ crashes \in Nat
  /\ \A p \in Procs : at[p] # "idle" => cmd[p].name \in Names

WorktreesOwned ==
  cleans = 0 =>
    /\ clean = "idle"
    /\ \A p \in Owners : tree[cmd[p].name] # "none"
    /\ \A p, q \in Owners : cmd[p].name = cmd[q].name => p = q

\* The row of an agent that a drive spawned: its worktree is there and nobody
\* else works at it, or the drive is about to make the row a zombie.
Ending(n) == at[spawner[n]] = "terminalize" /\ cmd[spawner[n]].name = n
Kept(n) == tree[n] # "none" /\ \A q \in Owners : cmd[q].name = n => q = spawner[n]
DriveRowsKept ==
  cleans = 0 /\ crashes = 0 =>
    \A n \in Active : spawner[n] \in Drivers => Ending(n) \/ Kept(n)

SpawnInv == Typed /\ WorktreesOwned /\ DriveRowsKept

\* How a command moves on.
LEMMA GotoForm ==
  ASSUME Shapes, NEW p \in Procs, NEW place, Goto(p, place)
  PROVE  /\ at' = [q \in Procs |-> IF q = p THEN place ELSE at[q]]
         /\ cmd' = [q \in Procs |-> IF q = p /\ place = "idle" THEN NoCommand ELSE cmd[q]]
BY DEF Shapes, Goto

LEMMA ProceedForm ==
  ASSUME Shapes, NEW p \in Procs, NEW place, NEW c, Proceed(p, place, c)
  PROVE  /\ at' = [q \in Procs |-> IF q = p THEN place ELSE at[q]]
         /\ cmd' = [q \in Procs |-> IF q = p THEN c ELSE cmd[q]]
BY DEF Shapes, Proceed

\* A set of numbers that is not empty has a least element.
LEMMA Least ==
  ASSUME NEW S \in SUBSET Nat, S # {}
  PROVE  \E i \in S : \A j \in S : i <= j
<1>1. IsWellFoundedOn(OpToRel(<, Nat), Nat)
  BY NatLessThanWellFounded
<1>2. PICK i \in S : \A j \in S : ~ (<<j, i>> \in OpToRel(<, Nat))
  BY <1>1, WFMin
<1>3. ASSUME NEW j \in S
      PROVE  i <= j
  <2>1. <<j, i>> \in Nat \X Nat /\ <<j, i>>[1] = j /\ <<j, i>>[2] = i
    OBVIOUS
  <2>2. ~ (j < i)
    BY <1>2, <2>1 DEF OpToRel
  <2> QED
    BY <2>2
<1> QED
  BY <1>3

\* The name of a new agent is free, unless it was given.
LEMMA NameIsFree ==
  ASSUME NEW c, c.named \/ FreeNames(c) # {}
  PROVE  /\ c.named => AgentName(c) = c.name
         /\ ~c.named => AgentName(c) \in FreeNames(c)
<1>1. CASE c.named
  BY <1>1 DEF AgentName
<1>2. CASE ~c.named
  <2> DEFINE S == {n[3] : n \in FreeNames(c)}
  <2> HIDE DEF S
  <2>1. FreeNames(c) # {} /\ \A n \in FreeNames(c) : n[3] \in 1..MaxSuffix
    BY <1>2 DEF FreeNames, Names
  <2>2. \A i \in 1..MaxSuffix : i \in Nat
    BY SlingConstants
  <2>3. S \in SUBSET Nat /\ S # {}
    BY <2>1, <2>2 DEF S
  <2>4. PICK i \in S : \A j \in S : i <= j
    BY <2>3, Least
  <2>5. \E n \in FreeNames(c) : \A m \in FreeNames(c) : n[3] <= m[3]
    BY <2>4 DEF S
  <2> QED
    BY <1>2, <2>5 DEF AgentName
<1> QED
  BY <1>1, <1>2

LEMMA NewName ==
  ASSUME NEW c, c.name \in Names, c.named \/ FreeNames(c) # {}
  PROVE  AgentName(c) \in Names /\ TaskOf(AgentName(c)) = TaskOf(c.name)
BY NameIsFree DEF FreeNames

LEMMA TypedInit == Init => Typed
BY DEF Init, Typed

LEMMA RowForms ==
  ASSUME Typed, NEW names, UNCHANGED rows \/ (\E new : UpdateState(names, new)) \/ RemoveRows(names)
  PROVE  /\ spawner' = [n \in Names |-> spawner'[n]] /\ older' = [n \in Names |-> older'[n]]
         /\ \A n \in Names : spawner'[n] = spawner[n] \/ state'[n] = "none"
BY DEF Typed, rows, UpdateState, RemoveRows

LEMMA TypedStep ==
  ASSUME SlingInv, Typed, [Next]_vars
  PROVE  Typed'
<1> USE DEF fleet, counters
<1> DEFINE RowsFine == /\ spawner' = [n \in Names |-> spawner'[n]]
                       /\ older' = [n \in Names |-> older'[n]]
           Counted == cleans' \in Nat /\ crashes' \in Nat
           Trees == tree' = [n \in Names |-> tree'[n]]
           NamesFine == \A p \in Procs : at'[p] # "idle" => cmd'[p].name \in Names
<1>0. Shapes
  BY DEF SlingInv
<1>1. ASSUME NEW p \in Procs, NEW place, Goto(p, place), at[p] # "idle"
      PROVE  NamesFine
  <2>1. /\ at' = [q \in Procs |-> IF q = p THEN place ELSE at[q]]
        /\ cmd' = [q \in Procs |-> IF q = p /\ place = "idle" THEN NoCommand ELSE cmd[q]]
    BY <1>0, <1>1, GotoForm
  <2> QED
    BY <1>1, <2>1 DEF Typed
<1>2. ASSUME NEW p \in Procs, NEW place, NEW c, Proceed(p, place, c), c.name \in Names
      PROVE  NamesFine
  <2>1. /\ at' = [q \in Procs |-> IF q = p THEN place ELSE at[q]]
        /\ cmd' = [q \in Procs |-> IF q = p THEN c ELSE cmd[q]]
    BY <1>0, <1>2, ProceedForm
  <2> QED
    BY <1>2, <2>1 DEF Typed
<1>3. ASSUME UNCHANGED <<at, cmd>>
      PROVE  NamesFine
  BY <1>3 DEF Typed
<1>4. ASSUME UNCHANGED <<cleans, crashes>> PROVE Counted
  BY <1>4 DEF Typed
<1>5. ASSUME UNCHANGED tree PROVE Trees
  BY <1>5 DEF Typed
<1>6. ASSUME UNCHANGED rows PROVE RowsFine
  BY <1>6, RowForms
<1>7. ASSUME NEW names, NEW new, UpdateState(names, new) PROVE RowsFine
  BY <1>7, RowForms
<1> HIDE DEF RowsFine, Counted, Trees, NamesFine
<1>8. RowsFine /\ Counted /\ Trees /\ NamesFine
  <2>1. CASE UNCHANGED vars
    BY <2>1, <1>3, <1>4, <1>5, <1>6 DEF vars
  <2>2. ASSUME NEW p \in Procs, SlingStep(p)
        PROVE  RowsFine /\ Counted /\ Trees /\ NamesFine
    <3>1. CASE \E n \in Names, isNamed \in BOOLEAN, par \in Names \cup {NoOne} :
                 Start(p, n, isNamed, par)
      <4>1. PICK n \in Names, isNamed \in BOOLEAN, par \in Names \cup {NoOne} :
                 Start(p, n, isNamed, par)
        BY <3>1
      <4>2. \E place, run : Proceed(p, place, Command(n, isNamed, par, par, run))
        BY <4>1 DEF Start
      <4>3. \A run : Command(n, isNamed, par, par, run).name = n
        BY DEF Command
      <4>4. NamesFine
        BY <1>2, <4>2, <4>3
      <4> QED
        BY <4>1, <4>4, <1>4, <1>5, <1>6 DEF Start
    <3>2. CASE InheritRun(p) \/ ReadCurrentRun(p)
      <4>1. \E place, run : Proceed(p, place, WithRun(cmd[p], run))
        BY <3>2 DEF InheritRun, ReadCurrentRun
      <4>2. cmd[p].name \in Names /\ \A run : WithRun(cmd[p], run).name = cmd[p].name
        BY <3>2 DEF InheritRun, ReadCurrentRun, Typed, WithRun, Command
      <4>3. NamesFine
        BY <1>2, <4>1, <4>2
      <4> QED
        BY <3>2, <4>3, <1>4, <1>5, <1>6 DEF InheritRun, ReadCurrentRun
    <3>3. CASE Admit(p)
      <4> DEFINE c == cmd[p]
                 d == Command(AgentName(c), c.named, c.given, Parent(c), c.run)
      <4>1. Proceed(p, "worktree", d) \/ Goto(p, "idle")
        BY <3>3 DEF Admit
      <4>2. at[p] = "admit" /\ c.name \in Names /\ (c.named \/ FreeNames(c) # {})
        BY <3>3 DEF Admit, Typed
      <4>3. AgentName(c) \in Names
        BY <4>2, NewName
      <4>4. d.name = AgentName(c)
        BY DEF Command
      <4> HIDE DEF c, d
      <4>5. NamesFine
        BY <1>1, <1>2, <4>1, <4>2, <4>3, <4>4
      <4> QED
        BY <3>3, <4>5, <1>4, <1>5, <1>6 DEF Admit
    <3>4. CASE WriteCurrentRun(p) \/ TaskRefused(p) \/ Prepare(p)
      BY <3>4, <1>1, <1>4, <1>5, <1>6 DEF WriteCurrentRun, TaskRefused, Prepare
    <3>5. CASE CreateWorktree(p)
      <4>1. Trees
        BY <3>5 DEF CreateWorktree, Typed, Trees
      <4>2. NamesFine
        BY <3>5, <1>1 DEF CreateWorktree
      <4> QED
        BY <3>5, <4>1, <4>2, <1>4, <1>6 DEF CreateWorktree
    <3>6. CASE Record(p)
      <4>1. RowsFine
        BY <3>6 DEF Record, Upsert, Typed, RowsFine
      <4>2. NamesFine
        BY <3>6, <1>1 DEF Record
      <4> QED
        BY <3>6, <4>1, <4>2, <1>4, <1>5 DEF Record
    <3>7. CASE FirstTurn(p)
      BY <3>7, <1>1, <1>4, <1>5, <1>6, <1>7 DEF FirstTurn
    <3>8. CASE Rollback(p)
      <4>1. Trees
        BY <3>8 DEF Rollback, Typed, Trees
      <4>2. NamesFine
        BY <3>8, <1>1 DEF Rollback
      <4> QED
        BY <3>8, <4>1, <4>2, <1>4, <1>6 DEF Rollback
    <3>9. CASE Terminalize(p)
      BY <3>9, <1>1, <1>4, <1>5, <1>7 DEF Terminalize
    <3>10. CASE Crash(p)
      <4>1. Counted
        BY <3>10 DEF Crash, Typed, Counted
      <4> QED
        BY <3>10, <4>1, <1>1, <1>5, <1>6 DEF Crash
    <3> QED
      BY <2>2, <3>1, <3>2, <3>3, <3>4, <3>5, <3>6, <3>7, <3>8, <3>9, <3>10 DEF SlingStep
  <2>3. CASE AgentStep
    <3>1. UNCHANGED <<at, cmd, cleans, crashes>>
      BY <2>3 DEF AgentStep, AgentCommits, BranchMerges, AgentEnds
    <3>2. CASE \E n \in Names : AgentCommits(n) \/ BranchMerges(n)
      <4>1. Trees /\ UNCHANGED rows
        BY <3>2 DEF AgentCommits, BranchMerges, Typed, Trees
      <4> QED
        BY <4>1, <3>1, <1>3, <1>4, <1>6
    <3>3. CASE \E n \in Names, s \in {"completed", "zombie"} : AgentEnds(n, s)
      BY <3>1, <3>3, <1>3, <1>4, <1>5, <1>7 DEF AgentEnds
    <3> QED
      BY <2>3, <3>2, <3>3 DEF AgentStep
  <2>4. CASE CleanStep
    <3>1. UNCHANGED <<at, cmd>>
      BY <2>4 DEF CleanStep, CleanStart, CleanCheck, CleanRemove, CleanWalked, CleanMark, CleanPrune
    <3>2. NamesFine
      BY <3>1, <1>3
    <3>3. CASE \E isAll, isForce \in BOOLEAN : CleanStart(isAll, isForce)
      <4>1. Counted /\ UNCHANGED <<rows, tree>>
        BY <3>3 DEF CleanStart, Typed, Counted
      <4> QED
        BY <3>2, <4>1, <1>5, <1>6
    <3>4. CASE (\E n \in Names : CleanCheck(n)) \/ CleanWalked
      BY <3>2, <3>4, <1>4, <1>5, <1>6 DEF CleanCheck, CleanWalked
    <3>5. CASE CleanRemove
      <4>1. Trees
        BY <3>5 DEF CleanRemove, Typed, Trees
      <4> QED
        BY <3>2, <3>5, <4>1, <1>4, <1>6 DEF CleanRemove
    <3>6. CASE CleanMark
      BY <3>2, <3>6, <1>4, <1>5, <1>7 DEF CleanMark
    <3>7. CASE CleanPrune
      <4>1. RowsFine
        BY <3>7 DEF CleanPrune, RemoveRows, RowsFine
      <4> QED
        BY <3>2, <3>7, <4>1, <1>4, <1>5 DEF CleanPrune
    <3> QED
      BY <2>4, <3>3, <3>4, <3>5, <3>6, <3>7 DEF CleanStep
  <2> QED
    BY <2>1, <2>2, <2>3, <2>4 DEF Next
<1> QED
  BY <1>8 DEF Typed, RowsFine, Counted, Trees, NamesFine

\* A step that gives no command a worktree and takes none away, and that starts
\* no agent; a drive keeps to a row until it has ended it.
Quiet ==
  /\ Owners' \subseteq Owners /\ \A q \in Owners' : cmd'[q] = cmd[q]
  /\ Active' \subseteq Active /\ \A n \in Active' : spawner'[n] = spawner[n]
  /\ \A n \in Names : tree'[n] = "none" <=> tree[n] = "none"
  /\ cleans' = cleans /\ (clean' = clean \/ cleans # 0)
  /\ \/ crashes' # 0
     \/ /\ crashes' = crashes
        /\ \A n \in Active' : spawner[n] \in Drivers /\ Ending(n) => Ending(n)'

LEMMA QuietStep ==
  ASSUME Shapes, Typed, WorktreesOwned, DriveRowsKept, Quiet
  PROVE  WorktreesOwned' /\ DriveRowsKept'
<1>1. \A p \in Owners : cmd[p].name \in Names
  BY DEF Typed, Owners
<1>2. WorktreesOwned'
  BY <1>1 DEF WorktreesOwned, Quiet
<1>3. ASSUME cleans' = 0, crashes' = 0, NEW n \in Active', spawner'[n] \in Drivers
      PROVE  Ending(n)' \/ Kept(n)'
  <2>1. n \in Active /\ spawner[n] = spawner'[n] /\ n \in Names
    BY <1>3 DEF Quiet, Active
  <2>2. Ending(n) \/ Kept(n)
    BY <1>3, <2>1 DEF DriveRowsKept, Quiet
  <2>3. Ending(n) => Ending(n)'
    BY <1>3 DEF Quiet
  <2>4. ASSUME Kept(n) PROVE Kept(n)'
    <3>1. tree'[n] # "none"
      BY <2>1, <2>4 DEF Kept, Quiet
    <3>2. \A q \in Owners' : cmd'[q].name = n => q = spawner'[n]
      BY <2>1, <2>4 DEF Kept, Quiet
    <3> QED
      BY <3>1, <3>2 DEF Kept
  <2> QED
    BY <2>2, <2>3, <2>4
<1> QED
  BY <1>2, <1>3 DEF DriveRowsKept

\* What a step does to the rows when it starts no agent.
SpawnersStay == \A n \in Active' : spawner'[n] = spawner[n]

LEMMA EndsKeepSpawners ==
  ASSUME Typed, NEW names,
         UNCHANGED rows \/ (\E new : UpdateState(names, new)) \/ RemoveRows(names)
  PROVE  SpawnersStay
BY RowForms DEF SpawnersStay, Active

\* A step of a command that keeps what it owns, or leaves it.
LEMMA WalkIsQuiet ==
  ASSUME Shapes, Typed, OnlyEnds, SpawnersStay, NEW p \in Procs, NEW place,
         Goto(p, place),
         p \in Owners \/ place \notin {"prepare", "record", "turn", "rollback"},
         at[p] # "terminalize" \/ cmd[p].name \notin Active',
         UNCHANGED <<clean, cleans, tree>>, crashes' = crashes \/ crashes' # 0
  PROVE  Quiet
<1>1. at' = [q \in Procs |-> IF q = p THEN place ELSE at[q]]
  BY GotoForm
<1>2. cmd' = [q \in Procs |-> IF q = p /\ place = "idle" THEN NoCommand ELSE cmd[q]]
  BY GotoForm
<1>3. Owners' \subseteq Owners
  BY <1>1 DEF Owners
<1>4. \A q \in Owners' : cmd'[q] = cmd[q]
  BY <1>1, <1>2 DEF Owners
<1>5. \A n \in Active' : spawner[n] \in Drivers /\ Ending(n) => Ending(n)'
  BY <1>1, <1>2, SlingConstants DEF Ending, SpawnersStay
<1> QED
  BY <1>3, <1>4, <1>5 DEF Quiet, OnlyEnds, SpawnersStay

\* A step that gives a command something to know, before it owns anything.
LEMMA PreludeIsQuiet ==
  ASSUME Shapes, Typed, UNCHANGED <<fleet, clean, cleans, crashes>>, NEW p \in Procs,
         NEW place, NEW c, Proceed(p, place, c), at[p] \in {"idle", "run", "admit"},
         place \notin {"prepare", "record", "turn", "rollback"}
  PROVE  Quiet
<1>1. at' = [q \in Procs |-> IF q = p THEN place ELSE at[q]]
  BY ProceedForm
<1>2. cmd' = [q \in Procs |-> IF q = p THEN c ELSE cmd[q]]
  BY ProceedForm
<1>3. Owners' \subseteq Owners /\ \A q \in Owners' : cmd'[q] = cmd[q]
  BY <1>1, <1>2 DEF Owners
<1>4. Active' = Active /\ UNCHANGED <<spawner, tree>>
  BY DEF Active, fleet, rows
<1>5. \A n \in Active' : spawner[n] \in Drivers /\ Ending(n) => Ending(n)'
  BY <1>1, <1>2, <1>4, SlingConstants DEF Ending
<1> QED
  BY <1>3, <1>4, <1>5 DEF Quiet

\* A worktree that is made was nobody's.
LEMMA Creation ==
  ASSUME Shapes, Typed, WorktreesOwned, DriveRowsKept, NEW p \in Procs,
         CreateWorktree(p), tree[cmd[p].name] = "none"
  PROVE  WorktreesOwned' /\ DriveRowsKept'
<1> DEFINE m == cmd[p].name
<1>1. at' = [q \in Procs |-> IF q = p THEN "prepare" ELSE at[q]]
  BY GotoForm DEF CreateWorktree
<1>2. cmd' = cmd
  BY GotoForm DEF CreateWorktree, Shapes
<1>3. m \in Names /\ tree' = [n \in Names |-> IF n = m THEN "even" ELSE tree[n]]
  BY DEF CreateWorktree, Typed
<1>4. UNCHANGED <<state, spawner, clean, cleans, crashes>> /\ at[p] = "worktree"
  BY DEF CreateWorktree, rows, sweep, counters
<1>5. Owners' = Owners \cup {p} /\ p \notin Owners
  BY <1>1, <1>4 DEF Owners
<1>6. \A q \in Owners : cmd[q].name \in Names
  BY DEF Typed, Owners
<1>7. ASSUME cleans = 0 PROVE \A q \in Owners : cmd[q].name # m
  BY <1>7 DEF WorktreesOwned
<1> HIDE DEF m
<1>8. WorktreesOwned'
  <2>1. ASSUME cleans' = 0
        PROVE  /\ \A q \in Owners' : tree'[cmd'[q].name] # "none"
               /\ \A q, r \in Owners' : cmd'[q].name = cmd'[r].name => q = r
    <3>1. cleans = 0
      BY <2>1, <1>4
    <3>2. cmd[p].name = m
      BY DEF m
    <3> QED
      BY <3>1, <3>2, <1>2, <1>3, <1>5, <1>6, <1>7 DEF WorktreesOwned
  <2> QED
    BY <2>1, <1>4 DEF WorktreesOwned
<1>9. ASSUME cleans = 0, crashes = 0, NEW n \in Active, spawner[n] \in Drivers
      PROVE  Ending(n)' \/ Kept(n)'
  <2>1. Ending(n) \/ Kept(n)
    BY <1>9 DEF DriveRowsKept
  <2>2. Ending(n) => Ending(n)'
    BY <1>1, <1>2, <1>4, <1>9, SlingConstants DEF Ending
  <2>3. ASSUME Kept(n) PROVE Kept(n)'
    <3>1. n \in Names /\ n # m /\ tree[n] # "none"
      BY <1>9, <2>3 DEF Kept, Active, m
    <3> QED
      BY <3>1, <2>3, <1>2, <1>3, <1>4, <1>5 DEF Kept, m
  <2> QED
    BY <2>1, <2>2, <2>3
<1>10. Active' = Active
  BY <1>4 DEF Active
<1> QED
  BY <1>4, <1>8, <1>9, <1>10 DEF DriveRowsKept

\* The row of the one that owns the worktree.
LEMMA OwnRow ==
  ASSUME Shapes, Typed, WorktreesOwned, DriveRowsKept, NEW p \in Procs, Record(p)
  PROVE  WorktreesOwned' /\ DriveRowsKept'
<1> DEFINE m == cmd[p].name
<1>1. at' = [q \in Procs |-> IF q = p THEN "turn" ELSE at[q]]
  BY GotoForm DEF Record
<1>2. UNCHANGED <<cmd, tree, clean, cleans, crashes>> /\ at[p] = "record"
  BY GotoForm DEF Record, Shapes, sweep, counters
<1>3. Owners' = Owners /\ p \in Owners
  BY <1>1, <1>2 DEF Owners
<1>4. WorktreesOwned'
  BY <1>2, <1>3 DEF WorktreesOwned
<1>5. state' = [n \in Names |-> IF n = m THEN "live" ELSE state[n]]
  BY DEF Shapes, Record, Upsert
<1>6. spawner' = [n \in Names |-> IF n = m THEN p ELSE spawner[n]]
  BY DEF Typed, Record, Upsert
<1>7. ASSUME cleans = 0, crashes = 0, NEW n \in Active', spawner'[n] \in Drivers
      PROVE  Ending(n)' \/ Kept(n)'
  <2>1. CASE n = m
    <3>1. tree[n] # "none" /\ \A q \in Owners : cmd[q].name = n => q = p
      BY <1>3, <1>7, <2>1 DEF WorktreesOwned
    <3>2. spawner'[n] = p
      BY <1>6, <1>7, <2>1 DEF Active
    <3> QED
      BY <1>2, <1>3, <3>1, <3>2 DEF Kept
  <2>2. CASE n # m
    <3>1. n \in Active /\ spawner'[n] = spawner[n] /\ n \in Names
      BY <1>5, <1>6, <1>7, <2>2 DEF Active
    <3>2. Ending(n) \/ Kept(n)
      BY <1>7, <3>1 DEF DriveRowsKept
    <3>3. Ending(n) => Ending(n)'
      BY <1>1, <1>2, <1>7, <3>1, SlingConstants DEF Ending
    <3>4. Kept(n) => Kept(n)'
      BY <1>2, <1>3, <3>1 DEF Kept
    <3> QED
      BY <3>2, <3>3, <3>4
  <2> QED
    BY <2>1, <2>2
<1> QED
  BY <1>2, <1>4, <1>7 DEF DriveRowsKept

\* A worktree that is taken away was that of the command that takes it; a drive
\* goes on to end the row.
LEMMA Retreat ==
  ASSUME Shapes, Typed, WorktreesOwned, DriveRowsKept, NEW p \in Procs, Rollback(p)
  PROVE  WorktreesOwned' /\ DriveRowsKept'
<1> DEFINE m == cmd[p].name
           place == IF p \in Drivers THEN "terminalize" ELSE "idle"
<1>1. at' = [q \in Procs |-> IF q = p THEN place ELSE at[q]]
  BY GotoForm DEF Rollback
<1>2. cmd' = [q \in Procs |-> IF q = p /\ place = "idle" THEN NoCommand ELSE cmd[q]]
  BY GotoForm DEF Rollback
<1>3. m \in Names /\ tree' = [n \in Names |-> IF n = m THEN "none" ELSE tree[n]]
  BY DEF Rollback, Typed
<1>4. UNCHANGED <<state, spawner, clean, cleans, crashes>> /\ at[p] = "rollback"
  BY DEF Rollback, rows, sweep, counters
<1>5. Owners' = Owners \ {p} /\ p \in Owners
  BY <1>1, <1>4 DEF Owners
<1>6. \A q \in Owners' : cmd'[q] = cmd[q] /\ cmd[q].name \in Names
  BY <1>2, <1>5 DEF Typed, Owners
<1>7. ASSUME cleans = 0 PROVE \A q \in Owners' : cmd[q].name # m
  BY <1>5, <1>7 DEF WorktreesOwned
<1> HIDE DEF m, place
<1>8. WorktreesOwned'
  BY <1>3, <1>4, <1>5, <1>6, <1>7 DEF WorktreesOwned
<1>9. ASSUME cleans = 0, crashes = 0, NEW n \in Active, spawner[n] \in Drivers
      PROVE  Ending(n)' \/ Kept(n)'
  <2>0. n \in Names /\ spawner'[n] = spawner[n] /\ spawner[n] \in Procs
    BY <1>4, <1>9, SlingConstants DEF Active
  <2>1. Ending(n) \/ Kept(n)
    BY <1>9 DEF DriveRowsKept
  <2>2. ASSUME Ending(n) PROVE Ending(n)'
    <3>1. spawner[n] # p
      BY <1>4, <2>2 DEF Ending
    <3> QED
      BY <1>1, <1>2, <2>0, <2>2, <3>1 DEF Ending
  <2>3. CASE Kept(n) /\ n # m
    <3>1. tree'[n] # "none"
      BY <1>3, <2>0, <2>3 DEF Kept
    <3>2. \A q \in Owners' : cmd'[q].name = n => q = spawner'[n]
      BY <1>5, <1>6, <2>0, <2>3 DEF Kept
    <3> QED
      BY <3>1, <3>2 DEF Kept
  <2>4. CASE Kept(n) /\ n = m
    <3>1. spawner[n] = p
      BY <1>5, <2>4 DEF Kept, m
    <3>2. place = "terminalize"
      BY <1>9, <3>1 DEF place
    <3>3. at'[p] = "terminalize" /\ cmd'[p] = cmd[p]
      BY <1>1, <1>2, <3>2
    <3>4. cmd[p].name = n
      BY <2>4 DEF m
    <3> QED
      BY <2>0, <3>1, <3>3, <3>4 DEF Ending
  <2> QED
    BY <2>1, <2>2, <2>3, <2>4
<1>10. Active' = Active
  BY <1>4 DEF Active
<1> QED
  BY <1>4, <1>8, <1>9, <1>10 DEF DriveRowsKept

LEMMA SpawnCommands ==
  ASSUME SlingInv, SlingInv', SpawnInv, NEW p \in Procs, SlingStep(p)
  PROVE  WorktreesOwned' /\ DriveRowsKept'
<1> USE DEF sweep, counters
<1>0. Shapes /\ Typed /\ WorktreesOwned /\ DriveRowsKept
  BY DEF SlingInv, SpawnInv
<1>1. ASSUME Quiet PROVE WorktreesOwned' /\ DriveRowsKept'
  BY <1>0, <1>1, QuietStep
<1>2. ASSUME UNCHANGED rows PROVE OnlyEnds /\ SpawnersStay
  BY <1>0, <1>2, RowsKept, EndsKeepSpawners
<1>3. ASSUME NEW names, UpdateState(names, "zombie") PROVE OnlyEnds /\ SpawnersStay
  BY <1>0, <1>3, UpdateEnds, EndsKeepSpawners
<1>4. CASE \E n \in Names, isNamed \in BOOLEAN, par \in Names \cup {NoOne} :
             Start(p, n, isNamed, par)
  <2>1. \E place, c : Proceed(p, place, c) /\ place \in {"admit", "run"}
    BY <1>4 DEF Start
  <2>2. at[p] = "idle" /\ UNCHANGED <<fleet, clean, cleans, crashes>>
    BY <1>4 DEF Start
  <2> QED
    BY <1>0, <1>1, <2>1, <2>2, PreludeIsQuiet
<1>5. CASE InheritRun(p) \/ ReadCurrentRun(p)
  <2>1. \E place, c : Proceed(p, place, c) /\ place \in {"admit", "newRun"}
    BY <1>5 DEF InheritRun, ReadCurrentRun
  <2>2. at[p] = "run" /\ UNCHANGED <<fleet, clean, cleans, crashes>>
    BY <1>5 DEF InheritRun, ReadCurrentRun
  <2> QED
    BY <1>0, <1>1, <2>1, <2>2, PreludeIsQuiet
<1>6. CASE WriteCurrentRun(p) \/ TaskRefused(p)
  <2>1. /\ UNCHANGED <<rows, tree, clean, cleans, crashes>> /\ at[p] # "terminalize"
        /\ Goto(p, "admit") \/ Goto(p, "idle")
    BY <1>6 DEF WriteCurrentRun, TaskRefused, fleet
  <2> QED
    BY <1>0, <1>1, <1>2, <2>1, WalkIsQuiet
<1>7. CASE Admit(p)
  <2>1. UNCHANGED <<fleet, clean, cleans, crashes>> /\ at[p] = "admit"
    BY <1>7 DEF Admit
  <2>2. Goto(p, "idle") \/ \E c : Proceed(p, "worktree", c)
    BY <1>7 DEF Admit
  <2>3. CASE Goto(p, "idle")
    BY <1>0, <1>1, <1>2, <2>1, <2>3, WalkIsQuiet DEF fleet
  <2>4. CASE \E c : Proceed(p, "worktree", c)
    BY <1>0, <1>1, <2>1, <2>4, PreludeIsQuiet
  <2> QED
    BY <2>2, <2>3, <2>4
<1>8. CASE CreateWorktree(p)
  <2>1. CASE tree[cmd[p].name] = "none"
    BY <1>0, <1>8, <2>1, Creation
  <2>2. CASE tree[cmd[p].name] # "none"
    <3>1. /\ UNCHANGED <<rows, tree, clean, cleans, crashes>> /\ at[p] # "terminalize"
          /\ Goto(p, "idle")
      BY <1>8, <2>2 DEF CreateWorktree
    <3> QED
      BY <1>0, <1>1, <1>2, <3>1, WalkIsQuiet
  <2> QED
    BY <2>1, <2>2
<1>9. CASE Prepare(p)
  <2>1. /\ UNCHANGED <<rows, tree, clean, cleans, crashes>> /\ at[p] = "prepare"
        /\ Goto(p, "record") \/ Goto(p, "rollback")
    BY <1>9 DEF Prepare, fleet
  <2>2. p \in Owners
    BY <2>1 DEF Owners
  <2> QED
    BY <1>0, <1>1, <1>2, <2>1, <2>2, WalkIsQuiet
<1>10. CASE Record(p)
  BY <1>0, <1>10, OwnRow
<1>11. CASE FirstTurn(p)
  <2>1. /\ UNCHANGED <<tree, clean, cleans, crashes>> /\ at[p] = "turn"
        /\ Goto(p, "idle") \/ Goto(p, "rollback")
    BY <1>11 DEF FirstTurn
  <2>2. UNCHANGED rows \/ \E names : UpdateState(names, "zombie")
    BY <1>11 DEF FirstTurn
  <2>3. p \in Owners
    BY <2>1 DEF Owners
  <2> QED
    BY <1>0, <1>1, <1>2, <1>3, <2>1, <2>2, <2>3, WalkIsQuiet
<1>12. CASE Rollback(p)
  BY <1>0, <1>12, Retreat
<1>13. CASE Terminalize(p)
  <2>1. UNCHANGED <<tree, clean, cleans, crashes>> /\ Goto(p, "idle")
    BY <1>13 DEF Terminalize
  <2>2. UpdateState({cmd[p].name} \cap Active, "zombie")
    BY <1>13 DEF Terminalize
  <2>3. cmd[p].name \notin Active'
    BY <2>2 DEF UpdateState, Active
  <2> QED
    BY <1>0, <1>1, <1>3, <2>1, <2>2, <2>3, WalkIsQuiet
<1>14. CASE Crash(p)
  <2>1. UNCHANGED <<rows, tree, clean, cleans>> /\ Goto(p, "idle")
    BY <1>14 DEF Crash, fleet
  <2>2. crashes' # 0
    BY <1>0, <1>14 DEF Crash, Typed
  <2>3. OnlyEnds /\ SpawnersStay
    BY <1>2, <2>1
  <2>4. Quiet
    <3>1. at' = [q \in Procs |-> IF q = p THEN "idle" ELSE at[q]]
      BY <1>0, <2>1, GotoForm
    <3>2. cmd' = [q \in Procs |-> IF q = p THEN NoCommand ELSE cmd[q]]
      BY <1>0, <2>1, GotoForm
    <3>3. Owners' \subseteq Owners /\ \A q \in Owners' : cmd'[q] = cmd[q]
      BY <3>1, <3>2 DEF Owners
    <3> QED
      BY <2>1, <2>2, <2>3, <3>3 DEF Quiet, OnlyEnds, SpawnersStay
  <2> QED
    BY <1>1, <2>4
<1> QED
  BY <1>4, <1>5, <1>6, <1>7, <1>8, <1>9, <1>10, <1>11, <1>12, <1>13, <1>14 DEF SlingStep

\* The agents, and a clean, of which no run that counts has had any.
LEMMA SpawnOthers ==
  ASSUME SlingInv, SpawnInv, AgentStep \/ CleanStep \/ UNCHANGED vars
  PROVE  WorktreesOwned' /\ DriveRowsKept'
<1> USE DEF sweep, counters, fleet
<1>0. Shapes /\ Typed /\ WorktreesOwned /\ DriveRowsKept
  BY DEF SlingInv, SpawnInv
<1>1. ASSUME Quiet PROVE WorktreesOwned' /\ DriveRowsKept'
  BY <1>0, <1>1, QuietStep
<1>2. ASSUME OnlyEnds, SpawnersStay, UNCHANGED <<at, cmd, clean, cleans, crashes>>,
             \A n \in Names : tree'[n] = "none" <=> tree[n] = "none"
      PROVE  Quiet
  <2>1. Owners' = Owners
    BY <1>2 DEF Owners
  <2>2. \A n \in Active' : Ending(n) => Ending(n)'
    BY <1>2 DEF Ending, SpawnersStay
  <2> QED
    BY <1>2, <2>1, <2>2 DEF Quiet, OnlyEnds, SpawnersStay
<1>3. ASSUME UNCHANGED rows PROVE OnlyEnds /\ SpawnersStay
  BY <1>0, <1>3, RowsKept, EndsKeepSpawners
<1>4. CASE UNCHANGED vars
  BY <1>1, <1>2, <1>3, <1>4 DEF vars
<1>5. CASE \E n \in Names : AgentCommits(n) \/ BranchMerges(n)
  <2>1. UNCHANGED <<rows, at, cmd, clean, cleans, crashes>>
    BY <1>5 DEF AgentCommits, BranchMerges
  <2>2. \A n \in Names : tree'[n] = "none" <=> tree[n] = "none"
    BY <1>0, <1>5 DEF AgentCommits, BranchMerges, Typed
  <2> QED
    BY <1>1, <1>2, <1>3, <2>1, <2>2
<1>6. CASE \E n \in Names, s \in {"completed", "zombie"} : AgentEnds(n, s)
  <2>1. UNCHANGED <<tree, at, cmd, clean, cleans, crashes>>
    BY <1>6 DEF AgentEnds
  <2>2. OnlyEnds /\ SpawnersStay
    BY <1>0, <1>6, UpdateEnds, EndsKeepSpawners DEF AgentEnds
  <2> QED
    BY <1>1, <1>2, <2>1, <2>2
<1>7. CASE CleanStep
  <2>1. cleans' # 0
    <3>1. CASE \E isAll, isForce \in BOOLEAN : CleanStart(isAll, isForce)
      BY <1>0, <3>1 DEF CleanStart, Typed
    <3>2. CASE clean # "idle" /\ cleans' = cleans
      BY <1>0, <3>2 DEF WorktreesOwned
    <3> QED
      BY <1>7, <3>1, <3>2
         DEF CleanStep, CleanCheck, CleanRemove, CleanWalked, CleanMark, CleanPrune
  <2> QED
    BY <2>1 DEF WorktreesOwned, DriveRowsKept
<1> QED
  BY <1>4, <1>5, <1>6, <1>7 DEF AgentStep

LEMMA SpawnInit == Init => SpawnInv
BY TypedInit DEF Init, SpawnInv, WorktreesOwned, DriveRowsKept, Owners, Active

LEMMA SpawnStep == SlingInv /\ SlingInv' /\ SpawnInv /\ [Next]_vars => SpawnInv'
<1> SUFFICES ASSUME SlingInv, SlingInv', SpawnInv, [Next]_vars PROVE SpawnInv'
  OBVIOUS
<1>1. Typed'
  BY TypedStep DEF SpawnInv
<1>2. WorktreesOwned' /\ DriveRowsKept'
  BY SpawnCommands, SpawnOthers DEF Next
<1> QED
  BY <1>1, <1>2 DEF SpawnInv

-----------------------------------------------------------------------------
(* Who joins a task.  Commands that do not overlap: between a command's      *)
(* admission and its row agents only end, so that what the admission saw of  *)
(* the task's holder is true, or the task is free, when the row is written.  *)

Alone == ~overlap => \A p, q \in Procs : at[p] # "idle" /\ at[q] # "idle" => p = q

\* The rows by the time they started: any of them have an oldest, and of two
\* one is older.
Ordered ==
  /\ \A n \in Names : older[n] \subseteq Names
  /\ \A S \in SUBSET Rowed : S # {} => \E n \in S : older[n] \cap S = {}
  /\ \A n, m \in Rowed : n # m => n \in older[m] \/ m \in older[n]

ParentOn(par, task) == par # NoOne /\ TaskOf(par) = task

Admitted ==
  ~overlap =>
    \A p \in Pending :
      /\ cmd[p].name \notin Active
      /\ On(TaskOf(cmd[p].name)) = {} \/ ParentOn(cmd[p].parent, TaskOf(cmd[p].name))

FamilyInv == Alone /\ Ordered /\ Admitted /\ TaskStaysInFamily

\* The holder of a task is the one of its agents that has no older one.
HoldersAreOldest ==
  \A task : On(task) # {} =>
    /\ Holder(task) \in On(task) /\ older[Holder(task)] \cap On(task) = {}
    /\ \A n \in On(task) : older[n] \cap On(task) = {} => n = Holder(task)

LEMMA OldestHolds == Ordered => HoldersAreOldest
<1> SUFFICES ASSUME Ordered, NEW task, On(task) # {}
             PROVE  /\ Holder(task) \in On(task) /\ older[Holder(task)] \cap On(task) = {}
                    /\ \A n \in On(task) : older[n] \cap On(task) = {} => n = Holder(task)
  BY DEF HoldersAreOldest
<1>1. On(task) \in SUBSET Rowed
  BY DEF On, Active, Rowed
<1>2. \E n \in On(task) : older[n] \cap On(task) = {}
  BY <1>1 DEF Ordered
<1>3. Holder(task) \in On(task) /\ older[Holder(task)] \cap On(task) = {}
  BY <1>2 DEF Holder
<1>4. ASSUME NEW n \in On(task), older[n] \cap On(task) = {}
      PROVE  n = Holder(task)
  BY <1>1, <1>3, <1>4 DEF Ordered
<1> QED
  BY <1>3, <1>4

LEMMA OldestHoldsNext == Ordered' => HoldersAreOldest'
BY OldestHolds, PTL

\* Where agents only end, and only rows of ended agents go.
LEMMA EndsKeepOrder ==
  ASSUME Shapes, Typed, Ordered, NEW names,
         \/ UNCHANGED rows
         \/ \E new \in {"completed", "zombie"} : UpdateState(names, new)
         \/ RemoveRows(names)
  PROVE  /\ Ordered' /\ Active' \subseteq Active
         /\ \A n \in Active' : parentOf'[n] = parentOf[n] /\ older'[n] \subseteq older[n]
<1>1. /\ Active' \subseteq Active /\ Rowed' \subseteq Rowed
      /\ \A n \in Rowed' : parentOf'[n] = parentOf[n]
  BY DEF rows, UpdateState, RemoveRows, Active, Rowed
<1>2. \A n \in Names : older'[n] \subseteq older[n]
  BY DEF rows, UpdateState, RemoveRows
<1>3. \A n, m \in Rowed' : m \in older[n] => m \in older'[n]
  BY DEF rows, UpdateState, RemoveRows, Rowed
<1>4. Ordered'
  <2>1. ASSUME NEW S \in SUBSET Rowed', S # {}
        PROVE  \E n \in S : older'[n] \cap S = {}
    <3>1. S \in SUBSET Rowed
      BY <1>1, <2>1
    <3>2. PICK n \in S : older[n] \cap S = {}
      BY <2>1, <3>1 DEF Ordered
    <3>3. n \in Names
      BY <2>1 DEF Rowed
    <3> QED
      BY <1>2, <3>2, <3>3
  <2>2. \A n, m \in Rowed' : n # m => n \in older'[m] \/ m \in older'[n]
    BY <1>1, <1>3 DEF Ordered
  <2>3. \A n \in Names : older'[n] \subseteq Names
    BY <1>2 DEF Ordered
  <2> QED
    BY <2>1, <2>2, <2>3 DEF Ordered
<1>5. Active' \subseteq Rowed' /\ Active' \subseteq Names
  BY DEF Active, Rowed
<1> QED
  BY <1>1, <1>2, <1>4, <1>5

\* When agents end, nobody who stays loses the family.
LEMMA EndsKeepFamily ==
  ASSUME Ordered, Ordered', overlap => overlap', TaskStaysInFamily,
         Active' \subseteq Active,
         \A n \in Active' : parentOf'[n] = parentOf[n] /\ older'[n] \subseteq older[n]
  PROVE  TaskStaysInFamily'
<1> SUFFICES ASSUME ~overlap', NEW n \in Active', Holder(TaskOf(n))' # n
             PROVE  parentOf'[n] # NoOne /\ TaskOf(parentOf'[n]) = TaskOf(n)
  BY DEF TaskStaysInFamily, OnlyChildrenJoin, TaskOf
<1> DEFINE task == TaskOf(n)
<1>1. /\ On(task)' \subseteq On(task) /\ n \in On(task)' /\ n \in On(task)
  BY DEF On
<1>2. ASSUME Holder(task) = n PROVE FALSE
  <2>1. older[n] \cap On(task) = {}
    BY <1>1, <1>2, OldestHolds DEF HoldersAreOldest
  <2>2. older'[n] \cap On(task)' = {}
    BY <1>1, <2>1
  <2>3. On(task)' # {} /\ \A m \in On(task)' : older'[m] \cap On(task)' = {} => m = Holder(task)'
    BY <1>1, OldestHoldsNext DEF HoldersAreOldest
  <2> QED
    BY <1>1, <2>2, <2>3
<1> QED
  BY <1>2 DEF TaskStaysInFamily, OnlyChildrenJoin

\* A step that admits and records nobody.
LEMMA FamilyRests ==
  ASSUME Shapes, Typed, FamilyInv, NEW names,
         \/ UNCHANGED rows
         \/ \E new \in {"completed", "zombie"} : UpdateState(names, new)
         \/ RemoveRows(names),
         Pending' \subseteq Pending, \A p \in Pending' : cmd'[p] = cmd[p],
         overlap => overlap', Alone'
  PROVE  FamilyInv'
<1>1. /\ Ordered' /\ Active' \subseteq Active
      /\ \A n \in Active' : parentOf'[n] = parentOf[n] /\ older'[n] \subseteq older[n]
  BY EndsKeepOrder DEF FamilyInv
<1>2. TaskStaysInFamily'
  BY <1>1, EndsKeepFamily DEF FamilyInv
<1>3. Admitted'
  <2> SUFFICES ASSUME ~overlap', NEW p \in Pending'
               PROVE  /\ cmd'[p].name \notin Active'
                      /\ \/ On(TaskOf(cmd[p].name))' = {}
                         \/ ParentOn(cmd'[p].parent, TaskOf(cmd'[p].name))
    BY DEF Admitted, ParentOn, TaskOf
  <2>1. p \in Pending /\ cmd'[p] = cmd[p] /\ ~overlap
    OBVIOUS
  <2>2. /\ cmd[p].name \notin Active
        /\ On(TaskOf(cmd[p].name)) = {} \/ ParentOn(cmd[p].parent, TaskOf(cmd[p].name))
    BY <2>1 DEF FamilyInv, Admitted
  <2>3. On(TaskOf(cmd[p].name))' \subseteq On(TaskOf(cmd[p].name))
    BY <1>1, <2>1 DEF On
  <2> QED
    BY <1>1, <2>1, <2>2, <2>3
<1> QED
  BY <1>1, <1>2, <1>3 DEF FamilyInv

LEMMA FamilyWalks ==
  ASSUME Shapes, Typed, FamilyInv, NEW names,
         \/ UNCHANGED rows
         \/ \E new \in {"completed", "zombie"} : UpdateState(names, new)
         \/ RemoveRows(names),
         NEW p \in Procs, NEW place, Goto(p, place), at[p] # "idle", overlap' = overlap,
         p \in Pending \/ place \notin {"worktree", "prepare", "record"}
  PROVE  FamilyInv'
<1>1. /\ at' = [q \in Procs |-> IF q = p THEN place ELSE at[q]]
      /\ cmd' = [q \in Procs |-> IF q = p /\ place = "idle" THEN NoCommand ELSE cmd[q]]
  BY GotoForm
<1>2. Pending' \subseteq Pending /\ \A q \in Pending' : cmd'[q] = cmd[q]
  BY <1>1 DEF Pending
<1>3. Alone'
  BY <1>1 DEF FamilyInv, Alone
<1> QED
  BY <1>2, <1>3, FamilyRests

LEMMA FamilyPreludes ==
  ASSUME Shapes, Typed, FamilyInv, UNCHANGED rows,
         NEW p \in Procs, NEW place, NEW c, Proceed(p, place, c), overlap => overlap',
         at[p] # "idle" \/ (overlap' = (overlap \/ \E q \in Procs \ {p} : at[q] # "idle")),
         place \notin {"worktree", "prepare", "record"}
  PROVE  FamilyInv'
<1>1. /\ at' = [q \in Procs |-> IF q = p THEN place ELSE at[q]]
      /\ cmd' = [q \in Procs |-> IF q = p THEN c ELSE cmd[q]]
  BY ProceedForm
<1>2. Pending' \subseteq Pending /\ \A q \in Pending' : cmd'[q] = cmd[q]
  BY <1>1 DEF Pending
<1>3. Alone'
  BY <1>1 DEF FamilyInv, Alone
<1> QED
  BY <1>2, <1>3, FamilyRests

\* Admission asks for the holder of the task.
LEMMA FamilyAdmits ==
  ASSUME Shapes, Typed, FamilyInv, NEW p \in Procs, Admit(p), Admissible(cmd[p])
  PROVE  FamilyInv'
<1> DEFINE c == cmd[p]
           d == Command(AgentName(c), c.named, c.given, Parent(c), c.run)
           task == TaskOf(c.name)
<1>1. Proceed(p, "worktree", d) /\ at[p] = "admit" /\ (c.named \/ FreeNames(c) # {})
  BY DEF Admit
<1>2. UNCHANGED <<state, parentOf, older, overlap>>
  BY DEF Admit, fleet, rows
<1>3. /\ at' = [q \in Procs |-> IF q = p THEN "worktree" ELSE at[q]]
      /\ cmd' = [q \in Procs |-> IF q = p THEN d ELSE cmd[q]]
  BY <1>1, ProceedForm
<1>4. Active' = Active /\ \A t : On(t)' = On(t) /\ Holder(t)' = Holder(t)
  BY <1>2 DEF Active, On, Holder
<1>5. Alone'
  BY <1>1, <1>2, <1>3 DEF FamilyInv, Alone
<1>6. Ordered'
  BY <1>2 DEF FamilyInv, Ordered, Rowed
<1>7. TaskStaysInFamily'
  BY <1>2, <1>4 DEF FamilyInv, TaskStaysInFamily, OnlyChildrenJoin
<1>8. d.name = AgentName(c) /\ d.parent = Parent(c)
  BY DEF Command
<1>9. c.name \in Names /\ TaskOf(AgentName(c)) = task
  BY <1>1, NewName DEF Typed
<1>10. AgentName(c) \notin Active
  <2>1. CASE c.named
    BY <2>1, <1>1, NameIsFree DEF Admissible
  <2>2. CASE ~c.named
    BY <2>2, <1>1, NameIsFree DEF FreeNames
  <2> QED
    BY <2>1, <2>2
<1>11. On(task) = {} \/ ParentOn(Parent(c), task)
  <2>1. Holder(task) \in {NoOne, Parent(c)}
    BY DEF Admissible, TaskFree
  <2>2. ASSUME On(task) # {} PROVE ParentOn(Parent(c), task)
    <3>1. Holder(task) \in On(task)
      BY <2>2, OldestHolds DEF FamilyInv, HoldersAreOldest
    <3>2. Holder(task) # NoOne /\ TaskOf(Holder(task)) = task
      BY <3>1, SlingConstants DEF On, Active
    <3> QED
      BY <2>1, <3>2 DEF ParentOn
  <2> QED
    BY <2>2
<1> HIDE DEF c, d, task
<1>12. Admitted'
  <2> SUFFICES ASSUME ~overlap', NEW q \in Pending'
               PROVE  /\ cmd'[q].name \notin Active'
                      /\ \/ On(TaskOf(cmd[q].name))' = {}
                         \/ ParentOn(cmd'[q].parent, TaskOf(cmd'[q].name))
    BY DEF Admitted, ParentOn, TaskOf
  <2>1. q = p
    BY <1>2, <1>3, <1>5 DEF Alone, Pending
  <2>2. cmd'[q] = d
    BY <1>3, <2>1
  <2>3. On(TaskOf(cmd[q].name))' = On(task)
    BY <1>4, <1>8, <1>9, <2>2 DEF On
  <2> QED
    BY <1>4, <1>8, <1>9, <1>10, <1>11, <2>2, <2>3
<1> QED
  BY <1>5, <1>6, <1>7, <1>12 DEF FamilyInv

\* The new row is the youngest, and of the family or alone on its task.
LEMMA FamilyRecords ==
  ASSUME Shapes, Typed, FamilyInv, NEW p \in Procs, Record(p)
  PROVE  FamilyInv'
<1> DEFINE m == cmd[p].name
<1>1. /\ at' = [q \in Procs |-> IF q = p THEN "turn" ELSE at[q]]
      /\ UNCHANGED <<cmd, overlap>> /\ at[p] = "record" /\ m \in Names
  BY GotoForm DEF Record, Shapes, Typed
<1>2. state' = [n \in Names |-> IF n = m THEN "live" ELSE state[n]]
  BY DEF Shapes, Record, Upsert
<1>3. parentOf' = [n \in Names |-> IF n = m THEN cmd[p].parent ELSE parentOf[n]]
  BY DEF Shapes, Record, Upsert
<1>4. older' = [n \in Names |-> IF n = m THEN Rowed \ {n} ELSE older[n] \ {m}]
  BY DEF Record, Upsert, Rowed
<1>5. Active' = Active \cup {m} /\ Rowed' = Rowed \cup {m}
  BY <1>1, <1>2 DEF Active, Rowed
<1>6. Alone'
  BY <1>1 DEF FamilyInv, Alone
<1>7. p \in Pending /\ Pending' \subseteq Pending /\ p \notin Pending'
  BY <1>1 DEF Pending
<1>8. Admitted'
  BY <1>1, <1>7 DEF FamilyInv, Admitted, Alone, Pending
<1> HIDE DEF m
<1>9. Ordered'
  <2>1. ASSUME NEW S \in SUBSET Rowed', S # {}
        PROVE  \E n \in S : older'[n] \cap S = {}
    <3>1. CASE S = {m}
      BY <1>1, <1>4, <3>1
    <3>2. CASE S # {m}
      <4>1. S \ {m} \in SUBSET Rowed /\ S \ {m} # {}
        BY <1>5, <2>1, <3>2
      <4>2. PICK n \in S \ {m} : older[n] \cap (S \ {m}) = {}
        BY <4>1 DEF FamilyInv, Ordered
      <4>3. n \in Names /\ n # m /\ n \in S
        BY <4>1, <4>2 DEF Rowed
      <4>4. older'[n] = older[n] \ {m}
        BY <1>4, <4>3
      <4>5. older'[n] \cap S = {}
        BY <4>2, <4>4
      <4> QED
        BY <4>3, <4>5
    <3> QED
      BY <3>1, <3>2
  <2>2. ASSUME NEW n \in Rowed', NEW k \in Rowed', n # k
        PROVE  n \in older'[k] \/ k \in older'[n]
    <3>1. n \in Names /\ k \in Names
      BY <1>1, <1>5 DEF Rowed
    <3>2. CASE n = m \/ k = m
      BY <1>4, <1>5, <2>2, <3>1, <3>2
    <3>3. CASE n # m /\ k # m
      <4>1. n \in older[k] \/ k \in older[n]
        BY <1>5, <2>2, <3>3 DEF FamilyInv, Ordered
      <4> QED
        BY <1>4, <3>1, <3>3, <4>1
    <3> QED
      BY <3>2, <3>3
  <2>3. \A n \in Names : older'[n] \subseteq Names
    BY <1>4 DEF FamilyInv, Ordered, Rowed
  <2> QED
    BY <2>1, <2>2, <2>3 DEF Ordered
<1>10. TaskStaysInFamily'
  <2> SUFFICES ASSUME ~overlap', NEW n \in Active', Holder(TaskOf(n))' # n
               PROVE  parentOf'[n] # NoOne /\ TaskOf(parentOf'[n]) = TaskOf(n)
    BY DEF TaskStaysInFamily, OnlyChildrenJoin, TaskOf
  <2>0. n \in Names /\ ~overlap
    BY <1>1, <1>5 DEF Active
  <2>1. /\ cmd[p].name \notin Active
        /\ On(TaskOf(cmd[p].name)) = {} \/ ParentOn(cmd[p].parent, TaskOf(cmd[p].name))
    BY <1>7, <2>0 DEF FamilyInv, Admitted
  <2>2. m \notin Active /\ (On(TaskOf(m)) = {} \/ ParentOn(cmd[p].parent, TaskOf(m)))
    BY <2>1 DEF m
  <2>3. \A k \in On(TaskOf(n))' : older'[k] \cap On(TaskOf(n))' = {} => k = Holder(TaskOf(n))'
    <3>1. On(TaskOf(n))' # {}
      BY DEF On, TaskOf
    <3> QED
      BY <1>9, <3>1, OldestHoldsNext DEF HoldersAreOldest
  <2>4. n \in On(TaskOf(n))' /\ older'[n] \cap On(TaskOf(n))' # {}
    <3>1. n \in On(TaskOf(n))'
      BY DEF On
    <3> QED
      BY <2>3, <3>1
  <2>5. CASE n = m
    <3>1. parentOf'[n] = cmd[p].parent
      BY <1>3, <2>0, <2>5
    <3>2. CASE ParentOn(cmd[p].parent, TaskOf(m))
      BY <2>5, <3>1, <3>2 DEF ParentOn
    <3>3. CASE On(TaskOf(m)) = {}
      <4>1. On(TaskOf(n))' \subseteq {n}
        BY <1>5, <2>5, <3>3 DEF On
      <4>2. n \notin older'[n]
        BY <1>4, <2>0, <2>5
      <4> QED
        BY <2>4, <4>1, <4>2
    <3> QED
      BY <2>2, <3>2, <3>3
  <2>6. CASE n # m
    <3>1. n \in Active /\ parentOf'[n] = parentOf[n] /\ older'[n] = older[n] \ {m}
      BY <1>3, <1>4, <1>5, <2>0, <2>6
    <3>2. On(TaskOf(n))' \subseteq On(TaskOf(n)) \cup {m} /\ n \in On(TaskOf(n))
      BY <1>5, <3>1 DEF On
    <3>3. older[n] \cap On(TaskOf(n)) # {}
      BY <2>4, <3>1, <3>2
    <3>4. Holder(TaskOf(n)) # n
      BY <3>2, <3>3, OldestHolds DEF FamilyInv, HoldersAreOldest
    <3> QED
      BY <2>0, <3>1, <3>4 DEF FamilyInv, TaskStaysInFamily, OnlyChildrenJoin
  <2> QED
    BY <2>5, <2>6
<1> QED
  BY <1>6, <1>8, <1>9, <1>10 DEF FamilyInv

LEMMA FamilyInit == Init => FamilyInv
<1> SUFFICES ASSUME Init PROVE FamilyInv
  OBVIOUS
<1>1. Rowed = {} /\ Active = {} /\ Pending = {}
  BY DEF Init, Rowed, Active, Pending
<1>2. Alone /\ Admitted /\ TaskStaysInFamily
  BY <1>1 DEF Init, Alone, Admitted, TaskStaysInFamily, OnlyChildrenJoin
<1>3. Ordered
  BY <1>1 DEF Init, Ordered
<1> QED
  BY <1>2, <1>3 DEF FamilyInv

LEMMA FamilyCommands ==
  ASSUME SlingInv, Typed, FamilyInv, NEW p \in Procs, SlingStep(p)
  PROVE  FamilyInv'
<1> USE DEF fleet
<1>0. Shapes
  BY DEF SlingInv
<1>1. CASE \E n \in Names, isNamed \in BOOLEAN, par \in Names \cup {NoOne} :
             Start(p, n, isNamed, par)
  <2>1. \E place, c : Proceed(p, place, c) /\ place \in {"admit", "run"}
    BY <1>1 DEF Start
  <2>2. UNCHANGED rows /\ overlap' = (overlap \/ \E q \in Procs \ {p} : at[q] # "idle")
    BY <1>1 DEF Start
  <2> QED
    BY <1>0, <2>1, <2>2, FamilyPreludes
<1>2. CASE InheritRun(p) \/ ReadCurrentRun(p)
  <2>1. \E place, c : Proceed(p, place, c) /\ place \in {"admit", "newRun"}
    BY <1>2 DEF InheritRun, ReadCurrentRun
  <2>2. UNCHANGED <<rows, overlap>> /\ at[p] = "run"
    BY <1>2 DEF InheritRun, ReadCurrentRun
  <2> QED
    BY <1>0, <2>1, <2>2, FamilyPreludes
<1>3. ASSUME UNCHANGED <<rows, overlap>>, NEW place, Goto(p, place), at[p] # "idle",
             p \in Pending \/ place \notin {"worktree", "prepare", "record"}
      PROVE  FamilyInv'
  BY <1>0, <1>3, FamilyWalks
<1>4. CASE WriteCurrentRun(p) \/ TaskRefused(p) \/ Rollback(p) \/ Crash(p)
  BY <1>3, <1>4 DEF WriteCurrentRun, TaskRefused, Rollback, Crash
<1>5. CASE Admit(p)
  <2>1. CASE Admissible(cmd[p])
    BY <1>0, <1>5, <2>1, FamilyAdmits
  <2>2. CASE ~Admissible(cmd[p])
    BY <1>3, <1>5, <2>2 DEF Admit
  <2> QED
    BY <2>1, <2>2
<1>6. CASE CreateWorktree(p) \/ Prepare(p)
  <2>1. p \in Pending
    BY <1>6 DEF CreateWorktree, Prepare, Pending
  <2> QED
    BY <1>3, <1>6, <2>1 DEF CreateWorktree, Prepare
<1>7. CASE Record(p)
  BY <1>0, <1>7, FamilyRecords
<1>8. CASE FirstTurn(p)
  <2>1. /\ Goto(p, "idle") \/ Goto(p, "rollback")
        /\ overlap' = overlap /\ at[p] # "idle"
    BY <1>8 DEF FirstTurn
  <2>2. UNCHANGED rows \/ \E names : UpdateState(names, "zombie")
    BY <1>8 DEF FirstTurn
  <2> QED
    BY <1>0, <2>1, <2>2, FamilyWalks
<1>9. CASE Terminalize(p)
  BY <1>0, <1>9, FamilyWalks DEF Terminalize
<1> QED
  BY <1>1, <1>2, <1>4, <1>5, <1>6, <1>7, <1>8, <1>9 DEF SlingStep

LEMMA FamilyOthers ==
  ASSUME SlingInv, Typed, FamilyInv, AgentStep \/ CleanStep \/ UNCHANGED vars
  PROVE  FamilyInv'
<1> USE DEF fleet
<1>1. UNCHANGED <<at, cmd, overlap>>
  BY DEF vars, AgentStep, AgentCommits, BranchMerges, AgentEnds, CleanStep, CleanStart,
         CleanCheck, CleanRemove, CleanWalked, CleanMark, CleanPrune
<1>2. \/ UNCHANGED rows
      \/ \E names, new : new \in {"completed", "zombie"} /\ UpdateState(names, new)
      \/ \E names : RemoveRows(names)
  <2>1. CASE (\E n \in Names : AgentCommits(n) \/ BranchMerges(n)) \/ UNCHANGED vars
    BY <2>1 DEF AgentCommits, BranchMerges, vars
  <2>2. CASE \E n \in Names, end \in {"completed", "zombie"} : AgentEnds(n, end)
    BY <2>2 DEF AgentEnds
  <2>3. CASE \E isAll, isForce \in BOOLEAN : CleanStart(isAll, isForce)
    BY <2>3 DEF CleanStart
  <2>4. CASE \E n \in Names : CleanCheck(n)
    BY <2>4 DEF CleanCheck
  <2>5. CASE CleanRemove \/ CleanWalked
    BY <2>5 DEF CleanRemove, CleanWalked
  <2>6. CASE CleanMark
    BY <2>6 DEF CleanMark
  <2>7. CASE CleanPrune
    BY <2>7 DEF CleanPrune
  <2> QED
    BY <2>1, <2>2, <2>3, <2>4, <2>5, <2>6, <2>7 DEF AgentStep, CleanStep
<1>3. Alone' /\ Pending' \subseteq Pending /\ \A p \in Pending' : cmd'[p] = cmd[p]
  BY <1>1 DEF FamilyInv, Alone, Pending
<1> QED
  BY <1>1, <1>2, <1>3, FamilyRests DEF SlingInv

-----------------------------------------------------------------------------
(* The theorems *)

\* The invariant of the spawns: the limits, the worktrees and the families.
THEOREM SpawnInvHolds == Spec => [](SlingInv /\ SpawnInv /\ FamilyInv)
<1>1. Init => SlingInv /\ SpawnInv /\ FamilyInv
  BY SlingInit, SpawnInit, FamilyInit
<1>2. SlingInv /\ SpawnInv /\ FamilyInv /\ [Next]_vars => FamilyInv'
  BY FamilyCommands, FamilyOthers DEF Next, SpawnInv
<1> QED
  BY <1>1, <1>2, SlingNext, SpawnStep, PTL DEF Spec

\* Without a clean, a worktree has at most one command that prepares, runs or rolls
\* back in it, for any commands, names and crashes.
THEOREM NoTwoOwners == Spec => []OneSlingPerWorktree
<1>1. SpawnInv => OneSlingPerWorktree
  BY DEF SpawnInv, WorktreesOwned, OneSlingPerWorktree
<1> QED
  BY <1>1, SpawnInvHolds, PTL

\* A live row of a drive's agent has its worktree, unless the drive is just ending it.
THEOREM DriveKeepsRowsWhole == Spec => []DriveRowHasWorktree
<1>1. SpawnInv => DriveRowHasWorktree
  BY DEF SpawnInv, DriveRowsKept, Ending, Kept, DriveRowHasWorktree
<1> QED
  BY <1>1, SpawnInvHolds, PTL

\* As long as no two commands have overlapped, only a child of an agent of the task
\* has joined a task that was being worked on.
THEOREM OnlyFamilyJoins == Spec => []TaskStaysInFamily
<1>1. FamilyInv => TaskStaysInFamily
  BY DEF FamilyInv
<1> QED
  BY <1>1, SpawnInvHolds, PTL
=============================================================================
