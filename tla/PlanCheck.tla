----------------------------- MODULE PlanCheck ------------------------------
(***************************************************************************)
(* What ov ingest makes of a group of a plan file before it calls the      *)
(* tracker: the validator (ingest/validate.ts), with Kahn's algorithm to   *)
(* find cycles, and the renderer (ingest/render.ts), which turns what a    *)
(* unit depends on into what a step blocks.  The author edits the file     *)
(* between the runs.                                                       *)
(***************************************************************************)
EXTENDS Naturals, Sequences, FiniteSets
LOCAL INSTANCE SequencesExt

CONSTANTS Units,     \* the ids of units, a sequence
          Group,     \* the id of the group
          Depends    \* lists of ids a unit may depend on

VARIABLES plan,      \* the group: its units, in order, and its flaws
          result     \* what the last run made of it

planVars == <<plan, result>>

\* A field of the group or of one of its units is missing or out of its range
\* (title, description, type, priority, confidence, template, acceptance).
Flaws == {"field"}
NoResult == [ok |-> FALSE, steps |-> <<>>]
Ids == {plan.units[i].id : i \in DOMAIN plan.units}

PlanInit ==
  /\ plan = [units |-> [i \in DOMAIN Units |-> [id |-> Units[i], on |-> <<>>]], flaws |-> {}]
  /\ result = NoResult

\* The author writes a list, mistakes an id for another, drops the last unit or fills it in
\* again, or leaves a field out.
EditList ==
  /\ \E i \in DOMAIN plan.units, on \in Depends : plan' = [plan EXCEPT !.units[i].on = on]
  /\ result' = NoResult
EditId ==
  /\ \E i \in DOMAIN plan.units :
       \E id \in {Units[i], Units[1], Group} : plan' = [plan EXCEPT !.units[i].id = id]
  /\ result' = NoResult
EditUnits ==
  /\ \E n \in DOMAIN Units :
       plan' = [plan EXCEPT !.units = [i \in 1 .. n |-> IF i <= Len(@) THEN @[i] ELSE [id |-> Units[i], on |-> <<>>]]]
  /\ result' = NoResult
EditFields == (\E f \in SUBSET Flaws : plan' = [plan EXCEPT !.flaws = f]) /\ result' = NoResult

-----------------------------------------------------------------------------
\* allLogicalIds: one namespace for the group and its units.
Duplicate == ~IsInjective([i \in DOMAIN plan.units |-> plan.units[i].id]) \/ Group \in Ids

\* A unit depends on siblings, not on itself, and on each once.
BadEntry(unit) ==
  \/ \E d \in Range(unit.on) : d = unit.id \/ d \notin Ids
  \/ ~IsInjective(unit.on)

\* What a node waits for.  An id that two units share is one node.
Waits(id) == {d \in Ids : \E i \in DOMAIN plan.units : plan.units[i].id = id /\ d \in Range(plan.units[i].on)}

\* Seeded bug for the runs: a node is ready once one of its dependencies is done.
ProcessedEarly ==
  LET step(done, i) == done \cup {id \in Ids : Waits(id) = {} \/ Waits(id) \cap done # {}}
  IN  FoldLeft(step, {}, plan.units)

\* The nodes that leave the queue: those whose in-degree comes to zero, wave after wave.
Processed ==
  LET step(done, i) == done \cup {id \in Ids : Waits(id) \subseteq done}
  IN  FoldLeft(step, {}, plan.units)

DetectCycles == Cardinality(Processed) < Len(plan.units)

\* validatePlanGroup: with less than two units no more is looked at.
ValidatePlanGroup ==
  /\ plan.flaws = {} /\ Len(plan.units) >= 2
  /\ \A i \in DOMAIN plan.units : ~BadEntry(plan.units[i])
  /\ ~DetectCycles

ValidateNormalizedPlan == ~Duplicate /\ ValidatePlanGroup

\* idToIndex keeps the last unit of an id.
IdToIndex(id) == CHOOSE i \in DOMAIN plan.units :
  plan.units[i].id = id /\ \A j \in DOMAIN plan.units : plan.units[j].id = id => j <= i

\* buildSteps: the units a step blocks.
BuildSteps ==
  [d \in DOMAIN plan.units |->
    {i \in DOMAIN plan.units : \E id \in Range(plan.units[i].on) \cap Ids : IdToIndex(id) = d}]

IngestRun ==
  /\ result = NoResult /\ UNCHANGED plan
  /\ result' = [ok |-> ValidateNormalizedPlan, steps |-> BuildSteps]

PlanNext == EditList \/ EditId \/ EditUnits \/ EditFields \/ IngestRun

-----------------------------------------------------------------------------
\* Whether the units can be done in some order.
Orders == {o \in [DOMAIN plan.units -> DOMAIN plan.units] : IsInjective(o)}
CanBeDone ==
  \E o \in Orders : \A i, j \in DOMAIN plan.units : plan.units[j].id \in Range(plan.units[i].on) => o[j] < o[i]

\* A plan is accepted just when its ids are unambiguous, what its units depend on is there
\* and they can be done in some order; its steps then block one another as its units depend
\* on one another (validate.ts:157-279, render.ts:187-241).
AcceptedCanBeDone ==
  result # NoResult =>
    /\ result.ok = (/\ plan.flaws = {} /\ Len(plan.units) >= 2 /\ ~Duplicate /\ CanBeDone
                    /\ \A i \in DOMAIN plan.units : IsInjective(plan.units[i].on) /\ Range(plan.units[i].on) \subseteq Ids)
    /\ result.ok => \A i, j \in DOMAIN plan.units :
                      (j \in result.steps[i]) = (plan.units[i].id \in Range(plan.units[j].on))
=============================================================================
