--------------------------- MODULE LifecycleProofs ---------------------------
(***************************************************************************)
(* The agents at the top and their runs, for any agents, processes and     *)
(* starts: what current-run.txt names, when the row of a persistent agent  *)
(* is completed, and what its own hook may do to it.                       *)
(*                                                                         *)
(* The numbers of the starts carry the argument: a start is held by the    *)
(* one process that made it until it is written into a row, so that its    *)
(* run is nobody's to complete and its row not yet there to mistake.       *)
(***************************************************************************)
EXTENDS Lifecycle, TLAPS

\* The agent's session does not hold the process of its row.
Down(a) == gen[a] = 0 \/ gen[a] # pane[a]

\* Where a process holds a start that is not in a row yet.
Opening == {"run", "file", "row"}

Shapes ==
  /\ row \in [Agents -> AgentState \cup {"absent"}] /\ named \in [Agents -> BOOLEAN]
  /\ gen = [a \in Agents |-> gen[a]] /\ pane = [a \in Agents |-> pane[a]]
  /\ run = [r \in Starts |-> run[r]]

ProcShapes ==
  /\ pc = [p \in Procs |-> pc[p]] /\ who = [p \in Procs |-> who[p]]
  /\ held = [p \in Procs |-> held[p]] /\ seen = [p \in Procs |-> seen[p]]
  /\ opt = [p \in Procs |-> opt[p]]
  /\ \A p \in Procs : who[p] \in Agents

\* Starts are numbered in their order.
Numbered ==
  /\ starts \in 0..MaxStarts /\ cur \in 0..starts /\ living \subseteq 1..starts
  /\ \A a \in Agents : gen[a] \in 0..starts /\ pane[a] \in 0..starts
  /\ \A p \in Procs : held[p] \in 0..starts

\* A start on its way into a row.
Holds(p) ==
  pc[p] \in Opening =>
    /\ held[p] # 0 /\ \A a \in Agents : gen[a] # held[p]
    /\ pc[p] \in {"run", "file"} => cur # held[p]
    /\ pc[p] = "file" => run[held[p]] = "active"
    /\ opt[p].headless => pane[who[p]] # held[p]
Opened ==
  /\ \A p \in Procs : Holds(p)
  /\ \A p, q \in Procs :
       p # q /\ pc[p] \in Opening /\ pc[q] \in Opening => held[p] # held[q]

\* An active row without a session is that of a headless start; only the
\* agents that open runs have such.
RowsNamed ==
  \A a \in Agents : row[a] \in Active /\ ~named[a] => a \in Tops /\ Down(a)

Sided(p) ==
  who[p] \notin Tops =>
    ~opt[p].headless /\ (pc[p] \in {"check", "kill"} => seen[p].tmux)

\* Before a command completes a row, the process of the row is out of its session.
Stands(p) ==
  ~disturbed /\ ((pc[p] = "kill" /\ ~seen[p].tmux) \/ pc[p] \in {"stopwd", "record", "failed"})
    => Down(who[p])

Alone == ~disturbed => \A p, q \in Procs : pc[p] # "idle" /\ pc[q] # "idle" => p = q

Core ==
  /\ Shapes /\ ProcShapes /\ Numbered /\ Opened /\ RowsNamed
  /\ \A p \in Procs : Sided(p) /\ Stands(p)

\* The inductive invariant.
LifeInv == Core /\ Alone /\ CurrentRun /\ CompletedIsDown

-----------------------------------------------------------------------------
(* Steps that begin nothing and insert no row *)

\* No row becomes active.
RowsCalm ==
  /\ row' \in [Agents -> AgentState \cup {"absent"}] /\ named' \in [Agents -> BOOLEAN]
  /\ gen' = gen
  /\ \A a \in Agents : row'[a] \in Active => row[a] \in Active /\ named'[a] = named[a]

\* Processes die and sessions go.
WorldCalm ==
  /\ starts' = starts /\ living' \subseteq living
  /\ pane' = [a \in Agents |-> pane'[a]] /\ \A a \in Agents : pane'[a] \in {0, pane[a]}

\* A process that takes no step, and one that goes on without a start in hand.
Same(q) ==
  /\ pc'[q] = pc[q] /\ who'[q] = who[q] /\ held'[q] = held[q]
  /\ seen'[q] = seen[q] /\ opt'[q] = opt[q]
Moved(q) ==
  /\ pc'[q] \notin Opening /\ held'[q] \in {0, held[q]}
  /\ Sided(q)' /\ Stands(q)'
ProcsCalm ==
  /\ ProcShapes' /\ (disturbed => disturbed')
  /\ \A q \in Procs : Same(q) \/ Moved(q)

\* A process that will remove current-run.txt still will.
UnlinkersStay == \A q \in Procs : pc[q] = "unlink" => pc'[q] = "unlink"

\* A row that becomes completed has its reason.
Grounded ==
  ~disturbed' =>
    \A a \in Tops \cup Monitors :
      row'[a] = "completed" => row[a] = "completed" \/ Down(a)' \/ run[gen[a]] = "completed"

LEMMA DownStays ==
  ASSUME WorldCalm, gen' = gen, NEW a \in Agents, Down(a)
  PROVE  Down(a)'
BY DEF WorldCalm, Down

LEMMA CoreCalm ==
  ASSUME Core, RowsCalm, WorldCalm, ProcsCalm, cur' \in {0, cur},
         run' = [r \in Starts |-> run'[r]],
         \A r \in Starts : r # cur => run'[r] = run[r]
  PROVE  Core'
<1>1. Shapes' /\ ProcShapes'
  BY DEF Core, Shapes, RowsCalm, WorldCalm, ProcsCalm
<1>2. Numbered'
  <2>1. \A a \in Agents : gen'[a] \in 0..starts /\ pane'[a] \in 0..starts
    BY DEF Core, Numbered, RowsCalm, WorldCalm
  <2>2. \A p \in Procs : held'[p] \in 0..starts
    BY DEF Core, Numbered, ProcsCalm, Same, Moved
  <2> QED
    BY <2>1, <2>2 DEF Core, Numbered, RowsCalm, WorldCalm
<1>3. \A p \in Procs : pc'[p] \in Opening => Same(p) /\ pc[p] \in Opening
  BY DEF ProcsCalm, Same, Moved
<1>4. ASSUME NEW p \in Procs, pc'[p] \in Opening
      PROVE  Holds(p)'
  <2>1. Same(p) /\ pc[p] \in Opening /\ Holds(p)
    BY <1>3, <1>4 DEF Core, Opened
  <2>2. held'[p] # 0 /\ \A a \in Agents : gen'[a] # held'[p]
    BY <2>1 DEF Same, Holds, RowsCalm
  <2>3. pc'[p] \in {"run", "file"} => cur' # held'[p]
    BY <2>1, <2>2 DEF Same, Holds
  <2>4. pc'[p] = "file" => run'[held'[p]] = "active"
    <3>1. held[p] \in 1..MaxStarts
      BY <2>1, LifecycleAssumption DEF Holds, Core, Numbered
    <3> QED
      BY <2>1, <3>1 DEF Same, Holds, Starts
  <2>5. opt'[p].headless => pane'[who'[p]] # held'[p]
    BY <2>1, <2>2 DEF Same, Holds, WorldCalm, Core, ProcShapes
  <2> QED
    BY <2>2, <2>3, <2>4, <2>5 DEF Holds
<1>5. Opened'
  <2>1. \A p \in Procs : Holds(p)'
    BY <1>4 DEF Holds
  <2>2. \A p, q \in Procs :
          p # q /\ pc'[p] \in Opening /\ pc'[q] \in Opening => held'[p] # held'[q]
    BY <1>3 DEF Same, Core, Opened
  <2> QED
    BY <2>1, <2>2 DEF Opened
<1>6. RowsNamed'
  BY DownStays DEF Core, RowsNamed, RowsCalm
<1>7. ASSUME NEW p \in Procs PROVE Sided(p)' /\ Stands(p)'
  <2>1. CASE Moved(p)
    BY <2>1 DEF Moved
  <2>2. CASE Same(p)
    <3>1. Sided(p)'
      BY <2>2 DEF Same, Core, Sided
    <3>2. who[p] \in Agents /\ who'[p] = who[p]
      BY <2>2 DEF Same, Core, ProcShapes
    <3>3. gen' = gen /\ (disturbed => disturbed')
      BY DEF RowsCalm, ProcsCalm
    <3>4. Down(who[p]) => gen'[who'[p]] = 0 \/ gen'[who'[p]] # pane'[who'[p]]
      BY <3>2, <3>3 DEF WorldCalm, Down
    <3>5. Stands(p)'
      BY <2>2, <3>3, <3>4 DEF Same, Core, Stands, Down
    <3> QED
      BY <3>1, <3>5
  <2> QED
    BY <2>1, <2>2 DEF ProcsCalm
<1> QED
  BY <1>1, <1>2, <1>5, <1>6, <1>7 DEF Core

\* A calm step that leaves the runs alone and completes no row without reason.
LEMMA CompletedStays ==
  ASSUME Core, CompletedIsDown, RowsCalm, WorldCalm, Grounded, disturbed => disturbed',
         \A r \in Starts : run[r] = "completed" => run'[r] = "completed"
  PROVE  CompletedIsDown'
<1> SUFFICES ASSUME ~disturbed', NEW a \in Tops \cup Monitors, row'[a] = "completed",
                    ~Down(a)'
             PROVE  ~Alive(gen[a])' \/ run'[gen'[a]] = "completed"
  BY DEF CompletedIsDown, Down
<1>1. a \in Agents /\ gen'[a] = gen[a] /\ ~disturbed
  BY DEF Agents, RowsCalm
<1>2. ~Down(a) /\ gen[a] \in Starts
  <2>1. ~Down(a)
    BY <1>1 DEF Down, WorldCalm
  <2> QED
    BY <1>1, <2>1, LifecycleAssumption DEF Down, Core, Numbered, Starts
<1>3. row[a] = "completed" \/ run[gen[a]] = "completed"
  BY DEF Grounded
<1>4. ~Alive(gen[a]) \/ run[gen[a]] = "completed"
  BY <1>1, <1>2, <1>3 DEF CompletedIsDown, Down
<1> QED
  BY <1>1, <1>2, <1>4 DEF Alive, WorldCalm

LEMMA CalmStep ==
  ASSUME LifeInv, RowsCalm, WorldCalm, ProcsCalm, Alone', UnlinkersStay, Grounded,
         UNCHANGED runVars
  PROVE  LifeInv'
<1>1. Core'
  BY CoreCalm DEF LifeInv, Core, Shapes, runVars
<1>2. CurrentRun'
  BY DEF LifeInv, CurrentRun, UnlinkersStay, ProcsCalm, runVars
<1>3. CompletedIsDown'
  BY CompletedStays DEF LifeInv, ProcsCalm, runVars
<1> QED
  BY <1>1, <1>2, <1>3 DEF LifeInv

\* The rows.
LEMMA SameRows ==
  ASSUME Core, UNCHANGED rowVars
  PROVE  RowsCalm /\ Grounded
BY DEF Core, Shapes, rowVars, RowsCalm, Grounded

LEMMA SetStateRows ==
  ASSUME Core, NEW a \in Agents, NEW s \in Terminal, SetState(a, s), gen' = gen
  PROVE  /\ RowsCalm
         /\ \A b \in Agents : row'[b] = "completed" => row[b] = "completed" \/ (b = a /\ s = "completed")
<1>1. row' = [b \in Agents |-> IF b = a THEN (IF row[a] = "absent" THEN row[a] ELSE s) ELSE row[b]]
  BY DEF Core, Shapes, SetState
<1>2. named' = [b \in Agents |-> IF b = a THEN named[a] /\ s \notin Terminal ELSE named[b]]
  BY DEF Core, Shapes, SetState
<1>3. s \in AgentState /\ s \notin Active /\ "absent" \notin Active
  BY DEF AgentState, Active, Terminal
<1> QED
  BY <1>1, <1>2, <1>3 DEF Core, Shapes, RowsCalm

\* The world.
LEMMA SameWorld ==
  ASSUME Core, UNCHANGED <<worldVars, starts>>
  PROVE  WorldCalm
BY DEF Core, Shapes, worldVars, WorldCalm

LEMMA KilledWorld ==
  ASSUME Core, NEW a \in Agents, Killed(a), starts' = starts
  PROVE  WorldCalm /\ pane'[a] = 0
BY DEF Core, Shapes, Killed, WorldCalm

LEMMA DownWhenGone ==
  ASSUME NEW a \in Agents, pane'[a] = 0
  PROVE  Down(a)'
BY DEF Down

\* The processes.
LEMMA SameProcs ==
  ASSUME LifeInv, UNCHANGED <<pc, procVars, disturbed>>
  PROVE  ProcsCalm /\ Alone' /\ UnlinkersStay
BY DEF LifeInv, Core, ProcShapes, procVars, ProcsCalm, Same, Alone, UnlinkersStay

LEMMA Goes ==
  ASSUME LifeInv, NEW p \in Procs, NEW step, Goto(p, step),
         UNCHANGED <<procVars, disturbed>>, pc[p] \notin {"idle", "unlink"},
         step \notin Opening \cup {"check", "kill"},
         ~disturbed /\ step \in {"stopwd", "record", "failed"} => Down(who[p])'
  PROVE  ProcsCalm /\ Alone' /\ UnlinkersStay
<1>1. pc' = [q \in Procs |-> IF q = p THEN step ELSE pc[q]]
  BY DEF LifeInv, Core, ProcShapes, Goto
<1>2. \A q \in Procs \ {p} : Same(q)
  BY <1>1 DEF Same, procVars
<1>3. Moved(p)
  <2>1. Sided(p)'
    BY <1>1 DEF LifeInv, Core, Sided, procVars
  <2>2. Stands(p)'
    BY <1>1 DEF Stands, procVars
  <2> QED
    BY <1>1, <2>1, <2>2 DEF Moved, procVars
<1>4. ProcsCalm
  BY <1>1, <1>2, <1>3 DEF LifeInv, Core, ProcShapes, ProcsCalm, procVars
<1> QED
  BY <1>1, <1>4 DEF LifeInv, Alone, UnlinkersStay

LEMMA Ends ==
  ASSUME LifeInv, NEW p \in Procs, End(p), disturbed => disturbed'
  PROVE  /\ ProcsCalm /\ Alone' /\ (pc[p] # "unlink" => UnlinkersStay)
         /\ \A q \in Procs \ {p} : pc'[q] = pc[q]
<1>1. pc' = [q \in Procs |-> IF q = p THEN "idle" ELSE pc[q]]
  BY DEF LifeInv, Core, ProcShapes, End, Goto
<1>2. /\ who' = [q \in Procs |-> IF q = p THEN Coordinator ELSE who[q]]
      /\ held' = [q \in Procs |-> IF q = p THEN 0 ELSE held[q]]
      /\ seen' = [q \in Procs |-> IF q = p THEN NobodySeen ELSE seen[q]]
      /\ opt' = [q \in Procs |-> IF q = p THEN NoOpt ELSE opt[q]]
  BY DEF LifeInv, Core, ProcShapes, End
<1>3. \A q \in Procs \ {p} : Same(q)
  BY <1>1, <1>2 DEF Same
<1>4. Coordinator \in Tops /\ Coordinator \in Agents
  BY LifecycleAssumption DEF Agents
<1>5. Moved(p)
  BY <1>1, <1>2, <1>4 DEF Moved, Sided, Stands, Opening
<1>6. ProcsCalm
  BY <1>1, <1>2, <1>3, <1>4, <1>5 DEF LifeInv, Core, ProcShapes, ProcsCalm
<1> QED
  BY <1>1, <1>6 DEF LifeInv, Alone, UnlinkersStay

LEMMA Issues ==
  ASSUME LifeInv, UNCHANGED <<rowVars, worldVars>>, NEW p \in Procs, Idle(p),
         NEW a \in Agents, NEW o, NEW step, Issue(p, a, o, step),
         step \in {"check", "launch", "kill", "finish", "mark"},
         a \notin Tops => ~o.headless, step \in {"check", "kill"} => row[a] \in Active
  PROVE  ProcsCalm /\ Alone' /\ UnlinkersStay
<1>1. pc' = [q \in Procs |-> IF q = p THEN step ELSE pc[q]]
  BY DEF LifeInv, Core, ProcShapes, Issue, Goto
<1>2. /\ who' = [q \in Procs |-> IF q = p THEN a ELSE who[q]] /\ held' = held
      /\ seen' = [q \in Procs |-> IF q = p THEN [start |-> gen[a], tmux |-> named[a]] ELSE seen[q]]
      /\ opt' = [q \in Procs |-> IF q = p THEN o ELSE opt[q]]
  BY DEF LifeInv, Core, ProcShapes, Issue
<1>3. \A q \in Procs \ {p} : Same(q)
  BY <1>1, <1>2 DEF Same
<1>4. disturbed' = (disturbed \/ \E q \in Procs \ {p} : pc[q] # "idle")
  BY DEF Issue, Idle
<1>5. row[a] \in Active => named[a] \/ (a \in Tops /\ Down(a))
  BY DEF LifeInv, Core, RowsNamed
<1>6. Moved(p)
  <2>1. Sided(p)'
    BY <1>1, <1>2, <1>5 DEF Sided
  <2>2. Down(a) => gen'[a] = 0 \/ gen'[a] # pane'[a]
    BY DEF Down, rowVars, worldVars
  <2>3. Stands(p)'
    BY <1>1, <1>2, <1>5, <2>2 DEF Stands, Down
  <2> QED
    BY <1>1, <1>2, <2>1, <2>3 DEF Moved, Opening
<1>7. ProcsCalm
  BY <1>1, <1>2, <1>3, <1>4, <1>6 DEF LifeInv, Core, ProcShapes, ProcsCalm
<1>8. UnlinkersStay
  BY <1>1 DEF UnlinkersStay, Idle
<1> QED
  BY <1>1, <1>4, <1>7, <1>8 DEF LifeInv, Alone

-----------------------------------------------------------------------------
(* The commands *)

\* A command that is refused where it begins changes nothing.
LEMMA Refused ==
  ASSUME LifeInv, UNCHANGED <<rowVars, worldVars, runVars, starts>>, Refuse
  PROVE  LifeInv'
BY SameRows, SameWorld, SameProcs, CalmStep DEF LifeInv, Refuse

LEMMA Issued ==
  ASSUME LifeInv, UNCHANGED <<rowVars, worldVars, runVars, starts>>, NEW p \in Procs, Idle(p),
         NEW a \in Agents, NEW o, NEW step, Issue(p, a, o, step),
         step \in {"check", "launch", "kill", "finish", "mark"},
         a \notin Tops => ~o.headless, step \in {"check", "kill"} => row[a] \in Active
  PROVE  LifeInv'
<1>1. RowsCalm /\ Grounded /\ WorldCalm
  BY SameRows, SameWorld DEF LifeInv
<1>2. ProcsCalm /\ Alone' /\ UnlinkersStay
  BY Issues
<1> QED
  BY <1>1, <1>2, CalmStep

LEMMA Begins ==
  ASSUME LifeInv, UNCHANGED <<rowVars, worldVars, runVars, starts>>, NEW p \in Procs, Idle(p),
         NEW a \in Agents, NEW o, Begin(p, a, o), a \notin Tops => ~o.headless
  PROVE  LifeInv'
<1>1. CASE row[a] \in Active
  BY <1>1, Issued DEF Begin
<1>2. CASE row[a] \notin Active
  BY <1>2, Issued DEF Begin
<1> QED
  BY <1>1, <1>2

LEMMA CommandStep ==
  ASSUME LifeInv, NEW p \in Procs, Command(p)
  PROVE  LifeInv'
<1>1. Tops \subseteq Agents /\ Coordinator \in Tops
  BY LifecycleAssumption DEF Agents
<1>2. ASSUME NEW a \in Tops, NEW o, NEW accept, Start(p, a, o, accept)
      PROVE  LifeInv'
  <2>1. Idle(p) /\ UNCHANGED <<rowVars, worldVars, runVars, starts>> /\ (Refuse \/ Begin(p, a, o))
    BY <1>2 DEF Start
  <2> QED
    BY <1>1, <2>1, Refused, Begins
<1>3. CASE StartByHand(p)
  BY <1>2, <1>3 DEF StartByHand
<1>4. CASE StartByApi(p)
  <2>1. CASE CoordinatorActive
    BY <1>4, <2>1, Refused DEF StartByApi
  <2>2. CASE ~CoordinatorActive
    BY <1>1, <1>2, <1>4, <2>2 DEF StartByApi
  <2> QED
    BY <2>1, <2>2
<1>5. CASE CompleteRun(p)
  BY <1>1, <1>5, Issued DEF CompleteRun
<1>6. ASSUME NEW a \in Agents, Stop(p, a) \/ StopSide(p, a)
      PROVE  LifeInv'
  <2>1. /\ Idle(p) /\ UNCHANGED <<rowVars, worldVars, runVars, starts>>
        /\ Refuse \/ (row[a] \in Active /\ Issue(p, a, NoOpt, "kill"))
    BY <1>6 DEF Stop, StopSide
  <2> QED
    BY <2>1, Refused, Issued DEF NoOpt
<1>7. ASSUME NEW a \in Agents, NEW alive, Probed(p, a, alive)
      PROVE  LifeInv'
  <2>1. /\ Idle(p) /\ UNCHANGED <<rowVars, worldVars, runVars, starts>>
        /\ Refuse \/ Issue(p, a, NoOpt, "mark")
    BY <1>7 DEF Probed
  <2> QED
    BY <2>1, Refused, Issued DEF NoOpt
<1>8. ASSUME NEW a \in Agents, StartSide(p, a)
      PROVE  LifeInv'
  BY <1>8, Begins DEF StartSide, NoOpt
<1>9. CASE StopByApi(p)
  BY <1>1, <1>6, <1>9 DEF StopByApi
<1>10. CASE \E a \in Tops : Stop(p, a) \/ Probe(p, a)
  BY <1>1, <1>6, <1>7, <1>10 DEF Probe
<1>11. CASE \E a \in Agents \ Tops : StartSide(p, a) \/ StopSide(p, a) \/ ProbeSide(p, a)
  BY <1>6, <1>7, <1>8, <1>11 DEF ProbeSide
<1> QED
  BY <1>3, <1>4, <1>5, <1>9, <1>10, <1>11 DEF Command

-----------------------------------------------------------------------------
(* The steps of a command that find, end and complete *)

\* A row completed by name once its process is out of its session.
LEMMA CompletesDown ==
  ASSUME LifeInv, NEW a \in Agents, SetState(a, "completed"), gen' = gen,
         disturbed => disturbed', ~disturbed' => Down(a)'
  PROVE  RowsCalm /\ Grounded
<1>1. "completed" \in Terminal
  BY DEF Terminal
<1>2. /\ RowsCalm
      /\ \A b \in Agents : row'[b] = "completed" => row[b] = "completed" \/ b = a
  BY <1>1, SetStateRows DEF LifeInv
<1> QED
  BY <1>2 DEF Grounded, Agents

LEMMA MarksZombie ==
  ASSUME LifeInv, NEW a \in Agents, SetState(a, "zombie"), gen' = gen
  PROVE  RowsCalm /\ Grounded
<1>1. "zombie" \in Terminal
  BY DEF Terminal
<1>2. RowsCalm /\ \A b \in Agents : row'[b] = "completed" => row[b] = "completed"
  BY <1>1, SetStateRows DEF LifeInv
<1> QED
  BY <1>2 DEF Grounded, Agents

LEMMA Checks ==
  ASSUME LifeInv, NEW p \in Procs, Check(p)
  PROVE  LifeInv'
<1> DEFINE a == who[p]
<1>1. /\ a \in Agents /\ pc[p] = "check" /\ disturbed' = disturbed
      /\ UNCHANGED <<runVars, starts>>
  BY DEF LifeInv, Core, ProcShapes, Check, countVars
<1>2. ASSUME UNCHANGED procVars, Goto(p, "launch")
      PROVE  ProcsCalm /\ Alone' /\ UnlinkersStay
  BY <1>1, <1>2, Goes DEF Opening
<1>3. ASSUME End(p) PROVE ProcsCalm /\ Alone' /\ UnlinkersStay
  BY <1>1, <1>3, Ends
<1>4. CASE End(p) /\ UNCHANGED <<rowVars, worldVars>>
  BY <1>1, <1>3, <1>4, SameRows, SameWorld, CalmStep DEF LifeInv
<1>5. CASE /\ Goto(p, "launch") /\ Killed(a) /\ SetState(a, "completed")
           /\ UNCHANGED <<gen, procVars>>
  <2>1. WorldCalm /\ Down(a)'
    <3>1. WorldCalm /\ pane'[a] = 0
      BY <1>1, <1>5, KilledWorld DEF LifeInv
    <3>2. a' = a /\ gen' = gen
      BY <1>5 DEF procVars
    <3> QED
      BY <3>1, <3>2 DEF Down
  <2>2. gen'[a] = 0 \/ gen'[a] # pane'[a]
    BY <1>5, <2>1 DEF Down, procVars
  <2>3. RowsCalm /\ Grounded
    <3> HIDE DEF a
    <3> QED
      BY <1>1, <1>5, <2>2, CompletesDown DEF Down
  <2> QED
    BY <1>1, <1>2, <1>5, <2>1, <2>3, CalmStep
<1>6. CASE /\ ~SessionSeen(p) /\ Goto(p, "launch") /\ SetState(a, "completed")
           /\ UNCHANGED <<gen, worldVars, procVars>>
  <2>1. pane[a] = 0
    BY <1>1, <1>6 DEF SessionSeen, IsTmux
  <2>2. gen'[a] = 0 \/ gen'[a] # pane'[a]
    BY <1>6, <2>1 DEF worldVars
  <2>3. RowsCalm /\ Grounded
    <3> HIDE DEF a
    <3> QED
      BY <1>1, <1>6, <2>2, CompletesDown DEF Down
  <2> QED
    BY <1>1, <1>2, <1>6, <2>3, SameWorld, CalmStep DEF LifeInv
<1> QED
  BY <1>4, <1>5, <1>6 DEF Check

LEMMA ChecksSide ==
  ASSUME LifeInv, NEW p \in Procs, CheckSide(p)
  PROVE  LifeInv'
<1> DEFINE a == who[p]
<1>1. /\ a \in Agents /\ pc[p] = "check" /\ disturbed' = disturbed /\ a \notin Tops
      /\ UNCHANGED <<runVars, worldVars, starts>>
  BY DEF LifeInv, Core, ProcShapes, CheckSide, countVars, Quiet
<1>2. CASE End(p) /\ UNCHANGED rowVars
  <2>1. ProcsCalm /\ Alone' /\ UnlinkersStay
    BY <1>1, <1>2, Ends
  <2> QED
    BY <1>1, <1>2, <2>1, SameRows, SameWorld, CalmStep DEF LifeInv
<1>3. CASE /\ ~(seen[p].tmux /\ IsTmux(a)) /\ Goto(p, "launch") /\ SetState(a, "completed")
           /\ UNCHANGED <<gen, procVars>>
  <2>1. ProcsCalm /\ Alone' /\ UnlinkersStay
    BY <1>1, <1>3, Goes DEF Opening
  <2>2. pane[a] = 0
    BY <1>1, <1>3 DEF LifeInv, Core, Sided, IsTmux
  <2>3. gen'[a] = 0 \/ gen'[a] # pane'[a]
    BY <1>1, <1>3, <2>2 DEF worldVars
  <2>4. RowsCalm /\ Grounded
    <3> HIDE DEF a
    <3> QED
      BY <1>1, <1>3, <2>3, CompletesDown DEF Down
  <2> QED
    BY <1>1, <1>3, <2>1, <2>4, SameWorld, CalmStep DEF LifeInv
<1> QED
  BY <1>2, <1>3 DEF CheckSide

\* A terminal that is waited for, a prompt, a failed start.
LEMMA Waits ==
  ASSUME LifeInv, NEW p \in Procs, AwaitReady(p) \/ Prompt(p) \/ FailStart(p)
  PROVE  LifeInv'
<1> DEFINE a == who[p]
<1>1. /\ a \in Agents /\ pc[p] \in {"ready", "prompt", "failed"} /\ disturbed' = disturbed
      /\ UNCHANGED <<runVars, starts>>
  BY DEF LifeInv, Core, ProcShapes, AwaitReady, Prompt, FailStart, countVars, Quiet
<1>2. ASSUME End(p) PROVE ProcsCalm /\ Alone' /\ UnlinkersStay
  BY <1>1, <1>2, Ends
<1>3. CASE /\ Goto(p, "prompt") \/ Goto(p, "services")
           /\ UNCHANGED <<procVars, rowVars, worldVars>>
  <2>1. ProcsCalm /\ Alone' /\ UnlinkersStay
    BY <1>1, <1>3, Goes DEF Opening
  <2> QED
    BY <1>1, <1>3, <2>1, SameRows, SameWorld, CalmStep DEF LifeInv
<1>4. CASE Killed(a) /\ Goto(p, "failed") /\ UNCHANGED <<rowVars, procVars>>
  <2>1. WorldCalm /\ pane'[a] = 0
    BY <1>1, <1>4, KilledWorld DEF LifeInv
  <2>2. Down(who[p])'
    BY <1>4, <2>1 DEF Down, procVars
  <2>3. ProcsCalm /\ Alone' /\ UnlinkersStay
    BY <1>1, <1>4, <2>2, Goes DEF Opening
  <2> QED
    BY <1>1, <1>4, <2>1, <2>3, SameRows, CalmStep DEF LifeInv
<1>5. CASE /\ "dead" \in Readiness(a) \/ pc[p] = "failed"
           /\ SetState(a, "completed") /\ End(p) /\ UNCHANGED <<gen, worldVars>>
  <2>1. ~disturbed' => Down(a)
    BY <1>1, <1>5 DEF Readiness, IsTmux, Down, LifeInv, Core, Stands
  <2>2. ~disturbed' => gen'[a] = 0 \/ gen'[a] # pane'[a]
    BY <1>5, <2>1 DEF Down, worldVars
  <2>3. RowsCalm /\ Grounded
    <3> HIDE DEF a
    <3> QED
      BY <1>1, <1>5, <2>2, CompletesDown DEF Down
  <2> QED
    BY <1>1, <1>2, <1>5, <2>3, SameWorld, CalmStep DEF LifeInv
<1>6. CASE End(p) /\ UNCHANGED <<rowVars, worldVars>>
  BY <1>1, <1>2, <1>6, SameRows, SameWorld, CalmStep DEF LifeInv
<1> QED
  <2>1. CASE AwaitReady(p)
    BY <2>1, <1>3, <1>4, <1>5 DEF AwaitReady
  <2>2. CASE Prompt(p)
    BY <2>2, <1>3, <1>6 DEF Prompt
  <2>3. CASE FailStart(p)
    BY <2>3, <1>5 DEF FailStart
  <2> QED
    BY <2>1, <2>2, <2>3

\* The stop of an agent, up to its row.
LEMMA Stops ==
  ASSUME LifeInv, NEW p \in Procs, StopKill(p) \/ StopSideKill(p) \/ StopRecord(p)
  PROVE  LifeInv'
<1> DEFINE a == who[p]
<1>1. /\ a \in Agents /\ pc[p] \in {"kill", "record"} /\ disturbed' = disturbed
      /\ UNCHANGED <<runVars, starts>>
  BY DEF LifeInv, Core, ProcShapes, StopKill, StopSideKill, StopRecord, countVars, Quiet
<1>2. CASE StopKill(p) \/ StopSideKill(p)
  <2>1. /\ UNCHANGED <<rowVars, procVars>> /\ pc[p] = "kill"
        /\ Goto(p, "stopwd") \/ Goto(p, "record")
    BY <1>2 DEF StopKill, StopSideKill
  <2>2. CASE seen[p].tmux
    <3>1. Killed(a)
      BY <1>2, <2>2 DEF StopKill, StopSideKill
    <3>2. WorldCalm /\ pane'[a] = 0
      BY <1>1, <3>1, KilledWorld DEF LifeInv
    <3>3. Down(who[p])'
      BY <2>1, <3>2 DEF Down, procVars
    <3>4. ProcsCalm /\ Alone' /\ UnlinkersStay
      BY <1>1, <2>1, <3>3, Goes DEF Opening
    <3> QED
      BY <1>1, <2>1, <3>2, <3>4, SameRows, CalmStep DEF LifeInv
  <2>3. CASE ~seen[p].tmux
    <3>1. WorldCalm
      BY <1>1, <1>2, <2>3
         DEF LifeInv, Core, Shapes, StopKill, StopSideKill, WorldCalm, worldVars
    <3>2. ~disturbed => Down(a)
      BY <2>1, <2>3 DEF LifeInv, Core, Stands
    <3>3. ~disturbed => Down(who[p])'
      BY <1>1, <2>1, <3>1, <3>2 DEF Down, WorldCalm, rowVars, procVars
    <3>4. ProcsCalm /\ Alone' /\ UnlinkersStay
      BY <1>1, <2>1, <3>3, Goes DEF Opening
    <3> QED
      BY <1>1, <2>1, <3>1, <3>4, SameRows, CalmStep DEF LifeInv
  <2> QED
    BY <2>2, <2>3
<1>3. CASE StopRecord(p)
  <2>1. SetState(a, "completed") /\ UNCHANGED <<gen, worldVars>> /\ pc[p] = "record"
    BY <1>3 DEF StopRecord
  <2>2. (Goto(p, "finish") /\ UNCHANGED procVars) \/ End(p)
    BY <1>3 DEF StopRecord
  <2>3. ~disturbed' => Down(a)
    BY <1>1, <2>1 DEF LifeInv, Core, Stands
  <2>4. ~disturbed' => gen'[a] = 0 \/ gen'[a] # pane'[a]
    BY <2>1, <2>3 DEF Down, worldVars
  <2>5. RowsCalm /\ Grounded
    <3> HIDE DEF a
    <3> QED
      BY <1>1, <2>1, <2>4, CompletesDown DEF Down
  <2>6. ProcsCalm /\ Alone' /\ UnlinkersStay
    BY <1>1, <2>1, <2>2, Goes, Ends DEF Opening
  <2> QED
    BY <1>1, <2>1, <2>5, <2>6, SameWorld, CalmStep DEF LifeInv
<1> QED
  BY <1>2, <1>3

\* The monitor goes with the coordinator, its process first.
LEMMA StopsServices ==
  ASSUME LifeInv, NEW p \in Procs, StopServices(p)
  PROVE  LifeInv'
<1> DEFINE m == {a \in Monitors : row[a] \in Active}
<1>1. /\ row' = [a \in Agents |-> IF a \in m THEN "completed" ELSE row[a]]
      /\ named' = [a \in Agents |-> named[a] /\ a \notin m]
      /\ pane' = [a \in Agents |-> IF a \in m THEN 0 ELSE pane[a]]
      /\ living' = living \ {pane[a] : a \in m}
  BY DEF StopServices
<1>2. /\ UNCHANGED <<gen, runVars, procVars, starts, disturbed>> /\ Goto(p, "record")
      /\ pc[p] = "stopwd"
  BY DEF StopServices, Quiet, countVars
<1> HIDE DEF m
<1>3. WorldCalm
  BY <1>1, <1>2 DEF WorldCalm
<1>4. "completed" \in AgentState /\ "completed" \notin Active
  BY DEF AgentState, Active, Terminal
<1>5. RowsCalm
  <2>1. \A a \in Agents : row'[a] \in Active => a \notin m /\ row'[a] = row[a]
    BY <1>1, <1>4
  <2>2. row' \in [Agents -> AgentState \cup {"absent"}]
    BY <1>1, <1>4 DEF LifeInv, Core, Shapes
  <2>3. \A a \in Agents : a \notin m => named'[a] = named[a]
    <3>1. \A a \in Agents : named[a] \in BOOLEAN
      BY DEF LifeInv, Core, Shapes
    <3> QED
      BY <1>1, <3>1
  <2> QED
    BY <1>1, <1>2, <2>1, <2>2, <2>3 DEF RowsCalm
<1>6. Grounded
  <2>1. \A a \in Agents : a \in m => Down(a)'
    BY <1>1, <1>2 DEF Down
  <2> QED
    BY <1>1, <2>1 DEF Grounded, Agents
<1>7. ~disturbed => Down(who[p])'
  BY <1>2, <1>3 DEF LifeInv, Core, Stands, ProcShapes, Down, WorldCalm, procVars
<1>8. ProcsCalm /\ Alone' /\ UnlinkersStay
  BY <1>2, <1>7, Goes DEF Opening
<1> QED
  BY <1>2, <1>3, <1>5, <1>6, <1>8, CalmStep

-----------------------------------------------------------------------------
(* A start: its process, its run, its row *)

\* The new start has a number that nothing else has.
LEMMA BeginsProcess ==
  ASSUME LifeInv, NEW p \in Procs, NEW next \in {"run", "row"}, Begun(p, next),
         pc[p] = "launch", starts < MaxStarts, UNCHANGED <<rowVars, runVars, disturbed>>,
         pane' = [a \in Agents |-> pane'[a]],
         \A a \in Agents : pane'[a] = pane[a] \/ (pane'[a] = starts + 1 /\ ~opt[p].headless)
  PROVE  LifeInv'
<1>1. /\ pc' = [q \in Procs |-> IF q = p THEN next ELSE pc[q]]
      /\ held' = [q \in Procs |-> IF q = p THEN starts + 1 ELSE held[q]]
      /\ UNCHANGED <<who, seen, opt>> /\ starts' = starts + 1
      /\ living' = living \cup {starts + 1}
  BY DEF LifeInv, Core, ProcShapes, Begun, Goto
<1>2. /\ starts \in Nat /\ MaxStarts \in Nat /\ cur \in 0..starts /\ living \subseteq 1..starts
      /\ \A a \in Agents : gen[a] \in 0..starts /\ pane[a] \in 0..starts
      /\ \A q \in Procs : held[q] \in 0..starts
  BY LifecycleAssumption DEF LifeInv, Core, Numbered
<1>3. UNCHANGED <<row, named, gen, run, cur, disturbed>>
  BY DEF rowVars, runVars
<1>4. Shapes' /\ ProcShapes'
  BY <1>1, <1>3 DEF LifeInv, Core, Shapes, ProcShapes
<1>5. Numbered'
  <2>1. \A a \in Agents : gen'[a] \in 0..(starts + 1) /\ pane'[a] \in 0..(starts + 1)
    BY <1>2, <1>3
  <2>2. \A q \in Procs : held'[q] \in 0..(starts + 1)
    BY <1>1, <1>2
  <2>3. living' \subseteq 1..(starts + 1) /\ cur' \in 0..(starts + 1)
    BY <1>1, <1>2, <1>3
  <2> QED
    BY <1>1, <1>2, <2>1, <2>2, <2>3 DEF Numbered
<1>6. \A q \in Procs : q # p => Same(q)
  BY <1>1 DEF Same
<1>7. Holds(p)'
  BY <1>1, <1>2, <1>3 DEF LifeInv, Core, ProcShapes, Holds
<1>8. ASSUME NEW q \in Procs, q # p PROVE Holds(q)'
  BY <1>2, <1>3, <1>6, <1>8 DEF LifeInv, Core, Opened, ProcShapes, Holds, Same
<1>9. Opened'
  <2>1. \A q \in Procs : Holds(q)'
    BY <1>7, <1>8
  <2>2. \A q, r \in Procs :
          q # r /\ pc'[q] \in Opening /\ pc'[r] \in Opening => held'[q] # held'[r]
    BY <1>1, <1>2 DEF LifeInv, Core, Opened
  <2> QED
    BY <2>1, <2>2 DEF Opened
<1>10. \A a \in Agents : Down(a) => Down(a)'
  BY <1>2, <1>3 DEF Down
<1>11. RowsNamed'
  BY <1>3, <1>10 DEF LifeInv, Core, RowsNamed
<1>12. ASSUME NEW q \in Procs PROVE Sided(q)' /\ Stands(q)'
  <2>1. Sided(q)'
    BY <1>1 DEF LifeInv, Core, Sided
  <2>2. Down(who[q]) => gen'[who'[q]] = 0 \/ gen'[who'[q]] # pane'[who'[q]]
    BY <1>1, <1>2, <1>3 DEF LifeInv, Core, ProcShapes, Down
  <2>3. Stands(q)'
    BY <1>1, <1>3, <2>2 DEF LifeInv, Core, Stands, Down
  <2> QED
    BY <2>1, <2>3
<1>13. Alone'
  BY <1>1, <1>3 DEF LifeInv, Alone
<1>14. CurrentRun'
  BY <1>1, <1>3 DEF LifeInv, CurrentRun
<1>15. CompletedIsDown'
  <2>1. \A a \in Agents : gen'[a] = pane'[a] => gen[a] = pane[a]
    BY <1>2, <1>3
  <2>2. \A a \in Agents : Alive(gen[a])' => Alive(gen[a])
    BY <1>1, <1>2, <1>3 DEF Alive
  <2> QED
    BY <1>3, <2>1, <2>2 DEF LifeInv, CompletedIsDown, Agents
<1> QED
  BY <1>4, <1>5, <1>9, <1>11, <1>12, <1>13, <1>14, <1>15 DEF LifeInv, Core

LEMMA Launches ==
  ASSUME LifeInv, NEW p \in Procs, LaunchHeadless(p) \/ LaunchTmux(p)
  PROVE  LifeInv'
<1>1. /\ pc[p] = "launch" /\ starts < MaxStarts /\ disturbed' = disturbed
      /\ UNCHANGED <<rowVars, runVars>>
  BY DEF LaunchHeadless, LaunchTmux, Quiet
<1>2. CASE LaunchHeadless(p)
  BY <1>1, <1>2, BeginsProcess DEF LaunchHeadless, LifeInv, Core, Shapes
<1>3. CASE LaunchTmux(p) /\ IsTmux(who[p])
  <2>1. End(p) /\ UNCHANGED <<worldVars, starts>>
    BY <1>3 DEF LaunchTmux, NewSession
  <2>2. ProcsCalm /\ Alone' /\ UnlinkersStay
    BY <1>1, <2>1, Ends
  <2> QED
    BY <1>1, <2>1, <2>2, SameRows, SameWorld, CalmStep DEF LifeInv
<1>4. CASE LaunchTmux(p) /\ ~IsTmux(who[p])
  <2>1. Begun(p, "run") \/ Begun(p, "row")
    BY <1>4 DEF LaunchTmux, NewSession
  <2>2. /\ pane' = [a \in Agents |-> IF a = who[p] THEN starts + 1 ELSE pane[a]]
        /\ ~opt[p].headless
    BY <1>4 DEF LaunchTmux, NewSession, LifeInv, Core, Shapes
  <2> QED
    BY <1>1, <2>1, <2>2, BeginsProcess
<1> QED
  BY <1>2, <1>3, <1>4

\* The run is opened under the start's own number, then named.
LEMMA OpensRun ==
  ASSUME LifeInv, NEW p \in Procs, CreateRun(p) \/ NameRun(p)
  PROVE  LifeInv'
<1>1. /\ UNCHANGED <<rowVars, worldVars, procVars, countVars, disturbed>>
      /\ pc[p] \in {"run", "file"}
  BY DEF CreateRun, NameRun, Quiet
<1>2. /\ UNCHANGED <<row, named, gen, pane, living, who, seen, held, opt, starts, disturbed>>
  BY <1>1 DEF rowVars, worldVars, procVars, countVars
<1>3. Holds(p) /\ pc[p] \in Opening /\ held[p] \in Starts /\ held[p] # cur
  <2>1. Holds(p) /\ held[p] \in 0..starts /\ starts \in 0..MaxStarts
    BY DEF LifeInv, Core, Opened, Numbered
  <2> QED
    BY <1>1, <2>1, LifecycleAssumption DEF Holds, Opening, Starts
<1>4. /\ pc' = [q \in Procs |-> IF q = p THEN pc'[p] ELSE pc[q]]
      /\ pc'[p] = IF pc[p] = "run" THEN "file" ELSE "row"
  BY DEF CreateRun, NameRun, Goto, LifeInv, Core, ProcShapes
<1>5. CASE CreateRun(p)
  <2>1. run' = [r \in Starts |-> IF r = held[p] THEN "active" ELSE run[r]] /\ cur' = cur
        /\ pc'[p] = "file"
    BY <1>4, <1>5 DEF CreateRun, NewRun, LifeInv, Core, Shapes
  <2>2. Shapes' /\ ProcShapes' /\ Numbered' /\ RowsNamed'
    BY <1>2, <1>4, <2>1 DEF LifeInv, Core, Shapes, ProcShapes, Numbered, RowsNamed, Down
  <2>3. Holds(p)'
    BY <1>1, <1>2, <1>3, <2>1 DEF Holds
  <2>4. ASSUME NEW q \in Procs, q # p PROVE Holds(q)'
    <3>1. pc[q] = "file" => held[q] \in Starts /\ run[held[q]] = "active"
      BY LifecycleAssumption DEF LifeInv, Core, Opened, Holds, Opening, Numbered, Starts
    <3> QED
      BY <1>2, <1>4, <2>1, <2>4, <3>1 DEF LifeInv, Core, Opened, Holds
  <2>5. Opened'
    BY <1>2, <1>3, <1>4, <2>3, <2>4 DEF LifeInv, Core, Opened
  <2>6. \A q \in Procs : Sided(q)' /\ Stands(q)'
    BY <1>2, <1>4, <2>1 DEF LifeInv, Core, Sided, Stands, Down
  <2>7. Alone'
    BY <1>1, <1>2, <1>4 DEF LifeInv, Alone
  <2>8. CurrentRun'
    <3>1. cur # 0 => cur \in Starts /\ run'[cur] = run[cur]
      BY <1>3, <2>1, LifecycleAssumption DEF LifeInv, Core, Numbered, Starts
    <3> QED
      BY <1>1, <1>2, <1>4, <2>1, <3>1 DEF LifeInv, CurrentRun
  <2>9. CompletedIsDown'
    <3>1. \A a \in Agents : gen[a] # 0 => gen[a] \in Starts /\ run'[gen[a]] = run[gen[a]]
      BY <1>3, <2>1, LifecycleAssumption DEF LifeInv, Core, Numbered, Holds, Starts
    <3> QED
      BY <1>2, <3>1 DEF LifeInv, CompletedIsDown, Alive, Agents
  <2> QED
    BY <2>2, <2>5, <2>6, <2>7, <2>8, <2>9 DEF LifeInv, Core
<1>6. CASE NameRun(p)
  <2>1. run' = run /\ cur' = held[p] /\ pc[p] = "file" /\ pc'[p] = "row"
    BY <1>4, <1>6 DEF NameRun
  <2>2. Shapes' /\ ProcShapes' /\ Numbered' /\ RowsNamed'
    BY <1>2, <1>4, <2>1 DEF LifeInv, Core, Shapes, ProcShapes, Numbered, RowsNamed, Down
  <2>3. Holds(p)'
    BY <1>2, <1>3, <2>1 DEF Holds
  <2>4. ASSUME NEW q \in Procs, q # p PROVE Holds(q)'
    BY <1>2, <1>3, <1>4, <2>1, <2>4 DEF LifeInv, Core, Opened, Holds, Opening
  <2>5. Opened'
    BY <1>2, <1>3, <1>4, <2>3, <2>4 DEF LifeInv, Core, Opened
  <2>6. \A q \in Procs : Sided(q)' /\ Stands(q)'
    BY <1>2, <1>4, <2>1 DEF LifeInv, Core, Sided, Stands, Down
  <2>7. Alone'
    BY <1>1, <1>2, <1>4 DEF LifeInv, Alone
  <2>8. CurrentRun'
    BY <1>3, <2>1 DEF Holds, CurrentRun
  <2>9. CompletedIsDown'
    BY <1>2, <2>1 DEF LifeInv, CompletedIsDown, Alive
  <2> QED
    BY <2>2, <2>5, <2>6, <2>7, <2>8, <2>9 DEF LifeInv, Core
<1> QED
  BY <1>5, <1>6

\* The start goes into its row, and is nobody's any more.
LEMMA RowOfStart ==
  ASSUME LifeInv, NEW p \in Procs, pc[p] = "row", NewRow(p),
         UNCHANGED <<worldVars, runVars, starts, disturbed>>,
         \/ Goto(p, "services") /\ UNCHANGED procVars
         \/ Goto(p, "ready") /\ UNCHANGED procVars
         \/ End(p)
  PROVE  LifeInv'
<1> DEFINE a == who[p]
           n == held[p]
<1>1. a \in Agents /\ n # 0 /\ n \in 0..starts /\ \A b \in Agents : gen[b] # n
  BY DEF LifeInv, Core, ProcShapes, Numbered, Opened, Holds, Opening
<1>2. /\ row' = [b \in Agents |-> IF b = a THEN "booting" ELSE row[b]]
      /\ named' = [b \in Agents |-> IF b = a THEN ~opt[p].headless ELSE named[b]]
      /\ gen' = [b \in Agents |-> IF b = a THEN n ELSE gen[b]]
  BY DEF LifeInv, Core, Shapes, NewRow
<1>3. UNCHANGED <<pane, living, run, cur, starts, disturbed>>
  BY DEF worldVars, runVars
<1>4. opt[p].headless => a \in Tops /\ pane[a] # n
  BY DEF LifeInv, Core, Opened, Holds, Sided, Opening
<1> HIDE DEF a, n
<1>5. Shapes' /\ RowsNamed'
  <2>1. "booting" \in AgentState /\ "booting" # "completed"
    BY DEF AgentState
  <2>2. Shapes'
    BY <1>2, <1>3, <2>1 DEF LifeInv, Core, Shapes
  <2>3. RowsNamed'
    BY <1>1, <1>2, <1>3, <1>4 DEF LifeInv, Core, RowsNamed, Down
  <2> QED
    BY <2>2, <2>3
<1>6. /\ ProcShapes' /\ \A q \in Procs : q # p => Same(q)
      /\ pc'[p] \notin Opening \cup {"check", "kill", "stopwd", "record", "failed", "unlink"}
      /\ held'[p] \in {0, held[p]} /\ Sided(p)' /\ pc[p] # "unlink"
  <2>1. CASE End(p)
    <3>1. /\ pc' = [q \in Procs |-> IF q = p THEN "idle" ELSE pc[q]]
          /\ who' = [q \in Procs |-> IF q = p THEN Coordinator ELSE who[q]]
          /\ held' = [q \in Procs |-> IF q = p THEN 0 ELSE held[q]]
          /\ seen' = [q \in Procs |-> IF q = p THEN NobodySeen ELSE seen[q]]
          /\ opt' = [q \in Procs |-> IF q = p THEN NoOpt ELSE opt[q]]
      BY <2>1 DEF LifeInv, Core, ProcShapes, End, Goto
    <3>2. Coordinator \in Tops /\ Coordinator \in Agents
      BY LifecycleAssumption DEF Agents
    <3> QED
      BY <3>1, <3>2 DEF LifeInv, Core, ProcShapes, Same, Opening, Sided
  <2>2. CASE (Goto(p, "services") \/ Goto(p, "ready")) /\ UNCHANGED procVars
    <3>1. \/ pc' = [q \in Procs |-> IF q = p THEN "services" ELSE pc[q]]
          \/ pc' = [q \in Procs |-> IF q = p THEN "ready" ELSE pc[q]]
      BY <2>2 DEF LifeInv, Core, ProcShapes, Goto
    <3> QED
      BY <2>2, <3>1 DEF LifeInv, Core, ProcShapes, Same, Opening, Sided, procVars
  <2> QED
    BY <2>1, <2>2
<1>7. Numbered'
  BY <1>1, <1>2, <1>3, <1>6 DEF LifeInv, Core, Numbered, Same
<1>8. Opened'
  <2>1. ASSUME NEW q \in Procs, pc'[q] \in Opening
        PROVE  q # p /\ Same(q) /\ pc[q] \in Opening /\ held[q] # n /\ Holds(q)
    BY <1>6, <2>1 DEF Same, LifeInv, Core, Opened, n, Opening
  <2>2. ASSUME NEW q \in Procs, pc'[q] \in Opening PROVE Holds(q)'
    <3>1. q # p /\ Same(q) /\ pc[q] \in Opening /\ held[q] # n /\ Holds(q)
      BY <2>1, <2>2
    <3> QED
      BY <1>2, <1>3, <3>1 DEF Holds, Same
  <2>3. \A q \in Procs : Holds(q)'
    BY <2>2 DEF Holds
  <2>4. \A q, r \in Procs :
          q # r /\ pc'[q] \in Opening /\ pc'[r] \in Opening => held'[q] # held'[r]
    BY <2>1 DEF Same, LifeInv, Core, Opened
  <2> QED
    BY <2>3, <2>4 DEF Opened
<1>9. ASSUME NEW q \in Procs PROVE Sided(q)' /\ Stands(q)'
  <2>1. CASE q = p
    BY <1>6, <2>1 DEF Stands
  <2>2. CASE q # p
    <3>1. Same(q) /\ Sided(q)
      BY <1>6, <2>2 DEF LifeInv, Core
    <3>2. ~disturbed => pc[q] = "idle"
      BY <2>2 DEF LifeInv, Alone
    <3> QED
      BY <1>3, <3>1, <3>2 DEF Same, Sided, Stands
  <2> QED
    BY <2>1, <2>2
<1>10. Alone'
  BY <1>3, <1>6 DEF LifeInv, Alone, Same
<1>11. CurrentRun'
  BY <1>3, <1>6 DEF LifeInv, CurrentRun, Same
<1>12. CompletedIsDown'
  BY <1>2, <1>3 DEF LifeInv, CompletedIsDown, Alive, Agents
<1> QED
  BY <1>5, <1>6, <1>7, <1>8, <1>9, <1>10, <1>11, <1>12 DEF LifeInv, Core

LEMMA Inserts ==
  ASSUME LifeInv, NEW p \in Procs, InsertRow(p) \/ InsertSideRow(p)
  PROVE  LifeInv'
<1>1. /\ pc[p] = "row" /\ UNCHANGED <<worldVars, runVars, starts, disturbed>>
  BY DEF InsertRow, InsertSideRow, countVars, Quiet
<1>2. CASE InsertRow(p)
  BY <1>1, <1>2, RowOfStart DEF InsertRow
<1>3. CASE InsertSideRow(p) /\ NewRow(p)
  BY <1>1, <1>3, RowOfStart DEF InsertSideRow
<1>4. CASE InsertSideRow(p) /\ UNCHANGED rowVars
  <2>1. ProcsCalm /\ Alone' /\ UnlinkersStay
    BY <1>1, <1>4, Ends DEF InsertSideRow
  <2> QED
    BY <1>1, <1>4, <2>1, SameRows, SameWorld, CalmStep DEF LifeInv
<1> QED
  BY <1>2, <1>3, <1>4 DEF InsertSideRow

-----------------------------------------------------------------------------
(* The ends of runs, and the other steps *)

\* The run of current-run.txt is completed, and then the file removed.
LEMMA RunEnds ==
  ASSUME LifeInv, NEW p \in Procs, FinishRun(p) \/ Unlink(p)
  PROVE  LifeInv'
<1>1. UNCHANGED <<rowVars, worldVars, starts, disturbed>> /\ pc[p] \in {"finish", "unlink"}
  BY DEF FinishRun, Unlink, countVars, Quiet
<1>2. RowsCalm /\ Grounded /\ WorldCalm
  BY <1>1, SameRows, SameWorld DEF LifeInv
<1>3. CASE FinishRun(p) /\ cur = 0
  <2>1. End(p) /\ UNCHANGED runVars /\ pc[p] = "finish"
    BY <1>3 DEF FinishRun, runVars
  <2>2. ProcsCalm /\ Alone' /\ UnlinkersStay
    BY <1>1, <2>1, Ends
  <2> QED
    BY <1>2, <2>1, <2>2, CalmStep
<1>4. CASE FinishRun(p) /\ cur # 0
  <2>1. /\ Goto(p, "unlink") /\ UNCHANGED <<procVars, cur>> /\ pc[p] = "finish"
        /\ run' = [r \in Starts |-> IF r = cur THEN "completed" ELSE run[r]]
    BY <1>4 DEF FinishRun, RunOver, LifeInv, Core, Shapes
  <2>2. ProcsCalm /\ Alone'
    BY <1>1, <2>1, Goes DEF Opening
  <2>3. Core'
    BY <1>2, <2>1, <2>2, CoreCalm DEF LifeInv
  <2>4. cur \in Starts
    BY <1>4, LifecycleAssumption DEF LifeInv, Core, Numbered, Starts
  <2>5. pc'[p] = "unlink"
    BY <2>1 DEF Goto, LifeInv, Core, ProcShapes
  <2>6. CurrentRun'
    BY <2>1, <2>4, <2>5 DEF CurrentRun
  <2>7. CompletedIsDown'
    BY <1>2, <2>1, <2>2, CompletedStays DEF LifeInv, ProcsCalm
  <2> QED
    BY <2>2, <2>3, <2>6, <2>7 DEF LifeInv
<1>5. CASE Unlink(p)
  <2>1. End(p) /\ cur' = 0 /\ run' = run
    BY <1>5 DEF Unlink
  <2>2. ProcsCalm /\ Alone'
    BY <1>1, <2>1, Ends
  <2>3. Core'
    BY <1>2, <2>1, <2>2, CoreCalm DEF LifeInv, Core, Shapes
  <2>4. CurrentRun'
    BY <2>1 DEF CurrentRun
  <2>5. CompletedIsDown'
    BY <1>2, <2>1, <2>2, CompletedStays DEF LifeInv, ProcsCalm
  <2> QED
    BY <2>2, <2>3, <2>4, <2>5 DEF LifeInv
<1> QED
  BY <1>3, <1>4, <1>5

LEMMA OtherSteps ==
  ASSUME LifeInv, NEW p \in Procs, StartServices(p) \/ MarkZombie(p) \/ Crash(p)
  PROVE  LifeInv'
<1>1. End(p) /\ UNCHANGED <<worldVars, runVars, starts>> /\ (disturbed => disturbed')
  BY DEF StartServices, MarkZombie, Crash, countVars, Quiet
<1>2. ProcsCalm /\ Alone' /\ WorldCalm
  BY <1>1, Ends, SameWorld DEF LifeInv
<1>3. RowsCalm /\ Grounded
  <2>1. UNCHANGED rowVars \/ (SetState(who[p], "zombie") /\ UNCHANGED gen)
    BY DEF StartServices, MarkZombie, Crash
  <2>2. who[p] \in Agents
    BY DEF LifeInv, Core, ProcShapes
  <2> QED
    BY <2>1, <2>2, SameRows, MarksZombie DEF LifeInv
<1>4. CASE pc[p] # "unlink"
  BY <1>1, <1>2, <1>3, <1>4, Ends, CalmStep
<1>5. CASE pc[p] = "unlink"
  <2>1. disturbed'
    BY <1>5 DEF StartServices, MarkZombie, Crash
  <2>2. Core'
    BY <1>1, <1>2, <1>3, CoreCalm DEF LifeInv, Core, Shapes, runVars
  <2>3. CurrentRun' /\ CompletedIsDown'
    BY <1>1, <2>1 DEF LifeInv, CurrentRun, CompletedIsDown, runVars
  <2> QED
    BY <1>2, <2>2, <2>3 DEF LifeInv
<1> QED
  BY <1>4, <1>5

-----------------------------------------------------------------------------
(* The agents and the watchdog *)

LEMMA Tries ==
  ASSUME NEW from \in Active
  PROVE  AfterTry(from, "zombie") = "zombie" /\ AfterTry(from, "working") \in Active
BY DEF AfterTry, CanMove, AllowedFrom, AgentState, Active, Terminal

LEMMA AgentSteps ==
  ASSUME LifeInv, NEW a \in Agents, Work(a) \/ SessionEnd(a) \/ WatchdogTick(a)
  PROVE  LifeInv'
<1>1. UNCHANGED <<gen, runVars, pc, procVars, starts, disturbed>>
  BY DEF Work, SessionEnd, WatchdogTick, countVars, Quiet
<1>2. ProcsCalm /\ Alone' /\ UnlinkersStay
  BY <1>1, SameProcs
<1>3. CASE Work(a)
  <2>1. /\ row' = [b \in Agents |-> IF b = a THEN AfterTry(row[a], "working") ELSE row[b]]
        /\ row[a] = "booting" /\ UNCHANGED <<named, worldVars>>
    BY <1>3 DEF Work, LifeInv, Core, Shapes
  <2>2. "booting" \in Active /\ Active \subseteq AgentState /\ "completed" \notin Active
    BY DEF Active, AgentState, Terminal
  <2>3. AfterTry(row[a], "working") \in Active
    BY <2>1, <2>2, Tries
  <2>4. RowsCalm /\ Grounded
    BY <1>1, <2>1, <2>2, <2>3 DEF LifeInv, Core, Shapes, RowsCalm, Grounded, Agents
  <2> QED
    BY <1>1, <1>2, <2>1, <2>4, SameWorld, CalmStep DEF LifeInv
<1>4. CASE SessionEnd(a)
  <2>1. SetState(a, "completed") /\ UNCHANGED worldVars /\ HookCompletes(a)
    BY <1>4 DEF SessionEnd
  <2>2. "completed" \in Terminal
    BY DEF Terminal
  <2>3. /\ RowsCalm
        /\ \A b \in Agents : row'[b] = "completed" => row[b] = "completed" \/ b = a
    BY <1>1, <2>1, <2>2, SetStateRows DEF LifeInv
  <2>4. a \in Tops \cup Monitors => run[gen[a]] = "completed"
    BY <2>1, LifecycleAssumption DEF HookCompletes
  <2>5. Grounded
    BY <2>3, <2>4 DEF Grounded, Agents
  <2> QED
    BY <1>1, <1>2, <2>1, <2>3, <2>5, SameWorld, CalmStep DEF LifeInv
<1>5. CASE WatchdogTick(a)
  <2>1. SetState(a, "zombie") /\ (Killed(a) \/ UNCHANGED worldVars)
    BY <1>5, Tries DEF WatchdogTick
  <2>2. RowsCalm /\ Grounded
    BY <1>1, <2>1, MarksZombie
  <2>3. WorldCalm
    BY <1>1, <2>1, SameWorld, KilledWorld DEF LifeInv
  <2> QED
    BY <1>1, <1>2, <2>2, <2>3, CalmStep
<1> QED
  BY <1>3, <1>4, <1>5

LEMMA Deaths ==
  ASSUME LifeInv, (\E n \in Starts : Die(n)) \/ WatchdogDies \/ UNCHANGED vars
  PROVE  LifeInv'
<1>1. UNCHANGED <<rowVars, runVars, pc, procVars, starts, disturbed>>
  BY DEF Die, WatchdogDies, vars, countVars, Quiet
<1>2. WorldCalm
  BY <1>1 DEF LifeInv, Core, Shapes, Die, WatchdogDies, vars, worldVars, WorldCalm
<1> QED
  BY <1>1, <1>2, SameRows, SameProcs, CalmStep DEF LifeInv

LEMMA LifeInit == Init => LifeInv
<1> SUFFICES ASSUME Init PROVE LifeInv
  OBVIOUS
<1>1. Coordinator \in Tops /\ Coordinator \in Agents /\ MaxStarts \in Nat
  BY LifecycleAssumption DEF Agents
<1>2. Shapes /\ ProcShapes
  BY <1>1 DEF Init, Shapes, ProcShapes
<1>3. Numbered
  BY <1>1 DEF Init, Numbered
<1>4. Opened /\ RowsNamed
  BY DEF Init, Opened, Holds, Opening, RowsNamed, Active, AgentState
<1>5. \A p \in Procs : Sided(p) /\ Stands(p)
  BY <1>1 DEF Init, Sided, Stands
<1>6. Alone /\ CurrentRun /\ CompletedIsDown
  BY DEF Init, Alone, CurrentRun, CompletedIsDown, Agents
<1> QED
  BY <1>2, <1>3, <1>4, <1>5, <1>6 DEF LifeInv, Core

LEMMA LifeStep == LifeInv /\ [Next]_vars => LifeInv'
<1> SUFFICES ASSUME LifeInv, [Next]_vars PROVE LifeInv'
  OBVIOUS
<1>1. ASSUME NEW p \in Procs, Step(p) PROVE LifeInv'
  BY <1>1, Checks, ChecksSide, Launches, OpensRun, Inserts, Waits, OtherSteps, Stops,
     StopsServices, RunEnds DEF Step
<1> QED
  BY <1>1, CommandStep, OtherSteps, AgentSteps, Deaths DEF Next

-----------------------------------------------------------------------------
(* The theorems *)

\* The invariant holds whatever commands, hooks, ticks and deaths do.
THEOREM LifeInvHolds == Spec => []LifeInv
  BY LifeInit, LifeStep, PTL DEF Spec

\* current-run.txt never names a run that does not exist, and one that is over only
\* on the way to its removal, or after a command was killed or ran beside another.
THEOREM CurrentRunIsReal == Spec => []CurrentRun
<1>1. LifeInv => CurrentRun
  BY DEF LifeInv
<1> QED
  BY <1>1, LifeInvHolds, PTL

\* While commands neither overlap nor die, a coordinator's or monitor's completed row
\* never hides a process at work in the agent's own session.
THEOREM NoneCompletedAtWork == Spec => []CompletedIsDown
<1>1. LifeInv => CompletedIsDown
  BY DEF LifeInv
<1> QED
  BY <1>1, LifeInvHolds, PTL

\* Who may complete the row of an agent that opens runs.
LEMMA Completers ==
  ASSUME LifeInv, Next, NEW a \in Tops, row[a] \in Active, row'[a] = "completed",
         run[gen[a]] = "active"
  PROVE  \E p \in Procs : who[p] = a /\ pc[p] # "idle"
<1>0. a \in Agents /\ a \notin Monitors /\ a \notin Supervisors /\ row[a] # row'[a]
      /\ row \in [Agents -> AgentState \cup {"absent"}]
  BY LifecycleAssumption DEF Agents, LifeInv, Core, Shapes, Active, AgentState, Terminal
<1>1. ASSUME NEW b, NEW s, SetState(b, s) PROVE row'[a] = row[a] \/ (b = a /\ row'[a] = s)
  BY <1>0, <1>1 DEF SetState
<1>2. ASSUME NEW p \in Procs, Command(p) PROVE FALSE
  BY <1>0, <1>2 DEF Command, StartByHand, StartByApi, Start, StartSide, Stop, StopSide,
     StopByApi, Probe, ProbeSide, Probed, CompleteRun, rowVars
<1>3. ASSUME NEW p \in Procs, Step(p) PROVE who[p] = a /\ pc[p] # "idle"
  <2>1. CASE Check(p) \/ CheckSide(p) \/ AwaitReady(p) \/ FailStart(p) \/ StopRecord(p)
             \/ MarkZombie(p)
    BY <1>0, <1>1, <2>1
       DEF Check, CheckSide, AwaitReady, FailStart, StopRecord, MarkZombie, rowVars
  <2>2. CASE InsertRow(p) \/ InsertSideRow(p)
    BY <1>0, <2>2 DEF InsertRow, InsertSideRow, NewRow, rowVars
  <2>3. CASE StopServices(p)
    BY <1>0, <2>3 DEF StopServices
  <2>4. CASE LaunchHeadless(p) \/ LaunchTmux(p) \/ CreateRun(p) \/ NameRun(p) \/ Prompt(p)
             \/ StartServices(p) \/ StopKill(p) \/ StopSideKill(p) \/ FinishRun(p) \/ Unlink(p)
    BY <1>0, <2>4 DEF LaunchHeadless, LaunchTmux, CreateRun, NameRun, Prompt, StartServices,
       StopKill, StopSideKill, FinishRun, Unlink, rowVars
  <2> QED
    BY <1>3, <2>1, <2>2, <2>3, <2>4 DEF Step
<1>4. ASSUME NEW b \in Agents, Work(b) \/ SessionEnd(b) \/ WatchdogTick(b) PROVE FALSE
  <2>1. CASE Work(b)
    <3>1. "booting" \in Active /\ "completed" \notin Active
      BY DEF Active, AgentState, Terminal
    <3>2. AfterTry(row[b], "working") \in Active
      BY <2>1, <3>1, Tries DEF Work
    <3> QED
      BY <1>0, <2>1, <3>1, <3>2 DEF Work
  <2>2. CASE SessionEnd(b)
    BY <1>0, <1>1, <2>2 DEF SessionEnd, HookCompletes
  <2>3. CASE WatchdogTick(b)
    <3>1. SetState(b, "zombie")
      BY <2>3, Tries DEF WatchdogTick
    <3> QED
      BY <1>0, <1>1, <3>1
  <2> QED
    BY <1>4, <2>1, <2>2, <2>3
<1>5. ASSUME (\E n \in Starts : Die(n)) \/ WatchdogDies \/ \E p \in Procs : Crash(p)
      PROVE  FALSE
  BY <1>0, <1>5 DEF Die, WatchdogDies, Crash, rowVars
<1> QED
  BY <1>2, <1>3, <1>4, <1>5 DEF Next

\* The hook of a coordinator whose run is active leaves its row alone: what completes
\* the row is a command about this very agent.
THEOREM HookLeavesTheWorking == Spec => HookSparesTheWorking
<1>1. LifeInv /\ [Next]_vars =>
        [\A a \in Tops :
           /\ row[a] \in Active /\ row'[a] = "completed"
           /\ gen[a] # 0 /\ run[gen[a]] = "active"
           => \E p \in Procs : who[p] = a /\ pc[p] # "idle"]_vars
  BY Completers
<1> QED
  BY <1>1, LifeInvHolds, PTL DEF Spec, HookSparesTheWorking
=============================================================================
