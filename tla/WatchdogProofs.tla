---------------------------- MODULE WatchdogProofs ----------------------------
(***************************************************************************)
(* The watchdog, for any agents of any kinds and any ticks side by side,   *)
(* however the agents work, die and are slung again between the steps of a *)
(* tick, and however often the daemon dies: of every death the parent is   *)
(* told but for the mishaps that have a name, by no more ticks than        *)
(* overlapped, and time alone makes no zombie of a persistent agent.       *)
(***************************************************************************)
EXTENDS Watchdog, FiniteSetTheorems, TLAPS

Steps == Hand \cup {"idle", "next", "announce", "mark"}

\* The type invariant: an agent in hand was read and is not still ahead.
Typed ==
  /\ kind \in [Agents -> Kind] /\ tmux \in [Agents -> BOOLEAN]
  /\ row \in [Agents -> AgentState] /\ rung \in [Agents -> Nat] /\ life \in [Agents -> Nat]
  /\ reports \in [Agents -> Nat]
  /\ at \in [Ticks -> Steps] /\ hand = [t \in Ticks |-> hand[t]]
  /\ seen \in [Ticks -> [Agents -> [state : AgentState, rung : Nat, life : Nat]]]
  /\ \A t \in Ticks :
       /\ at[t] \in Hand => /\ hand[t].agent \in Agents \ Ahead(t)
                           /\ hand[t].state \in AgentState \ {"completed"}
       /\ at[t] \in {"idle", "announce", "mark"} => Ahead(t) = {}

\* The ticks that have read a as alive and are not through with it.
Holders(a) == {t \in Ticks : Holds(t, a, Active)}

\* A report is made by a tick that had read the agent alive, and only once.
Counted ==
  \A a \in Agents :
    /\ reports[a] + Cardinality(Holders(a)) =< Cardinality(Ticks)
    /\ reports[a] # 0 => row[a] \in Terminal

\* A row read as a zombie is one still, or was replaced under the tick.
Aware ==
  \A a \in Workers : \A t \in Ticks :
    Holds(t, a, {"zombie"}) => row[a] \in Terminal \/ a \in missed

\* Of a persistent agent only the death of its process or session is acted on.
Lasting ==
  \A a \in Persistent :
    /\ kind[a] = "tmux"
    /\ \A t \in Ticks :
         /\ a \in Ahead(t) => seen[t][a].life = life[a]
         /\ Holds(t, a, {"zombie"}) => row[a] \in Terminal
         /\ at[t] \in {"nudge", "turn", "triage"} => hand[t].agent # a
         /\ at[t] \in {"kill", "settle"} /\ hand[t].agent = a => row[a] \in Terminal

\* The inductive invariant.
WatchInv == Typed /\ Counted /\ Aware /\ ZombieIsReported /\ Lasting

-----------------------------------------------------------------------------
(* The compare-and-swap, and what one look at a session may say *)

\* Zombie is reached from all but completed, and left for completed only.
LEMMA Tries ==
  ASSUME NEW from \in AgentState
  PROVE  /\ \A target \in AgentState : AfterTry(from, target) \in {from, target}
         /\ AfterTry(from, "zombie") = IF from = "completed" THEN from ELSE "zombie"
         /\ CanMove(from, "zombie") <=> from # "completed"
         /\ AfterTry(from, "completed") = "completed"
         /\ from \in Terminal =>
              \A target \in AgentState : AfterTry(from, target) \in {from, "completed"}
BY DEF AfterTry, CanMove, AllowedFrom, AgentState, Active, Terminal


\* A zombie is the end of the order.
LEMMA Orders ==
  ASSUME NEW s \in AgentState
  PROVE  Order(s) \in 0..4 /\ (Order(s) = 4 <=> s = "zombie")
BY DEF Order, AgentState

\* What a check may say of a session that was looked at in state s.
Sound(s, c) ==
  /\ c \in [state : AgentState, action : Action]
  /\ c.state = "zombie" /\ s # "zombie" => c.action = "terminate"
  /\ c.action = "terminate" => c.state = "zombie"
  /\ c.action = "complete" => s # "zombie"

\* The parts of evaluateHealth, and the whole: what ends a zombie's tick as a
\* kill, and what a persistent agent in a terminal is judged by.
LEMMA TimeSound ==
  ASSUME NEW k \in Kind, NEW persistent \in BOOLEAN, NEW s \in AgentState, NEW age \in Age
  PROVE  /\ Sound(s, TimeBased(k, persistent, s, age))
         /\ persistent => TimeBased(k, persistent, s, age).action = "none"
BY DEF Sound, TimeBased, Check, AgentState, Age, Action

LEMMA GoneSound ==
  ASSUME NEW s \in AgentState, NEW age \in Age
  PROVE  Sound(s, Gone(s, age)) /\ Gone(s, age).action \in {"complete", "terminate"}
BY DEF Sound, Gone, Check, AgentState, Age, Action

LEMMA HoldSound ==
  /\ Sound("completed", Check("completed", "none"))
  /\ Sound("zombie", Check("zombie", "investigate"))
  /\ \A s \in AgentState : Sound(s, Check("zombie", "terminate"))
BY DEF Sound, Check, AgentState, Action

LEMMA Looks ==
  ASSUME NEW k \in Kind, NEW persistent \in BOOLEAN, NEW s \in AgentState,
         NEW tmuxAlive \in BOOLEAN, NEW p, NEW age \in Age
  PROVE  LET c == Evaluate(k, persistent, s, tmuxAlive, p, age)
         IN  /\ Sound(s, c)
             /\ persistent /\ k # "per_turn" => c.action # "escalate"
             /\ persistent /\ k = "tmux" /\ s # "zombie" /\ c.action = "terminate" =>
                  ~tmuxAlive \/ p = "dead"
<1> DEFINE c == Evaluate(k, persistent, s, tmuxAlive, p, age)
<1>1. CASE s = "completed"
  <2>1. c = Check("completed", "none")
    BY <1>1 DEF Evaluate
  <2> QED
    BY <1>1, <2>1, HoldSound DEF Check
<1>2. CASE s # "completed" /\ k = "per_turn"
  <2>1. c = TimeBased(k, persistent, s, age)
    BY <1>2 DEF Evaluate
  <2> QED
    BY <1>2, <2>1, TimeSound
<1>3. CASE s # "completed" /\ k = "headless"
  <2>1. \/ c = Gone(s, age)
        \/ s = "zombie" /\ c = Check("zombie", "investigate")
        \/ c = TimeBased(k, persistent, s, age)
    BY <1>3 DEF Evaluate
  <2> QED
    BY <1>3, <2>1, TimeSound, GoneSound, HoldSound DEF Check
<1>4. CASE s # "completed" /\ k = "tmux"
  <2>1. \/ ~tmuxAlive /\ c = Gone(s, age)
        \/ s = "zombie" /\ c = Check("zombie", "investigate")
        \/ p = "dead" /\ c = Check("zombie", "terminate")
        \/ c = TimeBased(k, persistent, s, age)
    BY <1>4 DEF Evaluate
  <2> QED
    BY <1>4, <2>1, TimeSound, GoneSound, HoldSound DEF Check
<1> QED
  BY <1>1, <1>2, <1>3, <1>4 DEF Kind

\* transitionState reaches zombie by a termination only, and never leaves it.
LEMMA Moves ==
  ASSUME NEW s \in AgentState, NEW c, Sound(s, c)
  PROVE  /\ Transition(s, c) \in AgentState
         /\ s = "zombie" => Transition(s, c) = "zombie"
         /\ c.action = "terminate" => Transition(s, c) = "zombie"
         /\ s # "zombie" /\ Transition(s, c) = "zombie" => c.action = "terminate"
<1>1. c.state \in AgentState /\ Order(s) \in 0..4 /\ Order(c.state) \in 0..4
      /\ (Order(s) = 4 <=> s = "zombie") /\ (Order(c.state) = 4 <=> c.state = "zombie")
  BY Orders DEF Sound
<1> QED
  BY <1>1 DEF Sound, Transition

\* What becomes of the escalation and of the tick with a stalled row.
LEMMA Climbs ==
  ASSUME Typed, NEW t \in Ticks, NEW a \in Agents, Climb(t, a)
  PROVE  \E step \in {"next", "nudge", "kill", "triage"} : Goes(t, step) /\ rung' \in [Agents -> Nat]
<1> DEFINE was == seen[t][a].rung
<1>0. was \in Nat
  BY DEF Typed
<1>1. CASE /\ IF was # 0 THEN Escalation(a, 0) ELSE UNCHANGED rung
           /\ Goes(t, "next")
  BY <1>1 DEF Typed, Escalation
<1>2. ASSUME NEW new \in IF was = 0 THEN {1} ELSE was .. MaxRung,
             IF new # was THEN Escalation(a, new) ELSE UNCHANGED rung,
             Goes(t, CASE new = 2 -> "nudge" [] new = 4 -> "kill"
                       [] (new = 3 /\ Tier1 /\ triaged[t] < MaxTriage) -> "triage"
                       [] OTHER -> "next")
      PROVE  \E step \in {"next", "nudge", "kill", "triage"} : Goes(t, step) /\ rung' \in [Agents -> Nat]
  <2>1. new \in Nat
    BY <1>0, <1>2 DEF MaxRung
  <2>2. rung' \in [Agents -> Nat]
    BY <1>2, <2>1 DEF Typed, Escalation
  <2> QED
    BY <1>2, <2>2
<1> QED
  BY <1>1, <1>2 DEF Climb

\* The look at one row, up to the first await.
LEMMA LookFacts ==
  ASSUME Typed, NEW t \in Ticks, NEW a \in Agents, Look(t, a)
  PROVE  /\ at[t] = "next" /\ a \in Ahead(t)
         /\ seen' = [seen EXCEPT ![t] = [seen[t] EXCEPT ![a] = Unseen]]
         /\ \E step \in {"next", "nudge", "kill", "triage"} :
              /\ at' = [at EXCEPT ![t] = step]
              /\ hand' = [hand EXCEPT ![t] = IF step = "next" THEN Nothing ELSE Held(t, a)]
              /\ row'[a] = "zombie" => row[a] = "zombie" \/ (step = "kill" /\ seen[t][a].state # "zombie")
              /\ a \in Persistent /\ kind[a] = "tmux" /\ seen[t][a].life = life[a] =>
                   /\ step \in {"next", "kill"}
                   /\ row'[a] = "zombie" /\ row[a] # "zombie" => ~Running(a)
                   /\ step = "kill" => row'[a] \in Terminal \/ seen[t][a].state = "zombie"
         /\ row' = [row EXCEPT ![a] = row'[a]] /\ row'[a] \in AgentState
         /\ rung' \in [Agents -> Nat]
         /\ row[a] \in Terminal => row'[a] \in {row[a], "completed"}
<1> DEFINE s == seen[t][a].state
<1>a. PICK age \in Age : \E check \in Judge(t, a, age) :
        Act(t, a, check, Moved(t, a, Transition(s, check)))
  BY DEF Look
<1>0. PICK check \in Judge(t, a, age) : Act(t, a, check, Moved(t, a, Transition(s, check)))
  BY <1>a
<1> DEFINE new == Transition(s, check)
           moved == Moved(t, a, new)
<1>1. PICK p \in Probe(t, a) :
        check = Evaluate(RowKind(a, s), a \in Persistent, s, tmux[a], p, age)
  BY <1>0 DEF Judge
<1>2. Act(t, a, check, moved)
  BY <1>0
<1>3. s \in AgentState /\ row[a] \in AgentState /\ RowKind(a, s) \in Kind
      /\ (a \in Persistent) \in BOOLEAN /\ tmux[a] \in BOOLEAN
  BY DEF Typed, RowKind, Kind
<1>4. Sound(s, check)
  BY <1>1, <1>3, Looks
<1>5. a \in Persistent /\ kind[a] = "tmux" /\ seen[t][a].life = life[a] =>
        /\ check.action # "escalate"
        /\ s # "zombie" /\ check.action = "terminate" => ~Running(a)
  <2>1. a \in Persistent /\ RowKind(a, s) # "per_turn" => check.action # "escalate"
    BY <1>1, <1>3, Looks
  <2>2. a \in Persistent /\ RowKind(a, s) = "tmux" /\ s # "zombie"
        /\ check.action = "terminate" => ~tmux[a] \/ p = "dead"
    BY <1>1, <1>3, Looks
  <2>3. seen[t][a].life = life[a] => p = pid[a]
    BY <1>1 DEF Probe
  <2> QED
    BY <2>1, <2>2, <2>3 DEF RowKind, Running
<1>6. /\ new \in AgentState /\ (s = "zombie" => new = "zombie")
      /\ (check.action = "terminate" => new = "zombie")
      /\ (s # "zombie" /\ new = "zombie" => check.action = "terminate")
  BY <1>3, <1>4, Moves
<1> HIDE DEF new
<1>7. /\ moved \in AgentState /\ (row[a] \in Terminal => moved \in {row[a], "completed"})
      /\ (s = "zombie" => moved = row[a])
      /\ (moved = "zombie" => row[a] = "zombie" \/ (new = "zombie" /\ s # "zombie"))
      /\ (new = "zombie" /\ s # "zombie" => moved \in Terminal)
  BY <1>3, <1>6, Tries DEF Moved, Terminal, AgentState
<1> HIDE DEF moved
<1>8. AfterTry(moved, "completed") = "completed"
  BY <1>7, Tries
<1>9. PICK step \in {"next", "nudge", "kill", "triage"} :
        /\ Goes(t, step) /\ rung' \in [Agents -> Nat]
        /\ row' = [row EXCEPT ![a] = row'[a]]
        /\ \/ row'[a] = moved /\ (check.action = "terminate" => step = "kill")
           \/ row'[a] = "completed" /\ step = "next"
           \/ row'[a] = row[a] /\ step = "next"
        /\ step # "next" => check.action \in {"terminate", "escalate"}
        /\ step # "next" /\ check.action = "terminate" => step = "kill"
  <2>0. row' = [row EXCEPT ![a] = moved] => row'[a] = moved /\ row' = [row EXCEPT ![a] = row'[a]]
    BY DEF Typed
  <2>1. CASE check.action = "terminate"
    BY <1>2, <1>3, <2>0, <2>1 DEF Act, Typed
  <2>2. CASE check.action = "complete"
    <3>1. Goes(t, "next") /\ rung' \in [Agents -> Nat]
      BY <1>2, <2>2 DEF Act, Typed, Escalation
    <3>2. row'[a] = "completed" /\ row' = [row EXCEPT ![a] = row'[a]]
      BY <1>2, <1>8, <2>2 DEF Act, Typed
    <3> QED
      BY <2>2, <3>1, <3>2
  <2>3. CASE check.action = "escalate"
    <3>1. row' = [row EXCEPT ![a] = moved] /\ Climb(t, a)
      BY <1>2, <2>3 DEF Act
    <3>2. PICK step \in {"next", "nudge", "kill", "triage"} : Goes(t, step) /\ rung' \in [Agents -> Nat]
      BY <3>1, Climbs
    <3> QED
      BY <2>0, <2>3, <3>1, <3>2
  <2>4. CASE check.action = "none"
    <3>1. /\ Goes(t, "next") /\ row' = [row EXCEPT ![a] = moved]
          /\ Escalation(a, 0) \/ UNCHANGED rung
      BY <1>2, <2>4 DEF Act
    <3>2. rung \in [Agents -> Nat]
      BY DEF Typed
    <3>3. rung' = [rung EXCEPT ![a] = 0] \/ rung' = rung
      BY <3>1 DEF Escalation
    <3>4. rung' \in [Agents -> Nat]
      BY <3>2, <3>3
    <3> QED
      BY <2>0, <2>4, <3>1, <3>4
  <2>5. CASE check.action = "investigate"
    BY <1>2, <1>3, <2>5 DEF Act, Typed
  <2> QED
    BY <1>2, <2>1, <2>2, <2>3, <2>4, <2>5 DEF Act
<1>10. /\ at[t] = "next" /\ a \in Ahead(t)
       /\ seen' = [seen EXCEPT ![t] = [seen[t] EXCEPT ![a] = Unseen]]
       /\ at' = [at EXCEPT ![t] = step] /\ at'[t] = step
       /\ hand' = [hand EXCEPT ![t] = IF step = "next" THEN Nothing ELSE Held(t, a)]
  BY <1>9 DEF Look, Goes, Typed
<1>11. row'[a] \in AgentState /\ (row[a] \in Terminal => row'[a] \in {row[a], "completed"})
       /\ (row'[a] = "zombie" => row[a] = "zombie" \/ (step = "kill" /\ s # "zombie"))
  BY <1>3, <1>6, <1>7, <1>9 DEF AgentState
<1>12. a \in Persistent /\ kind[a] = "tmux" /\ seen[t][a].life = life[a] =>
         /\ step \in {"next", "kill"}
         /\ row'[a] = "zombie" /\ row[a] # "zombie" => ~Running(a)
         /\ step = "kill" => row'[a] \in Terminal \/ s = "zombie"
  BY <1>5, <1>6, <1>7, <1>9 DEF Terminal
<1> QED
  BY <1>9, <1>10, <1>11, <1>12

-----------------------------------------------------------------------------
(* The steps *)

\* Any step but those that read rows, or replace one: what a tick holds it held,
\* a terminal row stays one, and a report takes its tick from the holders.
LEMMA Keeps ==
  ASSUME WatchInv, Typed', kind' = kind, life' = life,
         missed \subseteq missed', known \subseteq known',
         \A t \in Ticks : \A a \in Agents :
           /\ a \in Ahead(t)' => a \in Ahead(t) /\ seen'[t][a] = seen[t][a]
           /\ Holds(t, a, Active)' => Holds(t, a, Active)
           /\ Holds(t, a, {"zombie"})' => Holds(t, a, {"zombie"}),
         \A a \in Agents : row[a] \in Terminal => row'[a] \in Terminal,
         \A a \in Agents :
           \/ reports'[a] = reports[a]
           \/ /\ reports'[a] = reports[a] + 1 /\ row'[a] \in Terminal
              /\ \E t \in Holders(a) : t \notin Holders(a)',
         \A a \in Workers : row'[a] = "zombie" =>
           \/ a \in known' \cup missed' \/ (\E t \in Ticks : Telling(t, a)')
           \/ row[a] = "zombie" /\ \A t \in Ticks : ~Telling(t, a),
         \A a \in Persistent : \A t \in Ticks :
           /\ at'[t] \in {"nudge", "turn", "triage"} => hand'[t].agent # a
           /\ at'[t] \in {"kill", "settle"} /\ hand'[t].agent = a => row'[a] \in Terminal
  PROVE  WatchInv'
<1>1. Counted'
  <2>1. ASSUME NEW a \in Agents
        PROVE  /\ reports'[a] + Cardinality(Holders(a)') =< Cardinality(Ticks)
               /\ reports'[a] # 0 => row'[a] \in Terminal
    <3>1. /\ IsFiniteSet(Holders(a)) /\ IsFiniteSet(Holders(a)')
          /\ Holders(a)' \subseteq Holders(a)
      BY WatchdogAssumption, FS_Subset DEF Holders
    <3>2. /\ Cardinality(Holders(a)) \in Nat /\ Cardinality(Holders(a)') \in Nat
          /\ Cardinality(Holders(a)') =< Cardinality(Holders(a))
          /\ Cardinality(Ticks) \in Nat /\ reports[a] \in Nat
      BY <3>1, FS_CardinalityType, FS_Subset, WatchdogAssumption DEF WatchInv, Typed
    <3>3. reports[a] + Cardinality(Holders(a)) =< Cardinality(Ticks)
          /\ (reports[a] # 0 => row[a] \in Terminal)
      BY DEF WatchInv, Counted
    <3>4. CASE reports'[a] = reports[a]
      BY <3>2, <3>3, <3>4
    <3>5. CASE /\ reports'[a] = reports[a] + 1 /\ row'[a] \in Terminal
               /\ \E t \in Holders(a) : t \notin Holders(a)'
      <4>1. PICK t \in Holders(a) : t \notin Holders(a)'
        BY <3>5
      <4>2. Holders(a)' \subseteq Holders(a) \ {t}
        BY <3>1, <4>1
      <4>3. /\ IsFiniteSet(Holders(a) \ {t})
            /\ Cardinality(Holders(a) \ {t}) = Cardinality(Holders(a)) - 1
        BY <3>1, <4>1, FS_RemoveElement
      <4>4. Cardinality(Holders(a)') =< Cardinality(Holders(a) \ {t})
        BY <4>2, <4>3, FS_Subset
      <4> QED
        BY <3>2, <3>3, <3>5, <4>3, <4>4
    <3> QED
      BY <3>4, <3>5
  <2> QED
    BY <2>1 DEF Counted
<1>2. Aware'
  BY WatchdogAssumption DEF WatchInv, Aware, Workers
<1>3. ZombieIsReported'
  BY DEF WatchInv, ZombieIsReported, Workers
<1>4. Lasting'
  BY WatchdogAssumption DEF WatchInv, Lasting
<1> QED
  BY <1>1, <1>2, <1>3, <1>4 DEF WatchInv

\* The agents go on: no row becomes a zombie, and no terminal row is touched.
LEMMA AgentsKeep ==
  ASSUME WatchInv, UNCHANGED <<kind, life, rung, tickVars, talkVars>>,
         tmux' \in [Agents -> BOOLEAN], row' \in [Agents -> AgentState],
         \A a \in Agents : row'[a] # row[a] => row[a] \in Active /\ row'[a] # "zombie"
  PROVE  WatchInv'
<1>0. Typed /\ UNCHANGED <<at, hand, seen, known, missed, reports>>
  BY DEF WatchInv, tickVars, talkVars
<1>1. Typed'
  BY <1>0 DEF Typed, Ahead
<1>2. \A t \in Ticks : \A a \in Agents :
        /\ a \in Ahead(t)' => a \in Ahead(t) /\ seen'[t][a] = seen[t][a]
        /\ Holds(t, a, Active)' => Holds(t, a, Active)
        /\ Holds(t, a, {"zombie"})' => Holds(t, a, {"zombie"})
        /\ Telling(t, a)' <=> Telling(t, a)
  BY <1>0 DEF Ahead, Holds, Telling
<1>3. \A a \in Agents : row[a] \in Terminal => row'[a] = row[a]
  BY DEF Active, Terminal
<1>4. \A a \in Workers : row'[a] = "zombie" =>
        a \in known' \cup missed' \/ (\E t \in Ticks : Telling(t, a)')
  <2>1. \A a \in Agents : row'[a] = "zombie" => row[a] = "zombie"
    OBVIOUS
  <2> QED
    BY <1>0, <1>2, <2>1 DEF WatchInv, ZombieIsReported, Workers
<1>5. \A a \in Persistent : \A t \in Ticks :
        /\ at'[t] \in {"nudge", "turn", "triage"} => hand'[t].agent # a
        /\ at'[t] \in {"kill", "settle"} /\ hand'[t].agent = a => row'[a] \in Terminal
  BY <1>0, <1>3, WatchdogAssumption DEF WatchInv, Lasting
<1> QED
  BY <1>0, <1>1, <1>2, <1>3, <1>4, <1>5, Keeps

LEMMA EnvironmentKeeps ==
  ASSUME WatchInv, Environment
  PROVE  WatchInv'
<1>0. row \in [Agents -> AgentState] /\ tmux \in [Agents -> BOOLEAN]
  BY DEF WatchInv, Typed
<1>1. ASSUME NEW a \in Agents, Work(a)
      PROVE  WatchInv'
  <2>1. PICK s \in {"working", "in_turn", "between_turns"} :
          row' = [row EXCEPT ![a] = AfterTry(@, s)]
    BY <1>1 DEF Work
  <2>2. /\ AfterTry(row[a], s) \in AgentState
        /\ row[a] \in Active => AfterTry(row[a], s) # "zombie"
    BY <1>0, Tries DEF AgentState, Active, Terminal
  <2>3. row[a] \in Active
    BY <1>1 DEF Work, Live
  <2> QED
    BY <1>0, <1>1, <2>1, <2>2, <2>3, AgentsKeep DEF Work, agentVars
<1>2. ASSUME NEW a \in Agents, Die(a)
      PROVE  WatchInv'
  BY <1>0, <1>2, AgentsKeep DEF Die, rowVars
<1>3. ASSUME NEW a \in Agents, Finish(a)
      PROVE  WatchInv'
  <2>1. AfterTry(row[a], "completed") = "completed"
    BY <1>0, Tries
  <2> QED
    BY <1>0, <1>3, <2>1, AgentsKeep DEF Finish, Live, AgentState
<1>4. ASSUME NEW a \in Workers, Resling(a)
      PROVE  WatchInv'
  <2>1. /\ a \in Agents \ Persistent /\ row[a] \notin Active
        /\ row' = [row EXCEPT ![a] = "booting"] /\ rung' = [rung EXCEPT ![a] = 0]
        /\ reports' = [reports EXCEPT ![a] = 0] /\ life' = [life EXCEPT ![a] = life[a] + 1]
        /\ known' = known \ {a}
        /\ missed' = IF \E t \in Ticks : Holds(t, a, {"zombie"})
                       THEN missed \cup {a} ELSE missed \ {a}
        /\ tmux' = [tmux EXCEPT ![a] = kind[a] = "tmux"]
        /\ UNCHANGED <<kind, at, hand, seen>>
    BY <1>4, WatchdogAssumption DEF Resling, Begun, Workers, tickVars, Live
  <2>2. Typed'
    BY <2>1 DEF WatchInv, Typed, AgentState, Ahead
  <2>3. \A t \in Ticks : \A b \in Agents :
          /\ Holds(t, b, Active)' <=> Holds(t, b, Active)
          /\ Holds(t, b, {"zombie"})' <=> Holds(t, b, {"zombie"})
          /\ Telling(t, b)' <=> Telling(t, b)
    BY <2>1 DEF Holds, Ahead, Telling
  <2>4. Counted'
    <3>1. ASSUME NEW b \in Agents
          PROVE  /\ reports'[b] + Cardinality(Holders(b)') =< Cardinality(Ticks)
                 /\ reports'[b] # 0 => row'[b] \in Terminal
      <4>1. Holders(b)' = Holders(b) /\ Cardinality(Holders(b)) =< Cardinality(Ticks)
            /\ Cardinality(Holders(b)) \in Nat /\ Cardinality(Ticks) \in Nat
        BY <2>3, WatchdogAssumption, FS_Subset, FS_CardinalityType DEF Holders
      <4>2. b # a => reports'[b] = reports[b] /\ row'[b] = row[b]
        BY <2>1 DEF WatchInv, Typed
      <4>3. b = a => reports'[b] = 0
        BY <2>1 DEF WatchInv, Typed
      <4> QED
        BY <4>1, <4>2, <4>3 DEF WatchInv, Counted
    <3> QED
      BY <3>1 DEF Counted
  <2>5. Aware'
    <3>1. ASSUME NEW b \in Workers, NEW t \in Ticks, Holds(t, b, {"zombie"})'
          PROVE  row'[b] \in Terminal \/ b \in missed'
      <4>1. Holds(t, b, {"zombie"})
        BY <2>3, <3>1 DEF Workers
      <4>2. CASE b = a
        BY <2>1, <4>1, <4>2
      <4>3. CASE b # a
        BY <2>1, <4>1, <4>3 DEF WatchInv, Typed, Aware, Workers
      <4> QED
        BY <4>2, <4>3
    <3> QED
      BY <3>1 DEF Aware, Workers
  <2>6. ZombieIsReported'
    BY <2>1, <2>3 DEF WatchInv, Typed, ZombieIsReported, Workers
  <2>7. Lasting'
    BY <2>1, <2>3, WatchdogAssumption DEF WatchInv, Typed, Lasting, Ahead
  <2> QED
    BY <2>2, <2>4, <2>5, <2>6, <2>7 DEF WatchInv
<1> QED
  BY <1>1, <1>2, <1>3, <1>4 DEF Environment

\* The tick looks at a row.
LEMMA LookKeeps ==
  ASSUME WatchInv, NEW t \in Ticks, NEW a \in Agents, Look(t, a)
  PROVE  WatchInv'
<1>0. Typed /\ UNCHANGED <<kind, tmux, life, known, missed, reports>>
  BY DEF WatchInv, Look, agentVars, talkVars
<1>1. /\ at[t] = "next" /\ a \in Ahead(t)
      /\ seen' = [seen EXCEPT ![t] = [seen[t] EXCEPT ![a] = Unseen]]
      /\ row' = [row EXCEPT ![a] = row'[a]] /\ row'[a] \in AgentState
      /\ rung' \in [Agents -> Nat]
      /\ row[a] \in Terminal => row'[a] \in {row[a], "completed"}
  BY <1>0, LookFacts
<1>2. PICK step \in {"next", "nudge", "kill", "triage"} :
        /\ at' = [at EXCEPT ![t] = step]
        /\ hand' = [hand EXCEPT ![t] = IF step = "next" THEN Nothing ELSE Held(t, a)]
        /\ row'[a] = "zombie" => row[a] = "zombie" \/ (step = "kill" /\ seen[t][a].state # "zombie")
        /\ a \in Persistent /\ kind[a] = "tmux" /\ seen[t][a].life = life[a] =>
             /\ step \in {"next", "kill"}
             /\ step = "kill" => row'[a] \in Terminal \/ seen[t][a].state = "zombie"
  BY <1>0, LookFacts
<1>3. /\ \A u \in Ticks \ {t} : at'[u] = at[u] /\ hand'[u] = hand[u] /\ seen'[u] = seen[u]
      /\ at'[t] = step /\ seen'[t] = [seen[t] EXCEPT ![a] = Unseen]
      /\ hand'[t] = IF step = "next" THEN Nothing ELSE Held(t, a)
      /\ hand' = [u \in Ticks |-> hand'[u]]
      /\ at[t] \notin Hand
  BY <1>0, <1>1, <1>2 DEF Typed, Hand
<1>4. /\ Ahead(t)' = Ahead(t) \ {a} /\ seen'[t][a] = Unseen
      /\ \A b \in Agents \ {a} : seen'[t][b] = seen[t][b]
      /\ \A u \in Ticks \ {t} : Ahead(u)' = Ahead(u)
  BY <1>0, <1>3 DEF Typed, Ahead, Unseen
<1>5. Typed'
  <2>1. seen' \in [Ticks -> [Agents -> [state : AgentState, rung : Nat, life : Nat]]]
    BY <1>0, <1>1 DEF Typed, Unseen, AgentState
  <2>2. /\ at' \in [Ticks -> Steps] /\ row' \in [Agents -> AgentState]
        /\ step \in Steps \ {"idle", "announce", "mark"}
    BY <1>0, <1>1, <1>2 DEF Typed, Steps, Hand
  <2>3. at'[t] \in Hand => /\ hand'[t].agent \in Agents \ Ahead(t)'
                           /\ hand'[t].state \in AgentState \ {"completed"}
    <3>1. at'[t] \in Hand => hand'[t] = Held(t, a)
      BY <1>2, <1>3 DEF Hand
    <3>2. Held(t, a).agent = a /\ Held(t, a).state = seen[t][a].state
      BY DEF Held
    <3> QED
      BY <1>0, <1>1, <1>4, <3>1, <3>2 DEF Typed, Ahead
  <2>4. \A u \in Ticks \ {t} :
          /\ at'[u] \in Hand => /\ hand'[u].agent \in Agents \ Ahead(u)'
                                /\ hand'[u].state \in AgentState \ {"completed"}
          /\ at'[u] \in {"idle", "announce", "mark"} => Ahead(u)' = {}
    BY <1>0, <1>3, <1>4 DEF Typed
  <2>5. at'[t] \notin {"idle", "announce", "mark"}
    BY <1>3, <2>2
  <2> QED
    BY <1>0, <1>1, <1>3, <2>1, <2>2, <2>3, <2>4, <2>5 DEF Typed
<1>6. \A u \in Ticks : \A b \in Agents : \A S \in {Active, {"zombie"}} :
        Holds(u, b, S)' => Holds(u, b, S)
  <2>1. ASSUME NEW u \in Ticks \ {t}, NEW b \in Agents, NEW S \in {Active, {"zombie"}}
        PROVE  Holds(u, b, S)' => Holds(u, b, S)
    BY <1>3, <1>4 DEF Holds
  <2>2. ASSUME NEW b \in Agents, NEW S \in {Active, {"zombie"}}
        PROVE  Holds(t, b, S)' => Holds(t, b, S)
    BY <1>1, <1>3, <1>4 DEF Holds, Held, Hand
  <2> QED
    BY <2>1, <2>2
<1>7. \A u \in Ticks : \A b \in Agents :
        b \in Ahead(u)' => b \in Ahead(u) /\ seen'[u][b] = seen[u][b]
  BY <1>3, <1>4
<1>8. \A b \in Agents : row[b] \in Terminal => row'[b] \in Terminal
  BY <1>0, <1>1 DEF Typed, Terminal
<1>9. ASSUME NEW b \in Workers, row'[b] = "zombie"
      PROVE  b \in known' \cup missed' \/ \E u \in Ticks : Telling(u, b)'
  <2>1. CASE row[b] = "zombie"
    <3>1. \A u \in Ticks : Telling(u, b) => Telling(u, b)'
      BY <1>1, <1>3 DEF Telling
    <3> QED
      BY <1>0, <2>1, <3>1 DEF WatchInv, ZombieIsReported, Workers
  <2>2. CASE row[b] # "zombie"
    <3>1. b = a /\ step = "kill" /\ seen[t][a].state # "zombie"
      BY <1>0, <1>1, <1>2, <1>9, <2>2 DEF Typed, Workers
    <3>2. Telling(t, b)'
      BY <1>3, <3>1 DEF Telling, Held
    <3> QED
      BY <3>2
  <2> QED
    BY <2>1, <2>2
<1>10. ASSUME NEW b \in Persistent, NEW u \in Ticks
       PROVE  /\ at'[u] \in {"nudge", "turn", "triage"} => hand'[u].agent # b
              /\ at'[u] \in {"kill", "settle"} /\ hand'[u].agent = b => row'[b] \in Terminal
  <2>0. b \in Agents
    BY WatchdogAssumption
  <2>1. CASE u # t
    BY <1>3, <1>8, <2>0, <2>1 DEF WatchInv, Lasting
  <2>2. CASE u = t /\ step # "next"
    <3>1. hand'[u].agent = a /\ at'[u] = step
      BY <1>3, <2>2 DEF Held
    <3>2. CASE a = b
      <4>1. kind[a] = "tmux" /\ seen[t][a].life = life[a]
            /\ (Holds(t, a, {"zombie"}) => row[a] \in Terminal)
        BY <1>1, <3>2 DEF WatchInv, Lasting
      <4>2. seen[t][a].state = "zombie" => row'[a] \in Terminal
        BY <1>1, <1>8, <2>0, <3>2, <4>1 DEF Holds
      <4> QED
        BY <1>2, <3>1, <3>2, <4>1, <4>2
    <3> QED
      BY <3>1, <3>2
  <2> QED
    BY <1>3, <2>1, <2>2
<1> QED
  BY <1>0, <1>5, <1>6, <1>7, <1>8, <1>9, <1>10, Keeps

\* A step of a tick after its looks: it goes on with the agent in hand, or lets go.
LEMMA StepKeeps ==
  ASSUME WatchInv, NEW t \in Ticks, UNCHANGED <<kind, life, seen>>,
         NEW step \in Steps, at' = [at EXCEPT ![t] = step],
         tmux' \in [Agents -> BOOLEAN], rung' \in [Agents -> Nat],
         row' \in [Agents -> AgentState], reports' \in [Agents -> Nat],
         hand' = [u \in Ticks |-> hand'[u]],
         \A u \in Ticks \ {t} : hand'[u] = hand[u],
         step \in Hand => at[t] \in Hand /\ hand'[t] = hand[t],
         step \in {"idle", "announce", "mark"} => Ahead(t) = {},
         missed \subseteq missed', known \subseteq known',
         \A a \in Agents : row[a] \in Terminal => row'[a] \in Terminal,
         \A a \in Agents :
           \/ reports'[a] = reports[a]
           \/ /\ reports'[a] = reports[a] + 1 /\ row'[a] \in Terminal
              /\ at[t] \in Hand /\ hand[t].agent = a /\ hand[t].state \in Active
              /\ step = "next",
         \A a \in Workers : row'[a] = "zombie" =>
           \/ a \in known' \cup missed'
           \/ row[a] = "zombie" /\ (Telling(t, a) => step \in {"kill", "settle"}),
         step \in {"kill", "settle"} => at[t] \in {"kill", "settle", "triage"},
         step \in {"nudge", "turn", "triage"} => at[t] \in {"nudge", "turn", "triage"}
  PROVE  WatchInv'
<1>0. Typed
  BY DEF WatchInv
<1>1. /\ \A u \in Ticks \ {t} : at'[u] = at[u] /\ hand'[u] = hand[u]
      /\ at'[t] = step
      /\ \A u \in Ticks : seen'[u] = seen[u] /\ Ahead(u)' = Ahead(u)
  BY <1>0 DEF Typed, Ahead
<1>2. Typed'
  BY <1>0, <1>1 DEF Typed, Steps, Hand
<1>3. \A u \in Ticks : \A a \in Agents : \A S \in {Active, {"zombie"}} :
        Holds(u, a, S)' => Holds(u, a, S)
  BY <1>1 DEF Holds
<1>4. ASSUME NEW a \in Agents
      PROVE  \/ reports'[a] = reports[a]
             \/ /\ reports'[a] = reports[a] + 1 /\ row'[a] \in Terminal
                /\ \E u \in Holders(a) : u \notin Holders(a)'
  <2>1. CASE /\ reports'[a] = reports[a] + 1 /\ row'[a] \in Terminal
             /\ at[t] \in Hand /\ hand[t].agent = a /\ hand[t].state \in Active
             /\ step = "next"
    <3>1. t \in Holders(a)
      BY <2>1 DEF Holders, Holds
    <3>2. a \notin Ahead(t)'
      BY <1>0, <1>1, <2>1 DEF Typed
    <3>3. t \notin Holders(a)'
      BY <1>1, <2>1, <3>2 DEF Holders, Holds, Hand
    <3> QED
      BY <2>1, <3>1, <3>3
  <2> QED
    BY <2>1
<1>5. ASSUME NEW a \in Workers, row'[a] = "zombie"
      PROVE  a \in known' \cup missed' \/ \E u \in Ticks : Telling(u, a)'
  <2>1. CASE row[a] = "zombie" /\ (Telling(t, a) => step \in {"kill", "settle"})
    <3>1. \A u \in Ticks : Telling(u, a) => Telling(u, a)'
      BY <1>1, <2>1 DEF Telling, Hand
    <3> QED
      BY <2>1, <3>1 DEF WatchInv, ZombieIsReported, Workers
  <2> QED
    BY <1>5, <2>1
<1>6. \A a \in Persistent : \A u \in Ticks :
        /\ at'[u] \in {"nudge", "turn", "triage"} => hand'[u].agent # a
        /\ at'[u] \in {"kill", "settle"} /\ hand'[u].agent = a => row'[a] \in Terminal
  BY <1>1, WatchdogAssumption DEF WatchInv, Lasting, Hand
<1>7. \A u \in Ticks : \A a \in Agents :
        a \in Ahead(u)' => a \in Ahead(u) /\ seen'[u][a] = seen[u][a]
  BY <1>1
<1> QED
  BY <1>2, <1>3, <1>4, <1>5, <1>6, <1>7, Keeps

LEMMA TickKeeps ==
  ASSUME WatchInv, NEW t \in Ticks, TickStep(t)
  PROVE  WatchInv'
<1>0. /\ Typed /\ row \in [Agents -> AgentState] /\ rung \in [Agents -> Nat]
      /\ tmux \in [Agents -> BOOLEAN] /\ reports \in [Agents -> Nat]
      /\ hand = [u \in Ticks |-> hand[u]] /\ at \in [Ticks -> Steps]
      /\ at[t] \in Hand => hand[t].agent \in Agents /\ hand[t].state \in AgentState \ {"completed"}
      /\ at[t] \in {"idle", "announce", "mark"} => Ahead(t) = {}
  BY DEF WatchInv, Typed
<1> DEFINE a == hand[t].agent
<1>1. ASSUME NEW b \in Agents, Look(t, b)
      PROVE  WatchInv'
  BY <1>1, LookKeeps
<1>2. CASE Kill(t)
  <2>1. tmux' \in [Agents -> BOOLEAN]
    BY <1>0, <1>2 DEF Kill, Hand
  <2>2. /\ at[t] = "kill" /\ at' = [at EXCEPT ![t] = "settle"]
        /\ UNCHANGED <<kind, life, row, rung, seen, hand, known, missed, reports>>
    BY <1>2 DEF Kill, Goes, rowVars, talkVars
  <2> QED
    BY <1>0, <2>1, <2>2, StepKeeps DEF Steps, Hand, WatchInv, ZombieIsReported
<1>3. CASE Settle(t)
  <2>1. /\ at[t] = "settle" /\ at' = [at EXCEPT ![t] = "next"] /\ a \in Agents
        /\ hand' = [hand EXCEPT ![t] = Nothing]
        /\ row' = [row EXCEPT ![a] = AfterTry(row[a], "zombie")]
        /\ rung' = [rung EXCEPT ![a] = 0]
        /\ UNCHANGED <<kind, life, tmux, seen>>
    BY <1>0, <1>3 DEF Settle, GoesOn, Goes, Escalation, agentVars, Hand
  <2>2. /\ AfterTry(row[a], "zombie") =
             IF row[a] = "completed" THEN "completed" ELSE "zombie"
        /\ CanMove(row[a], "zombie") <=> row[a] # "completed"
    BY <1>0, <2>1, Tries
  <2> DEFINE news == row[a] # "completed" /\ hand[t].state # "zombie" /\ a \notin Persistent
  <2>3. /\ news => \/ /\ known' = known \cup {a} /\ missed' = missed
                      /\ reports' = [reports EXCEPT ![a] = reports[a] + 1]
                   \/ missed' = missed \cup {a} /\ UNCHANGED <<known, reports>>
        /\ ~news => UNCHANGED <<known, missed, reports>>
    BY <1>3, <2>2 DEF Settle, NotifyParent, News, talkVars
  <2>4. /\ row' \in [Agents -> AgentState] /\ rung' \in [Agents -> Nat]
        /\ reports' \in [Agents -> Nat] /\ hand' = [u \in Ticks |-> hand'[u]]
        /\ \A u \in Ticks \ {t} : hand'[u] = hand[u]
        /\ missed \subseteq missed' /\ known \subseteq known'
    BY <1>0, <2>1, <2>2, <2>3 DEF AgentState
  <2>5. \A b \in Agents : row[b] \in Terminal => row'[b] \in Terminal
    BY <1>0, <2>1, <2>2 DEF Terminal
  <2>6. ASSUME NEW b \in Agents
        PROVE  \/ reports'[b] = reports[b]
               \/ /\ reports'[b] = reports[b] + 1 /\ row'[b] \in Terminal
                  /\ at[t] \in Hand /\ a = b /\ hand[t].state \in Active
    <3>1. hand[t].state # "zombie" => hand[t].state \in Active
      BY <1>0, <2>1 DEF AgentState, Active, Terminal, Hand
    <3> QED
      BY <1>0, <2>1, <2>2, <2>3, <3>1 DEF Hand, Terminal
  <2>7. ASSUME NEW b \in Workers, row'[b] = "zombie"
        PROVE  \/ b \in known' \cup missed'
               \/ row[b] = "zombie" /\ ~Telling(t, b)
    <3>1. CASE b # a
      BY <1>0, <2>1, <2>7, <3>1 DEF Telling, Workers
    <3>2. CASE b = a /\ hand[t].state = "zombie"
      <4>1. Holds(t, a, {"zombie"})
        BY <2>1, <3>2 DEF Holds, Hand
      <4>2. row[a] = "zombie" \/ a \in missed
        BY <2>1, <2>2, <2>7, <3>2, <4>1 DEF WatchInv, Aware, Terminal, Workers
      <4> QED
        BY <2>4, <3>2, <4>2 DEF Telling
    <3>3. CASE b = a /\ hand[t].state # "zombie"
      BY <1>0, <2>1, <2>2, <2>3, <2>7, <3>3 DEF Workers
    <3> QED
      BY <3>1, <3>2, <3>3
  <2> HIDE DEF news
  <2> QED
    BY <1>0, <2>1, <2>4, <2>5, <2>6, <2>7, StepKeeps DEF Steps, Hand
<1>4. CASE Nudge(t)
  <2>1. /\ at[t] = "nudge" /\ a \in Agents
        /\ UNCHANGED <<kind, life, tmux, rung, seen, known, missed, reports>>
    BY <1>0, <1>4 DEF Nudge, agentVars, talkVars, Hand
  <2>2. AfterTry(row[a], "in_turn") \in {row[a], "in_turn"}
    BY <1>0, <2>1, Tries DEF AgentState
  <2>3. CASE /\ Live(a) /\ GoesOn(t, "turn")
             /\ row' = [row EXCEPT ![a] = AfterTry(row[a], "in_turn")]
    <3>1. /\ row[a] \notin Terminal /\ row' \in [Agents -> AgentState]
          /\ hand' = hand /\ at' = [at EXCEPT ![t] = "turn"]
      BY <1>0, <2>1, <2>2, <2>3 DEF Live, Active, Terminal, AgentState, GoesOn, Goes
    <3>2. \A b \in Agents : /\ row[b] \in Terminal => row'[b] \in Terminal
                            /\ row'[b] = "zombie" => row[b] = "zombie"
      BY <1>0, <2>1, <2>2, <2>3, <3>1
    <3>3. \A b \in Workers : row'[b] = "zombie" => row[b] = "zombie" /\ ~Telling(t, b)
      BY <2>1, <3>2 DEF Telling, Workers
    <3> QED
      BY <1>0, <2>1, <3>1, <3>2, <3>3, StepKeeps DEF Steps, Hand
  <2>4. CASE GoesOn(t, "next") /\ UNCHANGED row
    <3>1. /\ hand' = [hand EXCEPT ![t] = Nothing] /\ at' = [at EXCEPT ![t] = "next"]
      BY <2>4 DEF GoesOn, Goes
    <3>2. \A b \in Workers : row'[b] = "zombie" => row[b] = "zombie" /\ ~Telling(t, b)
      BY <2>1, <2>4 DEF Telling
    <3> QED
      BY <1>0, <2>1, <2>4, <3>1, <3>2, StepKeeps DEF Steps, Hand
  <2> QED
    BY <1>4, <2>3, <2>4 DEF Nudge
<1>5. CASE TurnEnds(t)
  <2>1. /\ at[t] = "turn" /\ a \in Agents
        /\ UNCHANGED <<kind, life, tmux, rung, seen, missed, reports>>
        /\ hand' = [hand EXCEPT ![t] = Nothing] /\ at' = [at EXCEPT ![t] = "next"]
        /\ known' = IF row[a] # "zombie" /\ row'[a] = "zombie" THEN known \cup {a} ELSE known
    BY <1>0, <1>5 DEF TurnEnds, agentVars, Hand, GoesOn, Goes
  <2>2. PICK s \in {"between_turns", "completed", "zombie"} :
          row' = [row EXCEPT ![a] = AfterTry(row[a], s)]
    BY <1>5 DEF TurnEnds
  <2>3. /\ AfterTry(row[a], s) \in {row[a], s} /\ s \in AgentState
        /\ AfterTry(row[a], s) \in AgentState
        /\ row[a] \in Terminal => AfterTry(row[a], s) \in {row[a], "completed"}
    BY <1>0, <2>1, Tries DEF AgentState
  <2>4. \A b \in Agents : row[b] \in Terminal => row'[b] \in Terminal
    BY <1>0, <2>1, <2>2, <2>3 DEF Terminal
  <2>5. \A b \in Workers : row'[b] = "zombie" =>
          b \in known' \/ (row[b] = "zombie" /\ ~Telling(t, b))
    BY <1>0, <2>1, <2>2 DEF Telling, Workers
  <2> QED
    BY <1>0, <2>1, <2>2, <2>3, <2>4, <2>5, StepKeeps DEF Steps, Hand
<1>6. CASE Triage(t)
  <2>1. PICK words \in Answers :
          GoesOn(t, CASE Verdict(words) = "retry" -> "nudge"
                      [] Verdict(words) = "terminate" -> "kill"
                      [] Verdict(words) = "extend" -> "next")
    BY <1>6 DEF Triage
  <2>2. Verdict(words) \in {"retry", "terminate", "extend"}
    BY DEF Verdict
  <2>3. PICK step \in {"nudge", "kill", "next"} : GoesOn(t, step)
    BY <2>1, <2>2
  <2>4. /\ at[t] = "triage" /\ at' = [at EXCEPT ![t] = step]
        /\ hand' = [hand EXCEPT ![t] = IF step = "next" THEN Nothing ELSE hand[t]]
        /\ UNCHANGED <<kind, life, tmux, row, rung, seen, known, missed, reports>>
    BY <1>6, <2>3 DEF Triage, GoesOn, Goes, agentVars, rowVars, talkVars
  <2>5. \A b \in Workers : row'[b] = "zombie" => row[b] = "zombie" /\ ~Telling(t, b)
    BY <2>4 DEF Telling
  <2> QED
    BY <1>0, <2>4, <2>5, StepKeeps DEF Steps, Hand
<1>7. CASE AfterRows(t) \/ Announce(t) \/ Mark(t)
  <2>1. PICK step \in {"announce", "idle", "mark"} : at' = [at EXCEPT ![t] = step]
    BY <1>7 DEF AfterRows, Announce, Mark, Goes
  <2>2. /\ at[t] \in {"next", "announce", "mark"} /\ Ahead(t) = {}
        /\ UNCHANGED <<kind, life, tmux, row, rung, seen, hand, known, missed, reports>>
    BY <1>0, <1>7 DEF AfterRows, Announce, Mark, agentVars, rowVars, talkVars
  <2>3. \A b \in Workers : row'[b] = "zombie" => row[b] = "zombie" /\ ~Telling(t, b)
    BY <2>2 DEF Telling
  <2> QED
    BY <1>0, <2>1, <2>2, <2>3, StepKeeps DEF Steps, Hand
<1> QED
  BY <1>1, <1>2, <1>3, <1>4, <1>5, <1>6, <1>7 DEF TickStep

\* A tick begins: it holds as alive what is alive now.
LEMMA BeginKeeps ==
  ASSUME WatchInv, TickBegin
  PROVE  WatchInv'
<1>0. PICK t \in Ticks : Typed /\ at[t] = "idle" /\ t = CHOOSE u \in Ticks : u \notin Busy
  BY DEF WatchInv, TickBegin, Busy
<1>1. /\ at' = [at EXCEPT ![t] = "next"]
      /\ seen' = [seen EXCEPT ![t] = [a \in Agents |->
                    IF row[a] = "completed" THEN Unseen ELSE Reading(a)]]
      /\ UNCHANGED <<kind, life, tmux, row, rung, hand, known, missed, reports>>
  BY <1>0 DEF TickBegin, Goes, agentVars, rowVars, talkVars
<1>2. /\ \A u \in Ticks \ {t} : at'[u] = at[u] /\ seen'[u] = seen[u] /\ Ahead(u)' = Ahead(u)
      /\ at'[t] = "next" /\ Ahead(t)' = {a \in Agents : row[a] # "completed"}
      /\ \A a \in Ahead(t)' : seen'[t][a] = Reading(a)
  <2>1. /\ \A u \in Ticks \ {t} : at'[u] = at[u] /\ seen'[u] = seen[u]
        /\ at'[t] = "next"
        /\ seen'[t] = [a \in Agents |-> IF row[a] = "completed" THEN Unseen ELSE Reading(a)]
    BY <1>0, <1>1 DEF Typed
  <2>2. \A a \in Agents : /\ row[a] = "completed" => seen'[t][a] = Unseen
                          /\ row[a] # "completed" => seen'[t][a] = Reading(a)
    BY <2>1
  <2>3. \A a \in Agents : seen'[t][a].state # "completed" <=> row[a] # "completed"
    <3>1. Unseen.state = "completed" /\ \A a \in Agents : Reading(a).state = row[a]
      BY DEF Unseen, Reading
    <3> QED
      BY <2>2, <3>1
  <2> QED
    BY <2>1, <2>2, <2>3 DEF Ahead
<1>3. Typed'
  <2>1. seen' \in [Ticks -> [Agents -> [state : AgentState, rung : Nat, life : Nat]]]
    BY <1>0, <1>1 DEF Typed, Unseen, Reading, AgentState
  <2> QED
    BY <1>0, <1>1, <1>2, <2>1 DEF Typed, Steps, Hand
<1>4. \A u \in Ticks \ {t} : \A a \in Agents : \A S \in {Active, {"zombie"}} :
        Holds(u, a, S)' <=> Holds(u, a, S)
  BY <1>1, <1>2 DEF Holds
<1>5. \A a \in Agents : /\ Holds(t, a, Active)' <=> row[a] \in Active
                        /\ Holds(t, a, {"zombie"})' <=> row[a] = "zombie"
  <2>1. ASSUME NEW a \in Agents
        PROVE  /\ Holds(t, a, Active)' <=> row[a] \in Active
               /\ Holds(t, a, {"zombie"})' <=> row[a] = "zombie"
    <3>1. at'[t] \notin Hand
      BY <1>2 DEF Hand
    <3>2. a \in Ahead(t)' <=> row[a] # "completed"
      BY <1>2
    <3>3. a \in Ahead(t)' => seen'[t][a].state = row[a]
      <4>1. Reading(a).state = row[a]
        BY DEF Reading
      <4> QED
        BY <1>2, <4>1
    <3> QED
      BY <3>1, <3>2, <3>3 DEF Holds, Active, Terminal
  <2> QED
    BY <2>1
<1>6. \A u \in Ticks : \A a \in Agents : Telling(u, a)' <=> Telling(u, a)
  BY <1>0, <1>1, <1>2 DEF Telling
<1>7. Counted'
  <2>1. ASSUME NEW a \in Agents
        PROVE  /\ reports'[a] + Cardinality(Holders(a)') =< Cardinality(Ticks)
               /\ reports'[a] # 0 => row'[a] \in Terminal
    <3>1. /\ IsFiniteSet(Holders(a)) /\ Holders(a) \subseteq Ticks /\ Holders(a)' \subseteq Ticks
          /\ Cardinality(Holders(a)') =< Cardinality(Ticks)
          /\ Cardinality(Holders(a)') \in Nat /\ Cardinality(Ticks) \in Nat
          /\ Cardinality(Holders(a)) \in Nat /\ reports[a] \in Nat
      BY <1>0, WatchdogAssumption, FS_Subset, FS_CardinalityType DEF Holders, Typed
    <3>2. /\ reports[a] + Cardinality(Holders(a)) =< Cardinality(Ticks)
          /\ reports[a] # 0 => row[a] \in Terminal
      BY DEF WatchInv, Counted
    <3>3. CASE row[a] \in Active
      <4>1. reports[a] = 0
        BY <3>2, <3>3 DEF Active, Terminal
      <4> QED
        BY <1>1, <3>1, <4>1
    <3>4. CASE row[a] \notin Active
      <4>1. Holders(a)' \subseteq Holders(a)
        <5>1. \A u \in Ticks : Holds(u, a, Active)' => Holds(u, a, Active)
          BY <1>4, <1>5, <3>4
        <5> QED
          BY <5>1 DEF Holders
      <4>2. Cardinality(Holders(a)') =< Cardinality(Holders(a))
        BY <3>1, <4>1, FS_Subset
      <4> QED
        BY <1>1, <3>1, <3>2, <4>2
    <3> QED
      BY <3>3, <3>4
  <2> QED
    BY <2>1 DEF Counted
<1>8. Aware'
  <2>1. ASSUME NEW a \in Workers, NEW u \in Ticks, Holds(u, a, {"zombie"})'
        PROVE  row'[a] \in Terminal \/ a \in missed'
    <3>1. CASE u = t
      BY <1>1, <1>5, <2>1, <3>1 DEF Workers, Terminal
    <3>2. CASE u # t
      <4>1. Holds(u, a, {"zombie"})
        BY <1>4, <2>1, <3>2 DEF Workers
      <4> QED
        BY <1>1, <4>1 DEF WatchInv, Aware
    <3> QED
      BY <3>1, <3>2
  <2> QED
    BY <2>1 DEF Aware, Workers
<1>9. ZombieIsReported'
  BY <1>1, <1>6 DEF WatchInv, ZombieIsReported, Workers
<1>10. Lasting'
  <2>1. ASSUME NEW a \in Persistent, NEW u \in Ticks
        PROVE  /\ a \in Ahead(u)' => seen'[u][a].life = life'[a]
               /\ Holds(u, a, {"zombie"})' => row'[a] \in Terminal
               /\ at'[u] \in {"nudge", "turn", "triage"} => hand'[u].agent # a
               /\ at'[u] \in {"kill", "settle"} /\ hand'[u].agent = a => row'[a] \in Terminal
    <3>1. CASE u = t
      <4>1. a \in Ahead(u)' => seen'[u][a].life = life'[a]
        BY <1>1, <1>2, <3>1 DEF Reading
      <4>2. Holds(u, a, {"zombie"})' => row'[a] \in Terminal
        BY <1>1, <1>5, <3>1, WatchdogAssumption DEF Terminal
      <4> QED
        BY <1>2, <3>1, <4>1, <4>2
    <3>2. CASE u # t
      BY <1>1, <1>2, <1>4, <2>1, <3>2, WatchdogAssumption DEF WatchInv, Lasting
    <3> QED
      BY <3>1, <3>2
  <2> QED
    BY <1>1, <2>1 DEF WatchInv, Lasting
<1> QED
  BY <1>3, <1>7, <1>8, <1>9, <1>10 DEF WatchInv

LEMMA CrashKeeps ==
  ASSUME WatchInv, Crash
  PROVE  WatchInv'
<1>0. Typed
  BY DEF WatchInv
<1>1. /\ at' = [t \in Ticks |-> "idle"] /\ hand' = [t \in Ticks |-> Nothing]
      /\ seen' = [t \in Ticks |-> [a \in Agents |-> Unseen]]
      /\ missed' = missed \cup {a \in Workers : \E t \in Ticks : Telling(t, a)}
      /\ UNCHANGED <<kind, life, tmux, row, rung, known, reports>>
  BY DEF Crash, agentVars, rowVars
<1>2. Typed'
  BY <1>0, <1>1 DEF Typed, Steps, Hand, Unseen, AgentState, Ahead
<1>3. \A t \in Ticks : \A a \in Agents : \A S \in {Active, {"zombie"}} :
        a \notin Ahead(t)' /\ ~Holds(t, a, S)'
  BY <1>1 DEF Ahead, Holds, Hand, Unseen
<1>4. \A a \in Workers : row'[a] = "zombie" => a \in known' \cup missed'
  BY <1>1 DEF WatchInv, ZombieIsReported
<1>5. \A t \in Ticks : at'[t] = "idle"
  BY <1>1
<1> QED
  BY <1>1, <1>2, <1>3, <1>4, <1>5, Keeps

LEMMA WatchStep == WatchInv /\ [Next]_vars => WatchInv'
<1> SUFFICES ASSUME WatchInv, [Next]_vars PROVE WatchInv'
  OBVIOUS
<1>0. row \in [Agents -> AgentState] /\ tmux \in [Agents -> BOOLEAN]
  BY DEF WatchInv, Typed
<1>1. CASE UNCHANGED vars
  BY <1>0, <1>1, AgentsKeep DEF vars, agentVars, rowVars
<1>2. CASE Restart
  <2>1. /\ UNCHANGED <<kind, life, tmux, row, rung, at, hand, seen, known, missed, reports>>
    BY <1>2 DEF Restart, agentVars, rowVars, talkVars
  <2>2. Typed' /\ (\A t \in Ticks : \A a \in Agents :
          /\ Ahead(t)' = Ahead(t) /\ (Telling(t, a)' <=> Telling(t, a))
          /\ \A S \in {Active, {"zombie"}} : Holds(t, a, S)' => Holds(t, a, S))
    BY <2>1 DEF WatchInv, Typed, Ahead, Holds, Telling
  <2>3. \A a \in Workers : row'[a] = "zombie" =>
          a \in known' \cup missed' \/ (\E t \in Ticks : Telling(t, a)')
    BY <2>1, <2>2 DEF WatchInv, ZombieIsReported, Workers
  <2>4. \A a \in Persistent : \A t \in Ticks :
          /\ at'[t] \in {"nudge", "turn", "triage"} => hand'[t].agent # a
          /\ at'[t] \in {"kill", "settle"} /\ hand'[t].agent = a => row'[a] \in Terminal
    BY <2>1 DEF WatchInv, Lasting
  <2> QED
    BY <2>1, <2>2, <2>3, <2>4, Keeps
<1> QED
  BY <1>1, <1>2, EnvironmentKeeps, TickKeeps, BeginKeeps, CrashKeeps DEF Next

LEMMA WatchInit == Init => WatchInv
<1> SUFFICES ASSUME Init PROVE WatchInv
  OBVIOUS
<1>1. /\ kind \in [Agents -> Kind] /\ (\A a \in Persistent : kind[a] = "tmux")
  BY WatchdogAssumption DEF Init
<1>2. Typed
  BY <1>1 DEF Init, Typed, AgentState, Steps, Hand, Unseen, Ahead
<1>3. \A t \in Ticks : \A a \in Agents : \A S \in {Active, {"zombie"}} :
        a \notin Ahead(t) /\ ~Holds(t, a, S) /\ at[t] = "idle"
  BY DEF Init, Ahead, Holds, Hand, Unseen
<1>4. Counted
  <2>1. \A a \in Agents : Holders(a) = {}
    BY <1>3 DEF Holders
  <2>2. Cardinality(Ticks) \in Nat /\ Cardinality({}) = 0
    BY WatchdogAssumption, FS_CardinalityType, FS_EmptySet
  <2>3. \A a \in Agents : reports[a] = 0 /\ Cardinality(Holders(a)) = 0
    BY <2>1, <2>2 DEF Init
  <2> QED
    BY <2>2, <2>3 DEF Counted
<1>5. Aware /\ ZombieIsReported /\ Lasting
  BY <1>1, <1>3, WatchdogAssumption DEF Init, Aware, ZombieIsReported, Lasting, Workers
<1> QED
  BY <1>2, <1>4, <1>5 DEF WatchInv

-----------------------------------------------------------------------------
(* The theorems *)

\* The invariant holds of every daemon and its agents.
THEOREM WatchInvHolds == SafetySpec => []WatchInv
  BY WatchInit, WatchStep, PTL DEF SafetySpec

\* The parent is told of a death by no more ticks than may be in progress together:
\* once, when the interval outlasts a tick (daemon.ts:463).
THEOREM DeathIsReportedByOverlapOnly == SafetySpec => []ReportsWithinOverlap
<1>1. WatchInv => ReportsWithinOverlap
  <2>1. ASSUME WatchInv, NEW a \in Agents
        PROVE  reports[a] =< Cardinality(Ticks)
    <3>1. Cardinality(Holders(a)) \in Nat /\ Cardinality(Ticks) \in Nat /\ reports[a] \in Nat
      BY <2>1, WatchdogAssumption, FS_Subset, FS_CardinalityType DEF Holders, WatchInv, Typed
    <3> QED
      BY <2>1, <3>1 DEF WatchInv, Counted
  <2> QED
    BY <2>1 DEF ReportsWithinOverlap
<1> QED
  BY <1>1, WatchInvHolds, PTL

\* Of every zombie the parent knows, or a tick is on its way to tell it, but for mail that
\* could not be written, a crash on the way, and names slung again under a tick.
THEOREM EveryZombieIsReported == SafetySpec => []ZombieIsReported
<1>1. WatchInv => ZombieIsReported
  BY DEF WatchInv
<1> QED
  BY <1>1, WatchInvHolds, PTL

\* Which steps make a zombie of a persistent agent: the look at a dead one.
LEMMA ZombieStep ==
  ASSUME WatchInv, Next, NEW a \in Persistent, row[a] # "zombie", row'[a] = "zombie"
  PROVE  ~Running(a)
<1>0. /\ row \in [Agents -> AgentState] /\ a \in Agents /\ kind[a] = "tmux" /\ Typed
      /\ \A t \in Ticks : at[t] \in Hand => hand[t].agent \in Agents
  BY WatchdogAssumption DEF WatchInv, Typed, Lasting
<1>1. ASSUME NEW t \in Ticks, NEW b \in Agents, Look(t, b)
      PROVE  ~Running(a)
  <2>1. b \in Ahead(t) /\ row' = [row EXCEPT ![b] = row'[b]]
    BY <1>0, <1>1, LookFacts
  <2>2. b = a
    BY <1>0, <2>1
  <2>3. seen[t][b].life = life[b]
    BY <1>1, <2>1, <2>2 DEF WatchInv, Lasting
  <2> QED
    BY <1>0, <1>1, <2>2, <2>3, LookFacts
<1>2. ASSUME NEW t \in Ticks, Settle(t)
      PROVE  ~Running(a)
  <2>1. hand[t].agent = a /\ row'[a] = AfterTry(row[a], "zombie")
    BY <1>0, <1>2 DEF Settle, Hand
  <2>2. row[a] \in Terminal
    BY <1>2, <2>1 DEF Settle, WatchInv, Lasting
  <2> QED
    BY <1>0, <2>1, <2>2, Tries DEF Terminal
<1>3. ASSUME NEW t \in Ticks, Nudge(t) \/ TurnEnds(t)
      PROVE  ~Running(a)
  <2>1. hand[t].agent # a
    BY <1>3 DEF Nudge, TurnEnds, WatchInv, Lasting
  <2> QED
    BY <1>0, <1>3, <2>1 DEF Nudge, TurnEnds
<1>4. ASSUME NEW t \in Ticks, Kill(t) \/ Triage(t) \/ AfterRows(t) \/ Announce(t) \/ Mark(t)
      PROVE  ~Running(a)
  BY <1>4 DEF Kill, Triage, AfterRows, Announce, Mark, rowVars
<1>5. CASE TickBegin \/ Restart \/ Crash
  BY <1>5 DEF TickBegin, Restart, Crash, rowVars
<1>6. ASSUME NEW b \in Agents, Work(b) \/ Finish(b)
      PROVE  ~Running(a)
  <2>1. PICK s \in AgentState \ {"zombie"} : row' = [row EXCEPT ![b] = AfterTry(row[b], s)]
    BY <1>6 DEF Work, Finish, AgentState
  <2> QED
    BY <1>0, <2>1, Tries
<1>7. ASSUME NEW b \in Agents, Die(b) \/ Resling(b)
      PROVE  ~Running(a)
  BY <1>0, <1>7 DEF Die, Resling, Begun, rowVars
<1> QED
  BY <1>1, <1>2, <1>3, <1>4, <1>5, <1>6, <1>7 DEF Next, TickStep, Environment, Workers

\* A persistent agent becomes a zombie only when its process or terminal is gone.
THEOREM TimeKillsNoPersistent == Spec => PersistentSurvivesTime
<1>1. WatchInv /\ [Next]_vars =>
        [\A a \in Persistent :
           row[a] # "zombie" /\ row'[a] = "zombie" => ~Running(a)]_vars
  BY ZombieStep
<1> QED
  BY <1>1, WatchInvHolds, PTL DEF Spec, SafetySpec, PersistentSurvivesTime
=============================================================================
