-------------------------- MODULE WorkerTurnProofs --------------------------
(***************************************************************************)
(* Proofs about WorkerTurn for any sets of messages and ticks, any bounds, *)
(* and both kinds of runtime.                                              *)
(***************************************************************************)
EXTENDS WorkerTurn, TLAPS

\* The matrix has no way out of "completed".
LEMMA CompletedStays ==
  ASSUME NEW target \in AgentState, row = "completed", Try(target)
  PROVE  row' = "completed"
BY DEF Try, AfterTry, CanMove, AllowedFrom, AgentState, Active, Terminal, Absent

\* Whatever the row, it stays a state or absent.
LEMMA TryKeepsRow ==
  ASSUME row \in AgentState \cup {Absent}, NEW target \in AgentState, Try(target)
  PROVE  row' \in AgentState \cup {Absent}
BY DEF Try, AfterTry, AgentState, Absent

\* What evaluateHealth and transitionState say of a spawn-per-turn worker.
LEMMA CheckType ==
  ASSUME NEW s \in AgentState, NEW a \in Age
  PROVE  LET c == Evaluate("per_turn", FALSE, s, FALSE, "none", a)
         IN  Transition(s, c) \in AgentState
BY DEF Evaluate, TimeBased, Check, Transition, Order, AgentState, Age

\* So the forward transition of a tick keeps the type of the row.
LEMMA ForwardKeepsRow ==
  ASSUME TypeOK, NEW t \in Ticks, TickForward(t)
  PROVE  row' \in AgentState \cup {Absent}
<1>1. look[t].state \in AgentState /\ look[t].age \in Age
  BY DEF TypeOK
<1>2. Transition(look[t].state, TickCheck(t)) \in AgentState
  BY <1>1, CheckType DEF TickCheck
<1> QED BY <1>2, TryKeepsRow DEF TickForward, TypeOK

\* The runner's own idea of the final state is a state, if it had read one.
LEMMA FinalStateType ==
  ASSUME TypeOK, NEW r \in Runners
  PROVE  FinalState(r) \in AgentState \cup {Absent}
BY DEF FinalState, AgentState, TypeOK

-----------------------------------------------------------------------------
(* TypeOK, one lemma for each group of actors *)

\* Clock, mail, sling, serve loop, orphans and `ov stop`.
LEMMA WorldKeepsType ==
  ASSUME TypeOK,
         \/ PassTime \/ Sling \/ LoopTick \/ OrphanExit \/ OrphanMail
         \/ StopRead \/ StopKill \/ StopReap
         \/ \E m \in Mails : SendMail(m)
  PROVE  TypeOK'
<1> USE DEF TypeOK, row_vars, inbox_vars, parent_vars, run_vars, proc_vars,
            dog_vars, count_vars
<1>1. CASE PassTime
  BY <1>1 DEF PassTime, Age
<1>2. CASE Sling
  BY <1>2 DEF Sling, Move, RunPhases, Runners, AgentState
<1>3. CASE LoopTick
  BY <1>3 DEF LoopTick, Move, RunPhases, Runners
<1>4. CASE OrphanExit
  BY <1>4 DEF OrphanExit
<1>5. CASE OrphanMail
  <2>1. done' \in Nat
    BY <1>5 DEF OrphanMail
  <2> QED BY <1>5, <2>1, Zenon DEF OrphanMail
<1>6. CASE StopRead
  BY <1>6 DEF StopRead
<1>7. CASE StopKill
  BY <1>7 DEF StopKill
<1>8. CASE StopReap
  BY <1>8, TryKeepsRow DEF StopReap, Age, AgentState
<1>9. CASE \E m \in Mails : SendMail(m)
  BY <1>9 DEF SendMail
<1> QED BY <1>1, <1>2, <1>3, <1>4, <1>5, <1>6, <1>7, <1>8, <1>9

\* The runners.
LEMMA RunnerKeepsType ==
  ASSUME TypeOK, NEW r \in Runners, RunnerStep(r)
  PROVE  TypeOK'
<1> USE DEF TypeOK, row_vars, inbox_vars, parent_vars, run_vars, proc_vars,
            dog_vars, count_vars, Move, Note, RunPhases, Flags
<1>1. CASE Acquire(r)
  BY <1>1 DEF Acquire
<1>2. CASE LockTimeOut(r)
  BY <1>2 DEF LockTimeOut, Leave
<1>3. CASE SetupFails(r)
  BY <1>3 DEF SetupFails, Leave
<1>4. CASE Spawn(r)
  BY <1>4 DEF Spawn
<1>5. CASE PublishPid(r)
  BY <1>5 DEF PublishPid
<1>6. CASE TurnThrows(r)
  BY <1>6 DEF TurnThrows, Leave
<1>7. CASE ChildEvent(r)
  <2>1. row' \in AgentState \cup {Absent}
    BY <1>7, TryKeepsRow DEF ChildEvent, AgentState
  <2>2. age' \in Age
    BY <1>7 DEF ChildEvent, Age
  <2>3. flags' \in [Runners -> SUBSET Flags]
    <3> PICK verdict \in SUBSET {"clean"} :
             flags' = [flags EXCEPT ![r] = (@ \ {"clean"}) \cup {"saw"} \cup verdict]
      BY <1>7 DEF ChildEvent
    <3>1. (flags[r] \ {"clean"}) \cup {"saw"} \cup verdict \in SUBSET Flags
      OBVIOUS
    <3> QED BY <3>1
  <2> QED BY <1>7, <2>1, <2>2, <2>3 DEF ChildEvent
<1>8. CASE ChildMail(r)
  BY <1>8 DEF ChildMail
<1>9. CASE CutShort(r)
  BY <1>9 DEF CutShort
<1>10. CASE ChildExit(r)
  BY <1>10 DEF ChildExit
<1>11. CASE Observe(r)
  BY <1>11 DEF Observe
<1>12. CASE Settle(r)
  <2>1. FinalState(r) \in AgentState \cup {Absent}
    BY FinalStateType
  <2>2. final' \in [Runners -> AgentState \cup {Absent}]
    BY <1>12, <2>1 DEF Settle
  <2>3. row' \in AgentState \cup {Absent}
    BY <1>12, <2>1, TryKeepsRow DEF Settle, Try, AfterTry
  <2> QED BY <1>12, <2>2, <2>3 DEF Settle
<1>13. CASE TellParent(r)
  BY <1>13 DEF TellParent, Synthesize, Age
<1>14. CASE EndTurn(r)
  BY <1>14 DEF EndTurn, Leave
<1>15. CASE Crash(r)
  BY <1>15 DEF Crash, Leave
<1> QED BY <1>1, <1>2, <1>3, <1>4, <1>5, <1>6, <1>7, <1>8, <1>9, <1>10, <1>11, <1>12, <1>13, <1>14, <1>15 DEF RunnerStep

\* The helpers of the watchdog's actions.
LEMMA TickHelpersType ==
  ASSUME TypeOK, NEW t \in Ticks
  PROVE  /\ TickEnd(t) \/ TickMove(t, "killing") \/ TickMove(t, "telling") =>
              /\ tick' \in [Ticks -> {"idle", "read", "killing", "telling"}]
              /\ look' \in [Ticks -> [state : AgentState, age : Age,
                                     since : BOOLEAN, level : 0..3]]
         /\ NotStalled => escal' \in [since : BOOLEAN, level : 0..3]
<1>1. NoLook \in [state : AgentState, age : Age, since : BOOLEAN, level : 0..3]
  BY DEF NoLook, AgentState, Age
<1>2. [since |-> FALSE, level |-> 0] \in [since : BOOLEAN, level : 0..3]
  OBVIOUS
<1>3. ASSUME TickEnd(t)
      PROVE  /\ tick' \in [Ticks -> {"idle", "read", "killing", "telling"}]
             /\ look' \in [Ticks -> [state : AgentState, age : Age,
                                    since : BOOLEAN, level : 0..3]]
  BY <1>1, <1>3 DEF TickEnd, TypeOK
<1>4. ASSUME TickMove(t, "killing") \/ TickMove(t, "telling")
      PROVE  /\ tick' \in [Ticks -> {"idle", "read", "killing", "telling"}]
             /\ look' \in [Ticks -> [state : AgentState, age : Age,
                                    since : BOOLEAN, level : 0..3]]
  BY <1>4 DEF TickMove, TypeOK
<1>5. NotStalled => escal' \in [since : BOOLEAN, level : 0..3]
  BY <1>2 DEF NotStalled
<1> QED BY <1>3, <1>4, <1>5

\* The watchdog.
LEMMA TickKeepsType ==
  ASSUME TypeOK, NEW t \in Ticks, TickStep(t)
  PROVE  TypeOK'
<1> USE DEF TypeOK, row_vars, inbox_vars, parent_vars, run_vars, proc_vars,
            dog_vars, count_vars
<1>1. CASE TickRead(t)
  BY <1>1 DEF TickRead, AgentState, Age, Absent
<1>2. CASE TickQuiet(t)
  <2>1. row' \in AgentState \cup {Absent}
    BY <1>2, ForwardKeepsRow DEF TickQuiet
  <2>2. escal' \in [since : BOOLEAN, level : 0..3]
    <3>1. escal' = escal \/ NotStalled
      BY <1>2 DEF TickQuiet
    <3> QED BY <3>1, TickHelpersType
  <2>3. /\ tick' \in [Ticks -> {"idle", "read", "killing", "telling"}]
        /\ look' \in [Ticks -> [state : AgentState, age : Age, since : BOOLEAN,
                               level : 0..3]]
    BY <1>2, TickHelpersType DEF TickQuiet
  <2> QED BY <1>2, <2>1, <2>2, <2>3 DEF TickQuiet
<1>3. CASE TickTerminate(t)
  BY <1>3, ForwardKeepsRow, TickHelpersType DEF TickTerminate
<1>4. CASE \E level \in 0..3 : TickEscalate(t, level)
  <2> PICK level \in 0..3 : TickEscalate(t, level)
    BY <1>4
  <2>1. row' \in AgentState \cup {Absent}
    BY ForwardKeepsRow DEF TickEscalate
  <2>2. escal' \in [since : BOOLEAN, level : 0..3]
    BY DEF TickEscalate
  <2>3. /\ tick' \in [Ticks -> {"idle", "read", "killing", "telling"}]
        /\ look' \in [Ticks -> [state : AgentState, age : Age, since : BOOLEAN,
                               level : 0..3]]
    BY TickHelpersType DEF TickEscalate
  <2> QED BY <2>1, <2>2, <2>3 DEF TickEscalate
<1>5. CASE TickZombify(t)
  <2>1. row' \in AgentState \cup {Absent}
    BY <1>5, TryKeepsRow DEF TickZombify, AgentState
  <2>2. escal' \in [since : BOOLEAN, level : 0..3]
    BY <1>5, TickHelpersType DEF TickZombify
  <2>3. /\ tick' \in [Ticks -> {"idle", "read", "killing", "telling"}]
        /\ look' \in [Ticks -> [state : AgentState, age : Age, since : BOOLEAN,
                               level : 0..3]]
    BY <1>5, TickHelpersType DEF TickZombify
  <2> QED BY <1>5, <2>1, <2>2, <2>3 DEF TickZombify
<1>6. CASE TickTell(t)
  BY <1>6, TickHelpersType DEF TickTell
<1> QED BY <1>1, <1>2, <1>3, <1>4, <1>5, <1>6 DEF TickStep

-----------------------------------------------------------------------------
(* TurnInv *)

\* Steps that leave the runners alone and unsend no mail keep the rest of
\* TurnInv.
LEMMA OthersKeepTurns ==
  ASSUME TurnInv, UNCHANGED run_vars, done' \in Nat, done' >= done
  PROVE  ObservedMailExists' /\ FinalIsCurrent' /\ NoSilentEnd'
<1> USE DEF run_vars, TurnInv, TypeOK
<1>1. ObservedMailExists'
  BY DEF ObservedMailExists
<1>2. FinalIsCurrent'
  BY DEF FinalIsCurrent, FinalState
<1>3. NoSilentEnd'
  BY DEF NoSilentEnd
<1> QED BY <1>1, <1>2, <1>3

\* A runner that tells its parent has put a mail into the inbox whenever the
\* worker finished, was cut short, or runs on an event-signaling runtime.
LEMMA TellParentIsHeard ==
  ASSUME TurnInv, NEW r \in Runners, TellParent(r),
         "clean" \in flags[r] \/ "cut" \in flags[r] \/ EventSignaling
  PROVE  told'[r] > 0 \/ done' > base[r]
<1> USE DEF TurnInv, TypeOK
<1>1. CASE Synthesize(r)
  BY <1>1 DEF Synthesize
<1>2. CASE "observed" \in flags[r]
  BY <1>2 DEF ObservedMailExists, TellParent
<1>3. CASE ~Synthesize(r) /\ "observed" \notin flags[r]
  <2>1. ~EventSuccess(r) /\ ~EventFailure(r) /\ ~Death(r)
    BY <1>3 DEF TellParent
  <2>2. final[r] # "zombie" /\ ~TerminalMailMissing(r)
    BY <2>1 DEF Death
  <2>3. "cut" \notin flags[r]
    BY <2>2 DEF TellParent, FinalIsCurrent, FinalState
  <2>4. ~CompletedViaEvents(r)
    BY <1>3, <2>1 DEF EventSuccess
  <2>5. "clean" \notin flags[r]
    BY <1>3, <2>2, <2>3, <2>4 DEF TerminalMailMissing
  <2> QED BY <1>3, <2>1, <2>3, <2>5 DEF EventFailure
<1> QED BY <1>1, <1>2, <1>3

\* The runners keep TurnInv.
LEMMA RunnerKeepsTurns ==
  ASSUME TurnInv, NEW r \in Runners, RunnerStep(r)
  PROVE  ObservedMailExists' /\ FinalIsCurrent' /\ NoSilentEnd'
<1> USE DEF TurnInv, TypeOK, Move, Note, ObservedMailExists, NoSilentEnd,
            FinalIsCurrent, FinalState, parent_vars
<1>1. CASE Acquire(r)
  BY <1>1 DEF Acquire
<1>2. CASE Leave(r) /\ done' = done
  BY <1>2 DEF Leave
<1>3. CASE Spawn(r)
  BY <1>3 DEF Spawn
<1>4. CASE PublishPid(r)
  BY <1>4 DEF PublishPid
<1>5. CASE ChildEvent(r)
  <2>1. at[r] = "running" /\ at' = at /\ done' = done /\ UNCHANGED <<base, final, initial, told>>
    BY <1>5 DEF ChildEvent
  <2>2. \A q \in Runners : q # r => flags'[q] = flags[q]
    BY <1>5 DEF ChildEvent
  <2>3. "observed" \in flags'[r] => "observed" \in flags[r]
    BY <1>5 DEF ChildEvent
  <2> QED BY <2>1, <2>2, <2>3
<1>6. CASE ChildMail(r)
  BY <1>6 DEF ChildMail
<1>7. CASE CutShort(r)
  BY <1>7 DEF CutShort
<1>8. CASE ChildExit(r)
  <2>1. UNCHANGED <<at, base, final, initial, told, done>>
    BY <1>8 DEF ChildExit
  <2>2. /\ \A q \in Runners : q # r => flags'[q] = flags[q]
        /\ flags'[r] = flags[r] \/ flags'[r] = flags[r] \cup {"exit0"}
    BY <1>8 DEF ChildExit
  <2> QED BY <2>1, <2>2
<1>9. CASE Observe(r)
  BY <1>9 DEF Observe
<1>10. CASE Settle(r)
  BY <1>10 DEF Settle
<1>11. CASE TellParent(r)
  <2>1. "clean" \in flags[r] \/ "cut" \in flags[r] \/ EventSignaling
          => told'[r] > 0 \/ done' > base[r]
    BY <1>11, TellParentIsHeard
  <2>2. done' \in Nat /\ done' >= done
    BY <1>11 DEF TellParent
  <2>3. /\ \A q \in Runners : q # r => at'[q] = at[q] /\ told'[q] = told[q]
        /\ at'[r] = "ended"
        /\ UNCHANGED <<base, flags, final, initial>>
    BY <1>11 DEF TellParent, Synthesize
  <2> QED BY <1>11, <2>1, <2>2, <2>3
<1> QED
  BY <1>1, <1>2, <1>3, <1>4, <1>5, <1>6, <1>7, <1>8, <1>9, <1>10, <1>11
     DEF RunnerStep, LockTimeOut, SetupFails, TurnThrows, EndTurn, Crash

\* TurnInv holds in every reachable state.
THEOREM TurnInvariant == Spec => []TurnInv
<1>1. Init => TurnInv
  <2> SUFFICES ASSUME Init PROVE TurnInv
    OBVIOUS
  <2>1. /\ NoLook \in [state : AgentState, age : Age, since : BOOLEAN, level : 0..3]
        /\ escal \in [since : BOOLEAN, level : 0..3]
    BY DEF Init, NoLook, AgentState, Age
  <2>2. TypeOK
    BY <2>1 DEF Init, TypeOK, RunPhases, AgentState, Age
  <2>3. ObservedMailExists /\ FinalIsCurrent /\ NoSilentEnd
    BY DEF Init, ObservedMailExists, FinalIsCurrent, NoSilentEnd
  <2> QED BY <2>2, <2>3 DEF TurnInv
<1>2. TurnInv /\ [Next]_vars => TurnInv'
  <2> SUFFICES ASSUME TurnInv, [Next]_vars PROVE TurnInv'
    OBVIOUS
  <2>1. TypeOK
    BY DEF TurnInv
  <2>2. CASE \E r \in Runners : RunnerStep(r)
    BY <2>1, <2>2, RunnerKeepsType, RunnerKeepsTurns DEF TurnInv
  <2>3. CASE \E t \in Ticks : TickStep(t)
    <3>1. TypeOK'
      BY <2>1, <2>3, TickKeepsType
    <3>2. UNCHANGED run_vars /\ done' = done
      BY <2>3 DEF TickStep, TickRead, TickQuiet, TickTerminate, TickEscalate,
                  TickZombify, TickTell, parent_vars
    <3> QED BY <2>1, <3>1, <3>2, OthersKeepTurns DEF TurnInv, TypeOK
  <2>4. CASE \/ PassTime \/ OrphanExit \/ OrphanMail \/ StopRead \/ StopKill
             \/ StopReap \/ \E m \in Mails : SendMail(m)
    <3>1. TypeOK'
      BY <2>1, <2>4, WorldKeepsType
    <3>2. UNCHANGED run_vars /\ done' \in {done, done + 1}
      BY <2>4 DEF PassTime, OrphanExit, OrphanMail, StopRead, StopKill, StopReap,
                  SendMail, parent_vars
    <3> QED BY <2>1, <3>1, <3>2, OthersKeepTurns DEF TurnInv, TypeOK
  <2>5. CASE Sling \/ LoopTick
    <3>1. TypeOK'
      BY <2>1, <2>5, WorldKeepsType
    <3>2. ObservedMailExists' /\ FinalIsCurrent' /\ NoSilentEnd'
      BY <2>5 DEF TurnInv, TypeOK, Sling, LoopTick, Move, ObservedMailExists,
                  FinalIsCurrent, FinalState, NoSilentEnd, parent_vars, Runners
    <3> QED BY <3>1, <3>2 DEF TurnInv
  <2>6. CASE UNCHANGED vars
    <3>1. TypeOK' /\ UNCHANGED run_vars /\ done' = done
      BY <2>1, <2>6 DEF vars, row_vars, inbox_vars, parent_vars, run_vars,
                        proc_vars, dog_vars, count_vars, TypeOK
    <3> QED BY <2>1, <3>1, OthersKeepTurns DEF TurnInv, TypeOK
  <2> QED BY <2>2, <2>3, <2>4, <2>5, <2>6 DEF Next
<1> QED BY <1>1, <1>2, PTL DEF Spec

\* No turn ends in silence: see NoSilentEnd.
THEOREM NoTurnEndsInSilence == Spec => []NoSilentEnd
<1>1. TurnInv => NoSilentEnd
  BY DEF TurnInv
<1> QED BY <1>1, TurnInvariant, PTL

-----------------------------------------------------------------------------
(* CompletedIsSticky *)

\* Every step that writes the row does it by the compare-and-swap, except the
\* insertion by Sling, which needs the row to be absent.
LEMMA RowMovesByTry ==
  ASSUME TurnInv, [Next]_vars, row = "completed"
  PROVE  \/ row' = row
         \/ \E target \in AgentState : Try(target)
<1> USE DEF TurnInv
<1>1. CASE \E r \in Runners : RunnerStep(r)
  <2> PICK r \in Runners : RunnerStep(r)
    BY <1>1
  <2>1. CASE Settle(r)
    <3>1. FinalState(r) \in AgentState \/ FinalState(r) = initial[r]
      BY DEF FinalState, AgentState
    <3>2. FinalState(r) = initial[r] \/ Try(FinalState(r))
      BY <2>1 DEF Settle
    <3> QED BY <2>1, <3>1, <3>2 DEF Settle
  <2>2. CASE ~Settle(r)
    BY <2>2 DEF RunnerStep, Acquire, LockTimeOut, SetupFails, Spawn, PublishPid,
                TurnThrows, ChildEvent, ChildMail, CutShort, ChildExit, Observe,
                TellParent, EndTurn, Crash, row_vars, AgentState
  <2> QED BY <2>1, <2>2
<1>2. CASE \E t \in Ticks : TickStep(t)
  <2> PICK t \in Ticks : TickStep(t)
    BY <1>2
  <2>1. look[t].state \in AgentState /\ look[t].age \in Age
    BY DEF TypeOK
  <2>2. Transition(look[t].state, TickCheck(t)) \in AgentState
    BY <2>1, CheckType DEF TickCheck
  <2>3. "zombie" \in AgentState
    BY DEF AgentState
  <2> QED BY <2>2, <2>3 DEF TickStep, TickRead, TickQuiet, TickTerminate,
               TickEscalate, TickForward, TickZombify, TickTell, row_vars
<1>3. CASE Next /\ ~(\E r \in Runners : RunnerStep(r)) /\ ~(\E t \in Ticks : TickStep(t))
  BY <1>3 DEF Next, PassTime, Sling, LoopTick, OrphanExit, OrphanMail, StopRead,
              StopKill, StopReap, SendMail, row_vars, AgentState, Absent
<1>4. CASE UNCHANGED vars
  BY <1>4 DEF vars, row_vars
<1> QED BY <1>1, <1>2, <1>3, <1>4

\* Nothing leaves "completed", in whatever order runners, watchdog ticks and
\* `ov stop` write.
THEOREM CompletedForGood == Spec => CompletedIsSticky
<1>1. TurnInv /\ [Next]_vars => [row = "completed" => row' = "completed"]_vars
  <2> SUFFICES ASSUME TurnInv, [Next]_vars, row = "completed"
               PROVE  row' = "completed"
    OBVIOUS
  <2> QED BY RowMovesByTry, CompletedStays
<1> QED BY <1>1, TurnInvariant, PTL DEF Spec, CompletedIsSticky

-----------------------------------------------------------------------------
(* ReadMeansDelivered *)

\* A runner inside the turn is the one that holds its lock.
LockIsHeld ==
  \A r \in Runners : at[r] \notin {"idle", "waiting", "gone"} => lock = r

\* The runner's own steps keep the lock with whoever is inside.
LEMMA RunnerKeepsLock ==
  ASSUME TypeOK, LockIsHeld, NEW r \in Runners, RunnerStep(r)
  PROVE  LockIsHeld'
<1>1. \A q \in Runners : q # Nobody
  BY DEF Runners, Nobody
<1>2. CASE Acquire(r)
  BY <1>1, <1>2 DEF Acquire, Move, TypeOK, LockIsHeld
<1>3. CASE \/ Spawn(r) \/ PublishPid(r) \/ ChildEvent(r) \/ ChildMail(r)
           \/ CutShort(r) \/ ChildExit(r) \/ Observe(r) \/ Settle(r) \/ TellParent(r)
  <2>1. /\ lock' = lock
        /\ \/ at' = at
           \/ /\ at[r] \notin {"idle", "waiting", "gone"}
              /\ \E phase \in RunPhases : Move(r, phase)
    BY <1>3 DEF Spawn, PublishPid, ChildEvent, ChildMail, CutShort, ChildExit,
                Observe, Settle, TellParent, RunPhases, run_vars
  <2> QED
    BY <2>1 DEF Move, TypeOK, LockIsHeld
<1>4. CASE \/ LockTimeOut(r) \/ SetupFails(r) \/ TurnThrows(r) \/ EndTurn(r) \/ Crash(r)
  <2>1. at' = [at EXCEPT ![r] = IF r = "cli" THEN "gone" ELSE "idle"]
    BY <1>4 DEF LockTimeOut, SetupFails, TurnThrows, EndTurn, Crash, Leave, Move
  <2>2. \/ lock' = lock
        \/ lock = r
    BY <1>4 DEF LockTimeOut, SetupFails, TurnThrows, EndTurn, Crash, LockIsHeld
  <2> QED
    BY <2>1, <2>2 DEF TypeOK, LockIsHeld
<1> QED
  BY <1>2, <1>3, <1>4 DEF RunnerStep

\* Nobody else touches the lock or moves a runner that is inside.
LEMMA LockStep == TypeOK /\ LockIsHeld /\ [Next]_vars => LockIsHeld'
<1> SUFFICES ASSUME TypeOK, LockIsHeld, [Next]_vars PROVE LockIsHeld'
  OBVIOUS
<1>1. CASE \E r \in Runners : RunnerStep(r)
  BY <1>1, RunnerKeepsLock
<1>2. CASE \/ PassTime \/ OrphanExit \/ OrphanMail \/ StopRead \/ StopKill \/ StopReap
           \/ \E m \in Mails : SendMail(m)
  BY <1>2 DEF PassTime, OrphanExit, OrphanMail, StopRead, StopKill, StopReap, SendMail,
              run_vars, LockIsHeld
<1>3. CASE \E t \in Ticks : TickStep(t)
  BY <1>3 DEF TickStep, TickRead, TickQuiet, TickTerminate, TickEscalate, TickZombify,
              TickTell, run_vars, LockIsHeld
<1>4. CASE Sling \/ LoopTick
  BY <1>4 DEF Sling, LoopTick, Move, TypeOK, LockIsHeld
<1>5. CASE UNCHANGED vars
  BY <1>5 DEF vars, run_vars, LockIsHeld
<1> QED
  BY <1>1, <1>2, <1>3, <1>4, <1>5 DEF Next

\* The mail loop marks a message only when the turn that was given it has exited with 0, and
\* only by the runner that still holds the worker's lock: see ReadMeansDelivered.
THEOREM ReadWhenDelivered == Spec => ReadMeansDelivered
<1> DEFINE Delivered ==
      row # Absent =>
        \A m \in unread \ unread' :
          \E r \in Runners : lock = r /\ m \in batch[r] /\ "exit0" \in flags[r]
<1>1. Init => LockIsHeld
  BY DEF Init, LockIsHeld
<1>2. TypeOK /\ LockIsHeld /\ [Next]_vars => [Delivered]_vars
  <2> SUFFICES ASSUME LockIsHeld, Next, row # Absent, NEW m \in unread \ unread'
               PROVE  \E r \in Runners :
                        lock = r /\ m \in batch[r] /\ "exit0" \in flags[r]
    OBVIOUS
  <2>1. \E r \in Runners : RunnerStep(r)
    BY DEF Next, PassTime, Sling, LoopTick, OrphanExit, OrphanMail, StopRead, StopKill,
           StopReap, SendMail, TickStep, TickRead, TickQuiet, TickTerminate, TickEscalate,
           TickZombify, TickTell, inbox_vars
  <2> PICK r \in Runners : RunnerStep(r)
    BY <2>1
  <2>2. EndTurn(r)
    BY DEF RunnerStep, Acquire, LockTimeOut, SetupFails, Spawn, PublishPid, TurnThrows,
           ChildEvent, ChildMail, CutShort, ChildExit, Observe, Settle, TellParent, Crash,
           inbox_vars
  <2>3. lock = r
    BY <2>2 DEF EndTurn, LockIsHeld
  <2> QED
    BY <2>2, <2>3 DEF EndTurn
<1>3. Spec => []LockIsHeld
  <2>1. TurnInv => TypeOK
    BY DEF TurnInv
  <2> QED
    BY <1>1, <2>1, LockStep, TurnInvariant, PTL DEF Spec
<1>4. TurnInv => TypeOK
  BY DEF TurnInv
<1> QED
  BY <1>2, <1>3, <1>4, TurnInvariant, PTL DEF Spec, ReadMeansDelivered
=============================================================================
