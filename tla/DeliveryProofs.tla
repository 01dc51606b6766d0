--------------------------- MODULE DeliveryProofs ---------------------------
(***************************************************************************)
(* Proofs about TurnLock for any number of processes, pids and calls.      *)
(*                                                                         *)
(* LockInv is inductive.  Mutual exclusion follows: the leases of two live *)
(* holders name the same pid, so they run in one process, and there both   *)
(* would be first in the chain.  From it follows that every step of the    *)
(* lock is one of TurnMutex, or changes nothing that TurnMutex sees.       *)
(*                                                                         *)
(* Proofs about Mail for any agents, messages, bounds and groupings: what  *)
(* is marked as read has been given to its recipient, or was lost by a     *)
(* check that died after marking it, or is about to be printed.            *)
(***************************************************************************)
EXTENDS TurnLock, Mail, TLAPS

-----------------------------------------------------------------------------
(* The turn lock *)

\* Appending behind a non-empty chain does not change who is first.
LEMMA AppendKeepsHead ==
  ASSUME NEW S, NEW s \in Seq(S), NEW e \in S, s # <<>>
  PROVE  /\ Append(s, e) # <<>>
         /\ Head(Append(s, e)) = Head(s)
OBVIOUS

\* A process that starts or crashes keeps LockInv.
LEMMA ProcStepKeepsLockInv ==
  ASSUME LockInv, NEW p \in Procs, Start(p) \/ Crash(p)
  PROVE  LockInv'
<1> USE ConstantsAssumption DEF LockInv
<1>1. TypeOK'
  BY DEF TypeOK, Start, Crash, Alive
<1>2. LivePidsUnique'
  BY DEF LivePidsUnique, TypeOK, Start, Crash, Alive, PidAlive
<1>3. UnbornIsIdle'
  BY DEF UnbornIsIdle, TypeOK, Start, Crash, Alive
<1>4. ActiveIsFirst'
  BY DEF ActiveIsFirst, First, Start, Crash
<1>5. LeaseNamesHolder'
  BY DEF LeaseNamesHolder, Holders, MyPid, UnbornIsIdle, TypeOK,
         Start, Crash, Alive
<1> QED BY <1>1, <1>2, <1>3, <1>4, <1>5

\* A step that unchains the first call of its process, and that ends its
\* activity, leaves every other active call first in its own chain.
LEMMA UnchainKeepsOthersFirst ==
  ASSUME LockInv, NEW c \in Calls, First(c), Unchain(c),
         NEW s \in {"released", "failed"}, pc' = [pc EXCEPT ![c] = s]
  PROVE  /\ chain' \in [Procs -> Seq(Calls)]
         /\ ActiveIsFirst'
<1> USE ConstantsAssumption DEF LockInv, TypeOK
<1>1. chain' \in [Procs -> Seq(Calls)]
  <2>1. ProcOf[c] \in Procs /\ chain[ProcOf[c]] \in Seq(Calls)
    OBVIOUS
  <2>2. Tail(chain[ProcOf[c]]) \in Seq(Calls)
    BY <2>1 DEF First
  <2> QED BY <2>1, <2>2 DEF Unchain
<1>2. ASSUME NEW d \in Calls, pc'[d] \in {"polling", "holding"}
      PROVE  First(d)'
  <2>1. d # c /\ First(d)
    BY <1>2 DEF ActiveIsFirst
  <2>2. ProcOf[d] # ProcOf[c]
    BY <2>1 DEF First
  <2> QED BY <2>1, <2>2 DEF First, Unchain
<1> QED BY <1>1, <1>2 DEF ActiveIsFirst

\* Two active calls of one process are the same call.
LEMMA OneActivePerProcess ==
  ASSUME LockInv, NEW c \in Calls, NEW d \in Calls,
         pc[c] \in {"polling", "holding"}, pc[d] \in {"polling", "holding"},
         ProcOf[c] = ProcOf[d]
  PROVE  c = d
BY DEF LockInv, ActiveIsFirst, First

\* Every step of a call keeps LockInv.
LEMMA CallStepKeepsLockInv ==
  ASSUME LockInv, NEW c \in Calls, CallStep(c)
  PROVE  LockInv'
<1> USE ConstantsAssumption DEF LockInv
<1>1. CASE Enter(c)
  <2> USE <1>1
  <2>1. TypeOK'
    BY DEF Enter, TypeOK, Phases
  <2>2. LivePidsUnique' /\ UnbornIsIdle' /\ LeaseNamesHolder'
    BY DEF Enter, TypeOK, LivePidsUnique, UnbornIsIdle, LeaseNamesHolder,
           Holders, MyPid, Alive
  <2>3. ActiveIsFirst'
    <3> SUFFICES ASSUME NEW d \in Calls, pc'[d] \in {"polling", "holding"}
                 PROVE  First(d)'
      BY DEF ActiveIsFirst
    <3>1. d # c /\ First(d)
      BY DEF Enter, TypeOK, ActiveIsFirst
    <3>2. CASE ProcOf[d] = ProcOf[c]
      <4> DEFINE s == chain[ProcOf[c]]
      <4>1. s \in Seq(Calls) /\ s # <<>> /\ Head(s) = d
        BY <3>1, <3>2 DEF TypeOK, First
      <4>2. Append(s, c) # <<>> /\ Head(Append(s, c)) = Head(s)
        BY <4>1, AppendKeepsHead
      <4>3. chain'[ProcOf[d]] = Append(s, c)
        BY <3>2 DEF Enter, TypeOK
      <4> QED BY <4>1, <4>2, <4>3 DEF First
    <3>3. CASE ProcOf[d] # ProcOf[c]
      BY <3>1, <3>3 DEF Enter, TypeOK, First
    <3> QED BY <3>2, <3>3
  <2> QED BY <2>1, <2>2, <2>3
<1>2. CASE Open(c)
  BY <1>2 DEF Open, TypeOK, Phases, LivePidsUnique, UnbornIsIdle,
              ActiveIsFirst, First, LeaseNamesHolder, Holders, MyPid, Alive
<1>3. CASE OpenFails(c)
  BY <1>3 DEF OpenFails, TypeOK, Phases, LivePidsUnique, UnbornIsIdle,
              ActiveIsFirst, First, LeaseNamesHolder, Holders, MyPid, Alive
<1>4. CASE Expire(c)
  BY <1>4 DEF Expire, TypeOK, LivePidsUnique, UnbornIsIdle,
              ActiveIsFirst, First, LeaseNamesHolder, Holders, MyPid, Alive
<1>5. CASE Claim(c)
  <2> USE <1>5
  <2>1. TypeOK' /\ LivePidsUnique' /\ UnbornIsIdle' /\ ActiveIsFirst'
    BY DEF Claim, TypeOK, Phases, MyPid, LivePidsUnique, UnbornIsIdle,
           ActiveIsFirst, First, Alive
  <2>2. LeaseNamesHolder'
    \* Any other live holder d would hold a lease with a live pid: the row was
    \* claimable, so that pid is ours, d runs in our process and d = c.
    <3> SUFFICES ASSUME NEW d \in Calls, d # c, pc[d] = "holding",
                        Alive(ProcOf[d])
                 PROVE  FALSE
      BY DEF LeaseNamesHolder, Holders, Claim, TypeOK, MyPid, Alive
    <3>1. heldBy = MyPid(d)
      BY DEF LeaseNamesHolder, Holders
    <3>2. heldBy # NoPid /\ PidAlive(heldBy)
      BY <3>1 DEF MyPid, PidAlive
    <3>3. MyPid(c) = MyPid(d)
      BY <3>1, <3>2 DEF Claim, Claimable
    <3>4. ProcOf[c] = ProcOf[d]
      BY <3>3 DEF Claim, LivePidsUnique, MyPid
    <3> QED BY <3>4, OneActivePerProcess DEF Claim
  <2> QED BY <2>1, <2>2
<1>6. CASE TimeOut(c)
  <2> USE <1>6
  <2>1. First(c)
    BY DEF TimeOut, ActiveIsFirst
  <2>2. chain' \in [Procs -> Seq(Calls)] /\ ActiveIsFirst'
    BY <2>1, UnchainKeepsOthersFirst DEF TimeOut
  <2> QED
    BY <2>2 DEF TimeOut, TypeOK, Phases, LivePidsUnique, UnbornIsIdle,
                LeaseNamesHolder, Holders, MyPid, Alive
<1>7. CASE TxFails(c)
  <2> USE <1>7
  <2>1. First(c)
    BY DEF TxFails, ActiveIsFirst
  <2>2. chain' \in [Procs -> Seq(Calls)] /\ ActiveIsFirst'
    BY <2>1, UnchainKeepsOthersFirst DEF TxFails
  <2> QED
    BY <2>2 DEF TxFails, TypeOK, Phases, LivePidsUnique, UnbornIsIdle,
                LeaseNamesHolder, Holders, MyPid, Alive
<1>8. ASSUME NEW swallowed \in BOOLEAN, Release(c, swallowed)
      PROVE  LockInv'
  <2> USE <1>8
  <2>1. First(c)
    BY DEF Release, ActiveIsFirst
  <2>2. chain' \in [Procs -> Seq(Calls)] /\ ActiveIsFirst'
    BY <2>1, UnchainKeepsOthersFirst DEF Release
  <2>3. TypeOK' /\ LivePidsUnique' /\ UnbornIsIdle'
    BY <2>2 DEF Release, TypeOK, Phases, LivePidsUnique, UnbornIsIdle, Alive
  <2>4. LeaseNamesHolder'
    \* No other call holds: its lease would name our pid, as ours does.
    <3> SUFFICES ASSUME NEW d \in Calls, d # c, pc[d] = "holding",
                        Alive(ProcOf[d])
                 PROVE  FALSE
      BY DEF LeaseNamesHolder, Holders, Release, TypeOK, Alive
    <3>1. MyPid(c) = MyPid(d)
      BY DEF LeaseNamesHolder, Holders, Release
    <3>2. ProcOf[c] = ProcOf[d]
      BY <3>1 DEF Release, LivePidsUnique, MyPid
    <3> QED BY <3>2, OneActivePerProcess DEF Release
  <2> QED BY <2>2, <2>3, <2>4
<1> QED BY <1>1, <1>2, <1>3, <1>4, <1>5, <1>6, <1>7, <1>8 DEF CallStep

\* LockInv holds in every reachable state: types, unique live pids, and the
\* intact lease of whoever runs a turn.
THEOREM LockInvariant == LockSpec => []LockInv
<1>1. LockInit => LockInv
  BY ConstantsAssumption
     DEF LockInit, LockInv, TypeOK, Phases, LivePidsUnique, UnbornIsIdle,
         ActiveIsFirst, LeaseNamesHolder, Holders, Alive
<1>2. LockInv /\ [LockNext]_lockVars => LockInv'
  <2> SUFFICES ASSUME LockInv, [LockNext]_lockVars PROVE LockInv'
    OBVIOUS
  <2>1. CASE LockNext
    BY <2>1, ProcStepKeepsLockInv, CallStepKeepsLockInv DEF LockNext
  <2>2. CASE UNCHANGED lockVars
    BY <2>2 DEF lockVars, LockInv, TypeOK, LivePidsUnique, UnbornIsIdle,
                ActiveIsFirst, First, LeaseNamesHolder, Holders, MyPid, Alive
  <2> QED BY <2>1, <2>2
<1> QED BY <1>1, <1>2, PTL DEF LockSpec

\* The step from the inductive invariant to the property.
LEMMA LockInvExcludes == LockInv => MutualExclusion
<1> SUFFICES ASSUME LockInv, NEW c \in Holders, NEW d \in Holders
             PROVE  c = d
  BY DEF MutualExclusion
<1>1. c \in Calls /\ d \in Calls /\ pc[c] = "holding" /\ pc[d] = "holding"
  BY DEF Holders
<1>2. ProcOf[c] = ProcOf[d]
  BY ConstantsAssumption
     DEF LockInv, LeaseNamesHolder, LivePidsUnique, Holders, MyPid
<1> QED BY <1>1, <1>2, OneActivePerProcess

\* Two turns of one agent never overlap, whatever crashes, times out, fails or
\* reuses a pid.
THEOREM TurnsNeverOverlap == LockSpec => []MutualExclusion
BY LockInvariant, LockInvExcludes, PTL

-----------------------------------------------------------------------------
(* The refinement of TurnMutex *)

\* Before a call has been made nobody holds the lock or was served.
LEMMA InitRefines == LockInit => Mutex!Init
  BY DEF LockInit, Mutex!Init, Holders, Served

\* A start of a process is not seen; a crash is, if it takes the holder away.
LEMMA ProcStepRefines ==
  ASSUME LockInv, NEW p \in Procs, Start(p) \/ Crash(p)
  PROVE  Mutex!Drop \/ UNCHANGED <<Holders, Served>>
<1>1. Served' = Served
  BY DEF Start, Crash, Served
<1>2. MutualExclusion
  BY LockInvExcludes
<1>3. CASE Start(p)
  <2>1. \A c \in Calls : pc[c] = "holding" => ProcOf[c] # p
    BY <1>3 DEF LockInv, UnbornIsIdle, Start
  <2>2. \A c \in Calls : pc[c] = "holding" => Alive(ProcOf[c])' = Alive(ProcOf[c])
    BY <1>3, <2>1, ConstantsAssumption DEF Start, Alive, LockInv, TypeOK
  <2>3. Holders' = Holders
    BY <1>3, <2>2 DEF Start, Holders
  <2> QED
    BY <1>1, <2>3
<1>4. CASE Crash(p)
  <2>1. Holders' = {c \in Holders : ProcOf[c] # p}
    BY <1>4, ConstantsAssumption DEF Crash, Alive, LockInv, TypeOK, Holders
  <2>2. CASE \E c \in Holders : ProcOf[c] = p
    <3>1. Holders # {} /\ Holders' = {}
      BY <1>2, <2>1, <2>2 DEF MutualExclusion
    <3> QED
      BY <1>1, <3>1 DEF Mutex!Drop
  <2>3. CASE ~ \E c \in Holders : ProcOf[c] = p
    BY <1>1, <2>1, <2>3
  <2> QED
    BY <2>2, <2>3
<1> QED
  BY <1>3, <1>4

\* A claim is a grant, a release drops the lock, and what comes before, between and
\* instead of them is not seen.
LEMMA CallStepRefines ==
  ASSUME LockInv, LockInv', NEW c \in Calls, CallStep(c)
  PROVE  Mutex!Grant(c) \/ Mutex!Drop \/ UNCHANGED <<Holders, Served>>
<1> USE DEF LockInv, TypeOK, Holders, Served, Alive
<1>1. CASE Enter(c) \/ Open(c) \/ OpenFails(c) \/ Expire(c) \/ TimeOut(c) \/ TxFails(c)
  <2>1. life' = life
    BY <1>1 DEF Enter, Open, OpenFails, Expire, TimeOut, TxFails
  <2>2. \A d \in Calls :
          \/ pc'[d] = pc[d]
          \/ {pc[d], pc'[d]} \cap {"holding", "released"} = {}
    BY <1>1 DEF Enter, Open, OpenFails, Expire, TimeOut, TxFails
  <2> QED
    BY <2>1, <2>2
<1>2. CASE Claim(c)
  <2>1. MutualExclusion'
    BY LockInvExcludes, PTL
  <2>2. /\ Holders' = Holders \cup {c} /\ c \notin Holders
        /\ Served' = Served \cup {c} /\ c \notin Served
    BY <1>2 DEF Claim
  <2>3. Holders = {}
    BY <2>1, <2>2 DEF MutualExclusion
  <2> QED
    BY <2>2, <2>3 DEF Mutex!Grant
<1>3. ASSUME NEW swallowed \in BOOLEAN, Release(c, swallowed)
      PROVE  Mutex!Drop
  <2>1. MutualExclusion
    BY LockInvExcludes
  <2>2. c \in Holders /\ Holders' = Holders \ {c} /\ Served' = Served
    BY <1>3 DEF Release
  <2> QED
    BY <2>1, <2>2 DEF MutualExclusion, Mutex!Drop
<1> QED
  BY <1>1, <1>2, <1>3 DEF CallStep

\* Processes, transactions and the chain implement the abstract mutex: the lock is
\* handed over only through a moment without a live holder, and no call is served twice.
THEOREM LockImplementsMutex == LockSpec => ImplementsMutex
<1>1. LockInv /\ LockInv' /\ [LockNext]_lockVars => [Mutex!Next]_(Mutex!vars)
  <2> SUFFICES ASSUME LockInv, LockInv', [LockNext]_lockVars
               PROVE  Mutex!Next \/ UNCHANGED <<Holders, Served>>
    BY DEF Mutex!vars
  <2>1. CASE \E p \in Procs : Start(p) \/ Crash(p)
    BY <2>1, ProcStepRefines DEF Mutex!Next
  <2>2. CASE \E c \in Calls : CallStep(c)
    BY <2>2, CallStepRefines DEF Mutex!Next
  <2>3. CASE UNCHANGED lockVars
    BY <2>3 DEF lockVars, Holders, Served, Alive
  <2> QED
    BY <2>1, <2>2, <2>3 DEF LockNext
<1> QED
  BY <1>1, InitRefines, LockInvariant, PTL DEF LockSpec, ImplementsMutex, Mutex!Spec

-----------------------------------------------------------------------------
(* Mail *)

\* The shapes of what the proofs look into.
Flight == [agent : Agents, mine : BOOLEAN, ids : SUBSET Messages,
           phase : {"given", "marking"}]

Typed ==
  /\ box \in [Messages -> {"none", "unread", "read", "gone"}]
  /\ to \in [Messages -> Agents \cup {None}]
  /\ got \subseteq Messages /\ lost \subseteq Messages
  /\ clerk \subseteq Agents
  /\ flights \subseteq Flight
  /\ prompts \subseteq [agent : Agents, ids : SUBSET Messages]
  /\ check \in [Agents -> [show : SUBSET Messages, mark : SUBSET Messages]]

\* A message that is there has a recipient.
Addressed == \A m \in Messages : box[m] \in {"unread", "read"} => to[m] \in Agents

\* What a batch is still to mark has been given to its agent, or is gone.
BatchesGiven ==
  \A f \in flights : f.phase = "marking" =>
    \A m \in f.ids : box[m] = "gone" \/ m \in got

\* A check prints what was sent to its agent, and marks nothing else.
ChecksOwn ==
  \A a \in Agents :
    /\ check[a].mark \subseteq check[a].show
    /\ \A m \in check[a].show :
         box[m] = "gone" \/ (box[m] \in {"unread", "read"} /\ to[m] = a)

\* What is read was given or lost, or a check has marked it and has yet to print it,
\* or it is in a first prompt on the way: ReadIsGiven, and more, since a check that
\* dies accounts only for what it marked.
ReadAccounted ==
  \A m \in Messages : box[m] = "read" =>
    \/ m \in got \cup lost
    \/ m \in check[to[m]].show \ check[to[m]].mark
    \/ \E p \in prompts : m \in p.ids

\* The inductive invariant.
MailInv == Typed /\ Addressed /\ BatchesGiven /\ ChecksOwn /\ ReadAccounted

-----------------------------------------------------------------------------
(* Batches *)

\* Whose mail is on the way: nothing is newly being marked.
NoNewMarking ==
  /\ flights' \subseteq Flight
  /\ \A g \in flights' : g.phase = "marking" =>
       \E f \in flights : f.phase = "marking" /\ g.ids \subseteq f.ids

\* An agent's loop ends: its batch goes on by itself.
LEMMA Disowned ==
  ASSUME NEW f \in Flight
  PROVE  LET g == [f EXCEPT !.mine = FALSE]
         IN  g \in Flight /\ g.phase = f.phase /\ g.ids = f.ids
  BY DEF Flight

\* A scan marks nothing.
LEMMA ScanMarksNothing ==
  ASSUME Typed, NEW connected, NEW loops, NEW timers, NEW batches \in SUBSET flights,
         Scanned(connected, loops, timers, batches)
  PROVE  NoNewMarking
<1> PICK old : flights' = {IF f.agent \in old THEN [f EXCEPT !.mine = FALSE] ELSE f
                             : f \in batches}
  BY DEF Scanned
<1>1. ASSUME NEW g \in flights'
      PROVE  g \in Flight /\ \E f \in flights : g.phase = f.phase /\ g.ids = f.ids
  <2> PICK f \in batches : g = IF f.agent \in old THEN [f EXCEPT !.mine = FALSE] ELSE f
    BY <1>1
  <2>1. f \in flights /\ f \in Flight
    BY DEF Typed
  <2> QED
    BY <2>1, Disowned
<1> QED
  BY <1>1 DEF NoNewMarking

-----------------------------------------------------------------------------
(* The steps *)

\* Steps about agents, loops, connections and the clerk: no message and no check
\* changes, and nothing is newly being marked.
Aside == UNCHANGED <<mailVars, prompts, check>> /\ clerk' \subseteq Agents /\ NoNewMarking

LEMMA AsideKeeps ==
  ASSUME MailInv, Aside
  PROVE  MailInv'
<1> USE DEF MailInv, Aside, mailVars, NoNewMarking
<1>1. Typed'
  BY DEF Typed
<1>2. BatchesGiven'
  BY DEF BatchesGiven
<1>3. Addressed' /\ ChecksOwn' /\ ReadAccounted'
  BY DEF Addressed, ChecksOwn, ReadAccounted
<1> QED
  BY <1>1, <1>2, <1>3

LEMMA AsideSteps ==
  ASSUME MailInv,
         \/ \E a \in Agents : EndSession(a) \/ Ticking(a) \/ Connect(a)
         \/ SendCheck \/ Serving \/ ServeDies
         \/ \E f \in flights : HandOverFails(f)
         \/ UNCHANGED vars
  PROVE  Aside
<1>0. /\ flights \subseteq Flight /\ clerk \subseteq Agents
      /\ \A batches \in SUBSET flights : flights' = batches => NoNewMarking
  BY DEF MailInv, Typed, NoNewMarking
<1>1. CASE \E a \in Agents : EndSession(a) \/ Connect(a) \/ TickStops(a)
  BY <1>0, <1>1 DEF Aside, EndSession, Connect, TickStops, serveVars, mailVars
<1>2. CASE \E a \in Agents : TickReads(a)
  <2> PICK a \in Agents : TickReads(a)
    BY <1>2
  <2> DEFINE new == [agent |-> a, mine |-> TRUE, ids |-> Unread(a), phase |-> "given"]
  <2>1. new \in Flight /\ new.phase = "given"
    BY DEF Flight, Unread
  <2>2. flights' = flights \cup {new}
    BY DEF TickReads
  <2> HIDE DEF new
  <2>3. NoNewMarking
    BY <1>0, <2>1, <2>2 DEF NoNewMarking
  <2> QED
    BY <1>0, <2>3 DEF TickReads, Aside, mailVars
<1>3. CASE SendCheck
  <2>1. clerk' \subseteq Agents
    BY <1>3 DEF SendCheck, Group
  <2> QED
    BY <1>0, <1>3, <2>1 DEF SendCheck, Aside, serveVars, mailVars
<1>4. CASE Serving
  <2>1. NoNewMarking
    <3>1. {} \in SUBSET flights /\ flights \in SUBSET flights /\ Typed
      BY DEF MailInv
    <3> QED
      BY <1>4, <3>1, ScanMarksNothing DEF Serving, ServeStart, Scan
  <2> QED
    BY <1>0, <1>4, <2>1 DEF Serving, ServeStart, Scan, Aside, mailVars
<1>5. CASE ServeDies
  BY <1>0, <1>5 DEF ServeDies, Aside, mailVars
<1>6. CASE \E f \in flights : HandOverFails(f)
  BY <1>0, <1>6 DEF HandOverFails, Aside, mailVars
<1>7. CASE UNCHANGED vars
  BY <1>0, <1>7 DEF vars, Aside, mailVars, serveVars
<1> QED
  BY <1>1, <1>2, <1>3, <1>4, <1>5, <1>6, <1>7 DEF Ticking

\* Sending: a message that was not there is unread, and has a recipient.
LEMMA InsertKeeps ==
  ASSUME MailInv, NEW m \in Messages, NEW a \in Agents, Insert(m, a),
         clerk' \subseteq clerk, UNCHANGED <<flights, prompts, check>>
  PROVE  MailInv'
<1> USE DEF MailInv, Insert
<1>1. Typed'
  BY DEF Typed
<1>2. /\ box'[m] = "unread" /\ to'[m] = a
      /\ \A n \in Messages \ {m} : box'[n] = box[n] /\ to'[n] = to[n]
  BY DEF Typed
<1>3. Addressed'
  BY <1>2 DEF Addressed
<1>4. BatchesGiven'
  BY <1>2 DEF BatchesGiven, Typed, Flight
<1>5. ChecksOwn'
  BY <1>2 DEF ChecksOwn, Typed
<1>6. ReadAccounted'
  BY <1>2 DEF ReadAccounted
<1> QED
  BY <1>1, <1>3, <1>4, <1>5, <1>6

LEMMA SendKeeps ==
  ASSUME MailInv,
         \/ \E m \in Messages : SendOne(m)
         \/ \E m \in Messages, a \in Agents : SendByApi(m, a)
         \/ \E m, n \in Messages : Reply(m, n)
  PROVE  MailInv'
<1>1. CASE \E m \in Messages : SendOne(m)
  <2> PICK m \in Messages, a \in Agents : Insert(m, a) /\ SendOne(m)
    BY <1>1 DEF SendOne, MailInv, Typed
  <2>1. clerk' \subseteq clerk /\ UNCHANGED <<flights, prompts, check>>
    BY DEF SendOne, serveVars
  <2> QED
    BY <2>1, InsertKeeps
<1>2. CASE \E m \in Messages, a \in Agents : SendByApi(m, a)
  BY <1>2, InsertKeeps DEF SendByApi, serveVars
<1>3. CASE \E m, n \in Messages : Reply(m, n)
  <2> PICK m \in Messages, n \in Messages : Reply(m, n)
    BY <1>3
  <2> PICK from \in Agents, sender \in Agents : Insert(n, ReplyTo(m, from, sender))
    BY DEF Reply
  <2>1. ReplyTo(m, from, sender) \in Agents
    BY DEF Reply, ReplyTo, MailInv, Addressed
  <2> QED
    BY <2>1, InsertKeeps DEF Reply, serveVars
<1> QED
  BY <1>1, <1>2, <1>3

\* What is purged needs no account.
LEMMA PurgeKeeps ==
  ASSUME MailInv, Purge
  PROVE  MailInv'
<1> USE DEF MailInv
<1> PICK ms \in SUBSET Messages :
      /\ box' = [m \in Messages |-> IF m \in ms THEN "gone" ELSE box[m]]
      /\ to' = [m \in Messages |-> IF m \in ms THEN None ELSE to[m]]
      /\ got' = got \ ms /\ lost' = lost \ ms
  BY DEF Purge
<1>1. UNCHANGED <<clerk, flights, prompts, check>>
  BY DEF Purge, serveVars
<1>2. Typed'
  BY <1>1 DEF Typed
<1>3. Addressed'
  BY DEF Addressed
<1>4. BatchesGiven'
  BY <1>1 DEF BatchesGiven, Typed, Flight
<1>5. ChecksOwn'
  BY <1>1 DEF ChecksOwn, Typed
<1>6. ReadAccounted'
  BY <1>1 DEF ReadAccounted
<1> QED
  BY <1>2, <1>3, <1>4, <1>5, <1>6

\* A batch is handed over: what is left of it counts as given, and only then is it
\* marked.
LEMMA HandOverKeeps ==
  ASSUME MailInv, NEW f \in flights, HandOver(f)
  PROVE  MailInv'
<1> USE DEF MailInv
<1> DEFINE g == [f EXCEPT !.phase = "marking"]
<1>1. f \in Flight
  BY DEF Typed
<1>2. g \in Flight /\ g.ids = f.ids
  BY <1>1 DEF Flight
<1>3. /\ flights' = (flights \ {f}) \cup {g}
      /\ got' = got \cup Kept(f.ids)
      /\ UNCHANGED <<box, to, lost, clerk, prompts, check>>
  BY DEF HandOver
<1> HIDE DEF g
<1>4. Kept(f.ids) \subseteq Messages /\ \A m \in f.ids : box[m] = "gone" \/ m \in Kept(f.ids)
  BY <1>1 DEF Kept, Flight
<1>5. Typed'
  BY <1>2, <1>3, <1>4 DEF Typed
<1>6. BatchesGiven'
  BY <1>2, <1>3, <1>4 DEF BatchesGiven
<1>7. Addressed' /\ ChecksOwn'
  BY <1>3 DEF Addressed, ChecksOwn
<1>8. ReadAccounted'
  BY <1>3 DEF ReadAccounted
<1> QED
  BY <1>5, <1>6, <1>7, <1>8

\* What marking one message does to the mailbox.
LEMMA ReadEffect ==
  ASSUME Typed, NEW m \in Messages, Read(m)
  PROVE  /\ box' \in [Messages -> {"none", "unread", "read", "gone"}]
         /\ \A n \in Messages \ {m} : box'[n] = box[n]
         /\ box'[m] = IF box[m] = "unread" THEN "read" ELSE box[m]
  BY DEF Typed, Read

\* The loop marks one message of a batch that was given.
LEMMA MarkOneKeeps ==
  ASSUME MailInv, NEW f \in flights, MarkOne(f)
  PROVE  MailInv'
<1> USE DEF MailInv
<1>1. f \in Flight /\ f.phase = "marking"
  BY DEF Typed, MarkOne
<1> PICK m \in f.ids :
      /\ Read(m)
      /\ flights' = (flights \ {f})
                      \cup (IF f.ids = {m} THEN {} ELSE {[f EXCEPT !.ids = @ \ {m}]})
  BY DEF MarkOne
<1> DEFINE g == [f EXCEPT !.ids = @ \ {m}]
<1>2. m \in Messages
  BY <1>1 DEF Flight
<1>3. g \in Flight /\ g.ids \subseteq f.ids
  BY <1>1 DEF Flight
<1>4. flights' \subseteq flights \cup {g}
  OBVIOUS
<1> HIDE DEF g
<1>5. UNCHANGED <<to, got, lost, clerk, prompts, check>>
  BY DEF MarkOne
<1>6. Typed'
  BY <1>2, <1>3, <1>4, <1>5, ReadEffect DEF Typed
<1>7. BatchesGiven'
  <2>1. \A h \in flights' : h.phase = "marking" =>
          \E h0 \in flights : h0.phase = "marking" /\ h.ids \subseteq h0.ids
    BY <1>1, <1>3, <1>4
  <2>2. \A n \in Messages : box[n] = "gone" => box'[n] = "gone"
    BY <1>2, ReadEffect
  <2> QED
    BY <1>5, <2>1, <2>2 DEF BatchesGiven, Typed, Flight
<1>8. Addressed' /\ ChecksOwn'
  BY <1>2, <1>5, ReadEffect DEF Addressed, ChecksOwn, Typed
<1>9. ReadAccounted'
  <2>1. box[m] = "gone" \/ m \in got
    BY <1>1 DEF BatchesGiven
  <2> QED
    BY <1>2, <1>5, <2>1, ReadEffect DEF ReadAccounted
<1> QED
  BY <1>6, <1>7, <1>8, <1>9

-----------------------------------------------------------------------------
(* The checks *)

\* A check takes all that is unread of its agent.
LEMMA CheckBeginsKeeps ==
  ASSUME MailInv, NEW a \in Agents, CheckBegins(a)
  PROVE  MailInv'
<1> USE DEF MailInv
<1> DEFINE c == [show |-> Unread(a), mark |-> Unread(a)]
<1>1. c \in [show : SUBSET Messages, mark : SUBSET Messages] /\ c.show = Unread(a) /\ c.mark = c.show
  BY DEF Unread
<1>2. check' = [check EXCEPT ![a] = c] /\ UNCHANGED <<mailVars, clerk, prompts, flights>>
  BY DEF CheckBegins, serveVars
<1>3. check[a].show = {}
  BY DEF CheckBegins, NoCheck
<1> HIDE DEF c
<1>4. Typed'
  BY <1>1, <1>2 DEF Typed, mailVars
<1>5. BatchesGiven' /\ Addressed'
  BY <1>2 DEF BatchesGiven, Addressed, mailVars
<1>6. check'[a] = c /\ \A b \in Agents \ {a} : check'[b] = check[b]
  BY <1>2 DEF Typed
<1>7. ChecksOwn'
  BY <1>1, <1>2, <1>6 DEF ChecksOwn, Unread, mailVars
<1>8. ReadAccounted'
  BY <1>2, <1>3, <1>6 DEF ReadAccounted, Addressed, mailVars
<1> QED
  BY <1>4, <1>5, <1>7, <1>8

\* It marks one message that it is to print.
LEMMA CheckMarksKeeps ==
  ASSUME MailInv, NEW a \in Agents, CheckMarks(a)
  PROVE  MailInv'
<1> USE DEF MailInv
<1> PICK m \in check[a].mark :
      Read(m) /\ check' = [check EXCEPT ![a].mark = @ \ {m}]
  BY DEF CheckMarks
<1>1. UNCHANGED <<to, got, lost, clerk, prompts, flights>>
  BY DEF CheckMarks, serveVars
<1>2. check[a] \in [show : SUBSET Messages, mark : SUBSET Messages] /\ m \in Messages
  BY DEF Typed
<1>3. /\ check' \in [Agents -> [show : SUBSET Messages, mark : SUBSET Messages]]
      /\ check'[a].show = check[a].show /\ check'[a].mark = check[a].mark \ {m}
      /\ \A b \in Agents \ {a} : check'[b] = check[b]
  BY <1>2 DEF Typed
<1>4. Typed'
  BY <1>1, <1>2, <1>3, ReadEffect DEF Typed
<1>5. BatchesGiven'
  BY <1>1, <1>2, ReadEffect DEF BatchesGiven, Typed, Flight
<1>6. Addressed' /\ ChecksOwn'
  BY <1>1, <1>2, <1>3, ReadEffect DEF Addressed, ChecksOwn, Typed
<1>7. ReadAccounted'
  BY <1>1, <1>2, <1>3, ReadEffect DEF ReadAccounted, ChecksOwn, Addressed
<1> QED
  BY <1>4, <1>5, <1>6, <1>7

\* It prints, or dies over what it has marked.
LEMMA CheckEndsKeeps ==
  ASSUME MailInv, NEW a \in Agents, CheckPrints(a) \/ CheckDies(a)
  PROVE  MailInv'
<1> USE DEF MailInv
<1>1. /\ check' = [check EXCEPT ![a] = NoCheck]
      /\ UNCHANGED <<box, to, clerk, prompts, flights>>
      /\ got \subseteq got' /\ lost \subseteq lost'
  BY DEF CheckPrints, CheckDies, serveVars
<1>2. check[a] \in [show : SUBSET Messages, mark : SUBSET Messages]
  BY DEF Typed
<1>3. got' \subseteq Messages /\ lost' \subseteq Messages
  BY <1>2 DEF CheckPrints, CheckDies, Kept, Typed
<1>4. /\ check' \in [Agents -> [show : SUBSET Messages, mark : SUBSET Messages]]
      /\ check'[a].show = {} /\ check'[a].mark = {}
      /\ \A b \in Agents \ {a} : check'[b] = check[b]
  BY <1>1 DEF Typed, NoCheck
<1>5. Typed'
  BY <1>1, <1>3, <1>4 DEF Typed
<1>6. BatchesGiven' /\ Addressed'
  BY <1>1 DEF BatchesGiven, Addressed
<1>7. ChecksOwn'
  BY <1>1, <1>4 DEF ChecksOwn
<1>8. \A m \in check[a].show \ check[a].mark : box[m] = "gone" \/ m \in got' \cup lost'
  BY DEF CheckPrints, CheckDies, Kept
<1>9. ReadAccounted'
  BY <1>1, <1>4, <1>8 DEF ReadAccounted, Addressed
<1> QED
  BY <1>5, <1>6, <1>7, <1>9

-----------------------------------------------------------------------------
(* The first prompts *)

\* What waits for a name is marked, and is on its way in a prompt.
LEMMA SlingKeeps ==
  ASSUME MailInv, NEW a \in Agents, Sling(a)
  PROVE  MailInv'
<1> USE DEF MailInv
<1>1. UNCHANGED <<to, got, lost, clerk, flights, check>>
  BY DEF Sling, serveVars
<1>2. CASE UNCHANGED <<box, prompts>>
  BY <1>1, <1>2 DEF Typed, Addressed, BatchesGiven, ChecksOwn, ReadAccounted
<1>3. CASE Collected(a)
  <2> DEFINE p == [agent |-> a, ids |-> Unread(a)]
  <2>1. p \in [agent : Agents, ids : SUBSET Messages] /\ p.ids = Unread(a)
    BY DEF Unread
  <2>2. prompts' = prompts \cup {p} /\ box' = [m \in Messages |-> IF m \in Unread(a) THEN "read" ELSE box[m]]
    BY <1>3 DEF Collected
  <2> HIDE DEF p
  <2>3. \A m \in Messages : \/ box'[m] = box[m]
                            \/ box[m] = "unread" /\ box'[m] = "read" /\ m \in p.ids
    BY <2>1, <2>2 DEF Unread
  <2>4. Typed'
    BY <1>1, <2>1, <2>2 DEF Typed
  <2>5. Addressed' /\ BatchesGiven'
    BY <1>1, <2>3 DEF Addressed, BatchesGiven, Typed, Flight
  <2>6. ChecksOwn'
    BY <1>1, <2>3 DEF ChecksOwn, Typed
  <2>7. ReadAccounted'
    BY <1>1, <2>2, <2>3 DEF ReadAccounted
  <2> QED
    BY <2>4, <2>5, <2>6, <2>7
<1> QED
  BY <1>2, <1>3 DEF Sling

\* A prompt is given or fails: what it held is accounted for.
LEMMA PromptEndsKeeps ==
  ASSUME MailInv, NEW p \in prompts, PromptGiven(p) \/ PromptFails(p)
  PROVE  MailInv'
<1> USE DEF MailInv
<1>1. /\ prompts' = prompts \ {p} /\ got \subseteq got' /\ lost \subseteq lost'
      /\ Kept(p.ids) \subseteq got' \cup lost'
      /\ UNCHANGED <<box, to, clerk, flights, check>>
  BY DEF PromptGiven, PromptFails, serveVars
<1>2. p.ids \subseteq Messages
  BY DEF Typed
<1>3. got' \subseteq Messages /\ lost' \subseteq Messages
  BY <1>2 DEF PromptGiven, PromptFails, Kept, Typed
<1>4. Typed'
  BY <1>1, <1>3 DEF Typed
<1>5. Addressed' /\ BatchesGiven' /\ ChecksOwn'
  BY <1>1 DEF Addressed, BatchesGiven, ChecksOwn
<1>6. ReadAccounted'
  BY <1>1, <1>2 DEF ReadAccounted, Kept
<1> QED
  BY <1>4, <1>5, <1>6

-----------------------------------------------------------------------------
(* The theorems *)

LEMMA MailStep == MailInv /\ [Next]_vars => MailInv'
<1> SUFFICES ASSUME MailInv, [Next]_vars PROVE MailInv'
  OBVIOUS
<1>1. CASE \/ \E a \in Agents : EndSession(a) \/ Ticking(a)
           \/ \E a \in HeadAgents : Connect(a)
           \/ SendCheck \/ Serving \/ ServeDies
           \/ \E f \in flights : HandOverFails(f)
           \/ UNCHANGED vars
  BY <1>1, AsideSteps, AsideKeeps DEF Agents
<1>2. CASE \E a \in Agents : Settling(a) \/ Marking(a)
  BY <1>1, <1>2, HandOverKeeps, MarkOneKeeps DEF Settling, Marking, Batches
<1>3. CASE \E a \in Agents : Checking(a) \/ CheckDies(a)
  BY <1>3, CheckBeginsKeeps, CheckMarksKeeps, CheckEndsKeeps DEF Checking
<1>4. CASE \/ \E m \in Messages : SendOne(m)
           \/ \E m \in Messages, a \in Agents : SendByApi(m, a)
           \/ \E m, n \in Messages : Reply(m, n)
  BY <1>4, SendKeeps
<1>5. CASE Purge
  BY <1>5, PurgeKeeps
<1>6. CASE \/ \E a \in Agents : Sling(a)
           \/ \E p \in prompts : PromptGiven(p) \/ PromptFails(p)
  BY <1>6, SlingKeeps, PromptEndsKeeps
<1> QED
  BY <1>1, <1>2, <1>3, <1>4, <1>5, <1>6 DEF Next, Clerk

\* The invariant holds whatever senders, loops, checks, purges and deaths do.
THEOREM MailInvHolds == Spec => []MailInv
<1>1. Init => MailInv
  BY DEF Init, NoCheck, MailInv, Typed, Addressed, BatchesGiven, ChecksOwn,
         ReadAccounted
<1> QED
  BY <1>1, MailStep, PTL DEF Spec

\* No message is marked as read behind its recipient's back: see ReadIsGiven.
THEOREM NothingReadUngiven == Spec => []ReadIsGiven
<1>1. MailInv => ReadIsGiven
  BY DEF MailInv, ReadAccounted, ReadIsGiven
<1> QED
  BY <1>1, MailInvHolds, PTL
=============================================================================
