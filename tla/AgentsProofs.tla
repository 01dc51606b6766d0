----------------------------- MODULE AgentsProofs ----------------------------
(***************************************************************************)
(* For every value of the constants of MCAgents: what its modules promise  *)
(* of lock files, events, answers and launches holds always.  Each module  *)
(* has an inductive invariant, which its initial states establish and each *)
(* of its actions keeps; the theorems at the end put them side by side.    *)
(***************************************************************************)
EXTENDS MCAgents, SequenceTheorems, FiniteSetTheorems, NaturalsInduction, WellFoundedInduction, TLAPS

-----------------------------------------------------------------------------
(* The pid file of the watchdog *)

PidStep == {"off", "link", "kill", "reclaim", "read", "unlink", "acquired", "refused", "in", "done"}

\* As long as no file was removed as stale, it names every living daemon that has the lock.
FileNamesHolders ==
  ~reclaimed => \A d \in alive : pidPc[Pid!Self(d)] \in {"acquired", "in"} => pidFile = d

PidInv ==
  /\ alive \subseteq Daemons /\ pidPc \in [Pid!Caller -> PidStep]
  /\ FileNamesHolders

LEMMA PidInit == Pid!Init => PidInv
BY DEF Pid!Init, PidInv, PidStep, FileNamesHolders

\* A daemon that starts has no lock yet.
LEMMA DaemonStarts ==
  ASSUME PidInv, NEW d \in Daemons, Pid!Foreground(d) \/ Pid!Background(d)
  PROVE  PidInv'
<1>0. Pid!Self(d) \in Pid!Caller /\ Pid!Parent(d) \in Pid!Caller
  BY DEF Pid!Self, Pid!Parent, Pid!Caller, Pid!Role
<1>1. alive' \subseteq Daemons /\ pidPc' \in [Pid!Caller -> PidStep] /\ UNCHANGED <<pidFile, reclaimed>>
  BY <1>0 DEF PidInv, PidStep, Pid!Foreground, Pid!Background, Pid!Goto
<1>2. ASSUME NEW e \in Daemons, e \in alive', pidPc'[Pid!Self(e)] \in {"acquired", "in"}
      PROVE  e \in alive /\ pidPc[Pid!Self(e)] \in {"acquired", "in"}
  <2>1. Pid!Self(e) \in Pid!Caller /\ Pid!Self(e) # Pid!Parent(d) /\ (e # d => Pid!Self(e) # Pid!Self(d))
    BY DEF Pid!Self, Pid!Parent, Pid!Caller, Pid!Role
  <2> QED
    BY <1>0, <1>2, <2>1 DEF PidInv, Pid!Foreground, Pid!Background, Pid!Goto
<1> QED
  BY <1>1, <1>2 DEF PidInv, FileNamesHolders

\* A daemon that ends by itself takes its own name out of the file, or leaves it.
LEMMA DaemonEnds ==
  ASSUME PidInv, NEW d \in Daemons, Pid!Interrupt(d) \/ Pid!Die(d)
  PROVE  PidInv'
BY DEF PidInv, FileNamesHolders, Pid!Interrupt, Pid!Die

LEMMA CallerSteps ==
  ASSUME PidInv, NEW c \in Pid!Caller,
         \/ Pid!Kill(c) \/ Pid!Reclaim(c) \/ Pid!Link(c) \/ Pid!Read(c) \/ Pid!Unlink(c) \/ Pid!Settle(c)
  PROVE  PidInv'
<1>1. alive' \subseteq alive
  BY DEF Pid!Kill, Pid!Reclaim, Pid!Link, Pid!Read, Pid!Unlink, Pid!Settle
<1>2. PICK goal \in PidStep : pidPc' = [pidPc EXCEPT ![c] = goal]
  BY DEF PidStep, Pid!Goto, Pid!Kill, Pid!Reclaim, Pid!Link, Pid!Read, Pid!Unlink, Pid!Settle
<1>3. goal \in {"acquired", "in"} =>
        \/ pidFile = "none" /\ pidFile' = Pid!Pid(c)
        \/ pidFile = Pid!Pid(c) /\ pidFile' = pidFile
        \/ pidPc[c] \in {"acquired", "in"} /\ pidFile' = pidFile
  BY <1>2 DEF PidInv, PidStep, Pid!Goto, Pid!Kill, Pid!Reclaim, Pid!Link, Pid!Read, Pid!Unlink, Pid!Settle, Pid!NoPid
<1>4. ~reclaimed' => ~reclaimed /\ (pidFile' = pidFile \/ pidFile = "none")
  BY DEF Pid!Goto, Pid!Kill, Pid!Reclaim, Pid!Link, Pid!Read, Pid!Unlink, Pid!Settle, Pid!NoPid
<1>5. FileNamesHolders'
  <2> SUFFICES ASSUME ~reclaimed', NEW d \in Daemons, d \in alive',
                      pidPc'[Pid!Self(d)] \in {"acquired", "in"}
               PROVE  pidFile' = d
    BY <1>1 DEF PidInv, FileNamesHolders
  <2>1. Pid!Self(d) \in Pid!Caller /\ (Pid!Self(d) = c => Pid!Pid(c) = d)
    BY DEF Pid!Self, Pid!Caller, Pid!Role, Pid!Pid
  <2>2. CASE Pid!Self(d) = c
    BY <1>1, <1>2, <1>3, <1>4, <2>1, <2>2 DEF PidInv, FileNamesHolders
  <2>3. CASE Pid!Self(d) # c
    BY <1>1, <1>2, <1>4, <2>1, <2>3, AgentConstants DEF PidInv, FileNamesHolders
  <2> QED
    BY <2>2, <2>3
<1> QED
  BY <1>1, <1>2, <1>5 DEF PidInv

LEMMA PidNext == PidInv /\ [Pid!Next]_pidVars => PidInv'
<1> SUFFICES ASSUME PidInv, [Pid!Next]_pidVars PROVE PidInv'
  OBVIOUS
<1>1. CASE UNCHANGED pidVars
  BY <1>1 DEF pidVars, PidInv, FileNamesHolders
<1> QED
  BY <1>1, DaemonStarts, DaemonEnds, CallerSteps DEF Pid!Next

LEMMA PidHolds == PidInv => Pid!OneWatchdogUntilReclaim
BY DEF PidInv, FileNamesHolders, Pid!OneWatchdogUntilReclaim, Pid!Running

-----------------------------------------------------------------------------
(* The proxy *)

Usable == port # "stranger" /\ token

\* Who began since the last fault finds a proxy that is ready or none, and one that its own
\* start made young.
ProxyInv ==
  /\ port \in Commands \cup {"nobody", "stranger"} /\ young \subseteq Commands
  /\ token \in BOOLEAN /\ blamed \subseteq Commands
  /\ step \in [Commands -> {"idle", "probe", "poll", "spawned", "failed"}]
  /\ DOMAIN polls = Commands /\ \A c \in Commands : step[c] = "poll" => polls[c] \in Nat \ {0}
  /\ \A c \in Commands \ blamed :
       /\ step[c] # "failed"
       /\ step[c] \in {"probe", "poll"} => Usable
       /\ step[c] = "poll" => port \in Commands \/ young # {}

LEMMA ProxyStarts == Bearer!ProxyInit => ProxyInv
BY DEF Bearer!ProxyInit, ProxyInv, Usable

LEMMA ProxyNext == ProxyInv /\ [Bearer!ProxyNext]_proxyVars => ProxyInv'
<1> SUFFICES ASSUME ProxyInv, [Bearer!ProxyNext]_proxyVars PROVE ProxyInv'
  OBVIOUS
<1> USE DEF ProxyInv, Usable
<1>1. CASE UNCHANGED proxyVars
  BY <1>1 DEF proxyVars
<1>2. ASSUME NEW c \in Commands, Bearer!Begin(c) PROVE ProxyInv'
  BY <1>2 DEF Bearer!Begin
<1>3. ASSUME NEW c \in Commands, Bearer!FirstProbe(c) PROVE ProxyInv'
  BY <1>3, AgentConstants DEF Bearer!FirstProbe, Bearer!Health
<1>4. ASSUME NEW c \in Commands, Bearer!Probe(c) PROVE ProxyInv'
  <2>1. c \notin blamed => Bearer!Good(c) \/ (Bearer!Health = "down" /\ polls[c] # 1)
    BY <1>4, AgentConstants DEF Bearer!Probe, Bearer!Poll, Bearer!Good, Bearer!Health
  <2>2. /\ step[c] = "poll" /\ polls' = [polls EXCEPT ![c] = @ - 1]
        /\ UNCHANGED <<port, young, token, faults, blamed>>
    BY <1>4 DEF Bearer!Probe, Bearer!Poll
  <2>3. PICK end \in {"poll", "spawned", "failed"} :
          /\ step' = [step EXCEPT ![c] = end]
          /\ end = "failed" => ~Bearer!Good(c) /\ (Bearer!Health = "no-token" \/ polls[c] = 1)
          /\ end = "poll" => polls[c] # 1
    BY <1>4, <2>2 DEF Bearer!Probe, Bearer!Poll
  <2>4. c \notin blamed => end # "failed"
    BY <2>1, <2>3
  <2>5. \A d \in Commands : step'[d] = "poll" => polls'[d] \in Nat \ {0}
    BY <2>2, <2>3
  <2> QED
    BY <2>2, <2>3, <2>4, <2>5
<1>5. ASSUME NEW c \in Commands, Bearer!Bind(c) PROVE ProxyInv'
  <2>1. /\ port' \in Commands \cup {"nobody", "stranger"}
        /\ port # "stranger" => port' \in Commands /\ port' # "stranger"
    BY <1>5, AgentConstants DEF Bearer!Bind
  <2> QED
    BY <1>5, <2>1 DEF Bearer!Bind
<1>6. CASE Bearer!Fault
  BY <1>6 DEF Bearer!Fault, Bearer!Busy
<1>7. CASE Bearer!Repair
  BY <1>7 DEF Bearer!Repair
<1> QED
  BY <1>1, <1>2, <1>3, <1>4, <1>5, <1>6, <1>7 DEF Bearer!ProxyNext

LEMMA ProxyHolds == ProxyInv => Bearer!NoneFailsAlone
BY DEF ProxyInv, Bearer!NoneFailsAlone

-----------------------------------------------------------------------------
(* The tailers of the events *)

\* How far a tailer can have come with the lines of an event.
Passed(x) ==
  IF log # 0 THEN x[1] < log \/ (x[1] = log /\ 2 * x[2] <= offset)
  ELSE IF active THEN x[1] < newest ELSE x[1] <= newest

TailTypeOK ==
  /\ newest \in 0..Lives /\ log \in 0..newest /\ active \in BOOLEAN /\ (active => newest # 0)
  /\ size \in [1..Lives -> Nat] /\ offset \in Nat
  /\ recorded \in Seq(Nat \X Nat)

TailInv ==
  /\ TailTypeOK
  /\ Tailer!LinesOnceInOrder
  /\ ~restarted => \A k \in DOMAIN recorded : Passed(recorded[k])

LEMMA TailInit == Tailer!Init => TailInv
<1> SUFFICES ASSUME Tailer!Init PROVE TailInv
  OBVIOUS
<1>0. recorded = <<>> /\ <<>> \in Seq(Nat \X Nat)
  BY DEF Tailer!Init
<1>1. TailTypeOK
  <2>1. size \in [1..Lives -> Nat]
    BY DEF Tailer!Init
  <2>2. newest \in 0..Lives /\ log \in 0..newest /\ active \in BOOLEAN /\ (active => newest # 0) /\ offset \in Nat
    <3>1. 0 \in 0..Lives /\ 0 \in 0..0 /\ 0 \in Nat
      BY AgentConstants
    <3> QED
      BY <3>1, Zenon DEF Tailer!Init
  <2> QED
    BY <1>0, <2>1, <2>2 DEF TailTypeOK
<1>2. DOMAIN recorded = {}
  BY DEF Tailer!Init
<1> QED
  BY <1>1, <1>2 DEF TailInv, Tailer!LinesOnceInOrder

\* What a poll appends lies behind the offset, and is in order.
LEMMA PollAppends ==
  ASSUME TailTypeOK, Tailer!Poll
  PROVE  \E n \in Nat :
           /\ Len(recorded') = Len(recorded) + n
           /\ recorded' \in Seq(Nat \X Nat)
           /\ \A k \in 1..Len(recorded) : recorded'[k] = recorded[k]
           /\ \A k \in Len(recorded)+1..Len(recorded)+n :
                /\ recorded'[k][1] = log
                /\ recorded'[k][2] = recorded'[Len(recorded)+1][2] + k - Len(recorded) - 1
                /\ offset < 2 * recorded'[k][2] /\ 2 * recorded'[k][2] <= offset'
<1> DEFINE base == (offset + 1) \div 2
           n == (size[log] \div 2) - base
           added == Tailer!InOrder(log, offset, size[log])
<1>1. log \in Nat /\ offset \in Nat /\ size[log] \in Nat /\ size[log] > offset /\ offset' = size[log]
  BY AgentConstants DEF TailTypeOK, Tailer!Poll
<1>2. base \in Nat /\ n \in Nat /\ 2 * base >= offset /\ 2 * (base + n) <= size[log]
  BY <1>1
<1>3. added = [k \in 1..n |-> <<log, base + k>>]
  BY DEF Tailer!InOrder
<1> HIDE DEF base, n, added
<1>4. added \in Seq(Nat \X Nat) /\ Len(added) = n
  <2>1. \A k \in 1..n : <<log, base + k>> \in Nat \X Nat
    BY <1>1, <1>2
  <2>2. [k \in 1..n |-> <<log, base + k>>] \in Seq(Nat \X Nat)
    BY <1>2, <2>1, IsASeq
  <2>3. Len([k \in 1..n |-> <<log, base + k>>]) = n
    BY <1>2
  <2> QED
    BY <1>3, <2>2, <2>3
<1>5. recorded' = recorded \o added /\ recorded \in Seq(Nat \X Nat)
  BY DEF TailTypeOK, Tailer!Poll, added
<1>6. /\ recorded' \in Seq(Nat \X Nat) /\ Len(recorded') = Len(recorded) + n
      /\ \A k \in 1..Len(recorded) + n : recorded'[k] = IF k <= Len(recorded) THEN recorded[k] ELSE added[k - Len(recorded)]
  BY <1>4, <1>5, ConcatProperties, Zenon
<1>7. PICK old \in Nat : old = Len(recorded)
  BY <1>5, LenProperties
<1>8. \A k \in old+1..old+n : recorded'[k] = <<log, base + (k - old)>>
  <2> TAKE k \in old+1..old+n
  <2>1. recorded'[k] = added[k - old]
    <3>1. k \in 1..Len(recorded) + n /\ ~(k <= Len(recorded)) /\ k - old = k - Len(recorded)
      BY <1>2, <1>7
    <3> QED
      BY <1>6, <3>1
  <2>2. k - old \in 1..n
    BY <1>2, <1>7
  <2> QED
    BY <1>3, <2>1, <2>2
<1>9. \A k \in 1..old : recorded'[k] = recorded[k]
  BY <1>2, <1>6, <1>7
<1>10. \A k \in old+1..old+n :
         /\ recorded'[k][1] = log /\ recorded'[k][2] = recorded'[old+1][2] + k - old - 1
         /\ offset < 2 * recorded'[k][2] /\ 2 * recorded'[k][2] <= offset'
  <2> TAKE k \in old+1..old+n
  <2>1. old + 1 \in old+1..old+n /\ k - old \in 1..n
    BY <1>2, <1>7
  <2>2. recorded'[k] = <<log, base + (k - old)>> /\ recorded'[old+1] = <<log, base + 1>>
    BY <1>2, <1>7, <1>8, <2>1
  <2>3. recorded'[k][1] = log /\ recorded'[k][2] = base + (k - old) /\ recorded'[old+1][2] = base + 1
    BY <2>2
  <2> QED
    BY <1>1, <1>2, <1>7, <2>1, <2>3
<1> QED
  BY <1>2, <1>6, <1>7, <1>9, <1>10

LEMMA PollKeeps ==
  ASSUME TailInv, Tailer!Poll
  PROVE  TailInv'
<1>1. TailTypeOK
  BY DEF TailInv
<1>2. PICK n \in Nat :
        /\ Len(recorded') = Len(recorded) + n
        /\ recorded' \in Seq(Nat \X Nat)
        /\ \A k \in 1..Len(recorded) : recorded'[k] = recorded[k]
        /\ \A k \in Len(recorded)+1..Len(recorded)+n :
             /\ recorded'[k][1] = log
             /\ recorded'[k][2] = recorded'[Len(recorded)+1][2] + k - Len(recorded) - 1
             /\ offset < 2 * recorded'[k][2] /\ 2 * recorded'[k][2] <= offset'
  BY <1>1, PollAppends
<1>3. log # 0 /\ offset' = size[log] /\ size[log] \in Nat /\ size[log] > offset
      /\ UNCHANGED <<size, newest, active, log, restarted>>
  BY <1>1, AgentConstants DEF TailTypeOK, Tailer!Poll
<1>4. TailTypeOK'
  BY <1>1, <1>2, <1>3 DEF TailTypeOK
<1>5. PICK old \in Nat : old = Len(recorded)
  BY <1>1, LenProperties DEF TailTypeOK
<1>6. DOMAIN recorded = 1..old /\ DOMAIN recorded' = 1..old+n
  BY <1>1, <1>2, <1>5, LenProperties DEF TailTypeOK
<1>7. \A k \in 1..old+n : recorded'[k][1] \in Nat /\ recorded'[k][2] \in Nat
  BY <1>2, <1>6
<1>8. \A k \in 1..old : recorded'[k] = recorded[k]
  BY <1>2, <1>5
<1>9. \A k \in old+1..old+n :
        /\ recorded'[k][1] = log
        /\ recorded'[k][2] = recorded'[old+1][2] + k - old - 1
        /\ offset < 2 * recorded'[k][2] /\ 2 * recorded'[k][2] <= offset'
  BY <1>2, <1>5
<1>10. log \in Nat /\ offset \in Nat /\ offset' \in Nat
  BY <1>1, <1>3 DEF TailTypeOK
<1>11. ASSUME ~restarted PROVE \A k \in 1..old : Passed(recorded[k])
  BY <1>6, <1>11 DEF TailInv
<1>12. ASSUME ~restarted, NEW k \in 1..old+n PROVE \A x : x = recorded'[k] => Passed(x)'
  <2>1. CASE k \in 1..old
    BY <1>3, <1>7, <1>8, <1>10, <1>11, <1>12, <2>1 DEF Passed
  <2>2. CASE k \in old+1..old+n
    BY <1>3, <1>9, <2>2 DEF Passed
  <2> QED
    BY <2>1, <2>2
<1>13. ASSUME ~restarted, NEW i \in 1..old+n, NEW j \in 1..old+n, i < j
       PROVE  Tailer!Earlier(recorded'[i], recorded'[j])
  <2>1. CASE j \in 1..old
    <3>1. Tailer!Earlier(recorded[i], recorded[j])
      BY <1>6, <1>13, <2>1 DEF TailInv, Tailer!LinesOnceInOrder
    <3> QED
      BY <1>8, <1>13, <2>1, <3>1
  <2>2. CASE i \in 1..old /\ j \in old+1..old+n
    <3>1. recorded'[i][1] < log \/ (recorded'[i][1] = log /\ 2 * recorded'[i][2] <= offset)
      BY <1>3, <1>8, <1>11, <1>13, <2>2 DEF Passed
    <3>2. recorded'[j][1] = log /\ offset < 2 * recorded'[j][2]
      BY <1>9, <2>2
    <3> QED
      BY <1>7, <1>10, <1>13, <3>1, <3>2 DEF Tailer!Earlier
  <2>3. CASE i \in old+1..old+n /\ j \in old+1..old+n
    <3>1. recorded'[i][1] = log /\ recorded'[j][1] = log
      BY <1>9, <2>3
    <3>2. recorded'[i][2] = recorded'[old+1][2] + i - old - 1 /\ recorded'[j][2] = recorded'[old+1][2] + j - old - 1
      BY <1>9, <2>3
    <3>3. recorded'[i][2] \in Nat /\ recorded'[old+1][2] \in Nat
      BY <1>7, <2>3
    <3> QED
      BY <1>13, <3>1, <3>2, <3>3 DEF Tailer!Earlier
  <2> QED
    BY <1>13, <2>1, <2>2, <2>3
<1> QED
  BY <1>3, <1>4, <1>6, <1>12, <1>13 DEF TailInv, Tailer!LinesOnceInOrder, Passed

\* Every other step keeps the events, and a tailer starts behind them.
LEMMA TailNext == TailInv /\ [Tailer!Next]_tailVars => TailInv'
<1> SUFFICES ASSUME TailInv, [Tailer!Next]_tailVars PROVE TailInv'
  OBVIOUS
<1>1. CASE Tailer!Poll
  BY <1>1, PollKeeps
<1>2. ASSUME ~Tailer!Poll
      PROVE  /\ UNCHANGED recorded /\ (~restarted' => ~restarted)
             /\ TailTypeOK'
             /\ ~restarted' => \A x \in Nat \X Nat : Passed(x) => Passed(x)'
  <2> USE <1>2, AgentConstants DEF TailInv, TailTypeOK, Passed
  <2>1. CASE Tailer!Sling
    BY <2>1 DEF Tailer!Sling
  <2>2. CASE Tailer!Write
    BY <2>2 DEF Tailer!Write
  <2>3. CASE Tailer!Complete
    <3>1. TailTypeOK' /\ UNCHANGED <<recorded, restarted, log, offset, newest>> /\ active /\ ~active'
      BY <2>3 DEF Tailer!Complete
    <3>2. \A x \in Nat \X Nat : x[1] \in Nat
      OBVIOUS
    <3> QED
      BY <3>1, <3>2
  <2>4. CASE Tailer!Start
    BY <2>4 DEF Tailer!Start
  <2>5. CASE Tailer!Stop
    BY <2>5 DEF Tailer!Stop
  <2>6. CASE Tailer!Restart
    BY <2>6 DEF Tailer!Restart
  <2>7. CASE UNCHANGED tailVars
    BY <2>7 DEF tailVars
  <2> QED
    BY <2>1, <2>2, <2>3, <2>4, <2>5, <2>6, <2>7 DEF Tailer!Next
<1>3. \A k \in DOMAIN recorded : recorded[k] \in Nat \X Nat
  BY LenProperties DEF TailInv, TailTypeOK
<1> QED
  BY <1>1, <1>2, <1>3 DEF TailInv, Tailer!LinesOnceInOrder

-----------------------------------------------------------------------------
(* The events of the hooks *)

Phases == {"new", "started", "ended", "chosen", "over"}
OfCall == 1..LastCall

CallTypeOK ==
  /\ tool \in [OfCall -> Tools] /\ phase \in [OfCall -> Phases]
  /\ open \subseteq OfCall /\ choice \in [OfCall -> OfCall \cup {0}]
  /\ closedBy \in [OfCall -> OfCall \cup {0}]

\* Calls begin in their order.
InTurn ==
  /\ \A c, d \in OfCall : d < c /\ phase[c] # "new" => phase[d] # "new"
  /\ \A c \in open : phase[c] # "new"

AtWork(c) == phase[c] \notin {"new", "over"}

\* Of a tool that is not blurred one call is at work, and its row is the latest open one.
OwnRowIsLatest ==
  \A c \in OfCall : AtWork(c) /\ tool[c] \notin blurred =>
    /\ c \in open
    /\ \A d \in open : tool[d] = tool[c] => d <= c
    /\ \A d \in OfCall : AtWork(d) /\ tool[d] = tool[c] => d = c
    /\ phase[c] = "chosen" => choice[c] = c

ChoiceIsOfTool ==
  \A c \in OfCall : phase[c] = "chosen" => choice[c] = 0 \/ tool[choice[c]] = tool[c]

CallInv == CallTypeOK /\ InTurn /\ OwnRowIsLatest /\ ChoiceIsOfTool /\ Hook!EndsCloseTheirOwn

\* Until their list is unlinked, only a hook that died or could not unlink it has counted
\* the applied records.
StopInv ==
  /\ stop \in {"none", "transition", "identity", "metrics", "gates", "expertise", "outcomes",
               "unlink", "event", "marker"}
  /\ outcomes \in Nat /\ lapses \in Nat /\ applied \in BOOLEAN
  /\ applied /\ stop # "unlink" => outcomes <= lapses
  /\ outcomes <= lapses + 1

HookInv == CallInv /\ StopInv

LEMMA HookInit == Hook!Init => HookInv
BY AgentConstants DEF Hook!Init, HookInv, CallInv, CallTypeOK, InTurn, OwnRowIsLatest, AtWork, ChoiceIsOfTool,
   Hook!EndsCloseTheirOwn, StopInv, OfCall, Phases

LEMMA ToolStarts ==
  ASSUME CallInv, NEW c \in OfCall, NEW kept \in BOOLEAN, Hook!ToolStart(c, kept)
  PROVE  CallInv'
<1> USE AgentConstants DEF CallInv, CallTypeOK, OfCall
<1>1. CallTypeOK'
  BY DEF Hook!ToolStart, Phases
<1>2. /\ phase[c] = "new" /\ phase' = [phase EXCEPT ![c] = "started"]
      /\ \A d \in OfCall : d < c => phase[d] # "new"
      /\ open' \subseteq open \cup {c} /\ open \subseteq open'
      /\ UNCHANGED <<tool, choice, closedBy>>
      /\ blurred \subseteq blurred'
      /\ tool[c] \notin blurred' => c \in open' /\ Hook!Running(tool[c]) = {}
  BY DEF Hook!ToolStart
<1>3. InTurn'
  BY <1>2 DEF InTurn
<1>4. \A d \in open' : d <= c
  BY <1>2 DEF InTurn
<1>5. OwnRowIsLatest'
  <2> SUFFICES ASSUME NEW d \in OfCall, AtWork(d)', tool[d] \notin blurred'
               PROVE  /\ d \in open'
                      /\ \A e \in open' : tool[e] = tool[d] => e <= d
                      /\ \A e \in OfCall : AtWork(e)' /\ tool[e] = tool[d] => e = d
                      /\ phase'[d] = "chosen" => choice[d] = d
    BY <1>2 DEF OwnRowIsLatest, AtWork
  <2>1. \A e \in OfCall : e # c => (AtWork(e)' <=> AtWork(e))
    BY <1>2 DEF AtWork
  <2>2. CASE d = c
    <3>1. \A e \in OfCall : AtWork(e) => tool[e] # tool[c]
      BY <1>2, <2>2 DEF Hook!Running, AtWork
    <3> QED
      BY <1>2, <1>4, <2>1, <2>2, <3>1
  <2>3. CASE d # c
    <3>1. AtWork(d) /\ tool[d] # tool[c]
      BY <1>2, <2>1, <2>3 DEF Hook!Running, AtWork
    <3> QED
      BY <1>2, <2>1, <2>3, <3>1 DEF OwnRowIsLatest
  <2> QED
    BY <2>2, <2>3
<1>6. ChoiceIsOfTool' /\ Hook!EndsCloseTheirOwn'
  BY <1>2 DEF ChoiceIsOfTool, Hook!EndsCloseTheirOwn
<1> QED
  BY <1>1, <1>3, <1>5, <1>6

LEMMA CallEnds ==
  ASSUME CallInv, NEW c \in OfCall, Hook!ToolEnd(c) \/ Hook!Find(c) \/ Hook!LoseEnd(c)
  PROVE  CallInv'
<1> USE AgentConstants DEF CallInv, CallTypeOK, OfCall
<1>1. CallTypeOK' /\ UNCHANGED <<tool, open, closedBy, blurred>>
  BY DEF Hook!ToolEnd, Hook!Find, Hook!LoseEnd, Hook!OpenOf, Phases
<1>2. PICK goal \in {"ended", "chosen", "over"} : phase' = [phase EXCEPT ![c] = goal]
  BY DEF Hook!ToolEnd, Hook!Find, Hook!LoseEnd
<1>3. AtWork(c) /\ \A d \in OfCall : d # c => choice'[d] = choice[d]
  BY DEF Hook!ToolEnd, Hook!Find, Hook!LoseEnd, AtWork
<1>4. goal = "chosen" =>
        /\ choice'[c] \in open \cup {0}
        /\ choice'[c] # 0 => tool[choice'[c]] = tool[c]
        /\ \A d \in open : tool[d] = tool[c] => d <= choice'[c]
  BY <1>2 DEF Hook!ToolEnd, Hook!Find, Hook!LoseEnd, Hook!OpenOf
<1>5. InTurn'
  BY <1>1, <1>2, <1>3 DEF InTurn, AtWork
<1>6. \A d \in OfCall : AtWork(d)' => AtWork(d)
  BY <1>2, <1>3 DEF AtWork
<1>7. OwnRowIsLatest'
  <2> SUFFICES ASSUME NEW d \in OfCall, AtWork(d)', tool[d] \notin blurred
               PROVE  /\ d \in open
                      /\ \A e \in open : tool[e] = tool[d] => e <= d
                      /\ \A e \in OfCall : AtWork(e)' /\ tool[e] = tool[d] => e = d
                      /\ phase'[d] = "chosen" => choice'[d] = d
    BY <1>1 DEF OwnRowIsLatest, AtWork
  <2>1. /\ d \in open
        /\ \A e \in open : tool[e] = tool[d] => e <= d
        /\ \A e \in OfCall : AtWork(e) /\ tool[e] = tool[d] => e = d
        /\ phase[d] = "chosen" => choice[d] = d
    BY <1>6 DEF OwnRowIsLatest
  <2>2. phase'[d] = "chosen" => choice'[d] = d
    <3>1. CASE d = c /\ goal = "chosen"
      <4>1. PICK x : x = choice'[c]
        OBVIOUS
      <4>2. d <= x /\ x \in open /\ tool[x] = tool[d]
        BY <1>4, <2>1, <3>1, <4>1
      <4>3. x <= d
        BY <2>1, <4>2
      <4>4. x = d
        BY <4>2, <4>3
      <4> QED
        BY <3>1, <4>1, <4>4
    <3>2. CASE d # c \/ goal # "chosen"
      BY <1>2, <1>3, <2>1, <3>2
    <3> QED
      BY <3>1, <3>2
  <2> QED
    BY <1>6, <2>1, <2>2
<1>8. ChoiceIsOfTool'
  BY <1>1, <1>2, <1>3, <1>4 DEF ChoiceIsOfTool
<1>9. Hook!EndsCloseTheirOwn'
  BY <1>1 DEF Hook!EndsCloseTheirOwn
<1> QED
  BY <1>1, <1>5, <1>7, <1>8, <1>9

LEMMA CallCloses ==
  ASSUME CallInv, NEW c \in OfCall, Hook!Close(c)
  PROVE  CallInv'
<1> USE AgentConstants DEF CallInv, CallTypeOK, OfCall
<1>1. CallTypeOK' /\ UNCHANGED <<tool, choice, blurred>> /\ phase' = [phase EXCEPT ![c] = "over"]
  BY DEF Hook!Close, Phases
<1>2. AtWork(c) /\ phase[c] = "chosen"
  BY DEF Hook!Close, AtWork
<1>3. /\ open \ {choice[c]} \subseteq open' /\ open' \subseteq open
      /\ \A d \in OfCall : closedBy'[d] = closedBy[d] \/ (d = choice[c] /\ closedBy'[d] = c)
  BY DEF Hook!Close
<1>4. \A d \in OfCall : choice[c] = d => tool[d] = tool[c]
  BY <1>2 DEF ChoiceIsOfTool
<1>5. InTurn'
  BY <1>1, <1>2, <1>3 DEF InTurn
<1>6. \A d \in OfCall : AtWork(d)' => AtWork(d) /\ d # c
  BY <1>1 DEF AtWork
<1>7. OwnRowIsLatest'
  <2> SUFFICES ASSUME NEW d \in OfCall, AtWork(d)', tool[d] \notin blurred
               PROVE  /\ d \in open'
                      /\ \A e \in open' : tool[e] = tool[d] => e <= d
                      /\ \A e \in OfCall : AtWork(e)' /\ tool[e] = tool[d] => e = d
                      /\ phase'[d] = "chosen" => choice[d] = d
    BY <1>1 DEF OwnRowIsLatest, AtWork
  <2>1. /\ d \in open
        /\ \A e \in open : tool[e] = tool[d] => e <= d
        /\ \A e \in OfCall : AtWork(e) /\ tool[e] = tool[d] => e = d
        /\ phase[d] = "chosen" => choice[d] = d
    BY <1>6 DEF OwnRowIsLatest
  <2>2. d # choice[c]
    BY <1>2, <1>4, <1>6, <2>1
  <2> QED
    BY <1>1, <1>3, <1>6, <2>1, <2>2
<1>8. ChoiceIsOfTool'
  BY <1>1 DEF ChoiceIsOfTool
<1>9. Hook!EndsCloseTheirOwn'
  BY <1>1, <1>2, <1>3, <1>4 DEF Hook!EndsCloseTheirOwn, OwnRowIsLatest
<1> QED
  BY <1>1, <1>5, <1>7, <1>8, <1>9

LEMMA StopSteps == StopInv /\ (Hook!BeginStop \/ Hook!StopStep \/ Hook!StopDies) => StopInv'
<1>1. ASSUME StopInv, Hook!StopStep PROVE StopInv'
  <2>1. /\ stop' \in {"none", "identity", "metrics", "gates", "expertise", "outcomes", "unlink",
                      "event", "marker"}
        /\ stop' = "unlink" <=> stop = "outcomes"
    BY <1>1 DEF StopInv, Hook!StopStep, Hook!After
  <2>2. /\ outcomes' = IF stop = "outcomes" /\ applied THEN outcomes + 1 ELSE outcomes
        /\ applied' \in BOOLEAN /\ (applied' => applied)
        /\ lapses' = IF stop = "unlink" /\ applied' THEN lapses + 1 ELSE lapses
    BY <1>1 DEF StopInv, Hook!StopStep
  <2> QED
    <3>1. outcomes' \in Nat /\ outcomes' <= lapses' + 1
      BY <1>1, <2>2 DEF StopInv
    <3>2. applied' /\ stop' # "unlink" => outcomes' <= lapses'
      BY <1>1, <2>1, <2>2 DEF StopInv
    <3> QED
      BY <1>1, <2>1, <2>2, <3>1, <3>2 DEF StopInv
<1>2. ASSUME StopInv, Hook!BeginStop \/ Hook!StopDies PROVE StopInv'
  BY <1>2 DEF StopInv, Hook!BeginStop, Hook!StopDies
<1> QED
  BY <1>1, <1>2

LEMMA HookNext == HookInv /\ [Hook!Next]_hookVars => HookInv'
<1> SUFFICES ASSUME HookInv, [Hook!Next]_hookVars PROVE HookInv'
  OBVIOUS
<1>1. ASSUME UNCHANGED Hook!stopVars PROVE StopInv'
  BY <1>1 DEF HookInv, StopInv, Hook!stopVars
<1>2. ASSUME UNCHANGED Hook!callVars PROVE CallInv'
  BY <1>2 DEF HookInv, CallInv, CallTypeOK, InTurn, OwnRowIsLatest, AtWork, ChoiceIsOfTool,
     Hook!EndsCloseTheirOwn, Hook!callVars
<1>3. ASSUME NEW c \in OfCall,
             \/ Hook!ToolStart(c, TRUE) \/ Hook!ToolStart(c, FALSE) \/ Hook!ToolEnd(c)
             \/ Hook!Find(c) \/ Hook!Close(c) \/ Hook!LoseEnd(c)
      PROVE  HookInv'
  <2>1. CallInv'
    BY <1>3, ToolStarts, CallEnds, CallCloses DEF HookInv
  <2>2. UNCHANGED Hook!stopVars
    BY <1>3 DEF Hook!ToolStart, Hook!ToolEnd, Hook!Find, Hook!Close, Hook!LoseEnd
  <2> QED
    BY <1>1, <2>1, <2>2 DEF HookInv
<1>4. CASE Hook!BeginStop \/ Hook!StopStep \/ Hook!StopDies
  <2>1. UNCHANGED Hook!callVars
    BY <1>4 DEF Hook!BeginStop, Hook!StopStep, Hook!StopDies
  <2> QED
    BY <1>2, <1>4, <2>1, StopSteps DEF HookInv
<1>5. CASE UNCHANGED hookVars
  BY <1>1, <1>2, <1>5 DEF HookInv, hookVars, Hook!stopVars, Hook!callVars
<1> QED
  BY <1>3, <1>4, <1>5 DEF Hook!Next, OfCall

LEMMA HookHolds == HookInv => Hook!HookRecords
BY DEF HookInv, CallInv, StopInv, Hook!HookRecords, Hook!OutcomesOnce

-----------------------------------------------------------------------------
(* Questions and their replies *)

Mailing == [from : {"agent", "operator"}, thread : Nat]
AskSteps == {"start", "nudge", "wait", "type", "enter", "sleep", "look", "refused", "done", "timed out"}

AskTypeOK ==
  /\ post \in Seq(Mailing)
  /\ askPc \in [Askers -> AskSteps] /\ question \in [Askers -> Nat] /\ answer \in [Askers -> Nat]
  /\ inTime \in [Askers -> BOOLEAN]

\* A message is younger than the one it replies to.
RepliesComeLater == \A i \in 1..Len(post) : post[i].thread < i

\* A reply that was in time is still there; the reply that was printed is one of the agent's.
AskerInv(p) ==
  /\ question[p] <= Len(post)
  /\ inTime[p] => askPc[p] = "done" \/ (askPc[p] = "look" /\ Word!Replies(p) # {})
  /\ answer[p] # 0 =>
       askPc[p] = "done" /\ answer[p] \in 1..Len(post) /\ post[answer[p]].thread = question[p]

AskInv == AskTypeOK /\ RepliesComeLater /\ \A p \in Askers : AskerInv(p)

LEMMA AskInit == Word!Init => AskInv
<1> SUFFICES ASSUME Word!Init PROVE AskInv
  OBVIOUS
<1>1. post = <<>> /\ <<>> \in Seq(Mailing) /\ Len(<<>>) = 0
  BY DEF Word!Init
<1>2. AskTypeOK
  BY <1>1 DEF Word!Init, AskTypeOK, AskSteps
<1>3. RepliesComeLater
  BY <1>1 DEF RepliesComeLater
<1>4. \A p \in Askers : AskerInv(p)
  BY <1>1 DEF Word!Init, AskerInv
<1> QED
  BY <1>2, <1>3, <1>4 DEF AskInv

\* A message that comes changes none that are there.
LEMMA MailComes ==
  ASSUME AskInv, NEW m \in Mailing, post' = Append(post, m), m.thread <= Len(post)
  PROVE  /\ post' \in Seq(Mailing) /\ Len(post') = Len(post) + 1 /\ Len(post) \in Nat
         /\ \A i \in 1..Len(post) : post'[i] = post[i]
         /\ RepliesComeLater'
<1>1. /\ post' \in Seq(Mailing) /\ Len(post') = Len(post) + 1
      /\ \A i \in 1..Len(post) : post'[i] = post[i]
      /\ post'[Len(post) + 1] = m
  <2>1. post \in Seq(Mailing)
    BY DEF AskInv, AskTypeOK
  <2>2. /\ Append(post, m) \in Seq(Mailing) /\ Len(Append(post, m)) = Len(post) + 1
        /\ \A i \in 1..Len(post) : Append(post, m)[i] = post[i]
        /\ Append(post, m)[Len(post) + 1] = m
    BY <2>1, AppendProperties
  <2> QED
    BY <2>2, Zenon
<1>2. PICK n \in Nat : n = Len(post)
  BY LenProperties DEF AskInv, AskTypeOK
<1>3. \A i \in 1..n+1 : post'[i].thread < i
  <2> TAKE i \in 1..n+1
  <2>1. CASE i \in 1..n
    BY <1>1, <1>2, <2>1 DEF AskInv, RepliesComeLater
  <2>2. CASE i = n + 1
    <3>1. m.thread \in Nat
      BY DEF Mailing
    <3> QED
      BY <1>1, <1>2, <2>2, <3>1
  <2> QED
    BY <1>2, <2>1, <2>2
<1> QED
  BY <1>1, <1>2, <1>3 DEF RepliesComeLater

\* While messages only come, and nothing of an asker changes, its invariant stays.
LEMMA AskerRests ==
  ASSUME AskInv, NEW p \in Askers, Len(post) \in Nat, Len(post') \in Nat, Len(post) <= Len(post'),
         \A i \in 1..Len(post) : post'[i] = post[i],
         post \in Seq(Mailing), post' \in Seq(Mailing),
         question'[p] = question[p], inTime'[p] = inTime[p], answer'[p] = answer[p],
         askPc'[p] = askPc[p]
  PROVE  AskerInv(p)'
<1>1. Word!Replies(p) \subseteq Word!Replies(p)'
  <2>1. DOMAIN post = 1..Len(post) /\ DOMAIN post' = 1..Len(post')
    BY LenProperties
  <2> QED
    BY <2>1 DEF Word!Replies
<1>2. question[p] \in Nat /\ answer[p] \in Nat
  BY DEF AskInv, AskTypeOK
<1> QED
  BY <1>1, <1>2 DEF AskInv, AskerInv

LEMMA MailSteps ==
  ASSUME AskInv, Word!AgentWrites
  PROVE  AskInv'
<1>1. DOMAIN post = 1..Len(post) /\ Len(post) \in Nat
  BY LenProperties DEF AskInv, AskTypeOK
<1>2. PICK thread \in {0} \cup 1..Len(post) : post' = Append(post, [from |-> "agent", thread |-> thread])
  BY <1>1 DEF Word!AgentWrites
<1>3. thread \in Nat /\ thread <= Len(post)
  BY <1>1
<1>4. UNCHANGED <<askPc, question, inTime, answer>>
  BY DEF Word!AgentWrites, Word!askVars
<1> DEFINE m == [from |-> "agent", thread |-> thread]
<1>5. m \in Mailing /\ m.thread = thread
  BY <1>3 DEF Mailing
<1> HIDE DEF m
<1>6. /\ post' \in Seq(Mailing) /\ Len(post') = Len(post) + 1
      /\ \A i \in 1..Len(post) : post'[i] = post[i]
      /\ RepliesComeLater'
  BY <1>2, <1>3, <1>5, MailComes DEF m
<1>7. \A p \in Askers : AskerInv(p)'
  BY <1>1, <1>4, <1>6, AskerRests DEF AskInv, AskTypeOK
<1> QED
  BY <1>4, <1>6, <1>7 DEF AskInv, AskTypeOK

\* An ask begins with a question of its own.
LEMMA AskBegins ==
  ASSUME AskInv, NEW p \in Askers, Word!Begin(p)
  PROVE  AskInv'
<1>1. Len(post) \in Nat /\ post \in Seq(Mailing) /\ RepliesComeLater
  BY LenProperties DEF AskInv, AskTypeOK
<1>2. UNCHANGED <<inTime, answer>> /\ askPc[p] = "start"
  BY DEF Word!Begin
<1>3. ~inTime[p] /\ answer[p] = 0
  BY <1>2 DEF AskInv, AskerInv, AskTypeOK
<1>4. PICK goal \in {"refused", "nudge"} : askPc' = [askPc EXCEPT ![p] = goal]
  BY DEF Word!Begin, Word!Goto
<1>5. \/ UNCHANGED <<post, question>>
      \/ /\ post' = Append(post, [from |-> "operator", thread |-> 0])
         /\ question' = [question EXCEPT ![p] = Len(post')]
  BY DEF Word!Begin
<1>6. /\ post' \in Seq(Mailing) /\ Len(post') \in Nat /\ Len(post) <= Len(post')
      /\ \A i \in 1..Len(post) : post'[i] = post[i]
      /\ RepliesComeLater'
  <2>1. CASE UNCHANGED <<post, question>>
    BY <1>1, <2>1 DEF RepliesComeLater
  <2>2. CASE post' = Append(post, [from |-> "operator", thread |-> 0])
    <3> DEFINE m == [from |-> "operator", thread |-> 0]
    <3>1. m \in Mailing /\ m.thread = 0
      BY DEF Mailing
    <3>2. post' = Append(post, m)
      BY <2>2
    <3> HIDE DEF m
    <3>3. m.thread <= Len(post)
      BY <1>1, <3>1
    <3> QED
      BY <1>1, <3>1, <3>2, <3>3, MailComes
  <2> QED
    BY <1>5, <2>1, <2>2
<1>7. AskTypeOK'
  BY <1>2, <1>4, <1>5, <1>6 DEF AskInv, AskTypeOK, AskSteps
<1>8. ASSUME NEW q \in Askers PROVE AskerInv(q)'
  <2>1. CASE q # p
    <3>1. question'[q] = question[q] /\ askPc'[q] = askPc[q]
      BY <1>4, <1>5, <2>1 DEF AskInv, AskTypeOK
    <3> QED
      BY <1>1, <1>2, <1>6, <3>1, AskerRests
  <2>2. CASE q = p
    <3>1. question'[p] <= Len(post')
      BY <1>5, <1>6 DEF AskInv, AskTypeOK, AskerInv
    <3> QED
      BY <1>2, <1>3, <2>2, <3>1 DEF AskerInv
  <2> QED
    BY <2>1, <2>2
<1> QED
  BY <1>6, <1>7, <1>8 DEF AskInv

\* The steps of a nudge, and the sleep, leave no asker with a reply that was in time.
LEMMA NudgeSteps ==
  ASSUME AskInv, NEW p \in Askers,
         \/ Word!BeginNudge(p) \/ Word!Resolve(p) \/ Word!WaitIdle(p) \/ Word!Type(p)
         \/ Word!Enter(p) \/ Word!GiveUp(p) \/ Word!Deadline(p)
  PROVE  AskInv'
<1>1. UNCHANGED <<post, question, inTime, answer>>
  BY DEF Word!BeginNudge, Word!Resolve, Word!WaitIdle, Word!Type, Word!Enter, Word!GiveUp,
     Word!Deadline, Word!askVars
<1>2. \/ UNCHANGED askPc
      \/ /\ askPc[p] \in {"start", "nudge", "wait", "type", "enter"}
         /\ \E goal \in {"nudge", "wait", "type", "enter", "sleep", "done"} : askPc' = [askPc EXCEPT ![p] = goal]
  BY DEF Word!BeginNudge, Word!Resolve, Word!WaitIdle, Word!Type, Word!Enter, Word!GiveUp,
     Word!Deadline, Word!Goto, Word!Tell, Word!After
<1>3. AskTypeOK' /\ RepliesComeLater'
  BY <1>1, <1>2 DEF AskInv, AskTypeOK, AskSteps, RepliesComeLater
<1>4. ASSUME NEW q \in Askers PROVE AskerInv(q)'
  <2>1. CASE askPc'[q] = askPc[q]
    BY <1>1, <2>1 DEF AskInv, AskerInv, Word!Replies
  <2>2. CASE askPc'[q] # askPc[q]
    <3>1. q = p /\ askPc[p] \in {"start", "nudge", "wait", "type", "enter"}
      BY <1>2, <2>2 DEF AskInv, AskTypeOK
    <3> QED
      BY <1>1, <3>1 DEF AskInv, AskerInv, AskTypeOK
  <2> QED
    BY <2>1, <2>2
<1> QED
  BY <1>3, <1>4 DEF AskInv

LEMMA PollSteps ==
  ASSUME AskInv, NEW p \in Askers, Word!Sleep(p) \/ Word!Look(p)
  PROVE  AskInv'
<1>1. UNCHANGED <<post, question>> /\ DOMAIN post = 1..Len(post) /\ Len(post) \in Nat
  BY LenProperties DEF AskInv, AskTypeOK, Word!Sleep, Word!Look
<1>2. Word!Replies(p) \subseteq 1..Len(post) /\ \A i \in Word!Replies(p) : post[i].thread = question[p]
  BY <1>1 DEF Word!Replies
<1>3. \A q \in Askers : Word!Replies(q)' = Word!Replies(q)
  BY <1>1 DEF Word!Replies
<1>4. AskTypeOK' /\ RepliesComeLater'
  <2>1. CASE Word!Sleep(p)
    BY <1>1, <2>1 DEF AskInv, AskTypeOK, RepliesComeLater, Word!Sleep, Word!Goto, AskSteps
  <2>2. CASE Word!Look(p)
    <3>1. answer' \in [Askers -> Nat]
      BY <1>1, <1>2, <2>2 DEF AskInv, AskTypeOK, Word!Look
    <3> QED
      BY <1>1, <2>2, <3>1 DEF AskInv, AskTypeOK, RepliesComeLater, Word!Look, Word!Goto, AskSteps
  <2> QED
    BY <2>1, <2>2
<1>5. ASSUME NEW q \in Askers, q # p PROVE AskerInv(q)'
  <2>1. askPc'[q] = askPc[q] /\ inTime'[q] = inTime[q] /\ answer'[q] = answer[q]
    BY <1>5 DEF AskInv, AskTypeOK, Word!Sleep, Word!Look, Word!Goto
  <2> QED
    BY <1>1, <1>3, <2>1 DEF AskInv, AskerInv
<1>6. AskerInv(p)'
  <2>1. CASE Word!Sleep(p)
    BY <1>1, <1>3, <2>1 DEF AskInv, AskTypeOK, AskerInv, Word!Sleep, Word!Goto
  <2>2. CASE Word!Look(p) /\ Word!Replies(p) = {}
    BY <1>1, <1>3, <2>2 DEF AskInv, AskTypeOK, AskerInv, Word!Look, Word!Goto
  <2>3. CASE Word!Look(p) /\ Word!Replies(p) # {}
    <3>1. PICK i \in Word!Replies(p) : answer' = [answer EXCEPT ![p] = i]
      BY <2>3 DEF Word!Look
    <3>2. askPc'[p] = "done" /\ answer'[p] = i
      BY <2>3, <3>1 DEF AskInv, AskTypeOK, Word!Look, Word!Goto
    <3> QED
      BY <1>1, <1>2, <3>2 DEF AskInv, AskerInv
  <2> QED
    BY <2>1, <2>2, <2>3
<1> QED
  BY <1>4, <1>5, <1>6 DEF AskInv

LEMMA AskNext == AskInv /\ [Word!Next]_askVars => AskInv'
<1> SUFFICES ASSUME AskInv, [Word!Next]_askVars PROVE AskInv'
  OBVIOUS
<1>1. CASE \/ UNCHANGED askVars \/ Word!AgentDies \/ Word!DebounceEnds
  <2>1. UNCHANGED <<post, askPc, question, inTime, answer>>
    BY <1>1 DEF askVars, Word!AgentDies, Word!DebounceEnds, Word!askVars
  <2> QED
    BY <2>1 DEF AskInv, AskTypeOK, RepliesComeLater, AskerInv, Word!Replies
<1> QED
  BY <1>1, MailSteps, AskBegins, NudgeSteps, PollSteps DEF Word!Next

LEMMA AskHolds == AskInv => Word!AskGetsItsAnswer
<1> SUFFICES ASSUME AskInv, NEW p \in Askers
             PROVE  /\ answer[p] # 0 => post[answer[p]].thread = question[p] /\ answer[p] > question[p]
                    /\ askPc[p] = "timed out" => ~inTime[p]
  BY DEF Word!AskGetsItsAnswer
<1>1. AskerInv(p) /\ RepliesComeLater /\ question[p] \in Nat /\ answer[p] \in Nat
  BY DEF AskInv, AskTypeOK
<1> QED
  BY <1>1 DEF AskerInv, RepliesComeLater

-----------------------------------------------------------------------------
(* How a worker is launched *)

\* What is known of a launch, of the turn that runs, and of the loop of ov serve.
LaunchInv ==
  /\ session \in [state : {"none", "live", "over"}, tmux : BOOLEAN]
  /\ (launched # <<>> \/ session.state = "live") /\ ~launched.named => launched.picked = Begun!Factory(launched.conf)
  /\ session.state = "live" =>
       (~session.tmux => Begun!BuildDirectSpawn(launched.picked.runtime) /\ nudged # "pane")
  /\ Begun!HooksMatch /\ Begun!FlagIsObeyed
  /\ aTurn # <<>> => \/ aTurn.picked = Begun!Factory(aTurn.conf)
                     \/ aTurn.picked = launched.picked
  /\ loop # <<>> => served # <<>> /\ loop.picked = Begun!Factory(served.conf)

LEMMA LaunchInits == Begun!LaunchInit => LaunchInv
<1> SUFFICES ASSUME Begun!LaunchInit PROVE LaunchInv
  OBVIOUS
<1>1. [state |-> "none", tmux |-> FALSE] \in [state : {"none", "live", "over"}, tmux : BOOLEAN]
  OBVIOUS
<1>2. session = [state |-> "none", tmux |-> FALSE] /\ launched = <<>> /\ aTurn = <<>> /\ loop = <<>>
  BY DEF Begun!LaunchInit, Begun!None
<1>3. session.state # "live"
  BY <1>2
<1> QED
  BY <1>1, <1>2, <1>3 DEF LaunchInv, Begun!HooksMatch, Begun!FlagIsObeyed

LEMMA Slung ==
  ASSUME LaunchInv, NEW name \in {"", "sapling"}, NEW flag \in {"", "headless", "no-headless"},
         Begun!Sling(name, flag)
  PROVE  LaunchInv'
<1>1. PICK kind \in {"claude", "sapling", "pi", ""} \cup {Begun!GetRuntime(name, conf)} : kind = Begun!GetRuntime(name, conf)
  OBVIOUS
<1>2. /\ launched' = [picked |-> Begun!Picked(kind, conf), named |-> name # "", flag |-> flag, conf |-> conf]
      /\ aTurn = <<>> /\ nudged' = "none" /\ UNCHANGED <<conf, served, loop>>
      /\ ~Begun!Refused(kind, flag)
      /\ hooks' = IF Begun!ResolveUseHeadless(kind, flag, conf) THEN "guards" ELSE "all"
      /\ IF Begun!ResolveUseHeadless(kind, flag, conf) /\ Begun!BuildDirectSpawn(kind)
         THEN /\ session' = [state |-> "live", tmux |-> FALSE]
              /\ aTurn' = [by |-> "sling", picked |-> Begun!Picked(kind, conf), conf |-> conf]
         ELSE session' = [state |-> "live", tmux |-> TRUE] /\ aTurn' = <<>>
  BY <1>1 DEF Begun!Sling, Begun!None
<1>3. /\ launched'.picked = Begun!Picked(kind, conf) /\ launched'.flag = flag /\ launched'.conf = conf
      /\ launched'.named <=> name # ""
  BY <1>2
<1>4. Begun!Picked(kind, conf).runtime = kind
  BY DEF Begun!Picked
<1>5. name = "" => Begun!Picked(kind, conf) = Begun!Factory(conf)
  BY <1>1 DEF Begun!Factory
<1>6. Begun!ResolveUseHeadless(kind, flag, conf) => Begun!BuildDirectSpawn(kind)
  BY <1>2 DEF Begun!ResolveUseHeadless, Begun!Refused, Begun!Headless, Begun!BuildDirectSpawn
<1>7. flag = "headless" => Begun!ResolveUseHeadless(kind, flag, conf)
  BY DEF Begun!ResolveUseHeadless
<1>8. flag = "no-headless" /\ Begun!ResolveUseHeadless(kind, flag, conf) => Begun!Headless(kind)
  BY DEF Begun!ResolveUseHeadless
<1>9. CASE Begun!ResolveUseHeadless(kind, flag, conf)
  <2>1. /\ session'.state = "live" /\ session'.tmux = FALSE
        /\ aTurn'.picked = launched'.picked /\ hooks' = "guards"
        /\ session' \in [state : {"none", "live", "over"}, tmux : BOOLEAN]
    <3>1. [state |-> "live", tmux |-> FALSE] \in [state : {"none", "live", "over"}, tmux : BOOLEAN]
      OBVIOUS
    <3>2. /\ session' = [state |-> "live", tmux |-> FALSE] /\ hooks' = "guards"
          /\ aTurn' = [by |-> "sling", picked |-> Begun!Picked(kind, conf), conf |-> conf]
      BY <1>2, <1>6, <1>9
    <3>3. session'.state = "live" /\ session'.tmux = FALSE /\ aTurn'.picked = launched'.picked
      BY <1>3, <3>2
    <3> QED
      BY <3>1, <3>2, <3>3
  <2>2. Begun!HooksMatch' /\ Begun!FlagIsObeyed'
    BY <1>3, <1>4, <1>8, <1>9, <2>1 DEF Begun!HooksMatch, Begun!FlagIsObeyed
  <2>3. Begun!BuildDirectSpawn(launched'.picked.runtime)
    BY <1>3, <1>4, <1>6, <1>9
  <2> QED
    BY <1>2, <1>3, <1>5, <2>1, <2>2, <2>3 DEF LaunchInv
<1>10. CASE ~Begun!ResolveUseHeadless(kind, flag, conf)
  <2>1. /\ session'.state = "live" /\ session'.tmux = TRUE
        /\ aTurn' = <<>> /\ hooks' = "all"
        /\ session' \in [state : {"none", "live", "over"}, tmux : BOOLEAN]
    <3>1. [state |-> "live", tmux |-> TRUE] \in [state : {"none", "live", "over"}, tmux : BOOLEAN]
      OBVIOUS
    <3>2. session' = [state |-> "live", tmux |-> TRUE] /\ aTurn' = <<>> /\ hooks' = "all"
      BY <1>2, <1>10
    <3>3. session'.state = "live" /\ session'.tmux = TRUE
      BY <3>2
    <3> QED
      BY <3>1, <3>2, <3>3
  <2>2. Begun!HooksMatch' /\ Begun!FlagIsObeyed'
    BY <1>3, <1>7, <1>10, <2>1 DEF Begun!HooksMatch, Begun!FlagIsObeyed
  <2> QED
    BY <1>2, <1>3, <1>5, <2>1, <2>2 DEF LaunchInv
<1> QED
  BY <1>9, <1>10

LEMMA LaunchNexts == LaunchInv /\ [Begun!LaunchNext]_launchVars => LaunchInv'
<1> SUFFICES ASSUME LaunchInv, [Begun!LaunchNext]_launchVars PROVE LaunchInv'
  OBVIOUS
<1> USE DEF LaunchInv, Begun!HooksMatch, Begun!FlagIsObeyed, Begun!None
<1>1. CASE \E name \in {"", "sapling"}, flag \in {"", "headless", "no-headless"} : Begun!Sling(name, flag)
  BY <1>1, Slung
<1>2. CASE UNCHANGED launchVars
  BY <1>2 DEF launchVars
<1>3. CASE Begun!Edit \/ Begun!TurnEnds \/ Begun!PaneEnds
  BY <1>3 DEF Begun!Edit, Begun!TurnEnds, Begun!PaneEnds
<1>4. CASE Begun!Finish
  BY <1>4 DEF Begun!Finish
<1>5. CASE Begun!Serve
  BY <1>5 DEF Begun!Serve
<1>6. CASE Begun!ServeStops
  BY <1>6 DEF Begun!ServeStops
<1>7. CASE Begun!Rescan
  BY <1>7 DEF Begun!Rescan
<1>8. CASE Begun!Tick
  BY <1>8 DEF Begun!Tick, Begun!RunTurn
<1>9. CASE Begun!Drive
  BY <1>9 DEF Begun!Drive, Begun!RunTurn
<1>10. CASE Begun!NudgeTurn
  BY <1>10 DEF Begun!NudgeTurn, Begun!RunTurn
<1>11. CASE Begun!NudgePane
  BY <1>11 DEF Begun!NudgePane
<1> QED
  BY <1>1, <1>2, <1>3, <1>4, <1>5, <1>6, <1>7, <1>8, <1>9, <1>10, <1>11 DEF Begun!LaunchNext

LEMMA LaunchKeeps ==
  LaunchInv => /\ Begun!TurnsMatchLaunch /\ Begun!HeadlessIsDriven
               /\ Begun!HooksMatch /\ Begun!FlagIsObeyed
<1> SUFFICES ASSUME LaunchInv PROVE Begun!TurnsMatchLaunch /\ Begun!HeadlessIsDriven
  BY DEF LaunchInv
<1>1. Begun!TurnsMatchLaunch
  BY DEF LaunchInv, Begun!TurnsMatchLaunch, Begun!None
<1>2. Begun!HeadlessIsDriven
  BY DEF LaunchInv, Begun!HeadlessIsDriven, Begun!IsSpawnPerTurnAgent, Begun!BuildDirectSpawn, Begun!ParseEvents
<1> QED
  BY <1>1, <1>2

-----------------------------------------------------------------------------
(* The coordinator's page *)

Letter == [from : {"operator", "coordinator"}, thread : Nat, says : Texts \cup {"", "stop"}]
Request == [at : {"posting", "posted", "answered", "failed"}, mid : Nat, says : Texts]
Shelf == 1..MaxLetters

PageTypeOK ==
  /\ letters \in Seq(Letter) /\ Len(letters) <= MaxLetters
  /\ frames \in Seq(Shelf) /\ posts \in Seq(Request)
  /\ fetch.ids \subseteq Shelf
  /\ shown \in [Shelf -> {0, 1}] /\ seen \subseteq Shelf
  /\ pending \in [token : Nat, mid : Nat]

\* What was seen is shown, once; and the page waits only for a bubble that is there.
PageInv ==
  /\ PageTypeOK
  /\ \A m \in seen : shown[m] = 1
  /\ pending.token # 0 => pending.token \in waiting
  /\ pending.token = 0 => pending.mid = 0

LEMMA PageInit == Page!ConsoleInit => PageInv
<1> SUFFICES ASSUME Page!ConsoleInit PROVE PageInv
  OBVIOUS
<1>1. /\ letters = <<>> /\ frames = <<>> /\ posts = <<>>
      /\ <<>> \in Seq(Letter) /\ <<>> \in Seq(Shelf) /\ <<>> \in Seq(Request) /\ Len(<<>>) = 0
  BY DEF Page!ConsoleInit
<1>2. shown \in [Shelf -> {0, 1}] /\ seen = {}
  BY DEF Page!ConsoleInit, Shelf
<1>3. pending \in [token : Nat, mid : Nat] /\ pending.token = 0 /\ pending.mid = 0 /\ fetch.ids = {}
  BY DEF Page!ConsoleInit, Page!None, Page!Nothing
<1> QED
  BY <1>1, <1>2, <1>3, AgentConstants DEF PageInv, PageTypeOK

LEMMA NextFits ==
  ASSUME NEW n \in Nat, NEW m \in Nat, n < m
  PROVE  n + 1 \in 1..m /\ n + 1 <= m /\ n + 1 \in Nat
OBVIOUS

\* A message of the two goes to mail.db and onto the socket.
LEMMA LetterComes ==
  ASSUME PageTypeOK, NEW who \in {"operator", "coordinator"}, NEW thread \in Nat,
         NEW text \in Texts \cup {"", "stop"}, Page!Mailed(who, thread, text)
  PROVE  /\ letters' \in Seq(Letter) /\ Len(letters') <= MaxLetters /\ frames' \in Seq(Shelf)
         /\ Len(letters) + 1 \in Nat
<1> DEFINE letter == [from |-> who, thread |-> thread, says |-> text]
<1>1. letter \in Letter
  BY DEF Letter
<1>2. letters' = Append(letters, letter) /\ frames' = Append(frames, Len(letters) + 1)
  BY DEF Page!Mailed
<1>7. Len(letters) < MaxLetters /\ MaxLetters \in Nat
  BY AgentConstants DEF Page!Mailed
<1> HIDE DEF letter
<1>3. letters \in Seq(Letter) /\ frames \in Seq(Shelf) /\ Len(letters) \in Nat
  BY LenProperties DEF PageTypeOK
<1>8. PICK n \in Nat : n = Len(letters)
  BY <1>3
<1>9. n + 1 \in 1..MaxLetters /\ n + 1 <= MaxLetters /\ n + 1 \in Nat
  BY <1>7, <1>8, NextFits, Zenon
<1>4. letters' \in Seq(Letter) /\ Len(letters') = Len(letters) + 1
  BY <1>1, <1>2, <1>3, AppendProperties
<1>5. Len(letters) + 1 \in Shelf
  BY <1>8, <1>9 DEF Shelf
<1>6. frames' \in Seq(Shelf)
  BY <1>2, <1>3, <1>5, AppendProperties
<1> QED
  BY <1>4, <1>6, <1>8, <1>9

\* One message is shown, if it was not, or nothing changes in the thread.
LEMMA ShowOne ==
  ASSUME PageTypeOK, \A m \in seen : shown[m] = 1, NEW m \in Shelf,
         \/ shown[m] = 0 /\ Page!Show(m)
         \/ UNCHANGED <<shown, seen>>
  PROVE  shown' \in [Shelf -> {0, 1}] /\ seen' \subseteq Shelf /\ \A n \in seen' : shown'[n] = 1
<1>1. CASE UNCHANGED <<shown, seen>>
  BY <1>1 DEF PageTypeOK
<1>2. CASE shown[m] = 0 /\ Page!Show(m)
  <2>1. shown' = [shown EXCEPT ![m] = 1] /\ seen' = seen \cup {m}
    BY <1>2 DEF PageTypeOK, Page!Show
  <2> QED
    BY <2>1 DEF PageTypeOK
<1> QED
  BY <1>1, <1>2

LEMMA FrameComes ==
  ASSUME PageInv, Page!HandleFrame
  PROVE  PageInv'
<1>1. PICK m \in Shelf : Page!IngestMail(m) /\ frames' \in Seq(Shelf)
  BY HeadTailProperties DEF PageInv, PageTypeOK, Page!HandleFrame
<1>2. UNCHANGED <<letters, fetch, posts>>
  BY DEF Page!HandleFrame
<1>3. shown[m] \in {0, 1}
  BY DEF PageInv, PageTypeOK
<1>4. \/ shown[m] = 0 /\ Page!Show(m)
      \/ UNCHANGED <<shown, seen>>
  BY <1>1, <1>3 DEF Page!IngestMail, Page!Settle, Page!Place
<1>5. \/ UNCHANGED <<waiting, pending>>
      \/ pending' = [token |-> 0, mid |-> 0]
  BY <1>1 DEF Page!IngestMail, Page!Settle, Page!Place, Page!None
<1>6. /\ pending' \in [token : Nat, mid : Nat]
      /\ pending'.token # 0 => pending'.token \in waiting'
      /\ pending'.token = 0 => pending'.mid = 0
  BY <1>5 DEF PageInv, PageTypeOK
<1>7. shown' \in [Shelf -> {0, 1}] /\ seen' \subseteq Shelf /\ \A n \in seen' : shown'[n] = 1
  BY <1>4, ShowOne DEF PageInv
<1> QED
  BY <1>1, <1>2, <1>6, <1>7 DEF PageInv, PageTypeOK

LEMMA PageMerges ==
  ASSUME PageInv, Page!Merge
  PROVE  PageInv'
<1>1. /\ shown' = [m \in Shelf |-> IF m \in fetch.ids THEN 1 ELSE shown[m]]
      /\ seen' = seen \cup fetch.ids /\ fetch' = Page!Nothing
      /\ UNCHANGED <<letters, frames, posts, waiting, pending>>
  BY DEF Page!Merge, Page!Merged, Shelf
<1>2. fetch'.ids = {}
  BY <1>1 DEF Page!Nothing
<1>3. shown' \in [Shelf -> {0, 1}] /\ seen' \subseteq Shelf /\ \A n \in seen' : shown'[n] = 1
  BY <1>1 DEF PageInv, PageTypeOK
<1> QED
  BY <1>1, <1>2, <1>3 DEF PageInv, PageTypeOK

\* The requests of the page, and what becomes of the one it waits for.
LEMMA RequestSteps ==
  ASSUME PageInv, NEW k \in DOMAIN posts, Page!Posted(k) \/ Page!Answered(k) \/ Page!RipOut(k)
  PROVE  PageInv'
<1>1. posts \in Seq(Request) /\ posts[k] \in Request /\ k \in Nat \ {0} /\ Len(letters) \in Nat
  BY LenProperties DEF PageInv, PageTypeOK
<1>2. posts' \in Seq(Request) /\ UNCHANGED <<fetch, shown, seen>>
  <2>1. PICK request \in Request : posts' = [posts EXCEPT ![k] = request]
    <3>1. CASE Page!Posted(k)
      <4>1. posts' = [posts EXCEPT ![k] = [posts[k] EXCEPT !.at = "posted", !.mid = Len(letters) + 1]]
        BY <3>1 DEF Page!Posted
      <4>2. PICK n \in Nat : n = Len(letters) + 1
        BY <1>1
      <4>3. [posts[k] EXCEPT !.at = "posted", !.mid = n] \in Request
        BY <1>1 DEF Request
      <4> QED
        BY <4>1, <4>2, <4>3
    <3>2. CASE Page!Answered(k) \/ Page!RipOut(k)
      <4>1. \/ posts' = [posts EXCEPT ![k] = [posts[k] EXCEPT !.at = "answered"]]
            \/ posts' = [posts EXCEPT ![k] = [posts[k] EXCEPT !.at = "failed"]]
        BY <3>2 DEF Page!Answered, Page!RipOut
      <4> QED
        BY <1>1, <4>1 DEF Request
    <3> QED
      BY <3>1, <3>2
  <2> QED
    BY <1>1, <2>1, ExceptSeq DEF Page!Posted, Page!Answered, Page!RipOut
<1>3. letters' \in Seq(Letter) /\ Len(letters') <= MaxLetters /\ frames' \in Seq(Shelf)
  <2>1. CASE Page!Posted(k)
    <3>1. posts[k].says \in Texts \cup {"", "stop"} /\ Page!Mailed("operator", 0, posts[k].says)
      BY <1>1, <2>1 DEF Page!Posted, Request
    <3> QED
      BY <3>1, LetterComes DEF PageInv
  <2>2. CASE Page!Answered(k) \/ Page!RipOut(k)
    BY <2>2 DEF Page!Answered, Page!RipOut, PageInv, PageTypeOK
  <2> QED
    BY <2>1, <2>2
<1>4. /\ pending' \in [token : Nat, mid : Nat]
      /\ pending'.token # 0 => pending'.token \in waiting'
      /\ pending'.token = 0 => pending'.mid = 0
  <2>1. CASE Page!Posted(k)
    BY <2>1 DEF Page!Posted, PageInv, PageTypeOK
  <2>2. CASE Page!Answered(k)
    <3>1. /\ waiting' = waiting
          /\ pending' = IF pending.token = k THEN [pending EXCEPT !.mid = posts[k].mid] ELSE pending
      BY <2>2 DEF Page!Answered
    <3>2. posts[k].mid \in Nat
      BY <1>1 DEF Request
    <3> QED
      BY <1>1, <3>1, <3>2 DEF PageInv, PageTypeOK
  <2>3. CASE Page!RipOut(k)
    BY <2>3 DEF Page!RipOut, Page!None
  <2> QED
    BY <2>1, <2>2, <2>3
<1> QED
  BY <1>2, <1>3, <1>4 DEF PageInv, PageTypeOK

LEMMA PageSends ==
  ASSUME PageInv, Page!Send
  PROVE  PageInv'
<1>1. PICK text \in Texts : posts' = Append(posts, [at |-> "posting", mid |-> 0, says |-> text])
  BY DEF Page!Send
<1>2. posts' \in Seq(Request) /\ Len(posts) \in Nat
  <2>1. [at |-> "posting", mid |-> 0, says |-> text] \in Request /\ posts \in Seq(Request)
    BY DEF Request, PageInv, PageTypeOK
  <2> QED
    BY <1>1, <2>1, AppendProperties, LenProperties
<1>3. /\ pending' = [token |-> Len(posts) + 1, mid |-> 0] /\ Len(posts) + 1 \in waiting'
      /\ UNCHANGED <<letters, frames, fetch, shown, seen>>
  BY DEF Page!Send
<1>4. /\ pending' \in [token : Nat, mid : Nat] /\ pending'.token # 0 /\ pending'.token \in waiting'
  BY <1>2, <1>3
<1> QED
  BY <1>2, <1>3, <1>4 DEF PageInv, PageTypeOK

LEMMA PageNext == PageInv /\ [Page!ConsoleNext]_consoleVars => PageInv'
<1> SUFFICES ASSUME PageInv, [Page!ConsoleNext]_consoleVars PROVE PageInv'
  OBVIOUS
<1>1. CASE UNCHANGED consoleVars \/ Page!Effect
  BY <1>1 DEF consoleVars, Page!Effect, PageInv, PageTypeOK
<1>2. CASE Page!SocketBreaks
  <2>1. <<>> \in Seq(Shelf)
    OBVIOUS
  <2> QED
    BY <1>2, <2>1 DEF Page!SocketBreaks, PageInv, PageTypeOK
<1>3. CASE Page!SendPlain \/ Page!CoordinatorWrites
  <2>1. letters' \in Seq(Letter) /\ Len(letters') <= MaxLetters /\ frames' \in Seq(Shelf)
    <3>1. CASE Page!SendPlain
      BY <1>3, <3>1, LetterComes DEF Page!SendPlain, PageInv
    <3>2. CASE Page!CoordinatorWrites
      <4>1. PICK thread \in {0} \cup Page!From("operator") : Page!Mailed("coordinator", thread, "")
        BY <3>2 DEF Page!CoordinatorWrites
      <4>2. thread \in Nat
        BY LenProperties DEF Page!From, Page!Ids, PageInv, PageTypeOK
      <4> QED
        BY <4>1, <4>2, LetterComes DEF PageInv
    <3> QED
      BY <1>3, <3>1, <3>2
  <2> QED
    BY <1>3, <2>1 DEF Page!SendPlain, Page!CoordinatorWrites, PageInv, PageTypeOK
<1>4. ASSUME NEW who \in {"operator", "coordinator"}, Page!FetchHalf(who) PROVE PageInv'
  <2>1. /\ fetch' = [read |-> fetch.read \cup {who}, ids |-> fetch.ids \cup Page!From(who)]
        /\ UNCHANGED <<letters, frames, posts, shown, seen, waiting, pending>>
    BY <1>4 DEF Page!FetchHalf
  <2>2. Page!From(who) \subseteq Shelf
    <3>1. PICK n \in Nat : n = Len(letters)
      BY LenProperties DEF PageInv, PageTypeOK
    <3>2. DOMAIN letters = 1..n /\ n <= MaxLetters
      BY <3>1, LenProperties DEF PageInv, PageTypeOK
    <3> QED
      BY <3>2, AgentConstants DEF Page!From, Page!Ids, Shelf
  <2>3. fetch'.ids = fetch.ids \cup Page!From(who)
    BY <2>1
  <2> QED
    BY <2>1, <2>2, <2>3 DEF PageInv, PageTypeOK
<1> QED
  BY <1>1, <1>2, <1>3, <1>4, FrameComes, PageMerges, RequestSteps, PageSends DEF Page!ConsoleNext

LEMMA PageHolds == PageInv => Page!ThreadKeeps /\ Page!PendingHasItsBubble
<1> SUFFICES ASSUME PageInv PROVE Page!ThreadKeeps /\ Page!PendingHasItsBubble
  OBVIOUS
<1>1. Page!ThreadKeeps
  BY DEF PageInv, PageTypeOK, Page!ThreadKeeps, Shelf
<1>2. pending # [token |-> 0, mid |-> 0] => pending.token # 0 \/ pending.mid # 0
  BY DEF PageInv, PageTypeOK
<1> QED
  BY <1>1, <1>2 DEF PageInv, Page!PendingHasItsBubble, Page!None

-----------------------------------------------------------------------------
(* The connections to headless agents *)

Connection == [kind : {"rpc", "pid"}, closed : BOOLEAN, made : Nat, pending : SUBSET Nat,
               stream : {"open", "ended"}, proc : {"runs", "gone"}]
Ending == {"answered", "error", "thrown", "closed", "late", "unwritten"}
ACall == [conn : Nat, id : Nat, timer : BOOLEAN, state : Ending \cup {"waits"},
          write : {"none", "sent", "fails", "throws"}, by : Nat]

RpcTypeOK ==
  /\ conns \in Seq(Connection) /\ calls \in Seq(ACall)
  /\ current \in 0..Len(conns)
  /\ kill \in [phase : {"idle", "polls", "aborted"}, conn : Nat]
  /\ kill.phase = "polls" => kill.conn \in 1..Len(conns)

ClosedIsEmpty == \A c \in 1..Len(conns) : conns[c].closed => conns[c].pending = {}

\* A call of connection c that has number k and looks like x, while its connection looks like d.
CallHolds(k, x, d) ==
  /\ x.state = "waits" => x.timer
  /\ x.timer => x.id \in d.pending
  /\ x.by \in {0, k}
  /\ d.kind = "rpc" => x.id < d.made
  /\ d.kind = "pid" => ~x.timer /\ x.write = "none"

CallsHold ==
  \A k \in 1..Len(calls) :
    calls[k].conn \in 1..Len(conns) /\ CallHolds(k, calls[k], conns[calls[k].conn])

\* An id is given to one call of a connection.
IdsDiffer ==
  \A j, k \in 1..Len(calls) :
    calls[j].conn = calls[k].conn /\ calls[j].id = calls[k].id /\ conns[calls[j].conn].kind = "rpc" => j = k

\* What is on its way belongs to the call it names.
WireIsTrue ==
  \A r \in wire \cup replies :
    \E k \in 1..Len(calls) :
      r = <<calls[k].conn, calls[k].id, k>> /\ conns[calls[k].conn].kind = "rpc"

Registered ==
  current # 0 =>
    /\ ~conns[current].closed
    /\ conns[current].kind = "pid" => stdins = current /\ heard = current

RpcInv == RpcTypeOK /\ ClosedIsEmpty /\ CallsHold /\ IdsDiffer /\ WireIsTrue /\ Registered

LEMMA RpcInit == Phone!RpcInit => RpcInv
<1> SUFFICES ASSUME Phone!RpcInit PROVE RpcInv
  OBVIOUS
<1>1. /\ conns = <<>> /\ calls = <<>> /\ wire = {} /\ replies = {} /\ current = 0
      /\ <<>> \in Seq(Connection) /\ <<>> \in Seq(ACall) /\ Len(<<>>) = 0
  BY DEF Phone!RpcInit
<1>2. kill = [phase |-> "idle", conn |-> 0]
  BY DEF Phone!RpcInit
<1>3. RpcTypeOK
  BY <1>1, <1>2 DEF RpcTypeOK
<1> QED
  BY <1>1, <1>3 DEF RpcInv, ClosedIsEmpty, CallsHold, IdsDiffer, WireIsTrue, Registered

\* What a call looks like once it ended.
EndCall(x, what) == [x EXCEPT !.timer = FALSE, !.state = IF @ = "waits" THEN what ELSE @]

LEMMA EndedCall ==
  ASSUME NEW x \in ACall, NEW what \in Ending
  PROVE  /\ EndCall(x, what) \in ACall
         /\ EndCall(x, what).conn = x.conn /\ EndCall(x, what).id = x.id
         /\ ~EndCall(x, what).timer /\ EndCall(x, what).state # "waits"
         /\ EndCall(x, what).by = x.by /\ EndCall(x, what).write = x.write
<1> DEFINE y == EndCall(x, what)
<1>1. y \in ACall
  BY DEF ACall, Ending, EndCall
<1>2. y.conn = x.conn /\ y.id = x.id /\ y.by = x.by /\ y.write = x.write /\ y.timer = FALSE
  BY DEF ACall, EndCall
<1>3. y.state # "waits"
  BY DEF ACall, Ending, EndCall
<1> QED
  BY <1>1, <1>2, <1>3

\* What a step may do to connections and calls that are there: connections keep their kind
\* and their count, calls stay as they are or end, and entries leave the tables only with
\* the timers of their calls.
Conserves ==
  /\ conns' \in Seq(Connection) /\ Len(conns') = Len(conns)
  /\ \A c \in 1..Len(conns) :
       /\ conns'[c].kind = conns[c].kind /\ conns'[c].made = conns[c].made
       /\ conns'[c].closed => conns'[c].pending = {}
  /\ calls' \in Seq(ACall) /\ Len(calls') = Len(calls)
  /\ \A k \in 1..Len(calls) :
       /\ calls'[k].conn = calls[k].conn /\ calls'[k].id = calls[k].id
       /\ calls'[k].state = "waits" => calls'[k].timer
       /\ calls'[k].timer => calls[k].timer /\ calls[k].id \in conns'[calls[k].conn].pending
       /\ calls'[k].by \in {0, k} /\ calls'[k].write \in {calls[k].write, "none"}

LEMMA Conserved ==
  ASSUME RpcInv, Conserves,
         wire' \cup replies' \subseteq wire \cup replies,
         current' \in {0, current},
         current' # 0 => ~conns'[current].closed /\ UNCHANGED <<stdins, heard>>,
         kill' \in [phase : {"idle", "polls", "aborted"}, conn : Nat],
         kill'.phase = "polls" => kill'.conn \in 1..Len(conns)
  PROVE  RpcInv'
<1>1. PICK n \in Nat : n = Len(conns)
  BY LenProperties DEF RpcInv, RpcTypeOK
<1>2. PICK m \in Nat : m = Len(calls)
  BY LenProperties DEF RpcInv, RpcTypeOK
<1>3. Len(conns') = n /\ Len(calls') = m
  BY <1>1, <1>2 DEF Conserves
<1>4. \A k \in 1..m : calls[k].conn \in 1..n
  BY <1>1, <1>2 DEF RpcInv, CallsHold
<1>5. RpcTypeOK'
  <2>1. current' \in 0..n
    BY <1>1 DEF RpcInv, RpcTypeOK
  <2> QED
    BY <1>1, <1>3, <2>1 DEF RpcTypeOK, Conserves
<1>6. ClosedIsEmpty'
  BY <1>1, <1>3 DEF ClosedIsEmpty, Conserves
<1>7. CallsHold'
  <2> SUFFICES ASSUME NEW k \in 1..m
               PROVE  calls'[k].conn \in 1..n /\ CallHolds(k, calls'[k], conns'[calls'[k].conn])
    BY <1>3 DEF CallsHold, CallHolds
  <2>1. /\ calls'[k].conn = calls[k].conn /\ calls'[k].id = calls[k].id
        /\ calls'[k].state = "waits" => calls'[k].timer
        /\ calls'[k].timer => calls[k].timer /\ calls[k].id \in conns'[calls[k].conn].pending
        /\ calls'[k].by \in {0, k} /\ calls'[k].write \in {calls[k].write, "none"}
    BY <1>2 DEF Conserves
  <2>2. /\ conns'[calls[k].conn].kind = conns[calls[k].conn].kind
        /\ conns'[calls[k].conn].made = conns[calls[k].conn].made
    BY <1>1, <1>4 DEF Conserves
  <2>3. CallHolds(k, calls[k], conns[calls[k].conn])
    BY <1>2 DEF RpcInv, CallsHold
  <2> QED
    BY <1>4, <2>1, <2>2, <2>3 DEF CallHolds
<1>8. IdsDiffer'
  <2> SUFFICES ASSUME NEW j \in 1..m, NEW k \in 1..m,
                      calls'[j].conn = calls'[k].conn, calls'[j].id = calls'[k].id,
                      conns'[calls'[j].conn].kind = "rpc"
               PROVE  j = k
    BY <1>3 DEF IdsDiffer
  <2>1. calls[j].conn = calls[k].conn /\ calls[j].id = calls[k].id /\ conns[calls[j].conn].kind = "rpc"
    BY <1>1, <1>2, <1>4 DEF Conserves
  <2> QED
    BY <1>2, <2>1 DEF RpcInv, IdsDiffer
<1>9. WireIsTrue'
  <2> SUFFICES ASSUME NEW r \in wire' \cup replies'
               PROVE  \E k \in 1..m : r = <<calls'[k].conn, calls'[k].id, k>> /\ conns'[calls'[k].conn].kind = "rpc"
    BY <1>3 DEF WireIsTrue
  <2>1. PICK k \in 1..m : r = <<calls[k].conn, calls[k].id, k>> /\ conns[calls[k].conn].kind = "rpc"
    BY <1>2 DEF RpcInv, WireIsTrue
  <2>2. /\ calls'[k].conn = calls[k].conn /\ calls'[k].id = calls[k].id
        /\ conns'[calls[k].conn].kind = "rpc"
    BY <1>1, <1>2, <1>4, <2>1 DEF Conserves
  <2> QED
    BY <2>1, <2>2
<1>10. Registered'
  <2> SUFFICES ASSUME current' # 0
               PROVE  ~conns'[current'].closed /\ (conns'[current'].kind = "pid" => stdins' = current' /\ heard' = current')
    BY DEF Registered
  <2>1. current' = current /\ current \in 1..n
    BY <1>1 DEF RpcInv, RpcTypeOK
  <2>2. conns'[current].kind = conns[current].kind
    BY <1>1, <2>1 DEF Conserves
  <2> QED
    BY <2>1, <2>2 DEF RpcInv, Registered
<1> QED
  BY <1>5, <1>6, <1>7, <1>8, <1>9, <1>10 DEF RpcInv

\* Nothing of them changes.
LEMMA Idle ==
  ASSUME RpcInv, UNCHANGED <<conns, calls>>
  PROVE  Conserves
<1>1. \A k \in 1..Len(calls) : CallHolds(k, calls[k], conns[calls[k].conn])
  BY DEF RpcInv, CallsHold
<1> QED
  BY <1>1 DEF RpcInv, RpcTypeOK, ClosedIsEmpty, CallHolds, Conserves

\* Some connection changes its process only.
LEMMA Leaves ==
  ASSUME RpcInv, NEW c \in 1..Len(conns), conns' = [conns EXCEPT ![c].proc = "gone"], calls' = calls
  PROVE  /\ Conserves
         /\ \A d \in 1..Len(conns) : conns'[d].closed = conns[d].closed
<1>1. conns[c] \in Connection /\ \A d \in 1..Len(conns) : conns[d] \in Connection
  BY DEF RpcInv, RpcTypeOK
<1>2. PICK x \in Connection : x = [conns[c] EXCEPT !.proc = "gone"]
  BY <1>1 DEF Connection
<1>3. /\ x.kind = conns[c].kind /\ x.made = conns[c].made
      /\ x.closed = conns[c].closed /\ x.pending = conns[c].pending
  BY <1>1, <1>2 DEF Connection
<1>4. conns' = [conns EXCEPT ![c] = x]
  BY <1>2
<1>5. conns' \in Seq(Connection) /\ Len(conns') = Len(conns) /\ \A d \in 1..Len(conns) : conns'[d] = IF d = c THEN x ELSE conns[d]
  <2>1. conns \in Seq(Connection)
    BY DEF RpcInv, RpcTypeOK
  <2>2. /\ [conns EXCEPT ![c] = x] \in Seq(Connection) /\ Len([conns EXCEPT ![c] = x]) = Len(conns)
        /\ \A d \in 1..Len(conns) : [conns EXCEPT ![c] = x][d] = IF d = c THEN x ELSE conns[d]
    BY ONLY <2>1, c \in 1..Len(conns), x \in Connection, ExceptSeq
  <2> QED
    BY ONLY <1>4, <2>2
<1>6. \A d \in 1..Len(conns) :
        /\ conns'[d].kind = conns[d].kind /\ conns'[d].made = conns[d].made
        /\ conns'[d].closed = conns[d].closed /\ conns'[d].pending = conns[d].pending
  BY <1>3, <1>5
<1>7. \A k \in 1..Len(calls) : calls[k].conn \in 1..Len(conns) /\ CallHolds(k, calls[k], conns[calls[k].conn])
  BY DEF RpcInv, CallsHold
<1>8. \A d \in 1..Len(conns) : conns'[d].closed => conns'[d].pending = {}
  BY <1>6 DEF RpcInv, ClosedIsEmpty
<1>9. \A k \in 1..Len(calls) :
        /\ calls[k].state = "waits" => calls[k].timer
        /\ calls[k].timer => calls[k].id \in conns'[calls[k].conn].pending
        /\ calls[k].by \in {0, k}
  BY <1>6, <1>7 DEF CallHolds
<1> QED
  BY <1>5, <1>6, <1>8, <1>9 DEF Conserves, RpcInv, RpcTypeOK

\* Entries leave the table of connection c, and their calls end.
LEMMA Unlists ==
  ASSUME RpcInv, NEW c \in 1..Len(conns), NEW ids, NEW x \in Connection,
         conns' = [conns EXCEPT ![c] = x],
         x.kind = conns[c].kind, x.made = conns[c].made, conns[c].pending \ ids \subseteq x.pending,
         x.closed => x.pending = {},
         calls' \in Seq(ACall), Len(calls') = Len(calls),
         \A k \in 1..Len(calls) :
           /\ calls'[k].conn = calls[k].conn /\ calls'[k].id = calls[k].id
           /\ \/ calls'[k] = calls[k] /\ (calls[k].conn = c /\ calls[k].timer => calls[k].id \notin ids)
              \/ /\ ~calls'[k].timer /\ calls'[k].state # "waits"
                 /\ calls'[k].by \in {0, k} /\ calls'[k].write \in {calls[k].write, "none"}
  PROVE  /\ Conserves
         /\ \A d \in 1..Len(conns) : d # c => conns'[d] = conns[d]
         /\ conns'[c] = x
<1>1. conns' \in Seq(Connection) /\ Len(conns') = Len(conns) /\ \A d \in 1..Len(conns) : conns'[d] = IF d = c THEN x ELSE conns[d]
  BY ExceptSeq DEF RpcInv, RpcTypeOK
<1>2. \A d \in 1..Len(conns) :
        /\ conns'[d].kind = conns[d].kind /\ conns'[d].made = conns[d].made
        /\ conns'[d].closed => conns'[d].pending = {}
  BY <1>1 DEF RpcInv, ClosedIsEmpty
<1>3. ASSUME NEW k \in 1..Len(calls)
      PROVE  /\ calls'[k].state = "waits" => calls'[k].timer
             /\ calls'[k].timer => calls[k].timer /\ calls[k].id \in conns'[calls[k].conn].pending
             /\ calls'[k].by \in {0, k} /\ calls'[k].write \in {calls[k].write, "none"}
  <2>1. CASE ~calls'[k].timer /\ calls'[k].state # "waits" /\ calls'[k].by \in {0, k}
             /\ calls'[k].write \in {calls[k].write, "none"}
    BY <2>1
  <2>2. CASE calls'[k] = calls[k] /\ (calls[k].conn = c /\ calls[k].timer => calls[k].id \notin ids)
    <3>1. calls[k].conn \in 1..Len(conns) /\ CallHolds(k, calls[k], conns[calls[k].conn])
      BY DEF RpcInv, CallsHold
    <3>2. calls[k].timer => calls[k].id \in conns'[calls[k].conn].pending
      BY <1>1, <2>2, <3>1 DEF CallHolds
    <3> QED
      BY <2>2, <3>1, <3>2 DEF CallHolds
  <2> QED
    BY <2>1, <2>2
<1> QED
  BY <1>1, <1>2, <1>3 DEF Conserves

\* Connection c loses its table: its calls that wait end.
LEMMA Settles ==
  ASSUME RpcInv, NEW c \in 1..Len(conns), NEW x \in Connection, NEW what \in Ending,
         conns' = [conns EXCEPT ![c] = x],
         x.kind = conns[c].kind, x.made = conns[c].made, x.pending = {},
         calls' = Phone!Settled(c, conns[c].pending, what)
  PROVE  /\ Conserves
         /\ \A d \in 1..Len(conns) : d # c => conns'[d] = conns[d]
         /\ conns'[c] = x
<1> DEFINE ids == conns[c].pending
           Hit(k) == calls[k].conn = c /\ calls[k].id \in ids
           Ended(k) == EndCall(calls[k], what)
<1>1. PICK m \in Nat : m = Len(calls) /\ DOMAIN calls = 1..m
  BY LenProperties DEF RpcInv, RpcTypeOK
<1>2. calls' = [k \in 1..m |-> IF Hit(k) THEN Ended(k) ELSE calls[k]]
  BY <1>1 DEF Phone!Settled, EndCall
<1>3. \A k \in 1..m :
        /\ calls[k] \in ACall
        /\ Ended(k) \in ACall /\ Ended(k).conn = calls[k].conn /\ Ended(k).id = calls[k].id
        /\ ~Ended(k).timer /\ Ended(k).state # "waits"
        /\ Ended(k).by = calls[k].by /\ Ended(k).write = calls[k].write
  <2> TAKE k \in 1..m
  <2>1. calls[k] \in ACall
    BY <1>1 DEF RpcInv, RpcTypeOK
  <2> QED
    BY <2>1, EndedCall
<1> HIDE DEF Ended, Hit
<1>4. calls' \in Seq(ACall) /\ Len(calls') = Len(calls)
  <2>1. [k \in 1..m |-> IF Hit(k) THEN Ended(k) ELSE calls[k]] \in Seq(ACall)
    BY <1>3, IsASeq
  <2>2. Len([k \in 1..m |-> IF Hit(k) THEN Ended(k) ELSE calls[k]]) = m
    OBVIOUS
  <2> QED
    BY <1>1, <1>2, <2>1, <2>2
<1>5. \A k \in 1..m : calls[k].by \in {0, k}
  BY <1>1 DEF RpcInv, CallsHold, CallHolds
<1>6. \A k \in 1..m :
        /\ calls'[k].conn = calls[k].conn /\ calls'[k].id = calls[k].id
        /\ \/ calls'[k] = calls[k] /\ (calls[k].conn = c /\ calls[k].timer => calls[k].id \notin ids)
           \/ /\ ~calls'[k].timer /\ calls'[k].state # "waits"
              /\ calls'[k].by \in {0, k} /\ calls'[k].write \in {calls[k].write, "none"}
  <2> TAKE k \in 1..m
  <2>1. CASE Hit(k)
    <3>1. calls'[k] = Ended(k)
      BY <1>2, <2>1
    <3> QED
      BY <1>3, <1>5, <3>1
  <2>2. CASE ~Hit(k)
    <3>1. calls'[k] = calls[k]
      BY <1>2, <2>2
    <3> QED
      BY <2>2, <3>1 DEF Hit
  <2> QED
    BY <2>1, <2>2
<1> HIDE DEF ids
<1>7. conns[c].pending \ ids \subseteq x.pending
  BY DEF ids
<1> QED
  BY <1>1, <1>4, <1>6, <1>7, Unlists

\* The name leaves the registry, and its connection is closed.
LEMMA Removes ==
  ASSUME RpcInv, Phone!RemoveConnection
  PROVE  Conserves /\ (current # 0 => current' = 0) /\ (current = 0 => UNCHANGED <<current, stdins, heard, conns>>)
<1>1. CASE current = 0
  BY <1>1, Idle DEF Phone!RemoveConnection
<1>2. CASE current # 0
  <2>1. current' = 0 /\ Phone!Close(current) /\ current \in 1..Len(conns)
    BY <1>2 DEF Phone!RemoveConnection, RpcInv, RpcTypeOK
  <2>2. CASE conns[current].kind = "pid"
    <3>1. UNCHANGED <<conns, calls>>
      BY <2>1, <2>2 DEF Phone!Close
    <3> QED
      BY <1>2, <2>1, <3>1, Idle
  <2>3. CASE conns[current].kind # "pid"
    <3>1. /\ conns' = [conns EXCEPT ![current].closed = TRUE, ![current].pending = {}]
          /\ calls' = Phone!Settled(current, conns[current].pending, "closed")
      BY <2>1, <2>3 DEF Phone!Close
    <3>2. conns[current] \in Connection
      BY <2>1 DEF RpcInv, RpcTypeOK
    <3>3. PICK x : x = [conns[current] EXCEPT !.closed = TRUE, !.pending = {}]
      OBVIOUS
    <3>4. x \in Connection /\ x.kind = conns[current].kind /\ x.made = conns[current].made /\ x.pending = {}
      BY <3>2, <3>3 DEF Connection
    <3>5. conns' = [conns EXCEPT ![current] = x]
      BY <3>1, <3>3
    <3>6. "closed" \in Ending
      BY DEF Ending
    <3>7. Conserves
      BY <2>1, <3>1, <3>4, <3>5, <3>6, Settles
    <3> QED
      BY <1>2, <2>1, <3>7
  <2> QED
    BY <2>2, <2>3
<1> QED
  BY <1>1, <1>2

LEMMA Spawns ==
  ASSUME RpcInv, NEW kind \in {"rpc", "pid"}, Phone!SpawnHeadlessAgent(kind)
  PROVE  RpcInv'
<1>1. PICK n \in Nat : n = Len(conns)
  BY LenProperties DEF RpcInv, RpcTypeOK
<1>2. PICK x : x = [kind |-> kind, closed |-> FALSE, made |-> 0, pending |-> {}, stream |-> "open", proc |-> "runs"]
  OBVIOUS
<1>3. x \in Connection /\ x.kind = kind /\ x.closed = FALSE /\ x.made = 0 /\ x.pending = {}
  BY <1>2 DEF Connection
<1>4. /\ conns' = Append(conns, x) /\ current' = n + 1
      /\ kind = "pid" => stdins' = n + 1 /\ heard' = n + 1
      /\ UNCHANGED <<calls, wire, replies, check, kill>>
  BY <1>1, <1>2 DEF Phone!SpawnHeadlessAgent, Phone!RegisterHeadlessConnection, Phone!SetConnection
<1>5. conns \in Seq(Connection)
  BY DEF RpcInv, RpcTypeOK
<1>6. /\ conns' \in Seq(Connection) /\ Len(conns') = n + 1
      /\ \A c \in 1..n : conns'[c] = conns[c]
      /\ conns'[n + 1] = x
  BY <1>1, <1>3, <1>4, <1>5, AppendProperties
<1>7. RpcTypeOK'
  BY <1>1, <1>4, <1>6 DEF RpcInv, RpcTypeOK
<1>8. ClosedIsEmpty'
  <2>1. \A c \in 1..n+1 : c \in 1..n \/ c = n + 1
    BY <1>1
  <2>2. \A c \in 1..n : conns'[c].closed => conns'[c].pending = {}
    BY <1>1, <1>6 DEF RpcInv, ClosedIsEmpty
  <2> QED
    BY <1>3, <1>6, <2>1, <2>2 DEF ClosedIsEmpty
<1>9. \A k \in 1..Len(calls) : calls[k].conn \in 1..n /\ conns'[calls[k].conn] = conns[calls[k].conn]
  BY <1>1, <1>6 DEF RpcInv, CallsHold
<1>10. CallsHold'
  BY <1>1, <1>4, <1>6, <1>9 DEF RpcInv, CallsHold, CallHolds
<1>11. IdsDiffer'
  <2>1. \A j, k \in 1..Len(calls) :
          calls[j].conn = calls[k].conn /\ calls[j].id = calls[k].id
            /\ conns'[calls[j].conn].kind = "rpc" => j = k
    BY <1>9 DEF RpcInv, IdsDiffer
  <2> QED
    BY <1>4, <2>1 DEF IdsDiffer
<1>12. WireIsTrue'
  BY <1>4, <1>9 DEF RpcInv, WireIsTrue
<1>13. Registered'
  BY <1>3, <1>4, <1>6 DEF Registered
<1> QED
  BY <1>7, <1>8, <1>10, <1>11, <1>12, <1>13 DEF RpcInv

\* A call goes to the connection in the registry, under an id of its own.
LEMMA Asks ==
  ASSUME RpcInv, Phone!GetState
  PROVE  RpcInv'
<1>1. PICK n \in Nat : n = Len(conns)
  BY LenProperties DEF RpcInv, RpcTypeOK
<1>2. PICK m \in Nat : m = Len(calls)
  BY LenProperties DEF RpcInv, RpcTypeOK
<1>3. /\ current \in 1..n /\ ~conns[current].closed
      /\ conns[current] \in Connection /\ conns \in Seq(Connection) /\ calls \in Seq(ACall)
      /\ UNCHANGED <<current, stdins, heard, replies, kill>>
  BY <1>1 DEF RpcInv, RpcTypeOK, Registered, Phone!GetState
<1>4. \A k \in 1..m : calls[k].conn \in 1..n /\ CallHolds(k, calls[k], conns[calls[k].conn])
  BY <1>1, <1>2 DEF RpcInv, CallsHold
<1>5. \E x \in ACall, y \in Connection :
        /\ calls' = Append(calls, x) /\ conns' = [conns EXCEPT ![current] = y]
        /\ x.conn = current /\ CallHolds(m + 1, x, y)
        /\ y.kind = conns[current].kind /\ y.closed = conns[current].closed
        /\ conns[current].pending \subseteq y.pending
        /\ conns[current].made <= y.made
        /\ y.kind = "rpc" => x.id = conns[current].made
        /\ wire' \subseteq wire \cup {<<x.conn, x.id, m + 1>>}
        /\ y.kind = "rpc" \/ wire' = wire
  <2>1. CASE conns[current].kind = "pid"
    <3>1. PICK x : x = [conn |-> current, id |-> 0, timer |-> FALSE, state |-> Phone!PidState(current), write |-> "none", by |-> 0]
      OBVIOUS
    <3>2. Phone!PidState(current) \in Ending
      BY DEF Phone!PidState, Ending
    <3>3. x \in ACall /\ x.conn = current /\ x.timer = FALSE /\ x.state = Phone!PidState(current) /\ x.write = "none" /\ x.by = 0
      BY <1>3, <3>1, <3>2 DEF ACall
    <3>4. calls' = Append(calls, x) /\ UNCHANGED <<conns, wire>>
      BY <2>1, <3>1 DEF Phone!GetState, Phone!Call
    <3>5. conns' = [conns EXCEPT ![current] = conns[current]]
      BY <1>3, <3>4
    <3>6. CallHolds(m + 1, x, conns[current])
      BY <2>1, <3>2, <3>3 DEF CallHolds, Ending
    <3>7. conns[current].made <= conns[current].made
      BY <1>3 DEF Connection
    <3> QED
      BY <1>3, <2>1, <3>3, <3>4, <3>5, <3>6, <3>7
  <2>2. CASE conns[current].kind # "pid"
    <3> DEFINE c == current
               id == conns[current].made
    <3>1. PICK write \in {"sent", "fails", "throws"} :
            /\ conns' = [conns EXCEPT ![c].made = @ + 1, ![c].pending = @ \cup {id}]
            /\ calls' = Phone!Call(c, id, TRUE, IF write = "throws" THEN "thrown" ELSE "waits", write)
            /\ wire' = IF write = "sent" /\ conns[c].proc # "gone" THEN wire \cup {<<c, id, Len(calls) + 1>>} ELSE wire
      BY <2>2 DEF Phone!GetState, Phone!NextId, Phone!Writes
    <3>2. PICK x : x = [conn |-> c, id |-> id, timer |-> TRUE,
                        state |-> IF write = "throws" THEN "thrown" ELSE "waits", write |-> write, by |-> 0]
      OBVIOUS
    <3>3. x \in ACall /\ x.conn = c /\ x.id = id /\ x.timer = TRUE /\ x.by = 0
      BY <1>3, <3>2 DEF ACall, Ending, Connection
    <3>4. calls' = Append(calls, x)
      BY <3>1, <3>2 DEF Phone!Call
    <3>5. PICK y : y = [conns[c] EXCEPT !.made = @ + 1, !.pending = @ \cup {id}]
      OBVIOUS
    <3>6. /\ y \in Connection /\ y.kind = conns[c].kind /\ y.closed = conns[c].closed
          /\ y.made = id + 1 /\ y.pending = conns[c].pending \cup {id} /\ id \in Nat
      <4>1. y \in Connection /\ id \in Nat
        <5>1. id \in Nat /\ conns[c].pending \in SUBSET Nat
          BY <1>3 DEF Connection
        <5>2. PICK p \in SUBSET Nat : p = conns[c].pending \cup {id}
          BY <5>1
        <5>3. PICK i \in Nat : i = id + 1
          BY <5>1
        <5>4. y = [conns[c] EXCEPT !.made = i, !.pending = p]
          BY <3>5, <5>2, <5>3
        <5> QED
          BY <1>3, <5>1, <5>4 DEF Connection
      <4>2. y.kind = conns[c].kind /\ y.closed = conns[c].closed
        BY <1>3, <3>5 DEF Connection
      <4>3. y.made = id + 1 /\ y.pending = conns[c].pending \cup {id}
        BY <1>3, <3>5 DEF Connection
      <4> QED
        BY <4>1, <4>2, <4>3
    <3>7. conns' = [conns EXCEPT ![c] = y]
      BY <3>1, <3>5
    <3>8. conns[c].kind = "rpc" /\ y.kind = "rpc"
      BY <1>3, <2>2, <3>6 DEF Connection
    <3>9. CallHolds(m + 1, x, y)
      BY <3>3, <3>6, <3>8 DEF CallHolds
    <3>10. wire' \subseteq wire \cup {<<x.conn, x.id, m + 1>>}
      BY <1>2, <3>1, <3>3
    <3>11. id <= y.made
      BY <3>6
    <3> QED
      BY <3>3, <3>4, <3>6, <3>7, <3>8, <3>9, <3>10, <3>11
  <2> QED
    BY <2>1, <2>2
<1>6. PICK x \in ACall, y \in Connection :
        /\ calls' = Append(calls, x) /\ conns' = [conns EXCEPT ![current] = y]
        /\ x.conn = current /\ CallHolds(m + 1, x, y)
        /\ y.kind = conns[current].kind /\ y.closed = conns[current].closed
        /\ conns[current].pending \subseteq y.pending
        /\ conns[current].made <= y.made
        /\ y.kind = "rpc" => x.id = conns[current].made
        /\ wire' \subseteq wire \cup {<<x.conn, x.id, m + 1>>}
        /\ y.kind = "rpc" \/ wire' = wire
  BY <1>5
<1>7. /\ conns' \in Seq(Connection) /\ Len(conns') = n
      /\ \A c \in 1..n : conns'[c] = IF c = current THEN y ELSE conns[c]
  BY <1>1, <1>3, <1>6
<1>8. /\ calls' \in Seq(ACall) /\ Len(calls') = m + 1
      /\ \A k \in 1..m : calls'[k] = calls[k]
      /\ calls'[m + 1] = x
  BY <1>2, <1>3, <1>6, AppendProperties
<1>9. \A k \in 1..m+1 : k \in 1..m \/ k = m + 1
  BY <1>2
<1>10. \A c \in 1..n : conns'[c].kind = conns[c].kind /\ conns'[c].closed = conns[c].closed
  BY <1>6, <1>7
<1>11. RpcTypeOK'
  BY <1>1, <1>3, <1>7, <1>8 DEF RpcInv, RpcTypeOK
<1>12. ClosedIsEmpty'
  BY <1>1, <1>3, <1>7, <1>10 DEF RpcInv, ClosedIsEmpty
<1>13. CallsHold'
  <2>1. ASSUME NEW k \in 1..m PROVE calls[k].conn \in 1..n /\ CallHolds(k, calls[k], conns'[calls[k].conn])
    <3>1. calls[k].conn \in 1..n /\ CallHolds(k, calls[k], conns[calls[k].conn]) /\ calls[k] \in ACall
      BY <1>2, <1>3, <1>4
    <3>2. CASE calls[k].conn # current
      BY <1>7, <3>1, <3>2
    <3>3. CASE calls[k].conn = current
      <4>1. conns'[calls[k].conn] = y
        BY <1>3, <1>7, <3>3
      <4>2. calls[k].id \in Nat /\ y.made \in Nat /\ conns[current].made \in Nat
        BY <1>3, <3>1 DEF ACall, Connection
      <4>3. CallHolds(k, calls[k], conns[current])
        BY <3>1, <3>3
      <4> QED
        BY <1>6, <3>1, <4>1, <4>2, <4>3 DEF CallHolds
    <3> QED
      BY <3>2, <3>3
  <2>2. x.conn \in 1..n /\ CallHolds(m + 1, x, conns'[x.conn])
    BY <1>3, <1>6, <1>7
  <2> SUFFICES ASSUME NEW k \in 1..m+1
               PROVE  calls'[k].conn \in 1..n /\ CallHolds(k, calls'[k], conns'[calls'[k].conn])
    BY <1>7, <1>8 DEF CallsHold, CallHolds
  <2> QED
    BY <1>8, <1>9, <2>1, <2>2
<1>14. IdsDiffer'
  <2>1. \A k \in 1..m : calls[k].conn = current /\ y.kind = "rpc" => calls[k].id # x.id
    <3> TAKE k \in 1..m
    <3>1. CallHolds(k, calls[k], conns[calls[k].conn]) /\ calls[k] \in ACall
      BY <1>2, <1>3, <1>4
    <3>2. calls[k].id \in Nat /\ conns[current].made \in Nat
      BY <1>3, <3>1 DEF ACall, Connection
    <3> QED
      BY <1>6, <3>1, <3>2 DEF CallHolds
  <2> SUFFICES ASSUME NEW j \in 1..m+1, NEW k \in 1..m+1,
                      calls'[j].conn = calls'[k].conn, calls'[j].id = calls'[k].id,
                      conns'[calls'[j].conn].kind = "rpc"
               PROVE  j = k
    BY <1>8 DEF IdsDiffer
  <2>2. CASE j \in 1..m /\ k \in 1..m
    <3>1. calls[j].conn = calls[k].conn /\ calls[j].id = calls[k].id /\ conns[calls[j].conn].kind = "rpc"
      BY <1>4, <1>8, <1>10, <2>2
    <3> QED
      BY <1>2, <2>2, <3>1 DEF RpcInv, IdsDiffer
  <2>3. CASE j \in 1..m /\ k = m + 1
    <3>1. calls[j].conn = x.conn /\ calls[j].id = x.id /\ conns'[x.conn].kind = "rpc"
      BY <1>8, <2>3
    <3> QED
      BY <1>3, <1>6, <1>7, <2>1, <2>3, <3>1
  <2>4. CASE k \in 1..m /\ j = m + 1
    <3>1. calls[k].conn = x.conn /\ calls[k].id = x.id /\ conns'[x.conn].kind = "rpc"
      BY <1>8, <2>4
    <3> QED
      BY <1>3, <1>6, <1>7, <2>1, <2>4, <3>1
  <2> QED
    BY <1>9, <2>2, <2>3, <2>4
<1>15. WireIsTrue'
  <2> SUFFICES ASSUME NEW r \in wire' \cup replies
               PROVE  \E k \in 1..m+1 : r = <<calls'[k].conn, calls'[k].id, k>> /\ conns'[calls'[k].conn].kind = "rpc"
    BY <1>3, <1>8 DEF WireIsTrue
  <2>1. CASE r \in wire \cup replies
    <3>1. PICK k \in 1..m : r = <<calls[k].conn, calls[k].id, k>> /\ conns[calls[k].conn].kind = "rpc"
      BY <1>2, <2>1 DEF RpcInv, WireIsTrue
    <3>2. k \in 1..m+1 /\ calls'[k] = calls[k] /\ conns'[calls[k].conn].kind = "rpc"
      BY <1>2, <1>4, <1>8, <1>10, <3>1
    <3> QED
      BY <3>1, <3>2
  <2>2. CASE r \notin wire \cup replies
    <3>1. r = <<x.conn, x.id, m + 1>> /\ y.kind = "rpc"
      BY <1>6, <2>2
    <3>2. conns'[x.conn].kind = "rpc" /\ m + 1 \in 1..m+1
      BY <1>2, <1>3, <1>6, <1>7, <3>1
    <3> QED
      BY <1>8, <3>1, <3>2
  <2> QED
    BY <2>1, <2>2
<1>16. Registered'
  BY <1>1, <1>3, <1>10 DEF RpcInv, Registered
<1> QED
  BY <1>11, <1>12, <1>13, <1>14, <1>15, <1>16 DEF RpcInv

LEMMA Exits ==
  ASSUME RpcInv, Phone!Exit \/ Phone!Sigkill
  PROVE  RpcInv'
<1>1. PICK c \in 1..Len(conns) : conns' = [conns EXCEPT ![c].proc = "gone"]
  BY LenProperties DEF RpcInv, RpcTypeOK, Phone!Exit, Phone!Sigkill
<1>2. /\ UNCHANGED <<current, stdins, heard, calls, replies>> /\ wire' \subseteq wire
      /\ kill' \in [phase : {"idle", "polls", "aborted"}, conn : Nat]
      /\ kill'.phase = "polls" => kill'.conn \in 1..Len(conns)
  BY DEF RpcInv, RpcTypeOK, Phone!Exit, Phone!Sigkill
<1>3. Conserves /\ \A d \in 1..Len(conns) : conns'[d].closed = conns[d].closed
  BY <1>1, <1>2, Leaves
<1>4. Len(conns') = Len(conns)
  BY <1>3 DEF Conserves
<1>5. current' # 0 => ~conns'[current'].closed /\ UNCHANGED <<stdins, heard>>
  BY <1>2, <1>3 DEF RpcInv, RpcTypeOK, Registered
<1> QED
  BY <1>2, <1>3, <1>4, <1>5, Conserved

LEMMA Answers ==
  ASSUME RpcInv, Phone!Answer
  PROVE  RpcInv'
<1>1. PICK r \in wire : wire' = wire \ {r} /\ replies' = replies \cup {r}
  BY DEF Phone!Answer
<1>2. UNCHANGED <<conns, current, stdins, heard, calls, kill>> /\ wire' \cup replies' \subseteq wire \cup replies
  BY <1>1 DEF Phone!Answer
<1> QED
  BY <1>2, Idle, Conserved DEF RpcInv, RpcTypeOK, Registered

\* A reply ends its own call and no other.
LEMMA Lines ==
  ASSUME RpcInv, Phone!ProcessLine
  PROVE  RpcInv'
<1>1. PICK r \in replies :
        /\ replies' = replies \ {r}
        /\ IF r[2] \in conns[r[1]].pending
           THEN LET waits == {k \in DOMAIN calls : calls[k].conn = r[1] /\ calls[k].id = r[2] /\ calls[k].timer}
                IN /\ conns' = [conns EXCEPT ![r[1]].pending = @ \ {r[2]}]
                   /\ calls' = [k \in DOMAIN calls |->
                        IF k \notin waits THEN calls[k]
                        ELSE [calls[k] EXCEPT !.timer = FALSE,
                                              !.state = IF @ = "waits" THEN "answered" ELSE @, !.by = r[3]]]
           ELSE UNCHANGED <<conns, calls>>
        /\ UNCHANGED <<current, stdins, heard, wire, kill>>
  BY DEF Phone!ProcessLine
<1>2. PICK j \in 1..Len(calls) : r = <<calls[j].conn, calls[j].id, j>> /\ conns[calls[j].conn].kind = "rpc"
  BY DEF RpcInv, WireIsTrue
<1>3. PICK c \in 1..Len(conns) : c = calls[j].conn
  BY <1>2 DEF RpcInv, CallsHold
<1>4. calls[j] \in ACall /\ conns[c] \in Connection /\ j \in Nat
  BY <1>3 DEF RpcInv, RpcTypeOK
<1>5. PICK id \in Nat : id = calls[j].id
  BY <1>4 DEF ACall
<1>6. r[1] = c /\ r[2] = id /\ r[3] = j
  BY <1>2, <1>3, <1>5
<1>7. CASE id \notin conns[c].pending
  <2>1. UNCHANGED <<conns, calls>>
    BY <1>1, <1>6, <1>7
  <2> QED
    BY <1>1, <2>1, Idle, Conserved DEF RpcInv, RpcTypeOK, Registered
<1>8. CASE id \in conns[c].pending
  <2>1. PICK x : x = [conns[c] EXCEPT !.pending = @ \ {id}]
    OBVIOUS
  <2>2. /\ x \in Connection /\ x.kind = conns[c].kind /\ x.made = conns[c].made
        /\ x.pending = conns[c].pending \ {id} /\ x.closed = conns[c].closed
    BY <1>4, <2>1 DEF Connection
  <2>3. conns' = [conns EXCEPT ![c] = x]
    BY <1>1, <1>6, <1>8, <2>1
  <2>4. PICK m \in Nat : m = Len(calls) /\ DOMAIN calls = 1..m
    BY LenProperties DEF RpcInv, RpcTypeOK
  <2>5. \A k \in 1..m : calls[k].conn = c /\ calls[k].id = id => k = j
    BY <1>2, <1>3, <1>5, <2>4 DEF RpcInv, IdsDiffer
  <2>6. PICK y : y = [calls[j] EXCEPT !.timer = FALSE, !.state = IF @ = "waits" THEN "answered" ELSE @, !.by = j]
    OBVIOUS
  <2>7. y \in ACall /\ y.conn = c /\ y.id = id /\ ~y.timer /\ y.state # "waits" /\ y.by = j /\ y.write = calls[j].write
    <3>1. y \in ACall
      BY <1>4, <2>6 DEF ACall, Ending
    <3>2. y.conn = c /\ y.id = id /\ y.timer = FALSE /\ y.by = j /\ y.write = calls[j].write
      BY <1>3, <1>4, <1>5, <2>6 DEF ACall
    <3>3. y.state # "waits"
      BY <1>4, <2>6 DEF ACall
    <3> QED
      BY <3>1, <3>2, <3>3
  <2>8. calls' = [k \in 1..m |-> IF k = j /\ calls[j].timer THEN y ELSE calls[k]]
    <3> DEFINE waits == {k \in DOMAIN calls : calls[k].conn = r[1] /\ calls[k].id = r[2] /\ calls[k].timer}
    <3>1. \A k \in 1..m : k \in {i \in DOMAIN calls : calls[i].conn = r[1] /\ calls[i].id = r[2] /\ calls[i].timer}
                            <=> k = j /\ calls[j].timer
      BY <1>3, <1>5, <1>6, <2>4, <2>5
    <3>2. calls' = [k \in DOMAIN calls |->
                      IF k \notin waits THEN calls[k]
                      ELSE [calls[k] EXCEPT !.timer = FALSE,
                                            !.state = IF @ = "waits" THEN "answered" ELSE @, !.by = j]]
      BY <1>1, <1>6, <1>8
    <3>3. \A k \in 1..m : k \in waits <=> k = j /\ calls[j].timer
      BY <3>1
    <3> HIDE DEF waits
    <3>4. \A k \in 1..m :
            (IF k \notin waits THEN calls[k]
             ELSE [calls[k] EXCEPT !.timer = FALSE,
                                   !.state = IF @ = "waits" THEN "answered" ELSE @, !.by = j])
            = IF k = j /\ calls[j].timer THEN y ELSE calls[k]
      BY <2>6, <3>3
    <3> QED
      BY <2>4, <3>2, <3>4
  <2>9. \A k \in 1..m : calls[k] \in ACall
    BY <2>4 DEF RpcInv, RpcTypeOK
  <2>10. calls' \in Seq(ACall) /\ Len(calls') = Len(calls)
    <3>1. [k \in 1..m |-> IF k = j /\ calls[j].timer THEN y ELSE calls[k]] \in Seq(ACall)
      BY <2>7, <2>9, IsASeq
    <3>2. Len([k \in 1..m |-> IF k = j /\ calls[j].timer THEN y ELSE calls[k]]) = m
      OBVIOUS
    <3> QED
      BY <2>4, <2>8, <3>1, <3>2
  <2>11. \A k \in 1..m :
           /\ calls'[k].conn = calls[k].conn /\ calls'[k].id = calls[k].id
           /\ \/ calls'[k] = calls[k] /\ (calls[k].conn = c /\ calls[k].timer => calls[k].id \notin {id})
              \/ /\ ~calls'[k].timer /\ calls'[k].state # "waits"
                 /\ calls'[k].by \in {0, k} /\ calls'[k].write \in {calls[k].write, "none"}
    <3> TAKE k \in 1..m
    <3>1. CASE k = j /\ calls[j].timer
      BY <1>3, <1>5, <2>7, <2>8, <3>1
    <3>2. CASE ~(k = j /\ calls[j].timer)
      <4>1. calls'[k] = calls[k]
        BY <2>8, <3>2
      <4> QED
        BY <2>5, <3>2, <4>1
    <3> QED
      BY <3>1, <3>2
  <2>12. x.closed => x.pending = {}
    BY <2>2 DEF RpcInv, ClosedIsEmpty
  <2>13. Conserves /\ (\A d \in 1..Len(conns) : d # c => conns'[d] = conns[d]) /\ conns'[c] = x
    <3>1. conns[c].pending \ {id} \subseteq x.pending
      BY <2>2
    <3> QED
      BY <2>2, <2>3, <2>4, <2>10, <2>11, <2>12, <3>1, Unlists
  <2>14. current' # 0 => ~conns'[current].closed /\ UNCHANGED <<stdins, heard>>
    <3>1. UNCHANGED <<current, stdins, heard>>
      BY <1>1
    <3>2. ASSUME current # 0 PROVE ~conns'[current].closed
      <4>1. current \in 1..Len(conns) /\ ~conns[current].closed
        BY <3>2 DEF RpcInv, RpcTypeOK, Registered
      <4> QED
        BY <2>2, <2>13, <4>1
    <3> QED
      BY <3>1, <3>2
  <2>15. /\ wire' \cup replies' \subseteq wire \cup replies /\ current' \in {0, current}
         /\ kill' \in [phase : {"idle", "polls", "aborted"}, conn : Nat]
         /\ kill'.phase = "polls" => kill'.conn \in 1..Len(conns)
    BY <1>1 DEF RpcInv, RpcTypeOK
  <2> QED
    BY <2>13, <2>14, <2>15, Conserved
<1> QED
  BY <1>7, <1>8

\* A call that fails takes its own entry out of the table and no other.
LEMMA CallFails ==
  ASSUME RpcInv, Phone!Timeout \/ Phone!WriteFails
  PROVE  RpcInv'
<1>1. PICK m \in Nat : m = Len(calls) /\ DOMAIN calls = 1..m
  BY LenProperties DEF RpcInv, RpcTypeOK
<1>2. PICK j \in 1..m, what \in {"late", "unwritten"} :
        Phone!Fails(j, what) /\ (calls[j].timer \/ calls[j].write = "fails")
  BY <1>1 DEF Phone!Timeout, Phone!WriteFails
<1>3. /\ conns' = [conns EXCEPT ![calls[j].conn].pending = @ \ {calls[j].id}]
      /\ calls' = [calls EXCEPT ![j].timer = FALSE, ![j].state = IF @ = "waits" THEN what ELSE @,
                                ![j].write = IF what = "unwritten" THEN "none" ELSE @]
      /\ UNCHANGED <<current, stdins, heard, wire, replies, kill>>
  BY <1>2 DEF Phone!Fails
<1>4. PICK c \in 1..Len(conns) : c = calls[j].conn
  BY <1>1 DEF RpcInv, CallsHold
<1>5. calls[j] \in ACall /\ conns[c] \in Connection /\ CallHolds(j, calls[j], conns[c])
  BY <1>1, <1>4 DEF RpcInv, RpcTypeOK, CallsHold
<1>6. conns[c].kind = "rpc"
  <2>1. conns[c].kind \in {"rpc", "pid"}
    BY <1>5 DEF Connection
  <2> QED
    BY <1>2, <1>5, <2>1 DEF CallHolds
<1>7. PICK x : x = [conns[c] EXCEPT !.pending = @ \ {calls[j].id}]
  OBVIOUS
<1>8. /\ x \in Connection /\ x.kind = conns[c].kind /\ x.made = conns[c].made
      /\ x.pending = conns[c].pending \ {calls[j].id} /\ x.closed = conns[c].closed
  BY <1>5, <1>7 DEF Connection
<1>9. conns' = [conns EXCEPT ![c] = x]
  BY <1>3, <1>4, <1>7
<1>10. PICK y : y = [calls[j] EXCEPT !.timer = FALSE, !.state = IF @ = "waits" THEN what ELSE @,
                                     !.write = IF what = "unwritten" THEN "none" ELSE @]
  OBVIOUS
<1>11. /\ y \in ACall /\ y.conn = c /\ y.id = calls[j].id /\ ~y.timer /\ y.state # "waits"
       /\ y.by \in {0, j} /\ y.write \in {calls[j].write, "none"}
  <2>1. y \in ACall
    BY <1>5, <1>10 DEF ACall, Ending
  <2>2. y.conn = c /\ y.id = calls[j].id /\ y.timer = FALSE /\ y.by = calls[j].by
    BY <1>4, <1>5, <1>10 DEF ACall
  <2>3. y.state # "waits" /\ y.write \in {calls[j].write, "none"}
    BY <1>5, <1>10 DEF ACall
  <2> QED
    BY <1>5, <2>1, <2>2, <2>3 DEF CallHolds
<1>12. calls' = [calls EXCEPT ![j] = y]
  BY <1>3, <1>10
<1>13. calls' \in Seq(ACall) /\ Len(calls') = Len(calls) /\ \A k \in 1..m : calls'[k] = IF k = j THEN y ELSE calls[k]
  BY <1>1, <1>11, <1>12, ExceptSeq DEF RpcInv, RpcTypeOK
<1>14. \A k \in 1..m : calls[k].conn = c /\ calls[k].id = calls[j].id => k = j
  BY <1>1, <1>4, <1>6 DEF RpcInv, IdsDiffer
<1>15. \A k \in 1..m :
         /\ calls'[k].conn = calls[k].conn /\ calls'[k].id = calls[k].id
         /\ \/ calls'[k] = calls[k] /\ (calls[k].conn = c /\ calls[k].timer => calls[k].id \notin {calls[j].id})
            \/ /\ ~calls'[k].timer /\ calls'[k].state # "waits"
               /\ calls'[k].by \in {0, k} /\ calls'[k].write \in {calls[k].write, "none"}
  <2> TAKE k \in 1..m
  <2>1. CASE k = j
    BY <1>4, <1>11, <1>13, <2>1
  <2>2. CASE k # j
    BY <1>13, <1>14, <2>2
  <2> QED
    BY <2>1, <2>2
<1>16. x.closed => x.pending = {}
  BY <1>8 DEF RpcInv, ClosedIsEmpty
<1>17. Conserves /\ (\A d \in 1..Len(conns) : d # c => conns'[d] = conns[d]) /\ conns'[c] = x
  <2>1. conns[c].pending \ {calls[j].id} \subseteq x.pending
    BY <1>8
  <2> QED
    BY <1>1, <1>8, <1>9, <1>13, <1>15, <1>16, <2>1, Unlists
<1>18. current' # 0 => ~conns'[current].closed /\ UNCHANGED <<stdins, heard>>
  BY <1>3, <1>8, <1>17 DEF RpcInv, RpcTypeOK, Registered
<1>19. /\ wire' \cup replies' \subseteq wire \cup replies /\ current' \in {0, current}
       /\ kill' \in [phase : {"idle", "polls", "aborted"}, conn : Nat]
       /\ kill'.phase = "polls" => kill'.conn \in 1..Len(conns)
  BY <1>3 DEF RpcInv, RpcTypeOK
<1> QED
  BY <1>17, <1>18, <1>19, Conserved

\* The output of a process that has left ends: whoever waits is told.
LEMMA Drains ==
  ASSUME RpcInv, Phone!Drained
  PROVE  RpcInv'
<1>1. PICK c \in 1..Len(conns) :
        /\ conns' = [conns EXCEPT ![c].stream = "ended", ![c].pending = {}]
        /\ calls' = Phone!Settled(c, conns[c].pending, "closed")
        /\ replies' \subseteq replies
        /\ UNCHANGED <<current, stdins, heard, wire, kill>>
  BY LenProperties DEF RpcInv, RpcTypeOK, Phone!Drained
<1>2. conns[c] \in Connection
  BY DEF RpcInv, RpcTypeOK
<1>3. PICK x : x = [conns[c] EXCEPT !.stream = "ended", !.pending = {}]
  OBVIOUS
<1>4. /\ x \in Connection /\ x.kind = conns[c].kind /\ x.made = conns[c].made
      /\ x.pending = {} /\ x.closed = conns[c].closed
  BY <1>2, <1>3 DEF Connection
<1>5. conns' = [conns EXCEPT ![c] = x] /\ "closed" \in Ending
  BY <1>1, <1>3 DEF Ending
<1>6. Conserves /\ (\A d \in 1..Len(conns) : d # c => conns'[d] = conns[d]) /\ conns'[c] = x
  BY <1>1, <1>4, <1>5, Settles
<1>7. current' # 0 => ~conns'[current].closed /\ UNCHANGED <<stdins, heard>>
  BY <1>1, <1>4, <1>6 DEF RpcInv, RpcTypeOK, Registered
<1>8. /\ wire' \cup replies' \subseteq wire \cup replies /\ current' \in {0, current}
      /\ kill' \in [phase : {"idle", "polls", "aborted"}, conn : Nat]
      /\ kill'.phase = "polls" => kill'.conn \in 1..Len(conns)
  BY <1>1 DEF RpcInv, RpcTypeOK
<1> QED
  BY <1>6, <1>7, <1>8, Conserved

\* Stops, checks that give up and kills that end remove the connection of the name.
LEMMA Drops ==
  ASSUME RpcInv, Phone!Stop \/ Phone!GiveUp \/ Phone!Aborted
  PROVE  RpcInv'
<1>1. Phone!RemoveConnection /\ UNCHANGED <<wire, replies>>
  BY DEF Phone!Stop, Phone!GiveUp, Phone!Aborted
<1>2. kill' \in [phase : {"idle", "polls", "aborted"}, conn : Nat]
      /\ (kill'.phase = "polls" => kill'.conn \in 1..Len(conns))
  BY DEF RpcInv, RpcTypeOK, Phone!Stop, Phone!GiveUp, Phone!Aborted
<1>3. Conserves /\ current' = 0
  BY <1>1, Removes
<1>4. kill'.phase = "polls" => kill'.conn \in 1..Len(conns')
  BY <1>2, <1>3 DEF Conserves
<1> QED
  BY <1>1, <1>2, <1>3, <1>4, Conserved

LEMMA KillSteps ==
  ASSUME RpcInv, Phone!KillAgent \/ Phone!PollGone \/ Phone!Checked \/ UNCHANGED rpcVars
  PROVE  RpcInv'
<1>1. UNCHANGED <<conns, current, stdins, heard, calls, wire, replies>>
  BY DEF Phone!KillAgent, Phone!PollGone, Phone!Checked, rpcVars
<1>2. kill' \in [phase : {"idle", "polls", "aborted"}, conn : Nat]
      /\ (kill'.phase = "polls" => kill'.conn \in 1..Len(conns'))
  <2>1. CASE Phone!KillAgent
    <3>1. PICK n \in Nat : n = Len(conns)
      BY LenProperties DEF RpcInv, RpcTypeOK
    <3>2. current \in 1..n
      BY <2>1, <3>1 DEF RpcInv, RpcTypeOK, Phone!KillAgent
    <3>3. kill' = [phase |-> IF conns[current].kind = "rpc" THEN "aborted" ELSE "polls", conn |-> current]
      BY <2>1 DEF Phone!KillAgent
    <3> QED
      BY <1>1, <3>1, <3>2, <3>3
  <2>2. CASE Phone!PollGone
    BY <1>1, <2>2 DEF RpcInv, RpcTypeOK, Phone!PollGone
  <2>3. CASE Phone!Checked \/ UNCHANGED rpcVars
    BY <1>1, <2>3 DEF RpcInv, RpcTypeOK, Phone!Checked, rpcVars
  <2> QED
    BY <2>1, <2>2, <2>3
<1>3. Conserves
  BY <1>1, Idle
<1> QED
  BY <1>1, <1>2, <1>3, Conserved DEF RpcInv, Registered

LEMMA RpcNexts == RpcInv /\ [Phone!RpcNext]_rpcVars => RpcInv'
<1> SUFFICES ASSUME RpcInv, [Phone!RpcNext]_rpcVars PROVE RpcInv'
  OBVIOUS
<1>1. CASE Phone!Ask \/ Phone!Check
  BY <1>1, Asks DEF Phone!Ask, Phone!Check
<1> QED
  BY <1>1, Spawns, Exits, Answers, Lines, CallFails, Drains, Drops, KillSteps DEF Phone!RpcNext

LEMMA RpcHolds == RpcInv => Phone!CallsEnd /\ Phone!OwnAnswer /\ Phone!ListenersFollow
<1> SUFFICES ASSUME RpcInv PROVE Phone!CallsEnd /\ Phone!OwnAnswer /\ Phone!ListenersFollow
  OBVIOUS
<1>1. DOMAIN calls = 1..Len(calls) /\ DOMAIN conns = 1..Len(conns)
  BY LenProperties DEF RpcInv, RpcTypeOK
<1>2. Phone!CallsEnd
  BY <1>1 DEF RpcInv, CallsHold, CallHolds, ClosedIsEmpty, Phone!CallsEnd, Phone!Waits
<1>3. Phone!OwnAnswer
  BY <1>1 DEF RpcInv, CallsHold, CallHolds, Phone!OwnAnswer
<1>4. Phone!ListenersFollow
  BY DEF RpcInv, Registered, Phone!ListenersFollow
<1> QED
  BY <1>2, <1>3, <1>4

-----------------------------------------------------------------------------
(* The lock *)

USE DEF Running

LEMMA InitHolds == LockInit => SentinelInv
<1> SUFFICES ASSUME LockInit PROVE SentinelInv
  OBVIOUS
<1> USE LockConstants DEF LockInit, NoFile, Stale
<1>1. LockTypeOK
  BY DEF LockTypeOK
<1>2. FileOfCreator /\ StaleIsFirst
  BY DEF FileOfCreator, StaleIsFirst
<1>3. \A p \in Procs : ~Alive(p)
  BY DEF Alive
<1>4. RivalsHaveMet /\ NoFalseRefusal
  BY <1>3 DEF RivalsHaveMet, NoFalseRefusal
<1> QED
  BY <1>1, <1>2, <1>4 DEF SentinelInv

\* Every step of a command keeps the types.
LEMMA TypeStep ==
  ASSUME LockTypeOK, NEW p \in Procs, CommandStep(p)
  PROVE  LockTypeOK'
<1>1. CASE Start(p)
  BY <1>1 DEF LockTypeOK, Start, Move
<1>2. CASE Create(p)
  BY <1>2 DEF LockTypeOK, Create, Move
<1>3. CASE Write(p)
  BY <1>3 DEF LockTypeOK, Write, Move
<1>4. CASE Inspect(p)
  BY <1>4 DEF LockTypeOK, Inspect, Move
<1>5. CASE Unlink(p)
  BY <1>5 DEF LockTypeOK, Unlink, Remove, Move
<1>6. CASE Release(p)
  BY <1>6 DEF LockTypeOK, Release, Remove, Move
<1>7. CASE Kill(p)
  BY <1>7 DEF LockTypeOK, Kill, Move
<1> QED
  BY <1>1, <1>2, <1>3, <1>4, <1>5, <1>6, <1>7 DEF CommandStep

LEMMA FileStep ==
  ASSUME LockTypeOK, FileOfCreator, NEW p \in Procs, CommandStep(p)
  PROVE  FileOfCreator'
<1> USE LockConstants
<1>1. CASE Start(p)
  BY <1>1 DEF LockTypeOK, FileOfCreator, Start, Move
<1>2. CASE Create(p)
  BY <1>2 DEF LockTypeOK, FileOfCreator, Create, Move
<1>3. CASE Write(p)
  BY <1>3 DEF LockTypeOK, FileOfCreator, Write, Move
<1>4. CASE Inspect(p)
  BY <1>4 DEF LockTypeOK, FileOfCreator, Inspect, Move
<1>5. CASE Unlink(p)
  BY <1>5 DEF LockTypeOK, FileOfCreator, Unlink, Remove, Move
<1>6. CASE Release(p)
  BY <1>6 DEF LockTypeOK, FileOfCreator, Release, Remove, Move
<1>7. CASE Kill(p)
  BY <1>7 DEF LockTypeOK, FileOfCreator, Kill, Move, Alive
<1> QED
  BY <1>1, <1>2, <1>3, <1>4, <1>5, <1>6, <1>7 DEF CommandStep

LEMMA StaleStep ==
  ASSUME LockTypeOK, StaleIsFirst, NEW p \in Procs, CommandStep(p)
  PROVE  StaleIsFirst'
<1> USE LockConstants DEF Stale, NoFile
<1>1. CASE Start(p)
  BY <1>1 DEF LockTypeOK, StaleIsFirst, Start, Move
<1>2. CASE Create(p)
  <2> SUFFICES ASSUME NEW t \in Targets, file'[t] = Stale,
                      NEW q \in Procs, target'[q] = t
               PROVE  at'[q] \in {"start", "create", "inspect", "unlink", "killed"}
    BY DEF StaleIsFirst
  <2>1. file[t] = Stale /\ target[q] = t
    BY <1>2 DEF LockTypeOK, Create
  <2>2. at[q] \in {"start", "create", "inspect", "unlink", "killed"}
    BY <2>1 DEF StaleIsFirst
  <2> QED
    BY <1>2, <2>1, <2>2 DEF LockTypeOK, Create, Move
<1>3. CASE Write(p)
  BY <1>3 DEF LockTypeOK, StaleIsFirst, Write, Move
<1>4. CASE Inspect(p)
  <2> SUFFICES ASSUME NEW t \in Targets, file'[t] = Stale,
                      NEW q \in Procs, target'[q] = t
               PROVE  at'[q] \in {"start", "create", "inspect", "unlink", "killed"}
    BY DEF StaleIsFirst
  <2>1. file[t] = Stale /\ target[q] = t
    BY <1>4 DEF Inspect
  <2>2. at[q] \in {"start", "create", "inspect", "unlink", "killed"}
    BY <2>1 DEF StaleIsFirst
  <2>3. ~Alive(file[t])
    BY <2>1 DEF Alive
  <2>4. CASE q = p
    BY <1>4, <2>1, <2>3, <2>4 DEF LockTypeOK, Inspect, Move
  <2>5. CASE q # p
    BY <1>4, <2>2, <2>5 DEF LockTypeOK, Inspect, Move
  <2> QED
    BY <2>4, <2>5
<1>5. CASE Unlink(p)
  BY <1>5 DEF LockTypeOK, StaleIsFirst, Unlink, Remove, Move
<1>6. CASE Release(p)
  BY <1>6 DEF LockTypeOK, StaleIsFirst, Release, Remove, Move
<1>7. CASE Kill(p)
  BY <1>7 DEF LockTypeOK, StaleIsFirst, Kill, Move
<1> QED
  BY <1>1, <1>2, <1>3, <1>4, <1>5, <1>6, <1>7 DEF CommandStep

\* Running together is symmetric, and who comes to run has just started.
LEMMA MetStep ==
  ASSUME LockTypeOK, FileOfCreator, RivalsHaveMet, NEW p \in Procs, CommandStep(p)
  PROVE  RivalsHaveMet'
<1> USE LockConstants DEF NoFile, Stale
<1>1. CASE Start(p)
  BY <1>1 DEF LockTypeOK, RivalsHaveMet, Start, Move, Alive, Rivals
<1>2. CASE Create(p)
  <2>1. \A q \in Procs : Alive(q)' = Alive(q) \/ q = p
    BY <1>2 DEF LockTypeOK, Create, Move, Alive
  <2>2. \A q \in Procs : Alive(q)' => Alive(q)
    BY <1>2 DEF LockTypeOK, Create, Move, Alive
  <2>3. \A q \in Procs : Rivals(q)' \subseteq Rivals(q)
    BY <1>2, <2>2 DEF Create, Rivals
  <2>4. \A q \in Procs : Alive(q)' /\ Rivals(q)' # {} => met'[q]
    BY <1>2, <2>2, <2>3 DEF RivalsHaveMet, Create
  <2>5. ASSUME NEW q \in Procs, at'[q] = "retry", file'[target'[q]] \in Procs
        PROVE  met'[q]
    <3>1. q # p /\ at[q] = "retry" /\ target'[q] = target[q] /\ met' = met
      BY <1>2, <2>5 DEF LockTypeOK, Create, Move
    <3>2. CASE file'[target[q]] = file[target[q]]
      BY <2>5, <3>1, <3>2 DEF RivalsHaveMet
    <3>3. CASE file'[target[q]] # file[target[q]]
      <4>1. target[q] = target[p] /\ Alive(p) /\ Alive(q)
        BY <1>2, <3>1, <3>3 DEF LockTypeOK, Create, Alive
      <4>2. p \in Rivals(q)
        BY <3>1, <4>1 DEF Rivals
      <4> QED
        BY <3>1, <4>1, <4>2 DEF RivalsHaveMet
    <3> QED
      BY <3>2, <3>3
  <2> QED
    BY <2>4, <2>5 DEF RivalsHaveMet
<1>3. CASE Write(p)
  BY <1>3 DEF LockTypeOK, RivalsHaveMet, Write, Move, Alive, Rivals
<1>4. CASE Inspect(p)
  BY <1>4 DEF LockTypeOK, RivalsHaveMet, Inspect, Move, Alive, Rivals
<1>5. CASE Unlink(p)
  BY <1>5 DEF LockTypeOK, RivalsHaveMet, Unlink, Remove, Move, Alive, Rivals
<1>6. CASE Release(p)
  BY <1>6 DEF LockTypeOK, RivalsHaveMet, Release, Remove, Move, Alive, Rivals
<1>7. CASE Kill(p)
  BY <1>7 DEF LockTypeOK, RivalsHaveMet, Kill, Move, Alive, Rivals
<1> QED
  BY <1>1, <1>2, <1>3, <1>4, <1>5, <1>6, <1>7 DEF CommandStep

LEMMA RefusalStep ==
  ASSUME SentinelInv, NEW p \in Procs, CommandStep(p)
  PROVE  NoFalseRefusal'
<1> USE LockConstants DEF SentinelInv, NoFile, Stale
<1>1. CASE Start(p)
  BY <1>1 DEF LockTypeOK, NoFalseRefusal, Start, Move
<1>2. CASE Create(p)
  <2>1. at[p] = "retry" /\ file[target[p]] # NoFile => met[p]
    <3>1. at[p] = "retry" => file[target[p]] # Stale
      BY DEF LockTypeOK, StaleIsFirst
    <3> QED
      BY <3>1 DEF LockTypeOK, RivalsHaveMet
  <2> QED
    BY <1>2, <2>1 DEF LockTypeOK, NoFalseRefusal, Create, Move
<1>3. CASE Write(p)
  BY <1>3 DEF LockTypeOK, NoFalseRefusal, Write, Move
<1>4. CASE Inspect(p)
  <2>1. Alive(file[target[p]]) => met[p]
    <3>1. Alive(file[target[p]]) => file[target[p]] \in Rivals(p)
      BY <1>4 DEF LockTypeOK, FileOfCreator, Inspect, Alive, Rivals
    <3> QED
      BY <1>4, <3>1 DEF RivalsHaveMet, Inspect, Alive
  <2> QED
    BY <1>4, <2>1 DEF LockTypeOK, NoFalseRefusal, Inspect, Move
<1>5. CASE Unlink(p)
  BY <1>5 DEF LockTypeOK, NoFalseRefusal, Unlink, Remove, Move
<1>6. CASE Release(p)
  BY <1>6 DEF LockTypeOK, NoFalseRefusal, Release, Remove, Move
<1>7. CASE Kill(p)
  BY <1>7 DEF LockTypeOK, NoFalseRefusal, Kill, Move
<1> QED
  BY <1>1, <1>2, <1>3, <1>4, <1>5, <1>6, <1>7 DEF CommandStep

LEMMA StepHolds == SentinelInv /\ [LockNext]_lockVars => SentinelInv'
<1> SUFFICES ASSUME SentinelInv, [LockNext]_lockVars PROVE SentinelInv'
  OBVIOUS
<1>1. ASSUME NEW p \in Procs, CommandStep(p)
      PROVE  SentinelInv'
  BY <1>1, TypeStep, FileStep, StaleStep, MetStep, RefusalStep DEF SentinelInv
<1>2. CASE UNCHANGED lockVars
  BY <1>2 DEF lockVars, SentinelInv, LockTypeOK, FileOfCreator, StaleIsFirst,
     RivalsHaveMet, NoFalseRefusal, Alive, Rivals
<1> QED
  BY <1>1, <1>2 DEF LockNext

\* The sentinel file tells the truth about who created it, in every execution.
THEOREM SentinelInvariant == LockSpec => []SentinelInv
BY InitHolds, StepHolds, PTL DEF LockSpec

\* As long as pids are not given out again, a refused merge command has met one that
\* ran: what a killed one left behind alone refuses nobody.
THEOREM NobodyIsRefusedFalsely == LockSpec => []NoFalseRefusal
<1>1. SentinelInv => NoFalseRefusal
  BY DEF SentinelInv
<1> QED
  BY <1>1, SentinelInvariant, PTL

\* Once all commands have ended by themselves, their targets have no lock file.
THEOREM NothingIsLeftBehind == LockSpec => []NothingLeftBehind
<1>1. SentinelInv => NothingLeftBehind
  BY LockConstants
  DEF SentinelInv, LockTypeOK, FileOfCreator, StaleIsFirst, NothingLeftBehind, NoFile, Stale
<1> QED
  BY <1>1, SentinelInvariant, PTL

-----------------------------------------------------------------------------
(* The sides *)

\* Each takes its own steps only.
LEMMA SideInits ==
  SideInit => /\ TailInv /\ HookInv /\ AskInv /\ RpcInv /\ PageInv /\ LaunchInv /\ ProxyInv /\ PidInv
              /\ Budget!Init /\ Signalling!Init /\ Watch!Init
BY TailInit, HookInit, AskInit, RpcInit, PageInit, LaunchInits, ProxyStarts, PidInit DEF SideInit

LEMMA SideSteps ==
  [SideNext]_sideVars =>
    /\ [Tailer!Next]_tailVars /\ [Hook!Next]_hookVars /\ [Word!Next]_askVars /\ [Phone!RpcNext]_rpcVars
    /\ [Page!ConsoleNext]_consoleVars /\ [Begun!LaunchNext]_launchVars
    /\ [Bearer!ProxyNext]_proxyVars /\ [Pid!Next]_pidVars
    /\ [Budget!Next]_sweepVars /\ [Signalling!Next]_turnVars /\ [Watch!Next]_watchVars
BY DEF SideNext, sideVars

\* The recorded events of an agent are whole lines of its logs, in order and none twice until
\* the daemon that polls them restarts, for any number of lines, lives and polls
\* (events/tailer.ts, watchdog/daemon.ts).  The end of a tool call closes its own start as
\* long as calls of that tool do not run in parallel and no start is lost, and a session has
\* one outcome more at most than hooks died or could not unlink (commands/log.ts, events/store.ts).
THEOREM EventsHoldAlways == SideSpec => []EventsHold
<1>1. SideSpec => [](TailInv /\ HookInv)
  <2>1. SideInit => TailInv /\ HookInv
    BY SideInits
  <2>2. TailInv /\ HookInv /\ [SideNext]_sideVars => (TailInv /\ HookInv)'
    BY SideSteps, TailNext, HookNext
  <2> QED
    BY <2>1, <2>2, PTL DEF SideSpec
<1>2. TailInv /\ HookInv => EventsHold
  BY HookHolds DEF EventsHold, TailInv
<1> QED
  BY <1>1, <1>2, PTL

\* An ask prints a reply to its own question or gives up with none in time; each getState
\* ends, with its own answer if with any, and the listeners follow the connection; the
\* coordinator's page loses no mail it showed.  For any number of askers, connections, calls,
\* letters and messages, however they interleave (commands/coordinator.ts,
\* runtimes/connections.ts, runtimes/headless-connection.ts, ConsolePage.tsx).
THEOREM AnswersHoldAlways == SideSpec => []AnswersHold
<1>1. SideSpec => [](AskInv /\ RpcInv /\ PageInv)
  <2>1. SideInit => AskInv /\ RpcInv /\ PageInv
    BY SideInits
  <2>2. AskInv /\ RpcInv /\ PageInv /\ [SideNext]_sideVars => (AskInv /\ RpcInv /\ PageInv)'
    BY SideSteps, AskNext, RpcNexts, PageNext
  <2> QED
    BY <2>1, <2>2, PTL DEF SideSpec
<1>2. AskInv /\ RpcInv /\ PageInv => AnswersHold
  BY AskHolds, RpcHolds, PageHolds DEF AnswersHold
<1> QED
  BY <1>1, <1>2, PTL

\* A later turn uses the runtime of the launch, and a headless worker is driven, if no runtime
\* was named there and config.yaml did not change; hooks match the mode, and flags are obeyed
\* (commands/sling.ts, agents/turn-runner-dispatch.ts).  No command that starts the proxy
\* fails because of another (runtimes/sapling-proxy.ts).  Two watchdogs run together only
\* after a pid file was taken for stale (utils/pid.ts, commands/watch.ts).
THEOREM LaunchHoldsAlways == SideSpec => []LaunchHolds
<1>1. SideSpec => [](LaunchInv /\ ProxyInv /\ PidInv)
  <2>1. SideInit => LaunchInv /\ ProxyInv /\ PidInv
    BY SideInits
  <2>2. LaunchInv /\ ProxyInv /\ PidInv /\ [SideNext]_sideVars => (LaunchInv /\ ProxyInv /\ PidInv)'
    BY SideSteps, LaunchNexts, ProxyNext, PidNext
  <2> QED
    BY <2>1, <2>2, PTL DEF SideSpec
<1>2. LaunchInv /\ ProxyInv /\ PidInv => LaunchHolds
  BY LaunchKeeps, ProxyHolds, PidHolds DEF LaunchHolds
<1> QED
  BY <1>1, <1>2, PTL

-----------------------------------------------------------------------------
(* The drive, the turns of a worker and the watchdog *)

\* What the proofs about Drive, WorkerTurn and Watchdog say of the three instances.
D == INSTANCE DriveProofs WITH
  Seed <- "seed", TopCapability <- "lead", Kids <- {Builder},
  Correspondents <- {<<"lead", "seed">>, Builder, <<"reviewer", "t1">>}, MaxTurns <- 3,
  NoProgressLimit <- 3, NoMerge <- FALSE, Background <- TRUE,
  MaxHead <- 1, MaxMail <- 2, unread <- posted, mail <- verdicts, expired <- overdue,
  pc <- place, turn <- turnOf, turns <- spent, loop <- sweep, killed <- cutOff
W == INSTANCE WorkerTurnProofs WITH
  Mails <- Messages, Ticks <- {}, EventSignaling <- TRUE, MaxTurns <- 3, MaxCrashes <- 1,
  StopAllowed <- TRUE,
  row <- wRow, age <- wAge, escal <- wEscal, unread <- wUnread, sent <- wSent, lock <- wLock,
  at <- wAt, initial <- wInitial, batch <- wBatch, base <- wBase, flags <- wFlags, final <-
  wFinal, told <- wTold, child <- wChild, orphan <- wOrphan, pidFile <- wPidFile, tick <-
  wTick, look <- wLook, stop <- wStop, done <- wDone, died <- wDied, reported <- wReported,
  turns <- wTurns, crashes <- wCrashes
G == INSTANCE WatchdogProofs WITH
  Agents <- {"w"}, Persistent <- {}, Kinds <- {"headless", "tmux"}, Ticks <- DogTicks,
  Tier1 <- FALSE, MaxTriage <- 0, MaxLives <- 2, MaxCrashes <- 0,
  kind <- dKind, row <- dRow, pid <- dPid, tmux <- dTmux, stubborn <- dStubborn, rung <- dRung,
  life <- dLife, up <- dUp, at <- dAt, hand <- dHand, seen <- dSeen, triaged <- dTriaged,
  marker <- dMarker, known <- dKnown, missed <- dMissed, reports <- dReports, batch <- dBatch,
  crashes <- dCrashes

\* D, W and G stand for the same formulas as Budget, Signalling and Watch: both sides expand
\* to them.
LEMMA SameDrive == [Budget!Next]_sweepVars => [D!Next]_D!vars
<1>1. Budget!Next => D!Next
  BY DEF Budget!Next, D!Next, Budget!AgentStep, D!AgentStep, Budget!Sling, D!Sling, Budget!Elsewhere,
     D!Elsewhere, Budget!ghosts, D!ghosts, Budget!review, D!review, Budget!engine, D!engine,
     Budget!HasRow, D!HasRow, Budget!Top, D!Top, Budget!AgentClosesSeed, D!AgentClosesSeed,
     Budget!Running, D!Running, Budget!Nobody, D!Nobody, Budget!world, D!world,
     Budget!BranchMoves, D!BranchMoves, Budget!SendVerdict, D!SendVerdict, Budget!Reviewer,
     D!Reviewer, Budget!AgentMails, D!AgentMails, Budget!Agents, D!Agents, Budget!Builders,
     D!Builders, Budget!SlingStep, D!SlingStep, Budget!AwayEnds, D!AwayEnds, Budget!Settled,
     D!Settled, Budget!SlingFails, D!SlingFails, Budget!SlingSpawns, D!SlingSpawns,
     Budget!Spawned, D!Spawned, Budget!IsBuilder, D!IsBuilder, Budget!Ends, D!Ends,
     Budget!DriverStep, D!DriverStep, Budget!ReviewStep, D!ReviewStep, Budget!Gates, D!Gates,
     Budget!Complete, D!Complete, Budget!Finish, D!Finish, Budget!EndWith, D!EndWith,
     Budget!Live, D!Live, Budget!MergedNames, D!MergedNames, Budget!KindsOf, D!KindsOf,
     Budget!Incomplete, D!Incomplete, Budget!Trip, D!Trip, Budget!Tally, D!Tally,
     Budget!NoneMerged, D!NoneMerged, Budget!MergeThrows, D!MergeThrows, Budget!Branch,
     D!Branch, Budget!Merge, D!Merge, Budget!Conclude, D!Conclude, Budget!Recheck, D!Recheck,
     Budget!Proceed, D!Proceed, Budget!Predict, D!Predict, Budget!ReadVerdict, D!ReadVerdict,
     Budget!Judged, D!Judged, Budget!Verdict, D!Verdict, Budget!After, D!After,
     Budget!ReviewTurnEnds, D!ReviewTurnEnds, Budget!EnterLoop, D!EnterLoop, Budget!TurnEnds,
     D!TurnEnds, Budget!MayEnd, D!MayEnd, Budget!ReviewerRefused, D!ReviewerRefused,
     Budget!SpawnReviewer, D!SpawnReviewer, Budget!BranchTrips, D!BranchTrips, Budget!Breaker,
     D!Breaker, Budget!DeadlineBreaker, D!DeadlineBreaker, Budget!PickBranch, D!PickBranch,
     Budget!Reconcile, D!Reconcile, Budget!InRowOrder, D!InRowOrder, Budget!Position,
     D!Position, Budget!FailedOrTimedOut, D!FailedOrTimedOut, Budget!SweepStep, D!SweepStep,
     Budget!SweepEnds, D!SweepEnds, Budget!DispatchThrows, D!DispatchThrows, Budget!Abandon,
     D!Abandon, Budget!DispatchEnds, D!DispatchEnds, Budget!DispatchLocked, D!DispatchLocked,
     Budget!MayDispatch, D!MayDispatch, Budget!Dispatch, D!Dispatch, Budget!SkipAgent,
     D!SkipAgent, Budget!SweepBegins, D!SweepBegins, Budget!LoopTrips, D!LoopTrips,
     Budget!BeforeDispatch, D!BeforeDispatch, Budget!LoopEnds, D!LoopEnds, Budget!SeedStep,
     D!SeedStep, Budget!SeedTurnEnds, D!SeedTurnEnds, Budget!SpawnSeed, D!SpawnSeed,
     Budget!SeedRefused, D!SeedRefused, Budget!SeedTrips, D!SeedTrips, Budget!Expire, D!Expire,
     Budget!SetToSeqs, D!SetToSeqs, Budget!Cardinality, D!Cardinality
<1>2. UNCHANGED sweepVars => UNCHANGED D!vars
  BY DEF sweepVars, D!vars, D!ghosts, D!review, D!engine, D!world
<1> QED
  BY <1>1, <1>2

LEMMA SameDriveEnds == (Budget!Init => D!Init) /\ (D!TurnBudgetKept => Budget!TurnBudgetKept)
BY DEF Budget!TurnBudgetKept, D!TurnBudgetKept, Budget!Init, D!Init, Budget!NoResult, D!NoResult,
     Budget!Nobody, D!Nobody, Budget!Agents, D!Agents, Budget!Reviewer, D!Reviewer,
     Budget!Builders, D!Builders, Budget!Top, D!Top

LEMMA SameTurns == [Signalling!Next]_turnVars => [W!Next]_W!vars
<1>1. Signalling!Next => W!Next
  BY DEF Signalling!Next, W!Next, Signalling!TickStep, W!TickStep, Signalling!TickTell, W!TickTell,
     Signalling!TickEnd, W!TickEnd, Signalling!NoLook, W!NoLook, Signalling!count_vars,
     W!count_vars, Signalling!proc_vars, W!proc_vars, Signalling!run_vars, W!run_vars,
     Signalling!inbox_vars, W!inbox_vars, Signalling!row_vars, W!row_vars,
     Signalling!TickZombify, W!TickZombify, Signalling!NotStalled, W!NotStalled,
     Signalling!TickMove, W!TickMove, Signalling!Try, W!Try, Signalling!Absent, W!Absent,
     Signalling!AfterTry, W!AfterTry, Signalling!CanMove, W!CanMove, Signalling!AllowedFrom,
     W!AllowedFrom, Signalling!Active, W!Active, Signalling!Terminal, W!Terminal,
     Signalling!AgentState, W!AgentState, Signalling!parent_vars, W!parent_vars,
     Signalling!TickEscalate, W!TickEscalate, Signalling!TickForward, W!TickForward,
     Signalling!TickCheck, W!TickCheck, Signalling!Evaluate, W!Evaluate, Signalling!Gone,
     W!Gone, Signalling!Check, W!Check, Signalling!TimeBased, W!TimeBased,
     Signalling!Transition, W!Transition, Signalling!Order, W!Order, Signalling!TickTerminate,
     W!TickTerminate, Signalling!TickQuiet, W!TickQuiet, Signalling!TickRead, W!TickRead,
     Signalling!Runners, W!Runners, Signalling!StopReap, W!StopReap, Signalling!dog_vars,
     W!dog_vars, Signalling!StopKill, W!StopKill, Signalling!StopRead, W!StopRead,
     Signalling!RunnerStep, W!RunnerStep, Signalling!Crash, W!Crash, Signalling!Leave, W!Leave,
     Signalling!Move, W!Move, Signalling!Nobody, W!Nobody, Signalling!EndTurn, W!EndTurn,
     Signalling!TellParent, W!TellParent, Signalling!Synthesize, W!Synthesize, Signalling!Death,
     W!Death, Signalling!EventFailure, W!EventFailure, Signalling!EventSuccess, W!EventSuccess,
     Signalling!CompletedViaEvents, W!CompletedViaEvents, Signalling!TerminalMailMissing,
     W!TerminalMailMissing, Signalling!Settle, W!Settle, Signalling!FinalState, W!FinalState,
     Signalling!Observe, W!Observe, Signalling!Note, W!Note, Signalling!ChildExit, W!ChildExit,
     Signalling!CutShort, W!CutShort, Signalling!ChildMail, W!ChildMail, Signalling!ChildEvent,
     W!ChildEvent, Signalling!TurnThrows, W!TurnThrows, Signalling!PublishPid, W!PublishPid,
     Signalling!Spawn, W!Spawn, Signalling!SetupFails, W!SetupFails, Signalling!LockTimeOut,
     W!LockTimeOut, Signalling!Acquire, W!Acquire, Signalling!OrphanMail, W!OrphanMail,
     Signalling!OrphanExit, W!OrphanExit, Signalling!LoopTick, W!LoopTick, Signalling!Sling,
     W!Sling, Signalling!PassTime, W!PassTime, Signalling!SendMail, W!SendMail
<1>2. UNCHANGED turnVars => UNCHANGED W!vars
  BY DEF turnVars, W!vars, W!count_vars, W!dog_vars, W!proc_vars, W!run_vars, W!parent_vars, W!inbox_vars,
     W!row_vars
<1> QED
  BY <1>1, <1>2

LEMMA SameTurnsEnds == (Signalling!Init => W!Init) /\ (W!NoSilentEnd => Signalling!NoSilentEnd)
BY DEF Signalling!NoSilentEnd, W!NoSilentEnd, Signalling!Runners, W!Runners, Signalling!Init, W!Init,
     Signalling!NoLook, W!NoLook, Signalling!Nobody, W!Nobody, Signalling!Absent, W!Absent

LEMMA SameWatch == [Watch!Next]_watchVars => [G!Next]_G!vars
<1>1. Watch!Next => G!Next
  BY DEF Watch!Next, G!Next, Watch!TickBegin, G!TickBegin, Watch!TickStep, G!TickStep,
     Watch!Restart, G!Restart, Watch!Environment, G!Environment, Watch!Crash, G!Crash,
     Watch!Work, G!Work, Watch!Die, G!Die, Watch!Finish, G!Finish, Watch!Resling, G!Resling,
     Watch!Look, G!Look, Watch!Kill, G!Kill, Watch!Settle, G!Settle, Watch!Nudge, G!Nudge,
     Watch!TurnEnds, G!TurnEnds, Watch!Triage, G!Triage, Watch!AfterRows, G!AfterRows,
     Watch!Announce, G!Announce, Watch!Mark, G!Mark, Watch!Busy, G!Busy, Watch!Goes, G!Goes,
     Watch!GoesOn, G!GoesOn, Watch!Reading, G!Reading, Watch!Unseen, G!Unseen, Watch!Ahead,
     G!Ahead, Watch!Held, G!Held, Watch!Nothing, G!Nothing, Watch!Hand, G!Hand, Watch!Begun,
     G!Begun, Watch!Holds, G!Holds, Watch!Escalation, G!Escalation, Watch!Moved, G!Moved,
     Watch!Climb, G!Climb, Watch!RowKind, G!RowKind, Watch!Probe, G!Probe, Watch!Judge,
     G!Judge, Watch!Act, G!Act, Watch!KillTree, G!KillTree, Watch!News, G!News,
     Watch!NotifyParent, G!NotifyParent, Watch!Verdict, G!Verdict, Watch!Answers, G!Answers,
     Watch!AllTerminal, G!AllTerminal, Watch!Telling, G!Telling, Watch!Workers, G!Workers,
     Watch!Live, G!Live, Watch!Running, G!Running, Watch!MaxRung, G!MaxRung,
     Watch!agentVars, G!agentVars, Watch!rowVars, G!rowVars, Watch!tickVars, G!tickVars,
     Watch!runVars, G!runVars, Watch!talkVars, G!talkVars, Watch!Evaluate, G!Evaluate,
     Watch!Gone, G!Gone, Watch!Check, G!Check, Watch!TimeBased, G!TimeBased,
     Watch!Transition, G!Transition, Watch!Order, G!Order, Watch!Age, G!Age, Watch!AfterTry,
     G!AfterTry, Watch!CanMove, G!CanMove, Watch!AllowedFrom, G!AllowedFrom, Watch!Active,
     G!Active, Watch!Terminal, G!Terminal, Watch!AgentState, G!AgentState
<1>2. UNCHANGED watchVars => UNCHANGED G!vars
  BY DEF watchVars, G!vars, G!agentVars, G!rowVars, G!tickVars, G!runVars, G!talkVars
<1> QED
  BY <1>1, <1>2

LEMMA SameWatchEnds == /\ Watch!Init => G!Init
                       /\ G!ZombieIsReported /\ G!ReportsWithinOverlap
                            => Watch!ZombieIsReported /\ Watch!ReportsWithinOverlap
BY DEF Watch!ZombieIsReported, G!ZombieIsReported, Watch!ReportsWithinOverlap,
     G!ReportsWithinOverlap, Watch!Telling, G!Telling, Watch!Workers, G!Workers, Watch!Init,
     G!Init, Watch!Kind, G!Kind, Watch!Nothing, G!Nothing, Watch!Unseen, G!Unseen,
     Watch!Cardinality, G!Cardinality

\* A drive whose agents write to each other spends no more turns than its budget
\* (commands/drive.ts), no turn of a runtime that signals its end by events ends in silence,
\* for any messages (agents/turn-runner.ts), and of a zombie the parent was told, is being
\* told or was missed by a mishap, by no more ticks than overlap, for any number of ticks
\* side by side (watchdog/daemon.ts).
THEOREM TurnsHoldAlways == SideSpec => []TurnsHold
<1>1. SideInit => D!Init /\ W!Init /\ G!Init
  BY SideInits, SameDriveEnds, SameTurnsEnds, SameWatchEnds
<1>2. [SideNext]_sideVars => [D!Next]_D!vars /\ [W!Next]_W!vars /\ [G!Next]_G!vars
  BY SideSteps, SameDrive, SameTurns, SameWatch
<1>3. SideSpec => D!Spec /\ W!Spec /\ G!SafetySpec
  BY <1>1, <1>2, PTL DEF SideSpec, D!Spec, W!Spec, G!SafetySpec
<1>4. D!Spec => []D!TurnBudgetKept
  <2>1. D!IsFiniteSet({Builder})
    BY FS_Singleton DEF IsFiniteSet, D!IsFiniteSet
  <2>2. Builder[2] = "t1" /\ Builder[1] = "builder" /\ Builder = <<"builder", "t1">>
    BY DEF Builder
  <2>3. {Builder} \subseteq {"builder", "scout"} \X {k[2] : k \in {Builder}}
    BY <2>2
  <2>4. D!DriveConstants
    BY <2>1, <2>3 DEF D!DriveConstants
  <2> QED
    BY <2>4, D!TurnBudgetIsKept
<1>5. W!Spec => []W!NoSilentEnd
  BY W!NoTurnEndsInSilence
<1>6. G!SafetySpec => [](G!ZombieIsReported /\ G!ReportsWithinOverlap)
  <2>1. G!WatchdogAssumption
    BY AgentConstants DEF G!WatchdogAssumption, G!Kind, IsFiniteSet, G!IsFiniteSet
  <2> QED
    BY <2>1, G!EveryZombieIsReported, G!DeathIsReportedByOverlapOnly, PTL
<1>7. (D!TurnBudgetKept /\ W!NoSilentEnd /\ G!ZombieIsReported /\ G!ReportsWithinOverlap)
        => TurnsHold
  BY SameDriveEnds, SameTurnsEnds, SameWatchEnds DEF TurnsHold
<1> QED
  BY <1>3, <1>4, <1>5, <1>6, <1>7, PTL
=============================================================================
