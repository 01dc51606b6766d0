------------------------------ MODULE TurnLock ------------------------------
(***************************************************************************)
(* The per-agent turn lock of agents/turn-lock.ts, for one agent.          *)
(*                                                                         *)
(* Layer 1 chains the calls of one process behind each other (the promise  *)
(* in inProcessTails).  Layer 2 is the row of turn-locks.db: a lease that  *)
(* names the pid of its holder, claimed in a BEGIN IMMEDIATE transaction   *)
(* and stolen when that pid is dead.  Processes crash at any moment and    *)
(* the operating system gives the pid of a dead process to a later one.    *)
(***************************************************************************)
EXTENDS Naturals, Sequences

CONSTANTS
  Procs,             \* operating-system processes, each one lifetime of a pid
  Pids,
  PidOf,             \* pid of each process; two processes may share one
  Calls,             \* acquireTurnLock calls
  ProcOf,            \* the process each call runs in
  NoPid,             \* SQL NULL in held_by_pid
  OpenDbMayFail      \* whether openDb can throw (SQLITE_BUSY, I/O error)

ASSUME ConstantsAssumption ==
  /\ PidOf \in [Procs -> Pids]
  /\ ProcOf \in [Calls -> Procs]
  /\ NoPid \notin Pids
  /\ OpenDbMayFail \in BOOLEAN

VARIABLES
  life,              \* of each process: "unborn", "alive" or "dead"
  pc,                \* progress of each call
  chain,             \* per process, the calls whose `current` is unresolved
  expired,           \* calls whose deadline has passed
  heldBy             \* held_by_pid of the agent's row

lockVars == <<life, pc, chain, expired, heldBy>>

Phases == {"idle", "queued", "polling", "holding", "released", "failed", "unopened"}

TypeOK ==
  /\ life \in [Procs -> {"unborn", "alive", "dead"}]
  /\ pc \in [Calls -> Phases]
  /\ chain \in [Procs -> Seq(Calls)]
  /\ expired \in SUBSET Calls
  /\ heldBy \in Pids \cup {NoPid}

Alive(p) == life[p] = "alive"

\* Seeded bug for the runs: a pid we may not signal (EPERM) counts as dead.
PidAliveIfSignallable(pid) == FALSE

\* defaultIsProcessAlive: some live process, ours or not, answers to the pid.
PidAlive(pid) == \E p \in Procs : Alive(p) /\ PidOf[p] = pid

MyPid(c) == PidOf[ProcOf[c]]

\* `await previous` resolves once every earlier call of the process released.
First(c) == /\ chain[ProcOf[c]] # <<>>
            /\ Head(chain[ProcOf[c]]) = c

\* inProcessRelease: resolve `current`, so the next call in the chain proceeds.
Unchain(c) == chain' = [chain EXCEPT ![ProcOf[c]] = Tail(@)]

\* The row is free, its holder is dead, or its holder is this very process.
Claimable(c) ==
  \/ heldBy = NoPid
  \/ ~PidAlive(heldBy)
  \/ heldBy = MyPid(c)

LockInit ==
  /\ life = [p \in Procs |-> "unborn"]
  /\ pc = [c \in Calls |-> "idle"]
  /\ chain = [p \in Procs |-> <<>>]
  /\ expired = {}
  /\ heldBy = NoPid

-----------------------------------------------------------------------------
(* The processes *)

\* A process starts; its pid is not in use by a live process.
Start(p) ==
  /\ life[p] = "unborn"
  /\ ~PidAlive(PidOf[p])
  /\ life' = [life EXCEPT ![p] = "alive"]
  /\ UNCHANGED <<pc, chain, expired, heldBy>>

\* A process exits or crashes: its calls stop where they are, the row stays.
Crash(p) ==
  /\ Alive(p)
  /\ life' = [life EXCEPT ![p] = "dead"]
  /\ UNCHANGED <<pc, chain, expired, heldBy>>

-----------------------------------------------------------------------------
(* acquireTurnLock *)

\* The synchronous prefix: take `previous`, become the tail of the chain.
Enter(c) ==
  /\ Alive(ProcOf[c])
  /\ pc[c] = "idle"
  /\ pc' = [pc EXCEPT ![c] = "queued"]
  /\ chain' = [chain EXCEPT ![ProcOf[c]] = Append(@, c)]
  /\ UNCHANGED <<life, expired, heldBy>>

\* Seeded bug for the runs: `await previous` is forgotten.
OpenWithoutWaiting(c) ==
  /\ Alive(ProcOf[c])
  /\ pc[c] = "queued"
  /\ pc' = [pc EXCEPT ![c] = "polling"]
  /\ UNCHANGED <<life, chain, expired, heldBy>>

\* `await previous` returns; the database opens and the deadline is set.
Open(c) ==
  /\ Alive(ProcOf[c])
  /\ pc[c] = "queued"
  /\ First(c)
  /\ pc' = [pc EXCEPT ![c] = "polling"]
  /\ UNCHANGED <<life, chain, expired, heldBy>>

\* openDb throws outside any try block: the call rejects, its link of the
\* chain is never resolved.
OpenFails(c) ==
  /\ OpenDbMayFail
  /\ Alive(ProcOf[c])
  /\ pc[c] = "queued"
  /\ First(c)
  /\ pc' = [pc EXCEPT ![c] = "unopened"]
  /\ UNCHANGED <<life, chain, expired, heldBy>>

\* The wall clock passes the deadline of a polling call.
Expire(c) ==
  /\ Alive(ProcOf[c])
  /\ pc[c] = "polling"
  /\ c \notin expired
  /\ expired' = expired \cup {c}
  /\ UNCHANGED <<life, pc, chain, heldBy>>

\* Seeded bug for the runs: the UPDATE of the claim is not committed.
ClaimWithoutWrite(c) ==
  /\ Alive(ProcOf[c])
  /\ pc[c] = "polling"
  /\ Claimable(c)
  /\ pc' = [pc EXCEPT ![c] = "holding"]
  /\ UNCHANGED <<life, chain, expired, heldBy>>

\* BEGIN IMMEDIATE .. COMMIT: the row is claimed.
Claim(c) ==
  /\ Alive(ProcOf[c])
  /\ pc[c] = "polling"
  /\ Claimable(c)
  /\ heldBy' = MyPid(c)
  /\ pc' = [pc EXCEPT ![c] = "holding"]
  /\ UNCHANGED <<life, chain, expired>>

\* Seeded bug for the runs: a timeout throws without tearDown.
TimeOutWithoutTearDown(c) ==
  /\ Alive(ProcOf[c])
  /\ pc[c] = "polling"
  /\ ~Claimable(c)
  /\ c \in expired
  /\ pc' = [pc EXCEPT ![c] = "failed"]
  /\ UNCHANGED <<life, chain, expired, heldBy>>

\* A poll that found a live holder, with the deadline behind it: tearDown and
\* throw.  (Before the deadline such a poll rolls back and sleeps: no change.)
TimeOut(c) ==
  /\ Alive(ProcOf[c])
  /\ pc[c] = "polling"
  /\ ~Claimable(c)
  /\ c \in expired
  /\ pc' = [pc EXCEPT ![c] = "failed"]
  /\ Unchain(c)
  /\ UNCHANGED <<life, expired, heldBy>>

\* The transaction fails: BEGIN stays busy past the deadline, or a statement
\* inside it throws.  Nothing is written, tearDown runs and the call rejects.
TxFails(c) ==
  /\ Alive(ProcOf[c])
  /\ pc[c] = "polling"
  /\ pc' = [pc EXCEPT ![c] = "failed"]
  /\ Unchain(c)
  /\ UNCHANGED <<life, expired, heldBy>>

-----------------------------------------------------------------------------
(* release of the handle *)

\* The first release() of a handle.  When `swallowed`, the UPDATE threw and the
\* row keeps our pid; otherwise the row is cleared if it still names us.
Release(c, swallowed) ==
  /\ Alive(ProcOf[c])
  /\ pc[c] = "holding"
  /\ heldBy' = IF ~swallowed /\ heldBy = MyPid(c) THEN NoPid ELSE heldBy
  /\ pc' = [pc EXCEPT ![c] = "released"]
  /\ Unchain(c)
  /\ UNCHANGED <<life, expired>>

-----------------------------------------------------------------------------

CallStep(c) ==
  \/ Enter(c)
  \/ Open(c)
  \/ OpenFails(c)
  \/ Expire(c)
  \/ Claim(c)
  \/ TimeOut(c)
  \/ TxFails(c)
  \/ \E swallowed \in BOOLEAN : Release(c, swallowed)

LockNext ==
  \/ \E p \in Procs : Start(p) \/ Crash(p)
  \/ \E c \in Calls : CallStep(c)

LockSpec == LockInit /\ [][LockNext]_lockVars

\* A live process runs its event loop: promises settle, polls repeat, the clock
\* passes, and runTurn releases its handle in a finally block.
LockFairness ==
  \A c \in Calls :
    /\ WF_lockVars(Open(c))
    /\ WF_lockVars(Expire(c))
    /\ WF_lockVars(Claim(c) \/ TimeOut(c))
    /\ WF_lockVars(\E swallowed \in BOOLEAN : Release(c, swallowed))

FairSpec == LockSpec /\ LockFairness

-----------------------------------------------------------------------------
(* Properties *)

Holders == {c \in Calls : pc[c] = "holding" /\ Alive(ProcOf[c])}

Served == {c \in Calls : pc[c] \in {"holding", "released"}}

\* Two turns of one agent never run at the same time, whichever processes they
\* run in and whatever crashed before (header, "never overlap").
MutualExclusion == \A c, d \in Holders : c = d

\* The lease names the process that runs the turn: no crash, steal or late
\* release of another call clears or overwrites it under the holder.
LeaseNamesHolder == \A c \in Holders : heldBy = MyPid(c)

\* The inductive strengthening: live pids are unique, a process makes no
\* call before it starts, a call past `await previous` is first in its chain,
\* and a holder's lease is intact.
LivePidsUnique ==
  \A p, q \in Procs : Alive(p) /\ Alive(q) /\ PidOf[p] = PidOf[q] => p = q

ActiveIsFirst == \A c \in Calls : pc[c] \in {"polling", "holding"} => First(c)

UnbornIsIdle ==
  \A c \in Calls : life[ProcOf[c]] = "unborn" => pc[c] = "idle"

LockInv ==
  /\ TypeOK
  /\ LivePidsUnique
  /\ UnbornIsIdle
  /\ ActiveIsFirst
  /\ LeaseNamesHolder

\* The lock implements the abstract mutex: it is handed over only through a
\* moment with no live holder, and each call is served at most once.
Mutex == INSTANCE TurnMutex WITH holders <- Holders, served <- Served
ImplementsMutex == Mutex!Spec

\* A call that waits gets the lock or an error, unless its process dies or an
\* earlier call of the process could not open the database: no crashed,
\* timed-out or rolled-back call leaves the ones behind it waiting.
Stranded(c) == \E d \in Calls : ProcOf[d] = ProcOf[c] /\ pc[d] = "unopened"

EveryCallSettles ==
  \A c \in Calls :
    pc[c] = "queued" ~> \/ pc[c] \in {"holding", "released", "failed"}
                        \/ ~Alive(ProcOf[c])
                        \/ Stranded(c)

\* release() says that an "SQL failure must not block in-process release": a
\* call that gave up is no longer in front of the others of its process.
FailureUnblocksChain ==
  \A c \in Calls : pc[c] \in {"failed", "unopened"} => ~First(c)
=============================================================================
