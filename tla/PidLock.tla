------------------------------ MODULE PidLock -------------------------------
(***************************************************************************)
(* The start and the end of ov watch (commands/watch.ts) around the pid    *)
(* file of utils/pid.ts.  The file is created with its content by link(),  *)
(* so that nobody reads it half written.  A daemon takes the lock for its  *)
(* own pid; ov watch --background spawns the daemon and takes the lock for *)
(* the child's pid at the same time.  A caller is <<daemon, role>>.        *)
(***************************************************************************)
EXTENDS Naturals

CONSTANT Daemons  \* processes that ov watch starts; a daemon is its pid

NoPid == "none"
Role == {"self", "parent"}
Caller == Daemons \X Role

VARIABLES
  file,     \* the pid in watchdog.pid, or NoPid
  alive,    \* daemons whose process exists
  pc,       \* where a caller is
  tries,    \* attempts of acquirePidLock left
  killed,   \* the daemons a caller of --kill-others has signalled
  reclaimed \* whether a file was ever removed as stale

vars == <<file, alive, pc, tries, killed, reclaimed>>

Pid(c) == c[1]
Self(d) == <<d, "self">>
Parent(d) == <<d, "parent">>

Init ==
  /\ file = NoPid /\ alive = {} /\ reclaimed = FALSE
  /\ pc = [c \in Caller |-> "off"] /\ tries = [c \in Caller |-> 0]
  /\ killed = [c \in Caller |-> {}]

Goto(c, p) == pc' = [pc EXCEPT ![c] = p]

-----------------------------------------------------------------------------
\* ov watch in the foreground.
Foreground(d) ==
  /\ pc[Self(d)] = "off" /\ pc[Parent(d)] = "off"
  /\ alive' = alive \cup {d}
  /\ \/ Goto(Self(d), "link") /\ tries' = [tries EXCEPT ![Self(d)] = 2]
     \/ Goto(Self(d), "kill") /\ UNCHANGED tries
  /\ UNCHANGED <<file, killed, reclaimed>>

\* ov watch --background: a friendly look at the file first, then the child.
Background(d) ==
  /\ pc[Self(d)] = "off" /\ pc[Parent(d)] = "off"
  /\ IF file \in alive
       THEN Goto(Parent(d), "done") /\ UNCHANGED <<alive, tries, reclaimed>>
       ELSE /\ alive' = alive \cup {d}
            /\ pc' = [pc EXCEPT ![Self(d)] = "link", ![Parent(d)] = "link"]
            /\ tries' = [tries EXCEPT ![Self(d)] = 2, ![Parent(d)] = 2]
  /\ UNCHANGED <<file, killed, reclaimed>>

\* killForeignWatchdogs: SIGTERM to every other daemon found by ps.  No handler
\* is installed for it: the daemon dies and leaves the file.
Kill(c) ==
  /\ pc[c] = "kill" /\ Goto(c, "reclaim")
  /\ killed' = [killed EXCEPT ![c] = alive \ {Pid(c)}]
  /\ alive' = alive \cap {Pid(c)}
  /\ UNCHANGED <<file, tries, reclaimed>>

\* The pid file of a daemon that was killed, or is dead, is removed.
Reclaim(c) ==
  /\ pc[c] = "reclaim" /\ Goto(c, "link")
  /\ LET stale == file # NoPid /\ (file \in killed[c] \/ file \notin alive)
     IN  /\ file' = IF stale THEN NoPid ELSE file
         /\ reclaimed' = (reclaimed \/ stale)
  /\ tries' = [tries EXCEPT ![c] = 2]
  /\ UNCHANGED <<alive, killed>>

-----------------------------------------------------------------------------
(* acquirePidLock *)

\* Seeded bug for the runs: the pid is written over whatever the file holds.
LinkOver(c) ==
  /\ pc[c] = "link" /\ Pid(c) \in alive
  /\ file' = Pid(c) /\ Goto(c, "acquired")
  /\ UNCHANGED <<alive, tries, killed, reclaimed>>

\* link(): creates the file with the pid in it, or EEXIST.
Link(c) ==
  /\ pc[c] = "link" /\ (c[2] = "parent" \/ Pid(c) \in alive)
  /\ IF file = NoPid THEN file' = Pid(c) /\ Goto(c, "acquired")
                     ELSE Goto(c, "read") /\ UNCHANGED file
  /\ UNCHANGED <<alive, tries, killed, reclaimed>>

\* The holder is read: oneself, a living process, or a pid to reclaim.
Read(c) ==
  /\ pc[c] = "read"
  /\ Goto(c, CASE file = Pid(c) -> "acquired"
               [] file # Pid(c) /\ file \in alive -> "refused"
               [] OTHER -> "unlink")
  /\ UNCHANGED <<file, alive, tries, killed, reclaimed>>

\* The file is removed by name, whoever has it by now; one more attempt, and
\* then the caller is refused.
Unlink(c) ==
  /\ pc[c] = "unlink"
  /\ file' = NoPid /\ tries' = [tries EXCEPT ![c] = @ - 1]
  /\ Goto(c, IF tries[c] > 1 THEN "link" ELSE "refused")
  /\ reclaimed' = TRUE
  /\ UNCHANGED <<alive, killed>>

\* The daemon runs or exits; the parent exits, and kills a child it could not
\* get the lock for.
Settle(c) ==
  /\ pc[c] \in {"acquired", "refused"}
  /\ Goto(c, IF pc[c] = "acquired" /\ c[2] = "self" THEN "in" ELSE "done")
  /\ alive' = IF pc[c] = "refused" THEN alive \ {Pid(c)} ELSE alive
  /\ UNCHANGED <<file, tries, killed, reclaimed>>

-----------------------------------------------------------------------------
\* SIGINT: the daemon stops and removes the file by name.
Interrupt(d) ==
  /\ pc[Self(d)] = "in" /\ d \in alive
  /\ file' = NoPid /\ alive' = alive \ {d}
  /\ UNCHANGED <<pc, tries, killed, reclaimed>>

\* The daemon dies.
Die(d) ==
  /\ d \in alive /\ alive' = alive \ {d}
  /\ UNCHANGED <<file, pc, tries, killed, reclaimed>>

Next ==
  \/ \E d \in Daemons : Foreground(d) \/ Background(d) \/ Interrupt(d) \/ Die(d)
  \/ \E c \in Caller : Kill(c) \/ Reclaim(c) \/ Link(c) \/ Read(c) \/ Unlink(c)
                       \/ Settle(c)

Spec == Init /\ [][Next]_vars

Running == {d \in Daemons : pc[Self(d)] = "in" /\ d \in alive}

\* Two daemons never run together, whoever starts, dies or is killed, as long
\* as no file was ever reclaimed as stale: the link, the parent that takes the
\* lock for its child, and the removal on SIGINT are safe among themselves.
OneWatchdogUntilReclaim == ~reclaimed => \A d, e \in Running : d = e

\* "A live foreign process already owns the lock; caller must not start"
\* (pid.ts:56): not so after a file was removed as stale, since it is removed by
\* name, whoever has created it by then.
OneWatchdog == \A d, e \in Running : d = e
=============================================================================
