------------------------------ MODULE MergeLock ------------------------------
(***************************************************************************)
(* merge/lock.ts: the sentinel file that keeps concurrent `ov merge` runs  *)
(* off one target branch.  Every file operation is a step of its own, and  *)
(* creating the file and writing the payload into it are two.              *)
(***************************************************************************)
EXTENDS Naturals, FiniteSets

CONSTANTS
  Procs,       \* merge commands, a process each
  Targets,     \* target branches
  MaxKills     \* bound: commands that are killed

VARIABLES
  target,      \* of each command: the branch it merges into
  at,          \* and where it is
  file,        \* of each target: who created the lock file, or NoFile
  written,     \* of each target: whether the file has its payload
  met,         \* of each command: whether another one ran while it tried
  kills

lockVars == <<target, at, file, written, met, kills>>

NoFile == "no file"
Stale == "stale"    \* left by a command that was killed long ago

ASSUME LockConstants ==
  /\ NoFile \notin Procs /\ Stale \notin Procs
  /\ MaxKills \in Nat

Running == {"create", "write", "inspect", "unlink", "retry", "held"}

LockTypeOK ==
  /\ target \in [Procs -> Targets]
  /\ at \in [Procs -> Running \cup {"start", "refused", "done", "killed"}]
  /\ file \in [Targets -> Procs \cup {NoFile, Stale}]
  /\ written \in [Targets -> BOOLEAN]
  /\ met \in [Procs -> BOOLEAN]
  /\ kills \in Nat

LockInit ==
  /\ target \in [Procs -> Targets]
  /\ at = [p \in Procs |-> "start"]
  /\ file \in [Targets -> {NoFile, Stale}]
  /\ written \in [Targets -> BOOLEAN]
  /\ \A t \in Targets : file[t] = NoFile => ~written[t]
  /\ met = [p \in Procs |-> FALSE]
  /\ kills = 0

\* isProcessAlive(pid): pids are not reused.
Alive(p) == p \in Procs /\ at[p] \in Running

Move(p, step) == at' = [at EXCEPT ![p] = step]

Rivals(p) == {q \in Procs \ {p} : target[q] = target[p] /\ Alive(q)}

\* The command starts; it meets those that are running now or come later.
Start(p) ==
  /\ at[p] = "start"
  /\ Move(p, "create")
  /\ met' = [q \in Procs |-> \/ met[q] \/ q \in Rivals(p)
                             \/ q = p /\ Rivals(p) # {}]
  /\ UNCHANGED <<target, file, written, kills>>

\* tryCreate: writeFileSync with "wx" creates the file or reports EEXIST.
Create(p) ==
  /\ at[p] \in {"create", "retry"}
  /\ IF file[target[p]] = NoFile
       THEN /\ file' = [file EXCEPT ![target[p]] = p]
            /\ written' = [written EXCEPT ![target[p]] = FALSE]
            /\ Move(p, "write")
       ELSE /\ Move(p, IF at[p] = "create" THEN "inspect" ELSE "refused")
            /\ UNCHANGED <<file, written>>
  /\ UNCHANGED <<target, met, kills>>

\* Seeded bug for the runs: the payload goes into whatever file has the name.
WriteByName(p) ==
  /\ at[p] = "write"
  /\ Move(p, "held")
  /\ written' = [written EXCEPT ![target[p]] = file[target[p]] # NoFile]
  /\ UNCHANGED <<target, file, met, kills>>

\* The payload goes into the file that was created, be it unlinked since.
Write(p) ==
  /\ at[p] = "write"
  /\ Move(p, "held")
  /\ written' = [written EXCEPT ![target[p]] = (file[target[p]] = p) \/ @]
  /\ UNCHANGED <<target, file, met, kills>>

\* Seeded bug for the runs: whoever is named in the file counts as alive.
InspectTrusting(p) ==
  /\ at[p] = "inspect"
  /\ Move(p, IF written[target[p]] THEN "refused" ELSE "unlink")
  /\ UNCHANGED <<target, file, written, met, kills>>

\* readLockPayload: no file, no payload or a dead holder make the lock stale.
Inspect(p) ==
  /\ at[p] = "inspect"
  /\ Move(p, IF written[target[p]] /\ Alive(file[target[p]]) THEN "refused"
                                                            ELSE "unlink")
  /\ UNCHANGED <<target, file, written, met, kills>>

Remove(t) ==
  /\ file' = [file EXCEPT ![t] = NoFile]
  /\ written' = [written EXCEPT ![t] = FALSE]

\* The stale lock, or whatever has taken its place, is unlinked.
Unlink(p) ==
  /\ at[p] = "unlink"
  /\ Remove(target[p])
  /\ Move(p, "retry")
  /\ UNCHANGED <<target, met, kills>>

\* Seeded bug for the runs: a merge that failed does not release.
ReleaseOnSuccess(p) ==
  /\ at[p] = "held"
  /\ \/ Remove(target[p])
     \/ UNCHANGED <<file, written>>
  /\ Move(p, "done")
  /\ UNCHANGED <<target, met, kills>>

\* The finally block of the merge: release unlinks whatever file is there.
Release(p) ==
  /\ at[p] = "held"
  /\ Remove(target[p])
  /\ Move(p, "done")
  /\ UNCHANGED <<target, met, kills>>

Kill(p) ==
  /\ Alive(p)
  /\ kills < MaxKills
  /\ kills' = kills + 1
  /\ Move(p, "killed")
  /\ UNCHANGED <<target, file, written, met>>

CommandStep(p) ==
  \/ Start(p) \/ Create(p) \/ Write(p) \/ Inspect(p) \/ Unlink(p) \/ Release(p)
  \/ Kill(p)

LockNext == \E p \in Procs : CommandStep(p)

LockSpec == LockInit /\ [][LockNext]_lockVars

-----------------------------------------------------------------------------
(* Properties *)

\* A lock file is that of a command that is creating it, holds it or was killed,
\* and its payload is there only once that command has written it.
FileOfCreator ==
  \A t \in Targets : file[t] \in Procs =>
    /\ target[file[t]] = t
    /\ at[file[t]] \in {"write", "held", "killed"}
    /\ at[file[t]] = "write" => ~written[t]

\* Nobody gets past a lock file of the past without unlinking it.
StaleIsFirst ==
  \A t \in Targets : file[t] = Stale =>
    \A p \in Procs : target[p] = t =>
      at[p] \in {"start", "create", "inspect", "unlink", "killed"}

\* Commands that run together have met, and whoever finds a file again after
\* unlinking one has met its creator.
RivalsHaveMet ==
  /\ \A p \in Procs : Alive(p) /\ Rivals(p) # {} => met[p]
  /\ \A p \in Procs : at[p] = "retry" /\ file[target[p]] \in Procs => met[p]

\* "live -> fail fast, dead -> take over": a command is refused only if one for the
\* same target ran while it did; what a killed command left behind alone keeps
\* nobody out.  (A pid is not given out again here.)
NoFalseRefusal == \A p \in Procs : at[p] = "refused" => met[p]

\* The strengthening under which NoFalseRefusal is inductive.
SentinelInv ==
  /\ LockTypeOK
  /\ FileOfCreator
  /\ StaleIsFirst
  /\ RivalsHaveMet
  /\ NoFalseRefusal

\* However the commands overlap and steal from each other, no lock file is left
\* once all that took part have ended without being killed.
NothingLeftBehind ==
  (\A p \in Procs : at[p] \in {"refused", "done"}) =>
    \A t \in Targets : file[t] \in {NoFile, Stale}
      /\ (file[t] = Stale => \A p \in Procs : target[p] # t)

Merging == {p \in Procs : at[p] = "held"}

\* "Sentinel-file lock to prevent concurrent `ov merge` runs against the same
\* canonical (target) branch."
OneMergePerTarget ==
  \A p, q \in Merging : target[p] = target[q] => p = q

\* "so a parallel `ov merge` can't observe in-progress conflict markers": all
\* merges of a project work in one checkout.
OneMergePerCheckout == Cardinality(Merging) <= 1
=============================================================================
