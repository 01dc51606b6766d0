----------------------------- MODULE CloseGate ------------------------------
(***************************************************************************)
(* When a lead may close its task: the hooks that run before the lead's    *)
(* `sd close` (agents/hooks-deployer.ts, buildTrackerCloseGuardScript and  *)
(* buildLeadCloseGateScript) against the mail and the branches they look   *)
(* at, while the lead's workers report, the lead asks for merges and the   *)
(* coordinator merges.                                                     *)
(***************************************************************************)
EXTENDS Naturals, FiniteSets

CONSTANTS Builders,  \* workers with a branch of their own
          Scouts,    \* workers without: scouts and reviewers
          MaxReports \* bound: worker_done mails of one worker (a revision reports again)

VARIABLES reports,   \* of each worker: worker_done mails it sent the lead
          asked,     \* workers whose branch the lead has sent merge_ready for
          landed,    \* branches the coordinator has merged, "lead" for the lead's own
          ahead,     \* branches with commits
          ready,     \* merge_ready mails the lead has sent
          resolvable,\* the target branch exists in the lead's worktree
          gate,      \* where the hook is: "idle", "sent", "received", "git" or "passed"
          counted,   \* the merge_ready mails it counted
          closed     \* the lead's task is closed

gateVars == <<reports, asked, landed, ahead, ready, resolvable, gate, counted, closed>>

Workers == Builders \cup Scouts

GateInit ==
  /\ reports = [w \in Workers |-> 0] /\ asked = {} /\ landed = {} /\ ahead = {}
  /\ ready = 0 /\ resolvable \in BOOLEAN
  /\ gate = "idle" /\ counted = 0 /\ closed = FALSE

Received == LET S == {<<w, n>> : w \in Workers, n \in 1 .. MaxReports}
            IN Cardinality({r \in S : r[2] <= reports[r[1]]})

-----------------------------------------------------------------------------
\* A worker reports to the lead: its turn's terminal worker_done.
Report(w) ==
  /\ reports[w] < MaxReports
  /\ reports' = [reports EXCEPT ![w] = @ + 1]
  /\ ahead' = IF w \in Builders THEN ahead \cup {w} ELSE ahead
  /\ UNCHANGED <<asked, landed, ready, resolvable, gate, counted, closed>>

\* The lead commits something itself, between its tool calls.
Commit ==
  /\ gate = "idle" /\ ~closed
  /\ ahead' = ahead \cup {"lead"} /\ landed' = landed \ {"lead"}
  /\ UNCHANGED <<reports, asked, ready, resolvable, gate, counted, closed>>

\* The lead sends merge_ready, for a worker that has reported or for its own branch.
MergeReady(b) ==
  /\ gate = "idle" /\ ~closed
  /\ b \in asked \cup {"lead"} \cup {w \in Builders : reports[w] > 0}
  /\ ready < MaxReports * Cardinality(Workers)
  /\ ready' = ready + 1 /\ asked' = asked \cup {b}
  /\ UNCHANGED <<reports, landed, ahead, resolvable, gate, counted, closed>>

\* The coordinator merges a branch it was asked to.
Merge(b) ==
  /\ b \in asked \ landed
  /\ landed' = landed \cup {b}
  /\ UNCHANGED <<reports, asked, ahead, ready, resolvable, gate, counted, closed>>

-----------------------------------------------------------------------------
\* The tracker guard lets the lead touch only its own issue, so only that gets here.
Close ==
  /\ gate = "idle" /\ ~closed
  /\ gate' = "sent"
  /\ UNCHANGED <<reports, asked, landed, ahead, ready, resolvable, counted, closed>>

Turn(allowed, next) == gate' = IF allowed THEN next ELSE "idle"

\* ov mail list --from lead --type merge_ready: without one, blocked.  The block comes
\* after both lists were read.
CountSent ==
  /\ gate = "sent" /\ gate' = "received" /\ counted' = ready
  /\ UNCHANGED <<reports, asked, landed, ahead, ready, resolvable, closed>>

\* ov mail list --to lead --type worker_done: scouts and reviewers count too.
CountReceived ==
  /\ gate = "received" /\ Turn(counted > 0 /\ counted >= Received, "git")
  /\ UNCHANGED <<reports, asked, landed, ahead, ready, resolvable, counted, closed>>

\* Seeded bug for the runs: the branch is not looked at.
AncestorAlways == TRUE

\* The lead's HEAD is reachable from the target, or the target is not known here.
Ancestor == resolvable => "lead" \notin ahead \ landed

CheckBranch ==
  /\ gate = "git" /\ Turn(Ancestor, "passed")
  /\ UNCHANGED <<reports, asked, landed, ahead, ready, resolvable, counted, closed>>

\* The tool call runs.
Run ==
  /\ gate = "passed" /\ gate' = "idle" /\ closed' = TRUE /\ counted' = 0
  /\ UNCHANGED <<reports, asked, landed, ahead, ready, resolvable>>

GateNext ==
  \/ \E w \in Workers : Report(w)
  \/ \E b \in Builders \cup {"lead"} : MergeReady(b) \/ Merge(b)
  \/ Commit \/ Close \/ CountSent \/ CountReceived \/ CheckBranch \/ Run

-----------------------------------------------------------------------------
\* hooks-deployer.ts:347-348, "(b) proves the coordinator actually merged the work": when a
\* lead has closed its task, the branches it asked to have merged are merged.  Does not
\* hold: (b) looks at the lead's own branch, and leads leave the commits to their builders.
ClosedWorkIsMerged == closed => asked \cap ahead \subseteq landed

\* What the gate does show: a lead that closed its task has no commit of its own outside a
\* target that its worktree knows, and has asked for a merge.
OwnWorkIsMerged == closed => asked # {} /\ (resolvable => "lead" \notin ahead \ landed)

\* lead.md:355-383: a lead whose builders' branches are all merged, by the coordinator or by
\* a merger it spawned, may close its task.  Does not hold: the gate wants as many
\* merge_ready mails as it counts worker_done mails, of scouts and reviewers too.
FinishedMayClose ==
  (gate = "received" /\ ahead \subseteq landed /\ Builders \subseteq ahead) => counted >= Received
=============================================================================
