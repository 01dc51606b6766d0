----------------------------- MODULE MCTurnLock -----------------------------
(***************************************************************************)
(* Three processes, two of which share a pid (the second is born after the *)
(* first died), and four calls: two in one process, so that both layers    *)
(* matter, and one in each of the others.                                  *)
(***************************************************************************)
EXTENDS TurnLock

CONSTANTS p1, p2, p3, c1, c2, c3, c4

MCProcs == {p1, p2, p3}
MCPids  == {10, 20}
MCPidOf == [p \in MCProcs |-> IF p = p2 THEN 20 ELSE 10]
MCCalls == {c1, c2, c3, c4}
MCProcOf == [c \in MCCalls |-> CASE c \in {c1, c2} -> p1 [] c = c3 -> p2
                                 [] OTHER -> p3]
=============================================================================
