---------------------------- MODULE MCMeshCalls ----------------------------
(* MeshCalls for TLC: which calls there are.                                *)
EXTENDS MeshCalls, TLC

CONSTANTS s1, s2, u1, n1, n2

\* Streams go to every node and queue behind each other there; the call of u1
\* goes to one node.
Kinds == [c \in Calls |-> IF c = u1 THEN "context" ELSE "stream"]
Targets == [c \in Calls |-> IF c = u1 THEN n1 ELSE Anywhere]
=============================================================================
