--------------------------- MODULE MCGitResolver ---------------------------
(* Small instances of GitResolver: two tasks of one process, and one of    *)
(* another.                                                                *)
EXTENDS GitResolver

CONSTANTS p1, p2, t1, t2, t3

MCProcOf == [t \in Tasks |-> IF t = t3 THEN p2 ELSE p1]
=============================================================================
