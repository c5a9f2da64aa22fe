---------------------------- MODULE MCIncrementVersion ----------------------------
(* IncrementVersion for TLC: the four packages of the workspace.  The second, *)
(* the demo, depends on the client and on the server.                         *)
EXTENDS IncrementVersion

WorkspaceDependencies == [p \in 1..4 |-> IF p = 2 THEN {3, 4} ELSE {}]
===================================================================================
