---------------------------- MODULE MCPostCommit ----------------------------
(***************************************************************************)
(* Two posts that share a file; one has a thumbnail too.                   *)
(***************************************************************************)
EXTENDS PostCommit

CONSTANTS p1, p2, a, t

MCPosts == {p1, p2}
MCSrcOf == [p \in MCPosts |-> {a}]
MCThmOf == [p \in MCPosts |-> IF p = p1 THEN {t} ELSE {}]
=============================================================================
