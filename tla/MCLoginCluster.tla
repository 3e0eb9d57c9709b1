---------------------------- MODULE MCLoginCluster ----------------------------
(***************************************************************************)
(* A few accounts that log in on a few nodes over a few connections.       *)
(***************************************************************************)
EXTENDS LoginCluster, TLC

IdBound == [crash |-> 2, late |-> 2, lost |-> 1, register |-> 1]

Symmetry == Permutations(Token) \cup Permutations(Node) \cup Permutations(Conn)
==============================================================================
