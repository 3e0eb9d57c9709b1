------------------------------- MODULE MCRole -------------------------------
(***************************************************************************)
(* An account that moves over two agents.  Changes are made where           *)
(* something is said about them.                                           *)
(***************************************************************************)
EXTENDS Role

Plain == {{}}
Kinds == {{}, {"quick"}, {"reconnect"}, {"idle"}, {"center"}}
Reuse == {{"reuse"}}
Early == {{"early"}}
Quick == {{"quick"}}
Reconnect == {{"reconnect"}}
Idle == {{"idle", "quick"}}
Center == {{"center"}}

KindsBound == [w \in Kinds |-> IF w = {} THEN 2 ELSE 0]
TwoChanges == [w \in Worlds |-> 2]
=============================================================================
