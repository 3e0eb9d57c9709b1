----------------------------- MODULE MCServices -----------------------------
(***************************************************************************)
(* A few accounts, clients, mails and roles for the services.               *)
(***************************************************************************)
EXTENDS Services, Integers, TLC

CONSTANTS n1, n2, a1, a2, a3

\* Two nodes; a role can move between agents of one node or to the other.
Homes == (a1 :> n1) @@ (a2 :> n1) @@ (a3 :> n2)

\* Messages through crashes, or sessions through crashes; or sessions with all
\* that can happen to them.
Sessions(w) == [chat |-> 0, login |-> 2, crash |-> 0, world |-> w]
Crashes ==
  {[chat |-> 3, login |-> 0, crash |-> 1, world |-> {}],
   [chat |-> 0, login |-> 3, crash |-> 1, world |-> {}],
   Sessions({"reuse", "reconnect", "idle", "early", "center"})}

Reuse == {Sessions({"reuse"})}
Reconnect == {Sessions({"reconnect"})}
Idle == {Sessions({"idle"})}
Early == {Sessions({"early"})}
Center == {Sessions({"center"})}

Symmetry == Permutations(User) \cup Permutations(Fd) \cup Permutations(Key)
=============================================================================
