------------------------------- MODULE MCMail -------------------------------
(***************************************************************************)
(* The mailbox service with a few mailboxes and mails.                     *)
(***************************************************************************)
EXTENDS Mail, TLC

Kinds == {{}, {"busy", "late"}, {"expire"}}
Plain == {{}}
Busy == {{"busy"}}
Late == {{"late"}}
Expiring == {{"expire"}}
Failing == {{"dberr"}}

KindsBound ==
  [w \in Kinds |-> CASE w = {} -> 2 [] w = {"expire"} -> 1 [] OTHER -> 0]
OneMail == [w \in Worlds |-> 1]
ThreeMails == [w \in Worlds |-> 3]
TwoMails == [w \in Worlds |-> 2]

Symmetry == Permutations(Box)
=============================================================================
