----------------------------- MODULE MCMonitor -----------------------------
(***************************************************************************)
(* A center node, a game node, a user and services on both nodes.           *)
(***************************************************************************)
EXTENDS Monitor, TLC

CONSTANTS center, game, mailbox, res_mgr

BothNodes == {center, game}
Both == {mailbox, res_mgr}
Places == (mailbox :> {center}) @@ (res_mgr :> {center, game})

Users == [login |-> 2, crash |-> 1, shutdown |-> FALSE, late |-> FALSE]
Stop == [login |-> 0, crash |-> 0, shutdown |-> TRUE, late |-> FALSE]
Mixed == {Users, Stop}
OnlyUsers == {Users}
OnlyStop == {Stop}
StopAndCrash == {[Stop EXCEPT !.crash = 1]}
StopLate == {[Stop EXCEPT !.late = TRUE]}
=============================================================================
