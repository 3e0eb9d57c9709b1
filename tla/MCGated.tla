------------------------------- MODULE MCGated -------------------------------
(***************************************************************************)
(* One node with a few accounts and agents.                                *)
(***************************************************************************)
EXTENDS Gated, TLC

Symmetry == Permutations(Agent)
==============================================================================
