---------------------------- MODULE ChainGroupMC ----------------------------
(***************************************************************************)
(* Two groups, one chain, lists of up to three middlewares.                *)
(***************************************************************************)
EXTENDS ChainGroup, TLC

Symmetry == Permutations(Groups) \cup Permutations(Middlewares)
=============================================================================
