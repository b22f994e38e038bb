---------------------------- MODULE MCNwkMaster ----------------------------
(* NwkMaster for TLC: nodes and packs are model values; neither is compared *)
(* otherwise than for equality, so that both are symmetric.                 *)
EXTENDS NwkMaster, TLC

Symmetry == Permutations(Nodes) \cup Permutations(Packs)
=============================================================================
