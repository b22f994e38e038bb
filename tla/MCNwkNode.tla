----------------------------- MODULE MCNwkNode -----------------------------
(* NwkNode for TLC: gateways are interchangeable, messages are not.        *)
EXTENDS NwkNode, TLC

Symmetry == Permutations(Gateways)
=============================================================================
