------------------------- MODULE MCAccountSettings -------------------------
(* Two processes that save and load accounts, on which two keys are used,  *)
(* while the fleet is being upgraded: bounds and symmetry for TLC.         *)
EXTENDS AccountSettings, TLC
CONSTANTS p1, p2, k1, k2
Symmetry == Permutations({p1, p2}) \union Permutations({k1, k2})
=============================================================================
