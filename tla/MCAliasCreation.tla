------------------------- MODULE MCAliasCreation -------------------------
(* Instance of AliasCreation for TLC: three addresses for two places. *)
EXTENDS AliasCreation, TLC

CONSTANTS a1, a2, a3
Addresses == {a1, a2, a3}
Symm == Permutations(Addresses)
=============================================================================
