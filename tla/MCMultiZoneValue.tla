-------------------------- MODULE MCMultiZoneValue --------------------------
(* Instance of MultiZoneValue for TLC. *)
EXTENDS MultiZoneValue, TLC

ZoneSymmetry == Permutations(Zones)

MixedValues == {-2, -1, 0, 1}
=============================================================================
