--------------------------- MODULE MCZoneSessions ---------------------------
(* Instances of ZoneSessions for TLC. *)
EXTENDS ZoneSessions, TLC

Symmetry == Permutations(Conns) \cup Permutations(Zones \ TestZones)
=============================================================================
