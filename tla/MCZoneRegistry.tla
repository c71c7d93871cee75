--------------------------- MODULE MCZoneRegistry ---------------------------
(* Instances of ZoneRegistry for TLC. *)
EXTENDS ZoneRegistry
=============================================================================
