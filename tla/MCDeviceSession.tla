-------------------------- MODULE MCDeviceSession --------------------------
(* Instances of DeviceSession for TLC. *)
EXTENDS DeviceSession, TLC
=============================================================================
