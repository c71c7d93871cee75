--------------------------- MODULE MCFailsafeTimer ---------------------------
(* FailsafeTimer with a few interchangeable Go timers, for TLC. *)
EXTENDS FailsafeTimer, TLC

TimerSymmetry == Permutations(Timers)
=============================================================================
