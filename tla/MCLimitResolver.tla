--------------------------- MODULE MCLimitResolver ---------------------------
(* Instances of LimitResolver for TLC. *)
EXTENDS LimitResolver, TLC

TimerSymmetry == Permutations(Timers)

NegativeToTooHigh == {-1, 1, 2, 3}
=============================================================================
