-------------------------- MODULE MCSubscriptions --------------------------
(* Instances of Subscriptions for TLC. *)
EXTENDS Subscriptions

Payload(attrs, min, max) == [attrs |-> attrs, min |-> min, max |-> max]
Shortest == {Payload({}, 1, 1)}
\* Valid with the default maximum, and refused: its minimum exceeds its maximum.
ValidAndRefused == {Payload({}, 2, 0), Payload({}, 3, 2)}
=============================================================================
