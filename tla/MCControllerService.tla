---- MODULE MCControllerService ----
(* Instances of ControllerService for TLC. *)
EXTENDS ControllerService, TLC

Symmetry == Permutations(Connections) \cup Permutations(Browses)
====
