-------------------------- MODULE MCCommissioning --------------------------
EXTENDS Commissioning, TLC

Symmetry == Permutations(Controllers) \cup Permutations(Browses)

\* Bound: one controller announces a pairing request at a time, and nothing follows
\* an overlap, after which the listener may be in any state.
StateBound == Cardinality(announced) <= 1 /\ ~overlap
=============================================================================
