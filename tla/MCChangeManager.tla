--------------------------- MODULE MCChangeManager ---------------------------
(* ChangeManager on small instances.                                       *)
EXTENDS ChangeManager, TLC

Symmetry == Permutations(Thread) \cup Permutations(Layer)

=============================================================================
