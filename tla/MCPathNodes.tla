----------------------------- MODULE MCPathNodes -----------------------------
(* PathNodes on small instances.                                           *)
EXTENDS PathNodes, TLC

Symmetry == Permutations(Thread) \cup Permutations(Node) \cup Permutations(Name)

=============================================================================
