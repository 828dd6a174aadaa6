------------------------------- MODULE MCPool -------------------------------
(* Pool on small instances; the threads are interchangeable.               *)
EXTENDS Pool, TLC

ThreadSymmetry == Permutations(Thread)

=============================================================================
