------------------------------ MODULE Allocator ------------------------------
(***************************************************************************)
(* What Sdf_Pool promises its clients: Allocate hands out an element that  *)
(* no one has, Free takes one back.                                        *)
(***************************************************************************)
EXTENDS Naturals

CONSTANT Element   \* what the pool hands out

VARIABLE inUse     \* how many clients have each element

Init == inUse = [e \in Element |-> 0]

Allocate(e) == inUse[e] = 0 /\ inUse' = [inUse EXCEPT ![e] = 1]

Free(e) == inUse[e] = 1 /\ inUse' = [inUse EXCEPT ![e] = 0]

Next == \E e \in Element : Allocate(e) \/ Free(e)

Spec == Init /\ [][Next]_inUse

=============================================================================
