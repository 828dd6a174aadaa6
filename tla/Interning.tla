------------------------------ MODULE Interning ------------------------------
(***************************************************************************)
(* What the path nodes promise: while a client holds a path there is one   *)
(* node for it, the same for everyone, so that paths are equal if and only *)
(* if their nodes are.                                                     *)
(***************************************************************************)
CONSTANTS Path, Node

VARIABLE held   \* the pairs <<path, node>> the clients hold

Init == held = {}

\* A client gets the node of a path nobody held.
Intern(p, n) ==
    /\ \A q \in Path : <<q, n>> \notin held
    /\ \A m \in Node : <<p, m>> \notin held
    /\ held' = held \cup {<<p, n>>}

\* The last holder of a path lets it go.
Release(p, n) == <<p, n>> \in held /\ held' = held \ {<<p, n>>}

Next == \E p \in Path, n \in Node : Intern(p, n) \/ Release(p, n)

Spec == Init /\ [][Next]_held

=============================================================================
