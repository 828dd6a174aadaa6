---------------------------- MODULE Notification ----------------------------
(***************************************************************************)
(* What the change manager promises: every change that is made to a layer  *)
(* is heard of once, unless the layer is gone before.                      *)
(***************************************************************************)
CONSTANT Change

VARIABLES
    waiting,   \* the changes nobody has heard of yet
    heard      \* the changes the listeners have heard of

Init == waiting = {} /\ heard = {}

\* Changes are made, others are heard of, and those to layers that are gone are
\* forgotten.
Step(made, told, lost) ==
    /\ made \cap (waiting \cup heard) = {}
    /\ told \cup lost \subseteq waiting \cup made
    /\ told \cap lost = {}
    /\ waiting' = (waiting \cup made) \ (told \cup lost)
    /\ heard' = heard \cup told

Next == \E made, told, lost \in SUBSET Change : Step(made, told, lost)

Spec == Init /\ [][Next]_<<waiting, heard>>

=============================================================================
