------------------------------ MODULE Identity ------------------------------
(***************************************************************************)
(* The identities behind spec handles (Sdf_Identity, Sdf_IdRegistryImpl    *)
(* and Sdf_IdentityRegistry of identity.h and identity.cpp), for one layer *)
(* whose specs are created, deleted and moved.                             *)
(*                                                                         *)
(* A handle holds a reference to an identity; the registry maps paths to   *)
(* identities without a reference.  The last handle to go does not delete  *)
(* the identity: it counts it as dead, and when enough are dead one of the *)
(* dropping threads sweeps the map.  Counting and decrementing go without  *)
(* the registry's mutex.                                                   *)
(*                                                                         *)
(* Specs are objects, numbered as they are created, so that it shows which *)
(* object a handle was made for and which one it leads to.                 *)
(***************************************************************************)
EXTENDS Naturals, FiniteSets, FiniteSetsExt, Functions

CONSTANTS
    Thread,
    Path,
    Id,             \* the addresses of identities
    Slot,           \* places that may hold a spec handle
    None,
    MinDead,        \* _MinDeadThreshold
    DeadShare,      \* one in DeadShare identities may be dead (8 in the code)
    MaxObjects      \* bound on the specs ever created

\* What is assumed of the constants.
IdentityConstants ==
    /\ IsFiniteSet(Thread) /\ IsFiniteSet(Path) /\ IsFiniteSet(Slot)
    /\ None \notin Thread \cup Path \cup Id
    /\ MinDead \in Nat \ {0} /\ DeadShare \in Nat \ {0} /\ MaxObjects \in Nat

VARIABLES
    specs,      \* the layer's data: path -> object, or 0
    objects,    \* how many objects were created
    registry,   \* whether the layer, and so the registry, exists
    ids,        \* _ids: path -> identity, or None
    deadCount,
    deadThreshold,
    mutex,      \* _idsMutex: the thread that holds it, or None
    identity,   \* the identities that are allocated: id -> record
    handle,     \* slot -> the identity of the handle and the object it was made for
    pc,         \* thread -> where it is in the dropping of a handle
    drop        \* thread -> the identity it drops, what it has read of it, ...

vars == <<specs, objects, registry, ids, deadCount, deadThreshold, mutex, identity,
          handle, pc, drop>>

\* What clients do to a layer, without the registry's counters.
layerVars == <<specs, objects, registry>>
counters == <<deadCount, deadThreshold, mutex>>

Known == {ids[path] : path \in Path} \ {None}

Threshold(m) ==
    LET share == Cardinality({path \in Path : m[path] # None}) \div DeadShare IN
    IF share > MinDead THEN share ELSE MinDead

NoDrop == [id |-> None, reg |-> FALSE, count |-> 0, left |-> {}]

\* No thread is dropping a handle: what the layer's rules ask of other threads
\* while it is mutated.
Quiet == \A t \in Thread : pc[t] = "idle"

Forget(i) == [identity EXCEPT ![i].path = None, ![i].reg = FALSE]

-----------------------------------------------------------------------------
\* _CreateSpec, _DeleteSpec: identities are left alone.
CreateSpec(path) ==
    /\ registry
    /\ specs[path] = 0 /\ objects < MaxObjects
    /\ objects' = objects + 1
    /\ specs' = [specs EXCEPT ![path] = objects']
    /\ UNCHANGED <<registry, ids, counters, identity, handle, pc, drop>>

DeleteSpec(path) ==
    /\ registry
    /\ specs[path] # 0
    /\ specs' = [specs EXCEPT ![path] = 0]
    /\ UNCHANGED <<objects, registry, ids, counters, identity, handle, pc, drop>>

\* Mutant: the registry is not told of the move.
MoveSpecOnly(old, new) ==
    /\ registry /\ Quiet
    /\ specs[old] # 0 /\ specs[new] = 0
    /\ specs' = [specs EXCEPT ![new] = specs[old], ![old] = 0]
    /\ UNCHANGED <<objects, registry, ids, identity, counters, handle, pc, drop>>

\* _MoveSpecInternal, with MoveIdentity: nothing to do if there is no identity
\* at the old path; otherwise one at the new path is stomped.
MoveSpec(old, new) ==
    LET i == ids[old]
        stomped == IF ids[new] = None THEN identity ELSE Forget(ids[new])
    IN
    /\ registry /\ Quiet
    /\ specs[old] # 0 /\ specs[new] = 0
    /\ specs' = [specs EXCEPT ![new] = specs[old], ![old] = 0]
    /\ IF i = None
       THEN UNCHANGED <<ids, identity>>
       ELSE /\ ids' = [ids EXCEPT ![new] = i, ![old] = None]
            /\ identity' = [stomped EXCEPT ![i].path = new]
    /\ UNCHANGED <<objects, registry, counters, handle, pc, drop>>

\* Identify, for a spec of the layer (_GetSpecAtPath).  All of it is under the
\* mutex.
Identify(slot, path) ==
    /\ registry /\ mutex = None
    /\ specs[path] # 0 /\ handle[slot].id = None
    /\ \E i \in Id :
          /\ IF ids[path] # None
             THEN /\ i = ids[path]
                  /\ identity' = [identity EXCEPT ![i].refs = @ + 1]
                  /\ UNCHANGED <<ids, deadThreshold>>
             ELSE /\ i \notin DOMAIN identity
                  /\ identity' = [j \in DOMAIN identity \cup {i} |->
                                     IF j = i THEN [path |-> path, reg |-> TRUE, refs |-> 1]
                                     ELSE identity[j]]
                  /\ ids' = [ids EXCEPT ![path] = i]
                  /\ deadThreshold' = Threshold(ids')
          /\ handle' = [handle EXCEPT ![slot] = [id |-> i, object |-> specs[path]]]
    /\ UNCHANGED <<layerVars, deadCount, mutex, pc, drop>>

\* A handle is copied: TfDelegatedCountIncrement.
Copy(from, to) ==
    /\ handle[from].id # None /\ handle[to].id = None
    /\ handle' = [handle EXCEPT ![to] = handle[from]]
    /\ identity' = [identity EXCEPT ![handle[from].id].refs = @ + 1]
    /\ UNCHANGED <<layerVars, ids, counters, pc, drop>>

-----------------------------------------------------------------------------
(* TfDelegatedCountDecrement, and what follows when the count reaches zero *)

\* A handle goes away: the registry of its identity is read first.
BeginDrop(t, slot) ==
    /\ pc[t] = "idle"
    /\ handle[slot].id # None
    /\ pc' = [pc EXCEPT ![t] = "decrement"]
    /\ drop' = [drop EXCEPT ![t].id = handle[slot].id, ![t].reg = identity[handle[slot].id].reg]
    /\ handle' = [handle EXCEPT ![slot] = [id |-> None, object |-> 0]]
    /\ UNCHANGED <<layerVars, ids, counters, identity>>

\* The count goes down.  The last one deletes an identity that was forgotten.
Decrement(t) ==
    LET i == drop[t].id
        last == identity[i].refs = 1
    IN
    /\ pc[t] = "decrement"
    /\ identity' = IF last /\ ~drop[t].reg
                   THEN Restrict(identity, DOMAIN identity \ {i})
                   ELSE [identity EXCEPT ![i].refs = @ - 1]
    /\ pc' = [pc EXCEPT ![t] = IF last /\ drop[t].reg THEN "count" ELSE "idle"]
    /\ drop' = [drop EXCEPT ![t] = NoDrop]
    /\ UNCHANGED <<layerVars, ids, counters, handle>>

\* UnregisterOrDelete: ++_deadCount, without the mutex ...
CountDead(t) ==
    /\ pc[t] = "count"
    /\ deadCount' = deadCount + 1
    /\ drop' = [drop EXCEPT ![t].count = deadCount']
    /\ pc' = [pc EXCEPT ![t] = "compare"]
    /\ UNCHANGED <<layerVars, ids, deadThreshold, mutex, identity, handle>>

\* ... compared with the threshold, which is read without it as well.
Compare(t) ==
    /\ pc[t] = "compare"
    /\ pc' = [pc EXCEPT ![t] = IF drop[t].count >= deadThreshold THEN "reset" ELSE "idle"]
    /\ drop' = [drop EXCEPT ![t] = NoDrop]
    /\ UNCHANGED <<layerVars, ids, counters, identity, handle>>

ResetCount(t) ==
    /\ pc[t] = "reset"
    /\ deadCount' = 0
    /\ pc' = [pc EXCEPT ![t] = "lock"]
    /\ UNCHANGED <<layerVars, ids, deadThreshold, mutex, identity, handle, drop>>

LockIds(t) ==
    /\ pc[t] = "lock" /\ mutex = None
    /\ mutex' = t
    /\ pc' = [pc EXCEPT ![t] = "sweep"]
    /\ drop' = [drop EXCEPT ![t].left = {path \in Path : ids[path] # None}]
    /\ UNCHANGED <<layerVars, ids, deadCount, deadThreshold, identity, handle>>

\* One identity is visited, and deleted if nothing refers to it.
Sweep(t, path) ==
    /\ pc[t] = "sweep" /\ path \in drop[t].left
    /\ IF identity[ids[path]].refs = 0
       THEN /\ ids' = [ids EXCEPT ![path] = None]
            /\ identity' = Restrict(identity, DOMAIN identity \ {ids[path]})
       ELSE UNCHANGED <<ids, identity>>
    /\ drop' = [drop EXCEPT ![t].left = @ \ {path}]
    /\ UNCHANGED <<layerVars, counters, handle, pc>>

UnlockIds(t) ==
    /\ pc[t] = "sweep" /\ drop[t].left = {}
    /\ deadThreshold' = Threshold(ids)
    /\ mutex' = None
    /\ pc' = [pc EXCEPT ![t] = "idle"]
    /\ UNCHANGED <<layerVars, ids, deadCount, identity, handle, drop>>

-----------------------------------------------------------------------------
\* The layer is destroyed: ~Sdf_IdRegistryImpl makes every identity forget it.
Destroy ==
    /\ registry /\ Quiet
    /\ registry' = FALSE
    /\ identity' = [i \in DOMAIN identity |->
                       IF i \in Known THEN [identity[i] EXCEPT !.path = None, !.reg = FALSE]
                       ELSE identity[i]]
    /\ ids' = [path \in Path |-> None]
    /\ specs' = [path \in Path |-> 0]
    /\ UNCHANGED <<objects, counters, handle, pc, drop>>

Init ==
    /\ specs = [path \in Path |-> 0]
    /\ objects = 0
    /\ registry = TRUE
    /\ ids = [path \in Path |-> None]
    /\ deadCount = 0 /\ deadThreshold = MinDead
    /\ mutex = None
    /\ identity = [i \in {} |-> 0]
    /\ handle = [slot \in Slot |-> [id |-> None, object |-> 0]]
    /\ pc = [t \in Thread |-> "idle"]
    /\ drop = [t \in Thread |-> NoDrop]

Next ==
    \/ \E path \in Path : CreateSpec(path) \/ DeleteSpec(path)
    \/ \E old, new \in Path : MoveSpec(old, new)
    \/ \E slot \in Slot, path \in Path : Identify(slot, path)
    \/ \E from, to \in Slot : Copy(from, to)
    \/ \E t \in Thread :
          \/ \E slot \in Slot : BeginDrop(t, slot)
          \/ Decrement(t) \/ CountDead(t) \/ Compare(t) \/ ResetCount(t) \/ LockIds(t)
          \/ \E path \in Path : Sweep(t, path)
          \/ UnlockIds(t)
    \/ Destroy

Spec == Init /\ [][Next]_vars

-----------------------------------------------------------------------------
(* Properties                                                              *)

\* Every variable has its type.
TypeOK ==
    /\ specs \in [Path -> 0..MaxObjects]
    /\ objects \in 0..MaxObjects
    /\ registry \in BOOLEAN
    /\ ids \in [Path -> Id \cup {None}]
    /\ deadCount \in Nat
    /\ deadThreshold \in Nat \ {0}
    /\ mutex \in Thread \cup {None}
    /\ DOMAIN identity \subseteq Id
    /\ \A i \in DOMAIN identity :
          identity[i] \in [path : Path \cup {None}, reg : BOOLEAN, refs : Nat]
    /\ handle \in [Slot -> [id : Id \cup {None}, object : 0..MaxObjects]]
    /\ pc \in [Thread -> {"idle", "decrement", "count", "compare", "reset", "lock", "sweep"}]
    /\ drop \in [Thread -> [id : Id \cup {None}, reg : BOOLEAN, count : Nat,
                            left : SUBSET Path]]

\* Handles, and threads that are about to decrement, refer to allocated
\* identities, and the registry knows only such.
NoUseAfterFree ==
    /\ \A slot \in Slot : handle[slot].id \in DOMAIN identity \cup {None}
    /\ \A t \in Thread : pc[t] = "decrement" => drop[t].id \in DOMAIN identity
    /\ Known \subseteq DOMAIN identity

\* A count is the number of the handles, the one being dropped included, so
\* that no identity dies early and none is kept alive.
CountsExact ==
    \A i \in DOMAIN identity :
        identity[i].refs = Cardinality({slot \in Slot : handle[slot].id = i})
                         + Cardinality({t \in Thread : pc[t] = "decrement" /\ drop[t].id = i})

\* An identity that leads to a layer is the one the registry knows by its path:
\* handles to the same spec are equal, whatever died, moved or was swept between.
OneIdentity ==
    \A i \in DOMAIN identity :
        identity[i].reg => registry /\ ids[identity[i].path] = i

\* A handle follows its spec when it moves, however often and to whichever
\* paths other handles were made for.
HandlesFollow ==
    \A slot \in Slot, path \in Path :
        handle[slot].id # None /\ handle[slot].object = specs[path]
            => identity[handle[slot].id].path = path

\* Every dead identity is counted, or about to be, or swept by a thread that
\* has already reset the count: none waits for a sweep that does not come.
DeadCounted ==
    (\A t \in Thread : pc[t] \notin {"lock", "sweep"}) =>
        Cardinality({i \in Known : identity[i].refs = 0})
            <= deadCount + Cardinality({t \in Thread : pc[t] = "count"})

\* An identity nobody refers to is deleted, or the registry will.
\* It does not hold: see the README.
NothingLeaks ==
    \A i \in DOMAIN identity : identity[i].refs = 0 => i \in Known

\* What a handle leads to, 0 if it is dormant.
Leads(slot) ==
    LET i == handle[slot].id IN
    IF i = None \/ ~(i \in DOMAIN identity /\ identity[i].path # None) THEN 0
    ELSE specs[identity[i].path]

\* A move stomps the handles that were made for a spec at the new path before:
\* they do not come to lead to the spec that moves there.  That does not hold: see the README.
MovesRevive ==
    \E old, new \in Path :
        /\ MoveSpec(old, new)
        /\ \E slot \in Slot : handle[slot].id # None /\ Leads(slot) = 0 /\ Leads(slot)' # 0

StompedByMove == [][~MovesRevive]_vars

=============================================================================
