--------------------------- MODULE IdentityProofs ---------------------------
(***************************************************************************)
(* Spec handles are safe and follow their specs, for any finite numbers of *)
(* threads, paths and handles: no identity is used after it is freed or    *)
(* dies early, a spec has one identity, and the dead are counted.          *)
(*                                                                         *)
(* The registry and the identities know each other: ids and the paths of   *)
(* the identities that lead to the layer are inverse to one another, which *)
(* no thread that has begun to drop a handle can see change.  The counts   *)
(* are those of the handles, so that what is deleted has none; and a dead  *)
(* identity that the sweep under way will not visit anymore is counted.    *)
(***************************************************************************)
EXTENDS Identity, Integers, FiniteSetTheorems, TLAPS

Holders(i) == {slot \in Slot : handle[slot].id = i}
Droppers(i) == {t \in Thread : pc[t] = "decrement" /\ drop[t].id = i}

\* The registry and the identities that lead to the layer.
KnownInv ==
    /\ \A path \in Path : ids[path] # None =>
          /\ ids[path] \in DOMAIN identity
          /\ identity[ids[path]].path = path
    /\ \A i \in DOMAIN identity :
          /\ identity[i].reg <=> identity[i].path # None
          /\ identity[i].reg => registry /\ ids[identity[i].path] = i

\* Whoever refers to an identity refers to one that is allocated.
ReferInv ==
    /\ \A slot \in Slot : handle[slot].id # None => handle[slot].id \in DOMAIN identity
    /\ \A t \in Thread : pc[t] = "decrement" =>
          drop[t].id \in DOMAIN identity /\ drop[t].reg = identity[drop[t].id].reg

\* The thread that sweeps has the mutex, and what it has left to visit is there.
SweepInv ==
    /\ \A t \in Thread : pc[t] = "sweep" <=> mutex = t
    /\ \A t \in Thread : pc[t] = "sweep" => \A path \in drop[t].left : ids[path] # None

\* Objects are numbered as they are created, and each is at one path.
ObjectInv ==
    /\ \A path \in Path : specs[path] <= objects
    /\ \A path, other \in Path : specs[path] = specs[other] /\ specs[path] # 0 => path = other
    /\ \A slot \in Slot : handle[slot].id # None =>
          handle[slot].object # 0 /\ handle[slot].object <= objects

\* The dead that no sweep under way is going to visit.
Waiting(i) ==
    /\ identity[i].refs = 0
    /\ mutex # None => identity[i].path \notin drop[mutex].left
Counting == {t \in Thread : pc[t] = "count"}
DeadInv ==
    (\A t \in Thread : pc[t] # "lock") =>
        Cardinality({i \in Known : Waiting(i)}) <= deadCount + Cardinality(Counting)

IdentityInv ==
    /\ TypeOK /\ KnownInv /\ ReferInv /\ SweepInv /\ CountsExact
    /\ ObjectInv /\ HandlesFollow /\ DeadInv

-----------------------------------------------------------------------------
(* Counting                                                                *)

LEMMA CardinalityAdd ==
    ASSUME NEW S, IsFiniteSet(S), NEW x, x \notin S
    PROVE  IsFiniteSet(S \cup {x}) /\ Cardinality(S \cup {x}) = Cardinality(S) + 1
  BY FS_AddElement

LEMMA CardinalityRemove ==
    ASSUME NEW S, IsFiniteSet(S), NEW x \in S
    PROVE  /\ IsFiniteSet(S \ {x}) /\ Cardinality(S \ {x}) = Cardinality(S) - 1
           /\ Cardinality(S) \in Nat /\ Cardinality(S) > 0
  <1>1. IsFiniteSet(S \ {x}) /\ Cardinality(S \ {x}) = Cardinality(S) - 1
    BY FS_RemoveElement
  <1>2. Cardinality(S) \in Nat /\ Cardinality(S \ {x}) \in Nat
    BY <1>1, FS_CardinalityType
  <1> QED BY <1>1, <1>2

LEMMA CardinalityLess ==
    ASSUME NEW T, IsFiniteSet(T), NEW S \in SUBSET T
    PROVE  /\ IsFiniteSet(S) /\ Cardinality(S) <= Cardinality(T)
           /\ Cardinality(S) \in Nat /\ Cardinality(T) \in Nat
  BY FS_Subset, FS_CardinalityType

LEMMA SetsFinite ==
    ASSUME IdentityConstants
    PROVE  /\ \A i : IsFiniteSet(Holders(i)) /\ IsFiniteSet(Droppers(i))
           /\ \A i : Cardinality(Holders(i)) \in Nat /\ Cardinality(Droppers(i)) \in Nat
           /\ IsFiniteSet(Counting) /\ Cardinality(Counting) \in Nat
           /\ IsFiniteSet(Known) /\ IsFiniteSet({i \in Known : Waiting(i)})
           /\ Cardinality({i \in Known : Waiting(i)}) \in Nat
  <1>1. \A i : Holders(i) \subseteq Slot /\ Droppers(i) \subseteq Thread
    BY DEF Holders, Droppers
  <1>2. Counting \subseteq Thread
    BY DEF Counting
  <1>3. IsFiniteSet({ids[path] : path \in Path})
    <2> DEFINE f == [path \in Path |-> ids[path]]
    <2>1. f \in Surjection(Path, {ids[path] : path \in Path})
      BY DEF Surjection
    <2> QED BY <2>1, FS_Surjection DEF IdentityConstants
  <1>4. IsFiniteSet(Known)
    BY <1>3, FS_Subset DEF Known
  <1>5. IsFiniteSet({i \in Known : Waiting(i)})
    BY <1>4, FS_Subset
  <1> QED BY <1>1, <1>2, <1>4, <1>5, CardinalityLess, FS_CardinalityType DEF IdentityConstants

\* The counts stay when handles and the threads that drop them stay.
LEMMA CountsKept ==
    ASSUME CountsExact,
           \A i \in DOMAIN identity' : i \in DOMAIN identity /\ identity'[i].refs = identity[i].refs,
           \A slot \in Slot : handle'[slot].id = handle[slot].id,
           \A t \in Thread : /\ pc'[t] = "decrement" <=> pc[t] = "decrement"
                             /\ pc[t] = "decrement" => drop'[t].id = drop[t].id
    PROVE  CountsExact'
  <1>1. \A i : Holders(i)' = Holders(i)
    BY DEF Holders
  <1>2. \A i : Droppers(i)' = Droppers(i)
    BY DEF Droppers
  <1>3. \A i \in DOMAIN identity : identity[i].refs = Cardinality(Holders(i)) + Cardinality(Droppers(i))
    BY DEF CountsExact, Holders, Droppers
  <1>4. \A i \in DOMAIN identity' :
           identity'[i].refs = Cardinality(Holders(i)') + Cardinality(Droppers(i)')
    BY <1>1, <1>2, <1>3
  <1> QED BY <1>4 DEF CountsExact, Holders, Droppers

\* The dead stay counted when there are no more of them.
LEMMA DeadKept ==
    ASSUME IdentityConstants, DeadInv,
           {i \in Known : Waiting(i)}' \subseteq {i \in Known : Waiting(i)},
           deadCount' = deadCount, deadCount \in Nat, Counting' = Counting,
           (\A t \in Thread : pc'[t] # "lock") => (\A t \in Thread : pc[t] # "lock")
    PROVE  DeadInv'
  <1> DEFINE D == {i \in Known : Waiting(i)}
             E == {i \in Known : Waiting(i)}'
  <1>1. IsFiniteSet(D) /\ Cardinality(D) \in Nat /\ Cardinality(Counting) \in Nat
    BY SetsFinite
  <1>2. E \subseteq D
    OBVIOUS
  <1> HIDE DEF D, E
  <1>3. Cardinality(E) <= Cardinality(D) /\ Cardinality(E) \in Nat
    BY <1>1, <1>2, CardinalityLess
  <1>4. (\A t \in Thread : pc'[t] # "lock")
           => Cardinality(E) <= deadCount' + Cardinality(Counting')
    BY <1>1, <1>3 DEF DeadInv, D
  <1> QED BY <1>4 DEF DeadInv, E

\* One more is dead, and a thread is about to count it.
LEMMA DeadMore ==
    ASSUME IdentityConstants, DeadInv, NEW i, NEW t, t \notin Counting,
           {j \in Known : Waiting(j)}' \subseteq {j \in Known : Waiting(j)} \cup {i},
           deadCount' = deadCount, deadCount \in Nat, Counting' = Counting \cup {t},
           (\A u \in Thread : pc'[u] # "lock") => (\A u \in Thread : pc[u] # "lock")
    PROVE  DeadInv'
  <1> DEFINE D == {j \in Known : Waiting(j)}
             E == {j \in Known : Waiting(j)}'
  <1>1. /\ IsFiniteSet(D) /\ Cardinality(D) \in Nat
        /\ IsFiniteSet(Counting) /\ Cardinality(Counting) \in Nat
    BY SetsFinite
  <1>2. E \subseteq D \cup {i}
    OBVIOUS
  <1> HIDE DEF D, E
  <1>3. IsFiniteSet(D \cup {i}) /\ Cardinality(D \cup {i}) <= Cardinality(D) + 1
    <2>1. CASE i \in D
      <3>1. D \cup {i} = D
        BY <2>1
      <3> QED BY <1>1, <3>1
    <2>2. CASE i \notin D
      BY <1>1, <2>2, CardinalityAdd, SMTT(30)
    <2> QED BY <2>1, <2>2
  <1>4. Cardinality(E) <= Cardinality(D) + 1
    <2>1. Cardinality(E) <= Cardinality(D \cup {i}) /\ Cardinality(E) \in Nat
          /\ Cardinality(D \cup {i}) \in Nat
      BY <1>2, <1>3, CardinalityLess
    <2> QED BY <1>1, <1>3, <2>1
  <1>5. Cardinality(Counting') = Cardinality(Counting) + 1
    BY <1>1, CardinalityAdd
  <1>6. Cardinality(E) \in Nat
    BY <1>2, <1>3, CardinalityLess
  <1>7. (\A u \in Thread : pc'[u] # "lock")
           => Cardinality(E) <= deadCount' + Cardinality(Counting')
    BY <1>1, <1>4, <1>5, <1>6 DEF DeadInv, D
  <1> QED BY <1>7 DEF DeadInv, E

-----------------------------------------------------------------------------
(* The steps                                                               *)

LEMMA UnchangedStep ==
    ASSUME IdentityConstants, IdentityInv, UNCHANGED vars
    PROVE  IdentityInv'
  <1> USE DEF IdentityInv, vars
  <1>1. TypeOK' /\ KnownInv' /\ ReferInv' /\ SweepInv'
    BY DEF TypeOK, KnownInv, ReferInv, SweepInv
  <1>2. CountsExact' /\ ObjectInv' /\ HandlesFollow'
    BY DEF CountsExact, ObjectInv, HandlesFollow
  <1>3. DeadInv'
    BY DEF DeadInv, Known, Waiting, Counting
  <1> QED BY <1>1, <1>2, <1>3

\* Steps that change the specs alone: a new object, or one less.
LEMMA SpecStep ==
    ASSUME IdentityConstants, IdentityInv, NEW path \in Path, CreateSpec(path) \/ DeleteSpec(path)
    PROVE  IdentityInv'
  <1> USE DEF IdentityInv
  <1>1. UNCHANGED <<registry, ids, deadCount, deadThreshold, mutex, identity, handle, pc, drop>>
    BY DEF CreateSpec, DeleteSpec, counters
  <1>2. /\ specs' \in [Path -> 0..MaxObjects] /\ objects' \in 0..MaxObjects
        /\ \A p \in Path : specs'[p] <= objects'
        /\ \A p, q \in Path : specs'[p] = specs'[q] /\ specs'[p] # 0 => p = q
        /\ \A slot \in Slot : handle[slot].id # None =>
              handle[slot].object # 0 /\ handle[slot].object <= objects'
        /\ \A slot \in Slot, p \in Path :
              handle[slot].id # None /\ handle[slot].object = specs'[p] => specs'[p] = specs[p]
    <2>1. /\ specs \in [Path -> 0..MaxObjects] /\ objects \in 0..MaxObjects /\ MaxObjects \in Nat
          /\ objects \in Nat
          /\ \A p \in Path : specs[p] \in Nat /\ specs[p] <= objects
          /\ \A slot \in Slot : handle[slot].object \in Nat
      BY DEF TypeOK, ObjectInv, IdentityConstants
    <2>2. CASE CreateSpec(path)
      <3>1. /\ objects < MaxObjects /\ objects' = objects + 1
            /\ specs' = [specs EXCEPT ![path] = objects + 1]
        BY <2>2 DEF CreateSpec
      <3>2. objects' \in 0..MaxObjects /\ specs' \in [Path -> 0..MaxObjects]
        BY <2>1, <3>1
      <3>3. \A p \in Path : specs'[p] = IF p = path THEN objects + 1 ELSE specs[p]
        BY <2>1, <3>1
      <3> QED BY <2>1, <3>1, <3>2, <3>3 DEF ObjectInv
    <2>3. CASE DeleteSpec(path)
      <3>1. objects' = objects /\ specs' = [specs EXCEPT ![path] = 0]
        BY <2>3 DEF DeleteSpec
      <3>2. specs' \in [Path -> 0..MaxObjects]
        BY <2>1, <3>1
      <3>3. \A p \in Path : specs'[p] = IF p = path THEN 0 ELSE specs[p]
        BY <2>1, <3>1
      <3> QED BY <2>1, <3>1, <3>2, <3>3 DEF ObjectInv
    <2> QED BY <2>2, <2>3
  <1>3. TypeOK'
    BY <1>1, <1>2 DEF TypeOK
  <1>4. KnownInv' /\ ReferInv' /\ SweepInv' /\ CountsExact'
    BY <1>1 DEF KnownInv, ReferInv, SweepInv, CountsExact
  <1>5. ObjectInv'
    BY <1>1, <1>2 DEF ObjectInv
  <1>6. HandlesFollow'
    BY <1>1, <1>2 DEF HandlesFollow
  <1>7. DeadInv'
    BY <1>1 DEF DeadInv, Known, Waiting, Counting
  <1> QED BY <1>3, <1>4, <1>5, <1>6, <1>7

\* A move while nobody drops a handle: the identity at the old path comes to the new
\* one, and the one that was there is forgotten.
LEMMA MoveStep ==
    ASSUME IdentityConstants, IdentityInv, NEW old \in Path, NEW new \in Path, MoveSpec(old, new)
    PROVE  IdentityInv'
  <1> USE DEF IdentityInv
  <1> DEFINE i == ids[old]
  <1>1. /\ registry /\ Quiet /\ specs[old] # 0 /\ specs[new] = 0 /\ old # new
        /\ specs' = [specs EXCEPT ![new] = specs[old], ![old] = 0]
        /\ UNCHANGED <<objects, registry, deadCount, deadThreshold, mutex, handle, pc, drop>>
        /\ mutex = None
    <2>1. mutex = None
      BY DEF MoveSpec, Quiet, SweepInv, TypeOK
    <2> QED BY <2>1 DEF MoveSpec, counters
  <1>2. \A p \in Path : specs'[p] = IF p = new THEN specs[old] ELSE IF p = old THEN 0 ELSE specs[p]
    BY <1>1 DEF TypeOK
  <1>3. CASE i = None
    <2>1. UNCHANGED <<ids, identity>>
      BY <1>3 DEF MoveSpec
    <2>2. TypeOK'
      BY <1>1, <2>1 DEF TypeOK
    <2>3. KnownInv' /\ ReferInv' /\ SweepInv' /\ CountsExact'
      BY <1>1, <2>1 DEF KnownInv, ReferInv, SweepInv, CountsExact
    <2>4. ObjectInv'
      BY <1>1, <1>2 DEF ObjectInv, TypeOK
    <2>5. HandlesFollow'
      <3> SUFFICES ASSUME NEW slot \in Slot, NEW p \in Path, handle[slot].id # None,
                          handle[slot].object = specs'[p]
                   PROVE  identity[handle[slot].id].path = p
        BY <1>1, <2>1 DEF HandlesFollow
      <3>1. p # old
        BY <1>1, <1>2 DEF ObjectInv
      <3>2. CASE p = new
        <4>1. identity[handle[slot].id].path = old
          BY <1>2, <3>2 DEF HandlesFollow
        <4>2. handle[slot].id \in DOMAIN identity /\ handle[slot].id # None /\ old # None
          BY DEF ReferInv, IdentityConstants
        <4>3. ids[old] = handle[slot].id
          BY <4>1, <4>2 DEF KnownInv
        <4> QED BY <1>3, <4>2, <4>3
      <3>3. CASE p # new
        BY <1>2, <3>1, <3>3 DEF HandlesFollow
      <3> QED BY <3>2, <3>3
    <2>6. DeadInv'
      BY <1>1, <2>1 DEF DeadInv, Known, Waiting, Counting
    <2> QED BY <2>2, <2>3, <2>4, <2>5, <2>6
  <1>4. CASE i # None
    <2>1. /\ i \in DOMAIN identity /\ identity[i].path = old /\ identity[i].reg
          /\ ids[new] # None => /\ ids[new] \in DOMAIN identity /\ identity[ids[new]].path = new
                                /\ ids[new] # i
          /\ \A j \in DOMAIN identity :
                identity[j] \in [path : Path \cup {None}, reg : BOOLEAN, refs : Nat]
      BY <1>1, <1>4 DEF KnownInv, IdentityConstants, TypeOK
    <2>2. /\ ids' = [ids EXCEPT ![new] = i, ![old] = None]
          /\ identity' = [IF ids[new] = None THEN identity ELSE Forget(ids[new])
                             EXCEPT ![i].path = new]
      BY <1>4 DEF MoveSpec
    <2>3. /\ DOMAIN identity' = DOMAIN identity
          /\ \A j \in DOMAIN identity :
                /\ identity'[j].path = IF j = i THEN new ELSE IF j = ids[new] THEN None
                                       ELSE identity[j].path
                /\ identity'[j].reg = IF j = ids[new] THEN FALSE ELSE identity[j].reg
                /\ identity'[j].refs = identity[j].refs
                /\ identity'[j] \in [path : Path \cup {None}, reg : BOOLEAN, refs : Nat]
      <3>1. CASE ids[new] = None
        <4>1. identity' = [identity EXCEPT ![i].path = new]
          BY <2>2, <3>1
        <4>2. \A j \in DOMAIN identity : j # ids[new]
          BY <3>1 DEF TypeOK, IdentityConstants
        <4> HIDE DEF i
        <4> QED BY <2>1, <4>1, <4>2
      <3>2. CASE ids[new] # None
        <4> DEFINE k == ids[new]
        <4>1. identity' = [[identity EXCEPT ![k].path = None, ![k].reg = FALSE]
                              EXCEPT ![i].path = new]
          BY <2>2, <3>2 DEF Forget
        <4>2. k \in DOMAIN identity /\ k # i
          BY <2>1, <3>2
        <4> HIDE DEF i, k
        <4>3. /\ DOMAIN identity' = DOMAIN identity
              /\ \A j \in DOMAIN identity :
                    identity'[j] = IF j = i THEN [identity[j] EXCEPT !.path = new]
                                   ELSE IF j = k
                                   THEN [[identity[j] EXCEPT !.path = None] EXCEPT !.reg = FALSE]
                                   ELSE identity[j]
          BY <4>1, <4>2
        <4>4. \A j \in DOMAIN identity :
                /\ identity'[j].path = IF j = i THEN new ELSE IF j = k THEN None
                                       ELSE identity[j].path
                /\ identity'[j].reg = IF j = k THEN FALSE ELSE identity[j].reg
                /\ identity'[j].refs = identity[j].refs
                /\ identity'[j] \in [path : Path \cup {None}, reg : BOOLEAN, refs : Nat]
          <5> SUFFICES ASSUME NEW j \in DOMAIN identity
                       PROVE  /\ identity'[j].path = IF j = i THEN new ELSE IF j = k THEN None
                                                     ELSE identity[j].path
                              /\ identity'[j].reg = IF j = k THEN FALSE ELSE identity[j].reg
                              /\ identity'[j].refs = identity[j].refs
                              /\ identity'[j]
                                    \in [path : Path \cup {None}, reg : BOOLEAN, refs : Nat]
            OBVIOUS
          <5>1. identity[j] \in [path : Path \cup {None}, reg : BOOLEAN, refs : Nat]
            BY <2>1
          <5>2. CASE j = i
            <6>1. identity'[j] = [identity[j] EXCEPT !.path = new]
              BY <4>3, <5>2
            <6> QED BY <4>2, <5>1, <5>2, <6>1
          <5>3. CASE j = k
            <6>1. identity'[j] = [[identity[j] EXCEPT !.path = None] EXCEPT !.reg = FALSE]
              BY <4>2, <4>3, <5>3
            <6> QED BY <4>2, <5>1, <5>3, <6>1
          <5>4. CASE j # i /\ j # k
            BY <4>3, <5>1, <5>4
          <5> QED BY <5>2, <5>3, <5>4
        <4> QED BY <4>3, <4>4 DEF k
      <3> QED BY <3>1, <3>2
    <2>4. /\ ids' \in [Path -> Id \cup {None}]
          /\ \A p \in Path : ids'[p] = IF p = old THEN None ELSE IF p = new THEN i ELSE ids[p]
      BY <1>1, <2>2 DEF TypeOK
    <2>5. TypeOK'
      BY <1>1, <2>3, <2>4 DEF TypeOK
    <2>6. KnownInv'
      <3>1. ASSUME NEW p \in Path, ids'[p] # None
            PROVE  ids'[p] \in DOMAIN identity' /\ identity'[ids'[p]].path = p
        <4>1. CASE p = new
          BY <1>1, <2>1, <2>3, <2>4, <4>1
        <4>2. CASE p # new
          <5>1. p # old /\ ids'[p] = ids[p] /\ ids[p] \in DOMAIN identity
                /\ identity[ids[p]].path = p
            BY <2>4, <3>1, <4>2 DEF KnownInv
          <5>2. ids[p] # i /\ ids[p] # ids[new]
            BY <2>1, <3>1, <4>2, <5>1
          <5> QED BY <2>3, <5>1, <5>2
        <4> QED BY <4>1, <4>2
      <3>2. ASSUME NEW j \in DOMAIN identity'
            PROVE  /\ identity'[j].reg <=> identity'[j].path # None
                   /\ identity'[j].reg => registry' /\ ids'[identity'[j].path] = j
        <4>1. j \in DOMAIN identity
          BY <2>3, <3>2
        <4>2. CASE j = i
          <5>1. i # ids[new] /\ new # None
            BY <1>4, <2>1 DEF IdentityConstants
          <5>2. identity'[i].path = new /\ identity'[i].reg = identity[i].reg
            BY <2>1, <2>3, <5>1
          <5>3. ids'[new] = i
            BY <1>1, <2>4
          <5> HIDE DEF i
          <5> QED BY <1>1, <2>1, <4>2, <5>1, <5>2, <5>3
        <4>3. CASE j # i /\ j = ids[new]
          BY <2>3, <4>1, <4>3
        <4>4. CASE j # i /\ j # ids[new]
          <5>1. identity'[j].reg = identity[j].reg /\ identity'[j].path = identity[j].path
            BY <2>3, <4>1, <4>4
          <5>2. identity[j].reg => ids[identity[j].path] = j /\ identity[j].path \in Path
            BY <4>1 DEF KnownInv, TypeOK
          <5>3. identity[j].reg => identity[j].path # old /\ identity[j].path # new
            BY <4>4, <5>2
          <5> QED BY <1>1, <2>4, <4>1, <5>1, <5>2, <5>3 DEF KnownInv
        <4> QED BY <4>2, <4>3, <4>4
      <3> QED BY <3>1, <3>2 DEF KnownInv
    <2>7. ReferInv' /\ SweepInv'
      BY <1>1, <2>3 DEF ReferInv, SweepInv, Quiet
    <2>8. CountsExact'
      BY <1>1, <2>3, CountsKept
    <2>9. ObjectInv'
      BY <1>1, <1>2 DEF ObjectInv, TypeOK
    <2>10. HandlesFollow'
      <3> SUFFICES ASSUME NEW slot \in Slot, NEW p \in Path, handle[slot].id # None,
                          handle[slot].object = specs'[p]
                   PROVE  identity'[handle[slot].id].path = p
        BY <1>1 DEF HandlesFollow
      <3> DEFINE j == handle[slot].id
      <3>1. p # old /\ j \in DOMAIN identity
        BY <1>1, <1>2 DEF ObjectInv, ReferInv
      <3>2. CASE p = new
        <4>1. identity[j].path = old
          BY <1>2, <3>2 DEF HandlesFollow
        <4>2. ids[old] = j
          BY <3>1, <4>1 DEF KnownInv, IdentityConstants
        <4> QED BY <2>3, <3>1, <3>2, <4>2
      <3>3. CASE p # new
        <4>1. identity[j].path = p
          BY <1>2, <3>1, <3>3 DEF HandlesFollow
        <4>2. j # i /\ j # ids[new]
          BY <2>1, <3>1, <3>3, <4>1
        <4> QED BY <2>3, <3>1, <4>1, <4>2
      <3> QED BY <3>2, <3>3
    <2>11. DeadInv'
      <3>1. {j \in Known : Waiting(j)}' \subseteq {j \in Known : Waiting(j)}
        <4> SUFFICES ASSUME NEW j \in Known', Waiting(j)'
                     PROVE  j \in Known /\ Waiting(j)
          OBVIOUS
        <4>1. PICK p \in Path : j = ids'[p] /\ j # None
          BY DEF Known
        <4>2. j \in Known
          BY <2>4, <4>1 DEF Known
        <4>3. j \in DOMAIN identity
          BY <4>1, <4>2 DEF Known, KnownInv
        <4> QED BY <1>1, <2>3, <4>2, <4>3 DEF Waiting
      <3>2. Counting' = Counting
        BY <1>1 DEF Counting
      <3> QED BY <1>1, <3>1, <3>2, DeadKept DEF TypeOK
    <2> QED BY <2>5, <2>6, <2>7, <2>8, <2>9, <2>10, <2>11
  <1> QED BY <1>3, <1>4

\* One more handle of an identity, which may be a new one.
LEMMA HandleAdded ==
    ASSUME IdentityConstants, IdentityInv, NEW slot \in Slot, NEW i \in Id, NEW object,
           handle[slot].id = None,
           handle' = [handle EXCEPT ![slot] = [id |-> i, object |-> object]],
           UNCHANGED <<pc, drop>>,
           DOMAIN identity' = DOMAIN identity \cup {i},
           identity'[i].refs = (IF i \in DOMAIN identity THEN identity[i].refs ELSE 0) + 1,
           \A j \in DOMAIN identity \ {i} : identity'[j] = identity[j]
    PROVE  CountsExact'
  <1> USE DEF IdentityInv
  <1>1. \A j \in Id : Holders(j)' = IF j = i THEN Holders(j) \cup {slot} ELSE Holders(j)
    BY DEF Holders, TypeOK, IdentityConstants
  <1>2. \A j : Droppers(j)' = Droppers(j)
    BY DEF Droppers
  <1>3. slot \notin Holders(i)
    BY DEF Holders, IdentityConstants
  <1>4. /\ Cardinality(Holders(i)') = Cardinality(Holders(i)) + 1
        /\ Cardinality(Holders(i)) \in Nat /\ Cardinality(Droppers(i)) \in Nat
    <2>1. Holders(i)' = Holders(i) \cup {slot}
      BY <1>1
    <2>2. IsFiniteSet(Holders(i))
      BY SetsFinite
    <2> QED BY <1>3, <2>1, <2>2, CardinalityAdd, SetsFinite
  <1>5. \A j \in DOMAIN identity :
           identity[j].refs = Cardinality(Holders(j)) + Cardinality(Droppers(j))
    BY DEF CountsExact, Holders, Droppers
  <1>6. i \notin DOMAIN identity => Cardinality(Holders(i)) = 0 /\ Cardinality(Droppers(i)) = 0
    <2>1. i \notin DOMAIN identity => Holders(i) = {} /\ Droppers(i) = {}
      BY DEF ReferInv, Holders, Droppers, IdentityConstants
    <2> QED BY <2>1, FS_EmptySet
  <1>7. \A j \in DOMAIN identity' :
           identity'[j].refs = Cardinality(Holders(j)') + Cardinality(Droppers(j)')
    <2> SUFFICES ASSUME NEW j \in DOMAIN identity'
                 PROVE  identity'[j].refs = Cardinality(Holders(j)') + Cardinality(Droppers(j)')
      OBVIOUS
    <2>1. CASE j = i
      <3>1. identity'[i].refs = Cardinality(Holders(i)) + Cardinality(Droppers(i)) + 1
        BY <1>4, <1>5, <1>6
      <3>2. Cardinality(Droppers(i)') = Cardinality(Droppers(i))
        BY <1>2
      <3> HIDE DEF Holders, Droppers
      <3> QED BY <1>4, <2>1, <3>1, <3>2
    <2>2. CASE j # i
      <3>1. j \in DOMAIN identity /\ j \in Id
        BY <2>2 DEF TypeOK
      <3>2. Holders(j)' = Holders(j) /\ Droppers(j)' = Droppers(j)
        BY <1>1, <1>2, <2>2, <3>1
      <3> QED BY <1>5, <2>2, <3>1, <3>2
    <2> QED BY <2>1, <2>2
  <1> QED BY <1>7 DEF CountsExact, Holders, Droppers

LEMMA ThresholdPositive ==
    ASSUME IdentityConstants, NEW m
    PROVE  Threshold(m) \in Nat \ {0}
  <1> DEFINE known == {path \in Path : m[path] # None}
  <1>1. Cardinality(known) \in Nat
    BY CardinalityLess DEF IdentityConstants
  <1> HIDE DEF known
  <1>2. Cardinality(known) \div DeadShare \in Int
    BY <1>1 DEF IdentityConstants
  <1> QED BY <1>2 DEF Threshold, known, IdentityConstants

LEMMA IdentifyStep ==
    ASSUME IdentityConstants, IdentityInv, NEW slot \in Slot, NEW path \in Path,
           Identify(slot, path)
    PROVE  IdentityInv'
  <1> USE DEF IdentityInv
  <1>1. PICK i \in Id :
           /\ \/ /\ ids[path] # None /\ i = ids[path]
                 /\ identity' = [identity EXCEPT ![i].refs = @ + 1]
                 /\ UNCHANGED <<ids, deadThreshold>>
              \/ /\ ids[path] = None /\ i \notin DOMAIN identity
                 /\ identity' = [j \in DOMAIN identity \cup {i} |->
                                    IF j = i THEN [path |-> path, reg |-> TRUE, refs |-> 1]
                                    ELSE identity[j]]
                 /\ ids' = [ids EXCEPT ![path] = i]
                 /\ deadThreshold' = Threshold(ids')
           /\ handle' = [handle EXCEPT ![slot] = [id |-> i, object |-> specs[path]]]
    BY DEF Identify
  <1>2. /\ registry /\ mutex = None /\ specs[path] # 0 /\ handle[slot].id = None
        /\ UNCHANGED <<specs, objects, registry, deadCount, mutex, pc, drop>>
    BY DEF Identify, layerVars
  <1>3. /\ DOMAIN identity' = DOMAIN identity \cup {i}
        /\ identity'[i].path = path /\ identity'[i].reg
        /\ identity'[i].refs = (IF i \in DOMAIN identity THEN identity[i].refs ELSE 0) + 1
        /\ identity'[i] \in [path : Path \cup {None}, reg : BOOLEAN, refs : Nat]
        /\ \A j \in DOMAIN identity \ {i} : identity'[j] = identity[j]
        /\ ids' = [ids EXCEPT ![path] = i]
        /\ i \in DOMAIN identity => ids[path] = i
        /\ deadThreshold' \in Nat \ {0}
    <2>1. CASE ids[path] # None
      <3>1. /\ i = ids[path] /\ identity' = [identity EXCEPT ![i].refs = @ + 1]
            /\ UNCHANGED <<ids, deadThreshold>>
        BY <1>1, <2>1
      <3>2. /\ i \in DOMAIN identity /\ identity[i].path = path
            /\ identity[i] \in [path : Path \cup {None}, reg : BOOLEAN, refs : Nat]
            /\ identity[i].reg
        BY <2>1, <3>1 DEF KnownInv, TypeOK, IdentityConstants
      <3>3. ids' = [ids EXCEPT ![path] = i]
        BY <3>1 DEF TypeOK
      <3>4. /\ DOMAIN identity' = DOMAIN identity /\ identity'[i] = [identity[i] EXCEPT !.refs = @ + 1]
            /\ \A j \in DOMAIN identity \ {i} : identity'[j] = identity[j]
        BY <3>1, <3>2
      <3>5. deadThreshold' \in Nat \ {0}
        BY <3>1 DEF TypeOK
      <3>6. /\ identity'[i].path = path /\ identity'[i].reg
            /\ identity'[i].refs = identity[i].refs + 1
            /\ identity'[i] \in [path : Path \cup {None}, reg : BOOLEAN, refs : Nat]
        BY <3>2, <3>4
      <3>7. DOMAIN identity' = DOMAIN identity \cup {i}
        BY <3>2, <3>4
      <3>8. identity'[i].refs = (IF i \in DOMAIN identity THEN identity[i].refs ELSE 0) + 1
        BY <3>2, <3>6
      <3>9. ids[path] = i
        BY <3>1
      <3> QED BY <3>3, <3>4, <3>5, <3>6, <3>7, <3>8, <3>9
    <2>2. CASE ids[path] = None
      <3>1. /\ i \notin DOMAIN identity
            /\ identity' = [j \in DOMAIN identity \cup {i} |->
                               IF j = i THEN [path |-> path, reg |-> TRUE, refs |-> 1]
                               ELSE identity[j]]
            /\ ids' = [ids EXCEPT ![path] = i]
            /\ deadThreshold' = Threshold(ids')
        BY <1>1, <2>2
      <3>2. deadThreshold' \in Nat \ {0}
        BY <3>1, ThresholdPositive
      <3> QED BY <3>1, <3>2
    <2> QED BY <2>1, <2>2
  <1>4. /\ \A p \in Path : ids'[p] = IF p = path THEN i ELSE ids[p]
        /\ ids' \in [Path -> Id \cup {None}]
        /\ handle' \in [Slot -> [id : Id \cup {None}, object : 0..MaxObjects]]
        /\ \A s \in Slot : handle'[s] = IF s = slot THEN [id |-> i, object |-> specs[path]]
                                        ELSE handle[s]
    BY <1>1, <1>3 DEF TypeOK
  <1>5. TypeOK'
    <2>1. \A j \in DOMAIN identity' :
             identity'[j] \in [path : Path \cup {None}, reg : BOOLEAN, refs : Nat]
      BY <1>3 DEF TypeOK
    <2> QED BY <1>2, <1>3, <1>4, <2>1 DEF TypeOK
  <1>6. KnownInv'
    <2>1. ASSUME NEW p \in Path, ids'[p] # None
          PROVE  ids'[p] \in DOMAIN identity' /\ identity'[ids'[p]].path = p
      BY <1>3, <1>4, <2>1 DEF KnownInv
    <2>2. ASSUME NEW j \in DOMAIN identity'
          PROVE  /\ identity'[j].reg <=> identity'[j].path # None
                 /\ identity'[j].reg => registry' /\ ids'[identity'[j].path] = j
      <3>1. CASE j = i
        BY <1>2, <1>3, <1>4, <3>1 DEF IdentityConstants
      <3>2. CASE j # i
        <4>1. j \in DOMAIN identity /\ identity'[j] = identity[j]
          BY <1>3, <3>2
        <4>2. identity[j].reg => ids[identity[j].path] = j /\ identity[j].path \in Path
          BY <4>1 DEF KnownInv, TypeOK
        <4>3. identity[j].reg => identity[j].path # path
          <5>1. \/ ids[path] = i
                \/ ids[path] = None
            BY <1>1
          <5>2. j # None
            BY <4>1 DEF TypeOK, IdentityConstants
          <5> QED BY <3>2, <4>2, <5>1, <5>2
        <4> QED BY <1>2, <1>4, <4>1, <4>2, <4>3 DEF KnownInv
      <3> QED BY <3>1, <3>2
    <2> QED BY <2>1, <2>2 DEF KnownInv
  <1>7. ReferInv'
    <2>1. ASSUME NEW t \in Thread, pc[t] = "decrement"
          PROVE  drop[t].id \in DOMAIN identity' /\ drop[t].reg = identity'[drop[t].id].reg
      <3>1. drop[t].id \in DOMAIN identity /\ drop[t].reg = identity[drop[t].id].reg
        BY <2>1 DEF ReferInv
      <3>2. CASE drop[t].id = i
        <4>1. ids[path] = i /\ i # None
          BY <1>3, <3>1, <3>2 DEF IdentityConstants
        <4>2. identity[i].path = path /\ path # None
          BY <4>1 DEF KnownInv, IdentityConstants
        <4>3. identity[i].reg = TRUE /\ identity'[i].reg = TRUE
          BY <1>3, <3>1, <3>2, <4>2 DEF KnownInv, TypeOK
        <4> QED BY <1>3, <3>1, <3>2, <4>3
      <3>3. CASE drop[t].id # i
        BY <1>3, <3>1, <3>3
      <3> QED BY <3>2, <3>3
    <2> QED BY <1>2, <1>3, <1>4, <2>1 DEF ReferInv
  <1>8. SweepInv'
    BY <1>2, <1>4 DEF SweepInv, TypeOK, IdentityConstants
  <1>9. CountsExact'
    BY <1>1, <1>2, <1>3, HandleAdded
  <1>10. ObjectInv'
    BY <1>2, <1>4 DEF ObjectInv
  <1>11. HandlesFollow'
    <2> SUFFICES ASSUME NEW s \in Slot, NEW p \in Path, handle'[s].id # None,
                        handle'[s].object = specs[p]
                 PROVE  identity'[handle'[s].id].path = p
      BY <1>2 DEF HandlesFollow
    <2>1. CASE s = slot
      BY <1>2, <1>3, <1>4, <2>1 DEF ObjectInv
    <2>2. CASE s # slot
      <3>1. handle'[s] = handle[s] /\ handle[s].id \in DOMAIN identity
            /\ identity[handle[s].id].path = p
        BY <1>4, <2>2 DEF HandlesFollow, ReferInv
      <3>2. CASE handle[s].id = i
        BY <1>3, <3>1, <3>2 DEF KnownInv
      <3>3. CASE handle[s].id # i
        BY <1>3, <3>1, <3>3
      <3> QED BY <3>2, <3>3
    <2> QED BY <2>1, <2>2
  <1>12. DeadInv'
    <2>1. {j \in Known : Waiting(j)}' \subseteq {j \in Known : Waiting(j)}
      <3> SUFFICES ASSUME NEW j \in Known', Waiting(j)'
                   PROVE  j \in Known /\ Waiting(j)
        OBVIOUS
      <3>1. PICK p \in Path : j = ids'[p] /\ j # None
        BY DEF Known
      <3>2. j # i
        <4>1. identity'[i].refs # 0
          BY <1>3 DEF TypeOK
        <4> QED BY <4>1 DEF Waiting
      <3>3. j \in Known /\ j = ids[p]
        BY <1>4, <3>1, <3>2 DEF Known
      <3>4. j \in DOMAIN identity /\ identity'[j] = identity[j]
        BY <1>3, <3>1, <3>2, <3>3 DEF KnownInv
      <3> QED BY <1>2, <3>3, <3>4 DEF Waiting
    <2>2. Counting' = Counting
      BY <1>2 DEF Counting
    <2> QED BY <1>2, <2>1, <2>2, DeadKept DEF TypeOK
  <1> QED BY <1>5, <1>6, <1>7, <1>8, <1>9, <1>10, <1>11, <1>12

LEMMA CopyStep ==
    ASSUME IdentityConstants, IdentityInv, NEW from \in Slot, NEW to \in Slot, Copy(from, to)
    PROVE  IdentityInv'
  <1> USE DEF IdentityInv
  <1> DEFINE i == handle[from].id
  <1>1. /\ i # None /\ handle[to].id = None /\ i \in DOMAIN identity /\ i \in Id
        /\ handle' = [handle EXCEPT ![to] = handle[from]]
        /\ identity' = [identity EXCEPT ![i].refs = @ + 1]
        /\ UNCHANGED <<specs, objects, registry, ids, deadCount, deadThreshold, mutex, pc, drop>>
    BY DEF Copy, layerVars, counters, ReferInv, TypeOK
  <1>2. /\ handle[from] = [id |-> i, object |-> handle[from].object]
        /\ handle[from] \in [id : Id \cup {None}, object : 0..MaxObjects]
    BY DEF TypeOK
  <1>3. /\ handle' \in [Slot -> [id : Id \cup {None}, object : 0..MaxObjects]]
        /\ \A s \in Slot : handle'[s] = IF s = to THEN handle[from] ELSE handle[s]
    BY <1>1, <1>2 DEF TypeOK
  <1>4. /\ DOMAIN identity' = DOMAIN identity
        /\ identity'[i].refs = identity[i].refs + 1 /\ identity[i].refs \in Nat
        /\ \A j \in DOMAIN identity :
              /\ identity'[j].path = identity[j].path /\ identity'[j].reg = identity[j].reg
              /\ identity'[j] \in [path : Path \cup {None}, reg : BOOLEAN, refs : Nat]
              /\ j # i => identity'[j] = identity[j]
    <2>1. \A j \in DOMAIN identity :
             identity[j] \in [path : Path \cup {None}, reg : BOOLEAN, refs : Nat]
      BY DEF TypeOK
    <2> HIDE DEF i
    <2> QED BY <1>1, <2>1
  <1>5. TypeOK'
    BY <1>1, <1>3, <1>4 DEF TypeOK
  <1>6. KnownInv'
    <2>1. ASSUME NEW p \in Path, ids[p] # None
          PROVE  ids[p] \in DOMAIN identity' /\ identity'[ids[p]].path = p
      BY <1>4, <2>1 DEF KnownInv
    <2>2. ASSUME NEW j \in DOMAIN identity
          PROVE  /\ identity'[j].reg <=> identity'[j].path # None
                 /\ identity'[j].reg => registry /\ ids[identity'[j].path] = j
      BY <1>4 DEF KnownInv
    <2> HIDE DEF i
    <2> QED BY <1>1, <1>4, <2>1, <2>2 DEF KnownInv
  <1>7. ReferInv' /\ SweepInv'
    <2>1. SweepInv'
      BY <1>1 DEF SweepInv
    <2>2. \A s \in Slot : handle'[s].id # None => handle'[s].id \in DOMAIN identity'
      BY <1>1, <1>3, <1>4 DEF ReferInv
    <2>3. \A t \in Thread : pc[t] = "decrement" =>
              drop[t].id \in DOMAIN identity' /\ drop[t].reg = identity'[drop[t].id].reg
      BY <1>4 DEF ReferInv
    <2> QED BY <1>1, <2>1, <2>2, <2>3 DEF ReferInv
  <1>8. CountsExact'
    <2>1. handle' = [handle EXCEPT ![to] = [id |-> i, object |-> handle[from].object]]
      BY <1>1, <1>2
    <2>2. DOMAIN identity' = DOMAIN identity \cup {i}
      BY <1>1, <1>4
    <2>3. identity'[i].refs = (IF i \in DOMAIN identity THEN identity[i].refs ELSE 0) + 1
      BY <1>1, <1>4
    <2>4. \A j \in DOMAIN identity \ {i} : identity'[j] = identity[j]
      BY <1>4
    <2> HIDE DEF i
    <2> QED BY <1>1, <2>1, <2>2, <2>3, <2>4, HandleAdded
  <1>9. ObjectInv'
    BY <1>1, <1>3 DEF ObjectInv
  <1>10. HandlesFollow'
    <2> SUFFICES ASSUME NEW s \in Slot, NEW p \in Path, handle'[s].id # None,
                        handle'[s].object = specs[p]
                 PROVE  identity'[handle'[s].id].path = p
      BY <1>1 DEF HandlesFollow
    <2>1. PICK u \in Slot : handle'[s] = handle[u]
      BY <1>3
    <2>2. handle[u].id \in DOMAIN identity /\ identity[handle[u].id].path = p
      BY <2>1 DEF HandlesFollow, ReferInv
    <2> QED BY <1>4, <2>1, <2>2
  <1>11. DeadInv'
    <2>1. {j \in Known : Waiting(j)}' \subseteq {j \in Known : Waiting(j)}
      <3> SUFFICES ASSUME NEW j \in Known', Waiting(j)'
                   PROVE  j \in Known /\ Waiting(j)
        OBVIOUS
      <3>1. j \in Known /\ j \in DOMAIN identity
        BY <1>1 DEF Known, KnownInv
      <3>2. j # i
        <4>1. identity'[i].refs # 0
          BY <1>4
        <4> QED BY <4>1 DEF Waiting
      <3>3. identity'[j] = identity[j]
        BY <1>4, <3>1, <3>2
      <3> QED BY <1>1, <3>1, <3>3 DEF Waiting
    <2>2. Counting' = Counting
      BY <1>1 DEF Counting
    <2> QED BY <1>1, <2>1, <2>2, DeadKept DEF TypeOK
  <1> QED BY <1>5, <1>6, <1>7, <1>8, <1>9, <1>10, <1>11

\* A handle that is dropped leaves its identity's handles for the threads that drop one.
LEMMA BeginDropStep ==
    ASSUME IdentityConstants, IdentityInv, NEW t \in Thread, NEW slot \in Slot, BeginDrop(t, slot)
    PROVE  IdentityInv'
  <1> USE DEF IdentityInv
  <1>0. PICK i : i = handle[slot].id
    OBVIOUS
  <1>1. /\ pc[t] = "idle" /\ i # None /\ i \in DOMAIN identity /\ i \in Id
        /\ identity[i].reg \in BOOLEAN
        /\ pc' = [pc EXCEPT ![t] = "decrement"]
        /\ drop' = [drop EXCEPT ![t].id = i, ![t].reg = identity[i].reg]
        /\ handle' = [handle EXCEPT ![slot] = [id |-> None, object |-> 0]]
        /\ UNCHANGED <<specs, objects, registry, ids, deadCount, deadThreshold, mutex, identity>>
    BY <1>0 DEF BeginDrop, layerVars, counters, ReferInv, TypeOK
  <1>2. /\ handle' \in [Slot -> [id : Id \cup {None}, object : 0..MaxObjects]]
        /\ \A s \in Slot : handle'[s] = IF s = slot THEN [id |-> None, object |-> 0] ELSE handle[s]
    BY <1>1 DEF TypeOK, IdentityConstants
  <1>3. /\ \A u \in Thread : pc'[u] = IF u = t THEN "decrement" ELSE pc[u]
        /\ pc' \in [Thread -> {"idle", "decrement", "count", "compare", "reset", "lock", "sweep"}]
    BY <1>1 DEF TypeOK
  <1>4. /\ drop'[t].id = i /\ drop'[t].reg = identity[i].reg
        /\ \A u \in Thread : u # t => drop'[u] = drop[u]
        /\ drop' \in [Thread -> [id : Id \cup {None}, reg : BOOLEAN, count : Nat,
                                 left : SUBSET Path]]
    <2>1. drop[t] \in [id : Id \cup {None}, reg : BOOLEAN, count : Nat, left : SUBSET Path]
      BY DEF TypeOK
    <2>2. drop' = [drop EXCEPT ![t] = [[drop[t] EXCEPT !.id = i] EXCEPT !.reg = identity[i].reg]]
      BY <1>1 DEF TypeOK
    <2> QED BY <1>1, <2>1, <2>2, SMTT(30) DEF TypeOK
  <1>5. TypeOK'
    BY <1>1, <1>2, <1>3, <1>4 DEF TypeOK
  <1>6. KnownInv' /\ ReferInv'
    <2>1. KnownInv'
      BY <1>1 DEF KnownInv
    <2>2. ReferInv'
      BY <1>1, <1>2, <1>3, <1>4 DEF ReferInv
    <2> QED BY <2>1, <2>2
  <1>7. SweepInv'
    <2>1. mutex # t
      BY <1>1 DEF SweepInv
    <2> QED BY <1>1, <1>3, <1>4, <2>1 DEF SweepInv
  <1>8. CountsExact'
    <2>1. \A j \in Id : Holders(j)' = IF j = i THEN Holders(j) \ {slot} ELSE Holders(j)
      BY <1>0, <1>1, <1>2 DEF Holders, IdentityConstants
    <2>2. \A j \in Id : Droppers(j)' = IF j = i THEN Droppers(j) \cup {t} ELSE Droppers(j)
      BY <1>1, <1>3, <1>4 DEF Droppers
    <2>3. slot \in Holders(i) /\ t \notin Droppers(i)
      BY <1>0, <1>1 DEF Holders, Droppers
    <2>4. \A j \in DOMAIN identity :
             identity[j].refs = Cardinality(Holders(j)) + Cardinality(Droppers(j))
      BY DEF CountsExact, Holders, Droppers
    <2> SUFFICES ASSUME NEW j \in DOMAIN identity
                 PROVE  identity[j].refs = Cardinality(Holders(j)') + Cardinality(Droppers(j)')
      BY <1>1 DEF CountsExact, Holders, Droppers
    <2>5. j \in Id
      BY DEF TypeOK
    <2>6. CASE j # i
      <3>1. Holders(j)' = Holders(j) /\ Droppers(j)' = Droppers(j)
        BY <2>1, <2>2, <2>5, <2>6
      <3> QED BY <2>4, <3>1
    <2>7. CASE j = i
      <3>1. Holders(i)' = Holders(i) \ {slot} /\ Droppers(i)' = Droppers(i) \cup {t}
        BY <1>1, <2>1, <2>2
      <3>2. /\ Cardinality(Holders(i)') = Cardinality(Holders(i)) - 1
            /\ Cardinality(Holders(i)) \in Nat
        BY <2>3, <3>1, SetsFinite, CardinalityRemove
      <3>3. /\ Cardinality(Droppers(i)') = Cardinality(Droppers(i)) + 1
            /\ Cardinality(Droppers(i)) \in Nat
        BY <2>3, <3>1, SetsFinite, CardinalityAdd
      <3>4. identity[i].refs = Cardinality(Holders(i)) + Cardinality(Droppers(i))
        BY <1>1, <2>4
      <3> HIDE DEF Holders, Droppers
      <3> QED BY <2>7, <3>2, <3>3, <3>4
    <2> QED BY <2>6, <2>7
  <1>9. ObjectInv' /\ HandlesFollow'
    BY <1>1, <1>2 DEF ObjectInv, HandlesFollow
  <1>10. DeadInv'
    <2>1. {j \in Known : Waiting(j)}' \subseteq {j \in Known : Waiting(j)}
      <3>1. mutex # None => drop'[mutex] = drop[mutex]
        BY <1>1, <1>4 DEF SweepInv, TypeOK
      <3> QED BY <1>1, <3>1 DEF Known, Waiting
    <2>2. Counting' = Counting
      BY <1>1, <1>3 DEF Counting
    <2> QED BY <1>1, <1>3, <2>1, <2>2, DeadKept DEF TypeOK
  <1> QED BY <1>5, <1>6, <1>7, <1>8, <1>9, <1>10

\* What goes when the last handle goes is referred to by nothing: no handle, no other
\* thread, and not the registry.
LEMMA DecrementStep ==
    ASSUME IdentityConstants, IdentityInv, NEW t \in Thread, Decrement(t)
    PROVE  IdentityInv'
  <1> USE DEF IdentityInv
  <1>0. PICK i : i = drop[t].id
    OBVIOUS
  <1> DEFINE last == identity[i].refs = 1
             gone == last /\ ~drop[t].reg
  <1>1. /\ pc[t] = "decrement" /\ i \in DOMAIN identity /\ i \in Id
        /\ drop[t].reg = identity[i].reg
        /\ identity' = IF gone THEN Restrict(identity, DOMAIN identity \ {i})
                       ELSE [identity EXCEPT ![i].refs = @ - 1]
        /\ pc' = [pc EXCEPT ![t] = IF last /\ drop[t].reg THEN "count" ELSE "idle"]
        /\ drop' = [drop EXCEPT ![t] = NoDrop]
        /\ UNCHANGED <<specs, objects, registry, ids, deadCount, deadThreshold, mutex, handle>>
        /\ mutex # t
    BY <1>0 DEF Decrement, layerVars, counters, ReferInv, TypeOK, SweepInv
  <1>2. /\ identity[i].refs = Cardinality(Holders(i)) + Cardinality(Droppers(i))
        /\ Cardinality(Holders(i)) \in Nat /\ Cardinality(Droppers(i)) \in Nat
        /\ t \in Droppers(i) /\ IsFiniteSet(Droppers(i)) /\ IsFiniteSet(Holders(i))
        /\ Cardinality(Droppers(i) \ {t}) = Cardinality(Droppers(i)) - 1
        /\ Cardinality(Droppers(i)) > 0
        /\ IsFiniteSet(Droppers(i) \ {t}) /\ Cardinality(Droppers(i) \ {t}) \in Nat
    <2>1. t \in Droppers(i)
      BY <1>0, <1>1 DEF Droppers
    <2>2. identity[i].refs = Cardinality(Holders(i)) + Cardinality(Droppers(i))
      BY <1>1 DEF CountsExact, Holders, Droppers
    <2>3. IsFiniteSet(Droppers(i)) /\ IsFiniteSet(Holders(i))
          /\ Cardinality(Holders(i)) \in Nat /\ Cardinality(Droppers(i)) \in Nat
      BY SetsFinite
    <2> QED BY <2>1, <2>2, <2>3, CardinalityRemove, FS_CardinalityType
  <1>3. gone => /\ Holders(i) = {} /\ Droppers(i) \ {t} = {}
                /\ \A p \in Path : ids[p] # i
    <2> SUFFICES ASSUME gone
                 PROVE  /\ Holders(i) = {} /\ Droppers(i) \ {t} = {}
                        /\ \A p \in Path : ids[p] # i
      OBVIOUS
    <2>1. Cardinality(Holders(i)) = 0 /\ Cardinality(Droppers(i) \ {t}) = 0
      <3> DEFINE h == Cardinality(Holders(i))
                 d == Cardinality(Droppers(i))
      <3>1. h + d = 1 /\ h \in Nat /\ d \in Nat /\ d > 0 /\ Cardinality(Droppers(i) \ {t}) = d - 1
        BY <1>2
      <3> HIDE DEF h, d
      <3>2. h = 0 /\ d = 1
        BY <3>1
      <3> QED BY <3>1, <3>2 DEF h
    <2>2. Holders(i) = {} /\ Droppers(i) \ {t} = {}
      BY <1>2, <2>1, FS_EmptySet
    <2>3. \A p \in Path : ids[p] # i
      BY <1>1 DEF KnownInv, IdentityConstants, TypeOK
    <2> QED BY <2>2, <2>3
  <1> HIDE DEF last, gone
  <1>4. /\ DOMAIN identity' = IF gone THEN DOMAIN identity \ {i} ELSE DOMAIN identity
        /\ \A j \in DOMAIN identity' :
              /\ identity'[j].path = identity[j].path /\ identity'[j].reg = identity[j].reg
              /\ identity'[j].refs = IF j = i THEN identity[j].refs - 1 ELSE identity[j].refs
              /\ identity'[j] \in [path : Path \cup {None}, reg : BOOLEAN, refs : Nat]
    <2>1. \A j \in DOMAIN identity :
             identity[j] \in [path : Path \cup {None}, reg : BOOLEAN, refs : Nat]
      BY DEF TypeOK
    <2>2. CASE gone
      <3>1. identity' = [j \in DOMAIN identity \ {i} |-> identity[j]]
        BY <1>1, <2>2 DEF Restrict
      <3> QED BY <2>1, <2>2, <3>1
    <2>3. CASE ~gone
      <3>1. identity' = [identity EXCEPT ![i].refs = @ - 1]
        BY <1>1, <2>3
      <3>2. identity[i].refs - 1 \in Nat
        BY <1>2
      <3> QED BY <1>1, <2>1, <2>3, <3>1, <3>2
    <2> QED BY <2>2, <2>3
  <1>5. /\ pc' \in [Thread -> {"idle", "decrement", "count", "compare", "reset", "lock", "sweep"}]
        /\ pc'[t] = IF last /\ drop[t].reg THEN "count" ELSE "idle"
        /\ \A u \in Thread : u # t => pc'[u] = pc[u] /\ drop'[u] = drop[u]
        /\ drop' \in [Thread -> [id : Id \cup {None}, reg : BOOLEAN, count : Nat,
                                 left : SUBSET Path]]
    BY <1>1 DEF TypeOK, NoDrop
  <1>6. TypeOK'
    BY <1>1, <1>4, <1>5 DEF TypeOK
  <1>7. KnownInv'
    <2>1. ASSUME NEW p \in Path, ids[p] # None
          PROVE  ids[p] \in DOMAIN identity' /\ identity'[ids[p]].path = p
      BY <1>3, <1>4, <2>1 DEF KnownInv
    <2>2. ASSUME NEW j \in DOMAIN identity'
          PROVE  /\ identity'[j].reg <=> identity'[j].path # None
                 /\ identity'[j].reg => registry /\ ids[identity'[j].path] = j
      BY <1>4 DEF KnownInv
    <2> QED BY <1>1, <2>1, <2>2 DEF KnownInv
  <1>8. ReferInv'
    <2>1. ASSUME NEW s \in Slot, handle[s].id # None
          PROVE  handle[s].id \in DOMAIN identity'
      <3>1. gone => handle[s].id # i
        BY <1>3 DEF Holders
      <3> QED BY <1>4, <2>1, <3>1 DEF ReferInv
    <2>2. ASSUME NEW u \in Thread, pc'[u] = "decrement"
          PROVE  drop'[u].id \in DOMAIN identity' /\ drop'[u].reg = identity'[drop'[u].id].reg
      <3>1. u # t /\ pc[u] = "decrement" /\ drop'[u] = drop[u]
        BY <1>5, <2>2
      <3>2. gone => drop[u].id # i
        BY <1>3, <3>1 DEF Droppers
      <3>3. drop[u].id \in DOMAIN identity /\ drop[u].reg = identity[drop[u].id].reg
        BY <3>1 DEF ReferInv
      <3> QED BY <1>4, <3>1, <3>2, <3>3
    <2> QED BY <1>1, <2>1, <2>2 DEF ReferInv
  <1>9. SweepInv'
    BY <1>1, <1>5 DEF SweepInv
  <1>10. CountsExact'
    <2>1. \A j : Holders(j)' = Holders(j)
      BY <1>1 DEF Holders
    <2>2. \A j \in Id : Droppers(j)' = IF j = i THEN Droppers(j) \ {t} ELSE Droppers(j)
      BY <1>0, <1>1, <1>5 DEF Droppers
    <2>3. \A j \in DOMAIN identity :
             identity[j].refs = Cardinality(Holders(j)) + Cardinality(Droppers(j))
      BY DEF CountsExact, Holders, Droppers
    <2> SUFFICES ASSUME NEW j \in DOMAIN identity'
                 PROVE  identity'[j].refs = Cardinality(Holders(j)') + Cardinality(Droppers(j)')
      BY DEF CountsExact, Holders, Droppers
    <2>4. j \in DOMAIN identity /\ j \in Id
      BY <1>4 DEF TypeOK
    <2>5. CASE j = i
      <3>1. Holders(i)' = Holders(i) /\ Droppers(i)' = Droppers(i) \ {t}
        BY <1>1, <2>1, <2>2
      <3>2. identity'[i].refs = identity[i].refs - 1
        BY <1>4, <2>5
      <3> QED BY <1>2, <2>5, <3>1, <3>2
    <2>6. CASE j # i
      BY <1>4, <2>1, <2>2, <2>3, <2>4, <2>6
    <2> QED BY <2>5, <2>6
  <1>11. ObjectInv' /\ HandlesFollow'
    <2>1. ObjectInv'
      BY <1>1 DEF ObjectInv
    <2>2. ASSUME NEW s \in Slot, NEW p \in Path, handle[s].id # None, handle[s].object = specs[p]
          PROVE  identity'[handle[s].id].path = p
      <3>1. handle[s].id \in DOMAIN identity'
        BY <1>1, <1>8, <2>2 DEF ReferInv
      <3>2. identity[handle[s].id].path = p
        BY <2>2 DEF HandlesFollow
      <3> QED BY <1>4, <3>1, <3>2
    <2>3. HandlesFollow'
      BY <1>1, <2>2 DEF HandlesFollow
    <2> QED BY <2>1, <2>3
  <1>12. DeadInv'
    <2>1. Known' = Known /\ (mutex # None => drop'[mutex] = drop[mutex])
      BY <1>1, <1>5 DEF Known, TypeOK
    <2>2. ASSUME NEW j \in Known
          PROVE  j \in DOMAIN identity'
      <3>1. PICK p \in Path : j = ids[p] /\ ids[p] # None
        BY DEF Known
      <3> QED BY <1>1, <1>7, <3>1 DEF KnownInv
    <2>3. \A j \in Known : j # i /\ Waiting(j)' => Waiting(j)
      BY <1>1, <1>4, <2>1, <2>2 DEF Waiting
    <2>4. CASE last /\ drop[t].reg
      <3>1. {j \in Known : Waiting(j)}' \subseteq {j \in Known : Waiting(j)} \cup {i}
        BY <2>1, <2>3
      <3>2. Counting' = Counting \cup {t} /\ t \notin Counting
        BY <1>1, <1>5, <2>4 DEF Counting
      <3>3. \A u \in Thread : pc'[u] # "lock" => pc[u] # "lock"
        BY <1>1, <1>5
      <3> QED BY <1>1, <3>1, <3>2, <3>3, DeadMore DEF TypeOK
    <2>5. CASE ~(last /\ drop[t].reg)
      <3>1. ~gone => identity'[i].refs # 0
        <4>1. gone \/ identity[i].refs # 1
          BY <2>5 DEF gone, last
        <4> QED BY <1>1, <1>2, <1>4, <4>1
      <3>2. gone => i \notin Known
        BY <1>3 DEF Known
      <3>3. {j \in Known : Waiting(j)}' \subseteq {j \in Known : Waiting(j)}
        BY <2>1, <2>3, <3>1, <3>2 DEF Waiting
      <3>4. Counting' = Counting
        BY <1>1, <1>5, <2>5 DEF Counting
      <3>5. \A u \in Thread : pc'[u] # "lock" => pc[u] # "lock"
        BY <1>1, <1>5
      <3> QED BY <1>1, <3>3, <3>4, <3>5, DeadKept DEF TypeOK
    <2> QED BY <2>4, <2>5
  <1> QED BY <1>6, <1>7, <1>8, <1>9, <1>10, <1>11, <1>12

\* The counting of the dead, without the mutex.
LEMMA CountDeadStep ==
    ASSUME IdentityConstants, IdentityInv, NEW t \in Thread, CountDead(t)
    PROVE  IdentityInv'
  <1> USE DEF IdentityInv
  <1>1. /\ pc[t] = "count" /\ deadCount' = deadCount + 1 /\ deadCount \in Nat
        /\ drop' = [drop EXCEPT ![t].count = deadCount + 1]
        /\ pc' = [pc EXCEPT ![t] = "compare"]
        /\ UNCHANGED <<specs, objects, registry, ids, deadThreshold, mutex, identity, handle>>
        /\ mutex # t
    BY DEF CountDead, layerVars, TypeOK, SweepInv
  <1>2. /\ pc' \in [Thread -> {"idle", "decrement", "count", "compare", "reset", "lock", "sweep"}]
        /\ pc'[t] = "compare"
        /\ \A u \in Thread : u # t => pc'[u] = pc[u] /\ drop'[u] = drop[u]
        /\ drop' \in [Thread -> [id : Id \cup {None}, reg : BOOLEAN, count : Nat,
                                 left : SUBSET Path]]
    <2>1. deadCount + 1 \in Nat
      BY <1>1
    <2>2. drop[t] \in [id : Id \cup {None}, reg : BOOLEAN, count : Nat, left : SUBSET Path]
      BY DEF TypeOK
    <2>3. [drop[t] EXCEPT !.count = deadCount + 1]
             \in [id : Id \cup {None}, reg : BOOLEAN, count : Nat, left : SUBSET Path]
      BY <2>1, <2>2
    <2>4. drop' = [drop EXCEPT ![t] = [drop[t] EXCEPT !.count = deadCount + 1]]
      BY <1>1
    <2> QED BY <1>1, <2>3, <2>4 DEF TypeOK
  <1>3. TypeOK'
    BY <1>1, <1>2 DEF TypeOK
  <1>4. KnownInv' /\ ObjectInv' /\ HandlesFollow'
    BY <1>1 DEF KnownInv, ObjectInv, HandlesFollow
  <1>5. ReferInv' /\ SweepInv'
    BY <1>1, <1>2 DEF ReferInv, SweepInv
  <1>6. CountsExact'
    <2>1. \A u \in Thread : /\ pc'[u] = "decrement" <=> pc[u] = "decrement"
                            /\ pc[u] = "decrement" => drop'[u].id = drop[u].id
      BY <1>1, <1>2
    <2> QED BY <1>1, <2>1, CountsKept
  <1>7. DeadInv'
    <2> DEFINE D == {j \in Known : Waiting(j)}
    <2>1. D' = D
      BY <1>1, <1>2 DEF Known, Waiting, TypeOK
    <2>2. Counting' = Counting \ {t} /\ t \in Counting
      BY <1>1, <1>2 DEF Counting
    <2>3. IsFiniteSet(Counting)
      BY SetsFinite
    <2>4. Cardinality(Counting') = Cardinality(Counting) - 1 /\ Cardinality(Counting) \in Nat
      BY <2>2, <2>3, CardinalityRemove
    <2>5. (\A u \in Thread : pc'[u] # "lock") => (\A u \in Thread : pc[u] # "lock")
      BY <1>1, <1>2
    <2>6. deadCount' + Cardinality(Counting') = deadCount + Cardinality(Counting)
      BY <1>1, <2>4
    <2>7. (\A u \in Thread : pc'[u] # "lock")
             => Cardinality(D') <= deadCount' + Cardinality(Counting')
      BY <2>1, <2>5, <2>6 DEF DeadInv
    <2> QED BY <2>7 DEF DeadInv
  <1> QED BY <1>3, <1>4, <1>5, <1>6, <1>7

LEMMA CompareStep ==
    ASSUME IdentityConstants, IdentityInv, NEW t \in Thread, Compare(t)
    PROVE  IdentityInv'
  <1> USE DEF IdentityInv
  <1>1. /\ pc[t] = "compare"
        /\ drop' = [drop EXCEPT ![t] = NoDrop]
        /\ pc' = [pc EXCEPT ![t] = IF drop[t].count >= deadThreshold THEN "reset" ELSE "idle"]
        /\ UNCHANGED <<specs, objects, registry, ids, deadCount, deadThreshold, mutex, identity,
                       handle>>
        /\ mutex # t
    BY DEF Compare, layerVars, counters, TypeOK, SweepInv
  <1>2. /\ pc' \in [Thread -> {"idle", "decrement", "count", "compare", "reset", "lock", "sweep"}]
        /\ pc'[t] \in {"reset", "idle"}
        /\ \A u \in Thread : u # t => pc'[u] = pc[u] /\ drop'[u] = drop[u]
        /\ drop' \in [Thread -> [id : Id \cup {None}, reg : BOOLEAN, count : Nat,
                                 left : SUBSET Path]]
    BY <1>1 DEF TypeOK, NoDrop
  <1>3. TypeOK'
    BY <1>1, <1>2 DEF TypeOK
  <1>4. KnownInv' /\ ObjectInv' /\ HandlesFollow'
    BY <1>1 DEF KnownInv, ObjectInv, HandlesFollow
  <1>5. ReferInv' /\ SweepInv'
    BY <1>1, <1>2 DEF ReferInv, SweepInv
  <1>6. CountsExact'
    <2>1. \A u \in Thread : /\ pc'[u] = "decrement" <=> pc[u] = "decrement"
                            /\ pc[u] = "decrement" => drop'[u].id = drop[u].id
      BY <1>1, <1>2
    <2> QED BY <1>1, <2>1, CountsKept
  <1>7. DeadInv'
    <2>1. {j \in Known : Waiting(j)}' \subseteq {j \in Known : Waiting(j)}
      BY <1>1, <1>2 DEF Known, Waiting, TypeOK
    <2>2. Counting' = Counting
      BY <1>1, <1>2 DEF Counting
    <2>3. (\A u \in Thread : pc'[u] # "lock") => (\A u \in Thread : pc[u] # "lock")
      BY <1>1, <1>2
    <2> QED BY <1>1, <2>1, <2>2, <2>3, DeadKept DEF TypeOK
  <1> QED BY <1>3, <1>4, <1>5, <1>6, <1>7

LEMMA ResetCountStep ==
    ASSUME IdentityConstants, IdentityInv, NEW t \in Thread, ResetCount(t)
    PROVE  IdentityInv'
  <1> USE DEF IdentityInv
  <1>1. /\ pc[t] = "reset" /\ deadCount' = 0
        /\ pc' = [pc EXCEPT ![t] = "lock"]
        /\ UNCHANGED <<specs, objects, registry, ids, deadThreshold, mutex, identity, handle, drop>>
        /\ mutex # t
    BY DEF ResetCount, layerVars, TypeOK, SweepInv
  <1>2. /\ pc' \in [Thread -> {"idle", "decrement", "count", "compare", "reset", "lock", "sweep"}]
        /\ pc'[t] = "lock"
        /\ \A u \in Thread : u # t => pc'[u] = pc[u]
    BY <1>1 DEF TypeOK
  <1>3. TypeOK'
    BY <1>1, <1>2 DEF TypeOK
  <1>4. KnownInv' /\ ObjectInv' /\ HandlesFollow'
    BY <1>1 DEF KnownInv, ObjectInv, HandlesFollow
  <1>5. ReferInv' /\ SweepInv'
    BY <1>1, <1>2 DEF ReferInv, SweepInv
  <1>6. CountsExact'
    <2>1. \A u \in Thread : /\ pc'[u] = "decrement" <=> pc[u] = "decrement"
                            /\ pc[u] = "decrement" => drop'[u].id = drop[u].id
      BY <1>1, <1>2
    <2> QED BY <1>1, <2>1, CountsKept
  <1>7. DeadInv'
    BY <1>2 DEF DeadInv
  <1> QED BY <1>3, <1>4, <1>5, <1>6, <1>7

\* The sweep: it visits every identity there is when it begins.
LEMMA LockIdsStep ==
    ASSUME IdentityConstants, IdentityInv, NEW t \in Thread, LockIds(t)
    PROVE  IdentityInv'
  <1> USE DEF IdentityInv
  <1> DEFINE known == {path \in Path : ids[path] # None}
  <1>1. /\ pc[t] = "lock" /\ mutex = None /\ mutex' = t
        /\ pc' = [pc EXCEPT ![t] = "sweep"]
        /\ drop' = [drop EXCEPT ![t].left = known]
        /\ UNCHANGED <<specs, objects, registry, ids, deadCount, deadThreshold, identity, handle>>
    BY DEF LockIds, layerVars
  <1>2. /\ pc' \in [Thread -> {"idle", "decrement", "count", "compare", "reset", "lock", "sweep"}]
        /\ pc'[t] = "sweep" /\ drop'[t].left = known /\ known \subseteq Path
        /\ \A u \in Thread : u # t => pc'[u] = pc[u] /\ drop'[u] = drop[u]
        /\ drop' \in [Thread -> [id : Id \cup {None}, reg : BOOLEAN, count : Nat,
                                 left : SUBSET Path]]
    <2>1. known \in SUBSET Path
      OBVIOUS
    <2> HIDE DEF known
    <2> QED BY <1>1, <2>1 DEF TypeOK
  <1>3. TypeOK'
    BY <1>1, <1>2 DEF TypeOK
  <1>4. KnownInv' /\ ObjectInv' /\ HandlesFollow'
    BY <1>1 DEF KnownInv, ObjectInv, HandlesFollow
  <1>5. ReferInv' /\ SweepInv'
    <2>1. ReferInv'
      BY <1>1, <1>2 DEF ReferInv
    <2>2. \A u \in Thread : u # t => pc[u] # "sweep"
      BY <1>1 DEF SweepInv, IdentityConstants
    <2>3. SweepInv'
      BY <1>1, <1>2, <2>2 DEF SweepInv
    <2> QED BY <2>1, <2>3
  <1>6. CountsExact'
    <2>1. \A u \in Thread : /\ pc'[u] = "decrement" <=> pc[u] = "decrement"
                            /\ pc[u] = "decrement" => drop'[u].id = drop[u].id
      BY <1>1, <1>2
    <2> QED BY <1>1, <2>1, CountsKept
  <1>7. DeadInv'
    <2>1. ASSUME NEW j \in Known'
          PROVE  ~Waiting(j)'
      <3>1. PICK p \in Path : j = ids[p] /\ ids[p] # None
        BY <1>1 DEF Known
      <3>2. identity'[j].path = p /\ p \in drop'[mutex'].left
        BY <1>1, <1>2, <3>1 DEF KnownInv
      <3>3. mutex' # None
        BY <1>1 DEF IdentityConstants
      <3> QED BY <3>2, <3>3 DEF Waiting
    <2> DEFINE D == {j \in Known : Waiting(j)}
    <2>2. D' = {}
      BY <2>1
    <2>3. deadCount' \in Nat /\ Cardinality(D') = 0
      BY <1>1, <2>2, FS_EmptySet DEF TypeOK
    <2>4. IsFiniteSet(Counting')
      <3>1. Counting' \subseteq Thread
        BY DEF Counting
      <3> QED BY <3>1, FS_Subset DEF IdentityConstants
    <2>5. Cardinality(Counting') \in Nat
      BY <2>4, FS_CardinalityType
    <2>6. Cardinality(D') <= deadCount' + Cardinality(Counting')
      BY <2>3, <2>5
    <2> QED BY <2>6 DEF DeadInv
  <1> QED BY <1>3, <1>4, <1>5, <1>6, <1>7

LEMMA SweepStep ==
    ASSUME IdentityConstants, IdentityInv, NEW t \in Thread, NEW path \in Path, Sweep(t, path)
    PROVE  IdentityInv'
  <1> USE DEF IdentityInv
  <1>0. PICK i : i = ids[path]
    OBVIOUS
  <1>1. /\ pc[t] = "sweep" /\ mutex = t /\ mutex # None /\ path \in drop[t].left
        /\ i \in DOMAIN identity /\ i # None /\ identity[i].path = path
        /\ drop' = [drop EXCEPT ![t].left = @ \ {path}]
        /\ UNCHANGED <<specs, objects, registry, deadCount, deadThreshold, mutex, handle, pc>>
    BY <1>0 DEF Sweep, layerVars, counters, SweepInv, KnownInv, IdentityConstants
  <1>2. /\ drop' \in [Thread -> [id : Id \cup {None}, reg : BOOLEAN, count : Nat,
                                 left : SUBSET Path]]
        /\ \A u \in Thread : drop'[u].id = drop[u].id /\ drop'[u].reg = drop[u].reg
        /\ drop'[t].left = drop[t].left \ {path}
        /\ \A u \in Thread : u # t => drop'[u] = drop[u]
    BY <1>1 DEF TypeOK
  <1>3. \A j \in DOMAIN identity : identity[j] \in [path : Path \cup {None}, reg : BOOLEAN, refs : Nat]
    BY DEF TypeOK
  <1>4. /\ DOMAIN identity' \subseteq DOMAIN identity
        /\ \A j \in DOMAIN identity' : identity'[j] = identity[j]
        /\ ids' \in [Path -> Id \cup {None}]
        /\ \A p \in Path : p # path => ids'[p] = ids[p]
        /\ \/ identity[i].refs = 0 /\ DOMAIN identity' = DOMAIN identity \ {i} /\ ids'[path] = None
           \/ identity[i].refs # 0 /\ DOMAIN identity' = DOMAIN identity /\ ids'[path] = i
    <2>1. CASE identity[i].refs = 0
      <3>1. /\ ids' = [ids EXCEPT ![path] = None]
            /\ identity' = [j \in DOMAIN identity \ {i} |-> identity[j]]
        BY <1>0, <2>1 DEF Sweep, Restrict
      <3> QED BY <2>1, <3>1 DEF TypeOK
    <2>2. CASE identity[i].refs # 0
      <3>1. ids' = ids /\ identity' = identity
        BY <1>0, <2>2 DEF Sweep
      <3> QED BY <1>0, <2>2, <3>1 DEF TypeOK
    <2> QED BY <2>1, <2>2
  <1>5. TypeOK'
    BY <1>1, <1>2, <1>3, <1>4 DEF TypeOK
  <1>6. KnownInv'
    <2>1. ASSUME NEW p \in Path, ids'[p] # None
          PROVE  ids'[p] \in DOMAIN identity' /\ identity'[ids'[p]].path = p
      <3>1. ids'[p] = ids[p] /\ ids[p] \in DOMAIN identity /\ identity[ids[p]].path = p
        BY <1>0, <1>4, <2>1 DEF KnownInv
      <3>2. identity[i].refs = 0 => ids[p] # i
        BY <1>1, <1>4, <2>1, <3>1
      <3> QED BY <1>4, <3>1, <3>2
    <2>2. ASSUME NEW j \in DOMAIN identity'
          PROVE  /\ identity'[j].reg <=> identity'[j].path # None
                 /\ identity'[j].reg => registry /\ ids'[identity'[j].path] = j
      <3>1. j \in DOMAIN identity /\ identity'[j] = identity[j]
        BY <1>4
      <3>2. identity[j].reg => identity[j].path \in Path /\ ids[identity[j].path] = j
        BY <1>3, <3>1 DEF KnownInv
      <3>3. identity[j].reg /\ identity[j].path = path => ids'[path] = j
        BY <1>0, <1>4, <3>1, <3>2
      <3> QED BY <1>4, <3>1, <3>2, <3>3 DEF KnownInv
    <2> QED BY <1>1, <2>1, <2>2 DEF KnownInv
  <1>7. ReferInv'
    <2>1. identity[i].refs = 0 => Holders(i) = {} /\ Droppers(i) = {}
      <3> SUFFICES ASSUME identity[i].refs = 0
                   PROVE  Holders(i) = {} /\ Droppers(i) = {}
        OBVIOUS
      <3>1. 0 = Cardinality(Holders(i)) + Cardinality(Droppers(i))
        BY <1>1 DEF CountsExact, Holders, Droppers
      <3>2. /\ Cardinality(Holders(i)) \in Nat /\ Cardinality(Droppers(i)) \in Nat
            /\ IsFiniteSet(Holders(i)) /\ IsFiniteSet(Droppers(i))
        BY SetsFinite
      <3>3. Cardinality(Holders(i)) = 0 /\ Cardinality(Droppers(i)) = 0
        BY <3>1, <3>2
      <3> QED BY <3>2, <3>3, FS_EmptySet
    <2>2. ASSUME NEW s \in Slot, handle[s].id # None
          PROVE  handle[s].id \in DOMAIN identity'
      <3>1. identity[i].refs = 0 => handle[s].id # i
        BY <2>1 DEF Holders
      <3> QED BY <1>4, <2>2, <3>1 DEF ReferInv
    <2>3. ASSUME NEW u \in Thread, pc[u] = "decrement"
          PROVE  drop'[u].id \in DOMAIN identity' /\ drop'[u].reg = identity'[drop'[u].id].reg
      <3>1. identity[i].refs = 0 => drop[u].id # i
        BY <2>1, <2>3 DEF Droppers
      <3>2. drop[u].id \in DOMAIN identity /\ drop[u].reg = identity[drop[u].id].reg
        BY <2>3 DEF ReferInv
      <3> QED BY <1>2, <1>4, <3>1, <3>2
    <2> QED BY <1>1, <2>2, <2>3 DEF ReferInv
  <1>8. SweepInv'
    BY <1>1, <1>2, <1>4 DEF SweepInv
  <1>9. CountsExact'
    <2>1. \A j \in DOMAIN identity' : j \in DOMAIN identity /\ identity'[j].refs = identity[j].refs
      BY <1>4
    <2> QED BY <1>1, <1>2, <2>1, CountsKept
  <1>10. ObjectInv'
    BY <1>1 DEF ObjectInv
  <1>11. HandlesFollow'
    BY <1>1, <1>4, <1>7 DEF HandlesFollow, ReferInv
  <1>12. DeadInv'
    <2>1. {j \in Known : Waiting(j)}' \subseteq {j \in Known : Waiting(j)}
      <3> SUFFICES ASSUME NEW j \in Known', Waiting(j)'
                   PROVE  j \in Known /\ Waiting(j)
        OBVIOUS
      <3>1. PICK p \in Path : j = ids'[p] /\ ids'[p] # None
        BY DEF Known
      <3>2. j = ids[p] /\ j \in Known /\ j \in DOMAIN identity' /\ identity[j].path = p
        BY <1>0, <1>4, <1>6, <3>1 DEF Known, KnownInv
      <3>3. identity'[j] = identity[j] /\ identity[j].refs = 0
        BY <1>4, <3>2 DEF Waiting
      <3>4. p # path
        BY <1>0, <1>4, <3>2, <3>3
      <3>5. p \notin drop'[t].left
        BY <1>1, <3>2, <3>3 DEF Waiting
      <3>6. p \notin drop[t].left
        BY <1>2, <3>4, <3>5
      <3> QED BY <1>1, <3>2, <3>3, <3>6 DEF Waiting
    <2>2. Counting' = Counting
      BY <1>1 DEF Counting
    <2> QED BY <1>1, <2>1, <2>2, DeadKept DEF TypeOK
  <1> QED BY <1>5, <1>6, <1>7, <1>8, <1>9, <1>10, <1>11, <1>12

LEMMA UnlockIdsStep ==
    ASSUME IdentityConstants, IdentityInv, NEW t \in Thread, UnlockIds(t)
    PROVE  IdentityInv'
  <1> USE DEF IdentityInv
  <1>1. /\ pc[t] = "sweep" /\ mutex = t /\ drop[t].left = {} /\ mutex' = None
        /\ deadThreshold' = Threshold(ids)
        /\ pc' = [pc EXCEPT ![t] = "idle"]
        /\ UNCHANGED <<specs, objects, registry, ids, deadCount, identity, handle, drop>>
    BY DEF UnlockIds, layerVars, SweepInv
  <1>2. /\ pc' \in [Thread -> {"idle", "decrement", "count", "compare", "reset", "lock", "sweep"}]
        /\ pc'[t] = "idle"
        /\ \A u \in Thread : u # t => pc'[u] = pc[u]
    BY <1>1 DEF TypeOK
  <1>3. TypeOK'
    <2>1. deadThreshold' \in Nat \ {0}
      BY <1>1, ThresholdPositive
    <2> QED BY <1>1, <1>2, <2>1 DEF TypeOK
  <1>4. KnownInv' /\ ObjectInv' /\ HandlesFollow'
    BY <1>1 DEF KnownInv, ObjectInv, HandlesFollow
  <1>5. ReferInv' /\ SweepInv'
    <2>1. ReferInv'
      BY <1>1, <1>2 DEF ReferInv
    <2>2. \A u \in Thread : u # t => pc[u] # "sweep"
      BY <1>1 DEF SweepInv
    <2>3. SweepInv'
      BY <1>1, <1>2, <2>2 DEF SweepInv, IdentityConstants
    <2> QED BY <2>1, <2>3
  <1>6. CountsExact'
    <2>1. \A u \in Thread : /\ pc'[u] = "decrement" <=> pc[u] = "decrement"
                            /\ pc[u] = "decrement" => drop'[u].id = drop[u].id
      BY <1>1, <1>2
    <2> QED BY <1>1, <2>1, CountsKept
  <1>7. DeadInv'
    <2>1. {j \in Known : Waiting(j)}' \subseteq {j \in Known : Waiting(j)}
      BY <1>1 DEF Known, Waiting
    <2>2. Counting' = Counting
      BY <1>1, <1>2 DEF Counting
    <2>3. (\A u \in Thread : pc'[u] # "lock") => (\A u \in Thread : pc[u] # "lock")
      BY <1>1, <1>2
    <2> QED BY <1>1, <2>1, <2>2, <2>3, DeadKept DEF TypeOK
  <1> QED BY <1>3, <1>4, <1>5, <1>6, <1>7

\* The registry goes, and every identity it knows forgets it.
LEMMA DestroyStep ==
    ASSUME IdentityConstants, IdentityInv, Destroy
    PROVE  IdentityInv'
  <1> USE DEF IdentityInv
  <1>1. /\ Quiet /\ registry' = FALSE /\ ids' = [path \in Path |-> None]
        /\ specs' = [path \in Path |-> 0]
        /\ identity' = [i \in DOMAIN identity |->
                           IF i \in Known THEN [identity[i] EXCEPT !.path = None, !.reg = FALSE]
                           ELSE identity[i]]
        /\ UNCHANGED <<objects, deadCount, deadThreshold, mutex, handle, pc, drop>>
    BY DEF Destroy, counters
  <1>2. ASSUME NEW i \in DOMAIN identity
        PROVE  /\ identity'[i] \in [path : Path \cup {None}, reg : BOOLEAN, refs : Nat]
               /\ identity'[i].refs = identity[i].refs
               /\ ~identity'[i].reg /\ identity'[i].path = None
    <2>1. identity[i] \in [path : Path \cup {None}, reg : BOOLEAN, refs : Nat]
      BY DEF TypeOK
    <2>2. CASE i \in Known
      <3>1. identity'[i] = [[identity[i] EXCEPT !.path = None] EXCEPT !.reg = FALSE]
        BY <1>1, <2>2
      <3> QED BY <2>1, <3>1
    <2>3. CASE i \notin Known
      <3>1. identity'[i] = identity[i]
        BY <1>1, <2>3
      <3>2. i # None
        BY DEF TypeOK, IdentityConstants
      <3>3. ~identity[i].reg
        BY <2>1, <2>3, <3>2 DEF KnownInv, Known
      <3> QED BY <2>1, <3>1, <3>3 DEF KnownInv
    <2> QED BY <2>2, <2>3
  <1>3. DOMAIN identity' = DOMAIN identity
    BY <1>1
  <1>4. TypeOK'
    <2>1. 0 \in 0..MaxObjects
      BY DEF IdentityConstants
    <2>2. specs' \in [Path -> 0..MaxObjects] /\ ids' \in [Path -> Id \cup {None}]
      BY <1>1, <2>1
    <2> QED BY <1>1, <1>2, <1>3, <2>2 DEF TypeOK
  <1>5. KnownInv'
    BY <1>1, <1>2, <1>3 DEF KnownInv
  <1>6. ReferInv' /\ SweepInv'
    BY <1>1, <1>3 DEF ReferInv, SweepInv, Quiet
  <1>7. CountsExact'
    BY <1>1, <1>2, <1>3, CountsKept
  <1>8. ObjectInv' /\ HandlesFollow'
    <2>1. objects \in Nat
      BY DEF TypeOK
    <2>2. \A path \in Path : specs'[path] = 0
      BY <1>1
    <2>3. \A slot \in Slot : handle[slot].id # None => handle[slot].object # 0
      BY DEF ObjectInv
    <2>4. HandlesFollow'
      BY <1>1, <2>2, <2>3 DEF HandlesFollow
    <2>5. ObjectInv'
      <3>1. \A path \in Path : specs'[path] <= objects'
        <4>1. objects' = objects
          BY <1>1, Zenon
        <4>2. 0 <= objects
          BY <2>1
        <4> QED BY <2>2, <4>1, <4>2
      <3>2. \A path, other \in Path :
               specs'[path] = specs'[other] /\ specs'[path] # 0 => path = other
        BY <2>2
      <3>3. \A slot \in Slot : handle'[slot].id # None =>
               handle'[slot].object # 0 /\ handle'[slot].object <= objects'
        BY <1>1 DEF ObjectInv
      <3> QED BY <3>1, <3>2, <3>3 DEF ObjectInv
    <2> QED BY <2>4, <2>5
  <1>9. DeadInv'
    <2>1. Known' = {}
      BY <1>1 DEF Known
    <2>2. Counting' = Counting
      BY <1>1 DEF Counting
    <2> QED BY <1>1, <2>1, <2>2, DeadKept DEF TypeOK
  <1> QED BY <1>4, <1>5, <1>6, <1>7, <1>8, <1>9

-----------------------------------------------------------------------------
(* The theorems                                                            *)

LEMMA InitIdentityInv ==
    ASSUME IdentityConstants, Init
    PROVE  IdentityInv
  <1>1. TypeOK
    BY DEF Init, TypeOK, IdentityConstants, NoDrop
  <1>2. KnownInv /\ ReferInv /\ CountsExact
    BY DEF Init, KnownInv, ReferInv, CountsExact
  <1>3. SweepInv
    BY DEF Init, SweepInv, IdentityConstants
  <1>4. ObjectInv /\ HandlesFollow
    BY <1>1 DEF Init, ObjectInv, HandlesFollow
  <1>5. DeadInv
    <2> DEFINE D == {i \in Known : Waiting(i)}
    <2>1. D = {}
      BY DEF Init, Known
    <2>2. Cardinality(D) = 0 /\ deadCount = 0 /\ Cardinality(Counting) \in Nat
      BY <2>1, FS_EmptySet, SetsFinite DEF Init
    <2> HIDE DEF D
    <2>3. Cardinality(D) <= deadCount + Cardinality(Counting)
      BY <2>2
    <2> QED BY <2>3 DEF DeadInv, D
  <1> QED BY <1>1, <1>2, <1>3, <1>4, <1>5 DEF IdentityInv

LEMMA NextIdentityInv ==
    ASSUME IdentityConstants, IdentityInv, [Next]_vars
    PROVE  IdentityInv'
  <1>1. CASE UNCHANGED vars
    BY <1>1, UnchangedStep
  <1>2. ASSUME NEW path \in Path, CreateSpec(path) \/ DeleteSpec(path)
        PROVE  IdentityInv'
    BY <1>2, SpecStep
  <1>3. ASSUME NEW old \in Path, NEW new \in Path, MoveSpec(old, new)
        PROVE  IdentityInv'
    BY <1>3, MoveStep
  <1>4. ASSUME NEW slot \in Slot, NEW path \in Path, Identify(slot, path)
        PROVE  IdentityInv'
    BY <1>4, IdentifyStep
  <1>5. ASSUME NEW from \in Slot, NEW to \in Slot, Copy(from, to)
        PROVE  IdentityInv'
    BY <1>5, CopyStep
  <1>6. ASSUME NEW t \in Thread,
               \/ \E slot \in Slot : BeginDrop(t, slot)
               \/ Decrement(t) \/ CountDead(t) \/ Compare(t) \/ ResetCount(t) \/ LockIds(t)
               \/ \E path \in Path : Sweep(t, path)
               \/ UnlockIds(t)
        PROVE  IdentityInv'
    BY <1>6, BeginDropStep, DecrementStep, CountDeadStep, CompareStep, ResetCountStep,
       LockIdsStep, SweepStep, UnlockIdsStep
  <1>7. CASE Destroy
    BY <1>7, DestroyStep
  <1> QED BY <1>1, <1>2, <1>3, <1>4, <1>5, <1>6, <1>7 DEF Next

\* Everybody who may refer to an identity refers to one that is allocated.
LEMMA NoUse ==
    ASSUME IdentityInv
    PROVE  NoUseAfterFree
  BY DEF IdentityInv, NoUseAfterFree, ReferInv, KnownInv, Known, TypeOK

\* Once no sweep is due, all the dead are waiting, and counted.
LEMMA AllCounted ==
    ASSUME IdentityConstants, IdentityInv
    PROVE  DeadCounted
  <1> SUFFICES ASSUME \A t \in Thread : pc[t] \notin {"lock", "sweep"}
               PROVE  Cardinality({i \in Known : identity[i].refs = 0})
                         <= deadCount + Cardinality({t \in Thread : pc[t] = "count"})
    BY DEF DeadCounted
  <1>1. mutex = None
    BY DEF IdentityInv, SweepInv, TypeOK
  <1>2. {i \in Known : identity[i].refs = 0} = {i \in Known : Waiting(i)}
    BY <1>1 DEF Waiting
  <1> QED BY <1>2 DEF IdentityInv, DeadInv, Counting

\* The invariant of the identities, from which what the runs check of them follows.
THEOREM IdentitySafety ==
    ASSUME IdentityConstants
    PROVE  Spec => []IdentityInv
  <1>1. Init => IdentityInv
    BY InitIdentityInv
  <1>2. IdentityInv /\ [Next]_vars => IdentityInv'
    BY NextIdentityInv
  <1> QED BY <1>1, <1>2, PTL DEF Spec

\* No identity is used after it is freed or dies early, the registry knows all that lead
\* to the layer, handles follow their specs, and no dead identity is forgotten
\* (identity.h and .cpp).
THEOREM IdentitySound ==
    ASSUME IdentityConstants
    PROVE  Spec => [](NoUseAfterFree /\ CountsExact /\ OneIdentity /\ HandlesFollow /\ DeadCounted)
  <1>1. IdentityInv => NoUseAfterFree /\ CountsExact /\ OneIdentity /\ HandlesFollow /\ DeadCounted
    BY NoUse, AllCounted DEF IdentityInv, KnownInv, OneIdentity
  <1> QED BY <1>1, IdentitySafety, PTL
=============================================================================
