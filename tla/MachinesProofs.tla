--------------------------- MODULE MachinesProofs ---------------------------
(***************************************************************************)
(* The instances of MCMachines satisfy what is proved of their components. *)
(* A step of one component leaves the variables of the others as they are, *)
(* so an invariant of the component holds while its machine runs.          *)
(*                                                                         *)
(* The last section proves the laws of ListOps, which no machine runs and  *)
(* MCAlgorithms checks on small inputs, over every set of items; it stands *)
(* on the lemmas of EditingProofs about the operations on lists.           *)
(***************************************************************************)
EXTENDS MCMachines

-----------------------------------------------------------------------------
(* The layer that is muted, edited and saved (EditingProofs)               *)

StateHolds == machine = "LayerState" => StateInv

LEMMA StateInvariant == Spec => []StateHolds
  <1>1. Init => StateHolds
    <2> SUFFICES ASSUME Init, machine = "LayerState"
                 PROVE  StateInv
      BY DEF StateHolds
    <2>1. State!Init
      BY DEF Init, RecordInit, IdentityInit, StateInit, NamespaceInit, TargetsInit, SublayersInit,
             TableInit
    <2> QED BY <2>1, InitStateInv
  <1>2. StateHolds /\ [Next]_vars => StateHolds'
    <2> SUFFICES ASSUME StateInv, [Next]_vars, machine = "LayerState", machine' = machine
                 PROVE  StateInv'
      BY DEF StateHolds, Next, RecordNext, IdentityNext, StateNext, NamespaceNext, TargetsNext,
             SublayersNext, TableNext, vars
    <2>1. [State!Next]_State!vars
      BY DEF Next, RecordNext, IdentityNext, StateNext, NamespaceNext, TargetsNext,
             SublayersNext, TableNext, vars, stateVars, State!vars
    <2> QED BY <2>1, NextStateInv
  <1> QED BY <1>1, <1>2, PTL DEF Spec

\* What an unmuted layer shows is what was authored in it, and a muted one shows nothing
\* (layer.cpp, _SetData, Reload, AddToMutedLayers).
THEOREM LayerContentShown == Spec => []ContentShown
  <1>1. StateHolds => ContentShown
    BY DEF StateHolds, ContentShown, StateInv
  <1> QED BY <1>1, StateInvariant, PTL

\* A layer that is not dirty has nothing to save, muted or not (layer.cpp, _Save, Reload).
THEOREM LayerCleanMeansSaved == Spec => []CleanMeansSaved
  <1>1. StateHolds => CleanMeansSaved
    BY DEF StateHolds, CleanMeansSaved, StateInv
  <1> QED BY <1>1, StateInvariant, PTL

\* A thread that asks whether the layer is muted is told what was so at some time of the
\* call, unless it reads the answer between the two stores of another thread, where nothing is
\* said (layer.cpp:2936-2947, IsMuted).
THEOREM LayerMutedAnswers == Spec => []MutedAnswers
  <1>1. StateHolds => MutedAnswers
    BY DEF StateHolds, MutedAnswers, StateInv
  <1> QED BY <1>1, StateInvariant, PTL

-----------------------------------------------------------------------------
(* The identities of specs and their handles (IdentityProofs)              *)

IdentityHolds == machine = "Identity" => Identities!IdentityInv

LEMMA IdentityConstantsHold == Identities!IdentityConstants
  <1>1. \A a, b, c : Identities!IsFiniteSet({a, b}) /\ Identities!IsFiniteSet({a, b, c})
    <2> SUFFICES ASSUME NEW a, NEW b, NEW c
                 PROVE  Identities!IsFiniteSet({a, b}) /\ Identities!IsFiniteSet({a, b, c})
      OBVIOUS
    <2>1. Identities!IsFiniteSet({a}) /\ Identities!IsFiniteSet({b}) /\ Identities!IsFiniteSet({c})
      BY Identities!FS_Singleton
    <2>2. Identities!IsFiniteSet({a} \cup {b})
      BY <2>1, Identities!FS_Union
    <2>3. Identities!IsFiniteSet(({a} \cup {b}) \cup {c})
      BY <2>1, <2>2, Identities!FS_Union
    <2>4. {a, b} = {a} \cup {b} /\ {a, b, c} = ({a} \cup {b}) \cup {c}
      OBVIOUS
    <2> QED BY <2>2, <2>3, <2>4
  <1>2. None \notin {t1, t2} \cup {p1, p2} \cup {i1, i2, i3}
    BY NoneDistinct
  <1>3. /\ Identities!IsFiniteSet({t1, t2}) /\ Identities!IsFiniteSet({p1, p2})
        /\ Identities!IsFiniteSet({s1, s2, s3})
    BY <1>1
  <1>4. 2 \in Nat \ {0} /\ 1 \in Nat \ {0} /\ 3 \in Nat
    OBVIOUS
  <1> QED BY <1>2, <1>3, <1>4, Zenon DEF Identities!IdentityConstants

LEMMA IdentityInvariant == Spec => []IdentityHolds
  <1>1. Init => IdentityHolds
    <2> SUFFICES ASSUME Init, machine = "Identity"
                 PROVE  Identities!IdentityInv
      BY DEF IdentityHolds
    <2>1. Identities!Init
      BY DEF Init, RecordInit, IdentityInit, StateInit, NamespaceInit, TargetsInit, SublayersInit,
             TableInit
    <2> QED BY <2>1, IdentityConstantsHold, Identities!InitIdentityInv
  <1>2. IdentityHolds /\ [Next]_vars => IdentityHolds'
    <2> SUFFICES ASSUME Identities!IdentityInv, [Next]_vars, machine = "Identity",
                        machine' = machine
                 PROVE  Identities!IdentityInv'
      BY DEF IdentityHolds, Next, RecordNext, IdentityNext, StateNext, NamespaceNext, TargetsNext,
             SublayersNext, TableNext, vars
    <2>1. [Identities!Next]_Identities!vars
      BY DEF Next, RecordNext, IdentityNext, StateNext, NamespaceNext, TargetsNext,
             SublayersNext, TableNext, vars, identityRest, Identities!vars
    <2> QED BY <2>1, IdentityConstantsHold, Identities!NextIdentityInv
  <1> QED BY <1>1, <1>2, PTL DEF Spec

\* No identity is used after it is freed or dies early, equal handles stay equal and follow
\* their spec, and no dead identity is forgotten (identity.h and .cpp).
THEOREM IdentityHandlesSound == Spec => []HandlesSound
  <1>1. IdentityHolds => HandlesSound
    <2> SUFFICES ASSUME Identities!IdentityInv
                 PROVE  /\ Identities!NoUseAfterFree /\ Identities!CountsExact
                        /\ Identities!OneIdentity /\ Identities!HandlesFollow
                        /\ Identities!DeadCounted
      BY DEF IdentityHolds, HandlesSound
    <2>1. Identities!NoUseAfterFree
      BY Identities!NoUse
    <2>2. Identities!DeadCounted
      BY IdentityConstantsHold, Identities!AllCounted
    <2> QED BY <2>1, <2>2 DEF Identities!IdentityInv, Identities!KnownInv, Identities!OneIdentity
  <1> QED BY <1>1, IdentityInvariant, PTL

-----------------------------------------------------------------------------
(* The change list of the edits of a block (ChangeListProofs)              *)

RecordHolds == machine = "ChangeList" => Record!RecordInv

LEMMA RecordConstantsHold == Record!RecordConstants
  <1>1. \A a, b : Record!IsFiniteSet({a, b})
    <2> SUFFICES ASSUME NEW a, NEW b
                 PROVE  Record!IsFiniteSet({a, b})
      OBVIOUS
    <2>1. Record!IsFiniteSet({a}) /\ Record!IsFiniteSet({b})
      BY Record!FS_Singleton
    <2>2. Record!IsFiniteSet({a} \cup {b})
      BY <2>1, Record!FS_Union
    <2>3. {a, b} = {a} \cup {b}
      OBVIOUS
    <2> QED BY <2>2, <2>3
  <1>2. {<<1, p1>>, <<1, p2>>} \subseteq {1, 2} \X {p1, p2, p3}
    OBVIOUS
  <1>3. None \notin {1, 2} \X {p1, p2, p3}
    BY NonePath
  <1> QED BY <1>1, <1>2, <1>3 DEF Record!RecordConstants, Record!Path

LEMMA RecordInvariant == Spec => []RecordHolds
  <1>1. Init => RecordHolds
    <2> SUFFICES ASSUME Init, machine = "ChangeList"
                 PROVE  Record!RecordInv
      BY DEF RecordHolds
    <2>1. Record!Init
      BY DEF Init, RecordInit, IdentityInit, StateInit, NamespaceInit, TargetsInit, SublayersInit,
             TableInit
    <2> QED BY <2>1, RecordConstantsHold, Record!InitRecordInv
  <1>2. RecordHolds /\ [Next]_vars => RecordHolds'
    <2> SUFFICES ASSUME Record!RecordInv, [Next]_vars, machine = "ChangeList",
                        machine' = machine
                 PROVE  Record!RecordInv'
      BY DEF RecordHolds, Next, RecordNext, IdentityNext, StateNext, NamespaceNext, TargetsNext,
             SublayersNext, TableNext, vars
    <2>1. [Record!Next]_Record!vars
      BY DEF Next, RecordNext, IdentityNext, StateNext, NamespaceNext, TargetsNext,
             SublayersNext, TableNext, vars, Record!vars
    <2> QED BY <2>1, RecordConstantsHold, Record!NextRecordInv
  <1> QED BY <1>1, <1>2, PTL DEF Spec

\* A listener finds out from the last entry of each path what is there now, and what became
\* of each object that was there (changeList.cpp, changeManager.cpp).
THEOREM EditsAllTold == Spec => []EntriesTold
  <1>1. RecordHolds => EntriesTold
    BY RecordConstantsHold, Record!AllTold DEF RecordHolds, EntriesTold
  <1> QED BY <1>1, RecordInvariant, PTL

-----------------------------------------------------------------------------
(* A batch of namespace edits (EditingProofs)                              *)

BatchHolds == machine = "NamespaceEdit" => BatchInv

LEMMA BatchInvariant == Spec => []BatchHolds
  <1>1. Init => BatchHolds
    <2> SUFFICES ASSUME Init, machine = "NamespaceEdit"
                 PROVE  BatchInv
      BY DEF BatchHolds
    <2>1. Namespace!Init
      BY DEF Init, RecordInit, IdentityInit, StateInit, NamespaceInit, TargetsInit, SublayersInit,
             TableInit
    <2> QED BY <2>1, InitBatchInv
  <1>2. BatchHolds /\ [Next]_vars => BatchHolds'
    <2> SUFFICES ASSUME BatchInv, [Next]_vars, machine = "NamespaceEdit", machine' = machine
                 PROVE  BatchInv'
      BY DEF BatchHolds, Next, RecordNext, IdentityNext, StateNext, NamespaceNext, TargetsNext,
             SublayersNext, TableNext, vars
    <2>1. [Namespace!Next]_Namespace!vars
      BY DEF Next, RecordNext, IdentityNext, StateNext, NamespaceNext, TargetsNext,
             SublayersNext, TableNext, vars, namespaceRest, Namespace!vars
    <2> QED BY <2>1, NextBatchInv
  <1> QED BY <1>1, <1>2, PTL DEF Spec

\* However long the batch and the paths, the virtual namespace on which it is checked is the
\* one the edits meet, and the children fields list the prims (namespaceEdit.cpp, Process).
THEOREM BatchesAgree == Spec => []NamespaceAgrees
  <1>1. BatchHolds => NamespaceAgrees
    BY BatchAgrees DEF BatchHolds, NamespaceAgrees
  <1> QED BY <1>1, BatchInvariant, PTL

-----------------------------------------------------------------------------
(* The list editors and the sublayers (EditingProofs)                      *)

TargetsHold == machine = "ListEditors" => TargetsKept

LEMMA TargetsInvariant == Spec => []TargetsHold
  <1>1. Init => TargetsHold
    <2> SUFFICES ASSUME Init, machine = "ListEditors"
                 PROVE  TargetsKept
      BY DEF TargetsHold
    <2>1. Targets!Init
      BY DEF Init, RecordInit, IdentityInit, StateInit, NamespaceInit, TargetsInit, SublayersInit,
             TableInit
    <2> QED BY <2>1, TargetsStart
  <1>2. TargetsHold /\ [Next]_vars => TargetsHold'
    <2> SUFFICES ASSUME TargetsKept, [Next]_vars, machine = "ListEditors", machine' = machine
                 PROVE  TargetsKept'
      BY DEF TargetsHold, Next, RecordNext, IdentityNext, StateNext, NamespaceNext, TargetsNext,
             SublayersNext, TableNext, vars
    <2>1. Targets!Next \/ UNCHANGED targetsVars
      BY DEF Next, RecordNext, IdentityNext, StateNext, NamespaceNext, TargetsNext,
             SublayersNext, TableNext, vars, targetsVars
    <2>2. CASE UNCHANGED targetsVars
      BY <2>2 DEF targetsVars, TargetsKept
    <2> QED BY <2>1, <2>2, TargetsStay
  <1> QED BY <1>1, <1>2, PTL DEF Spec

\* The specs of targets are those of the targets the list op adds, whatever the targets, the
\* lists and the number of editors (connectionListEditor.cpp, _OnEditShared).
THEOREM TargetsAreFollowed == Spec => []TargetsFollow
  <1>1. TargetsHold => TargetsFollow
    BY KeptFollows DEF TargetsHold, TargetsFollow
  <1> QED BY <1>1, TargetsInvariant, PTL

OffsetsHold == machine = "SubLayers" => OffsetsKept

LEMMA OffsetsStepHolds ==
    ASSUME OffsetsHold, [Next]_vars
    PROVE  OffsetsHold' /\ [machine = "SubLayers" => Sublayers!OffsetsStep]_vars
  <1>1. CASE machine = "SubLayers" /\ Sublayers!Next
    <2>1. machine' = machine
      BY <1>1 DEF Next, RecordNext, IdentityNext, StateNext, NamespaceNext, TargetsNext,
                  SublayersNext, TableNext, vars
    <2> QED BY <1>1, <2>1, OffsetsStay DEF OffsetsHold
  <1>2. CASE machine # "SubLayers"
    <2>1. machine' = machine
      BY DEF Next, RecordNext, IdentityNext, StateNext, NamespaceNext, TargetsNext,
             SublayersNext, TableNext, vars
    <2> QED BY <1>2, <2>1 DEF OffsetsHold
  <1>3. CASE UNCHANGED vars
    BY <1>3 DEF OffsetsHold, OffsetsKept, InStep, Sublayers!Fields, vars, sublayersVars
  <1> QED BY <1>1, <1>2, <1>3 DEF Next, RecordNext, IdentityNext, StateNext, NamespaceNext,
             TargetsNext, SublayersNext, TableNext

LEMMA OffsetsStarted == Init => OffsetsHold
  <1> SUFFICES ASSUME Init, machine = "SubLayers"
               PROVE  OffsetsKept
    BY DEF OffsetsHold
  <1>1. Sublayers!Init
    BY DEF Init, RecordInit, IdentityInit, StateInit, NamespaceInit, TargetsInit, SublayersInit,
           TableInit
  <1> QED BY <1>1, OffsetsStart

\* A sublayer that stays in the list keeps its offset, however the lists and the offsets are,
\* and no sublayer is in the list twice (layer.cpp, SetSubLayerPaths; subLayerListEditor.cpp).
THEOREM OffsetsAreKept == Spec => OffsetsFollow
  <1>1. OffsetsHold /\ [Next]_vars =>
            OffsetsHold' /\ [machine = "SubLayers" => Sublayers!OffsetsStep]_vars
    BY OffsetsStepHolds
  <1> QED BY <1>1, OffsetsStarted, PTL DEF Spec, OffsetsFollow

-----------------------------------------------------------------------------
(* The laws of list ops, over every set of items: what the operations on   *)
(* lists of keys make of a list, in closed form, and with these what a     *)
(* composed list op does, what an order does and what a renaming does.     *)

\* What holds of the empty list and of every list with one more item holds of every list.
LEMMA ListByList ==
    ASSUME NEW S, NEW T, <<>> \in T, \A s \in Seq(S), x \in S : s \in T => Append(s, x) \in T
    PROVE  Seq(S) \subseteq T
  <1> SUFFICES ASSUME NEW s \in Seq(S)
               PROVE  s \in T
    OBVIOUS
  <1> DEFINE K == {k \in 0 .. Len(s) : SubSeq(s, 1, k) \in T}
  <1>1. Len(s) \in Nat
    OBVIOUS
  <1>2. 0 \in K
    <2>1. SubSeq(s, 1, 0) = <<>>
      BY SubSeqEmpty
    <2>2. SubSeq(s, 1, 0) \in T
      BY <2>1
    <2>3. 0 \in 0 .. Len(s)
      BY <1>1
    <2> QED BY <2>2, <2>3
  <1>3. ASSUME NEW k \in 1 .. Len(s), k - 1 \in K
        PROVE  k \in K
    <2>1. 1 \in 1 .. Len(s) /\ k \in 1 .. Len(s) /\ k - 1 \in 0 .. Len(s) /\ s[k] \in S
      BY <1>1
    <2>2. SubSeq(s, 1, k - 1) \in Seq(S)
      BY <1>1, <2>1, PartTyped
    <2>3. SubSeq(s, 1, k) = SubSeq(s, 1, k - 1) \o <<s[k]>>
      BY <2>1, SubSeqRecursiveSecond
    <2>4. SubSeq(s, 1, k) = Append(SubSeq(s, 1, k - 1), s[k])
      BY <2>1, <2>2, <2>3, AppendIsConcat
    <2>5. SubSeq(s, 1, k - 1) \in T
      BY <1>3
    <2>6. Append(SubSeq(s, 1, k - 1), s[k]) \in T
      BY <2>1, <2>2, <2>5
    <2>7. SubSeq(s, 1, k) \in T
      BY <2>4, <2>6
    <2>8. k \in 0 .. Len(s)
      BY <2>1
    <2> QED BY <2>7, <2>8
  <1> HIDE DEF K
  <1>4. Len(s) \in K
    <2>1. 0 .. Len(s) \subseteq K
      BY <1>1, <1>2, <1>3, StepByStep
    <2> QED BY <1>1, <2>1
  <1>5. SubSeq(s, 1, Len(s)) = s
    BY SubSeqFull
  <1> QED BY <1>4, <1>5 DEF K

\* Without, item by item.
LeftOut(c, S, s, X) ==
    /\ c \in [0 .. Len(s) -> Seq(S)]
    /\ c[0] = <<>> /\ Targets!Without(s, X) = c[Len(s)]
    /\ \A k \in 1 .. Len(s) : c[k] = IF s[k] \in X THEN c[k - 1] ELSE Append(c[k - 1], s[k])

LEMMA WithoutStepwise ==
    ASSUME NEW S, NEW s \in Seq(S), NEW X, Targets!NoItem \notin S
    PROVE  \E c : LeftOut(c, S, s, X)
  <1> DEFINE I == Targets!ToSet(s)
             cb == [x \in I |-> IF x \in X THEN Targets!NoItem ELSE x]
             none == <<>>
             L == Seq(S)
  <1>1. s \in Seq(I) /\ I \subseteq S /\ \A k \in 1 .. Len(s) : s[k] \in I
    BY DEF Targets!ToSet
  <1>2. Targets!Without(s, X) = Targets!Mapped(s, cb)
    BY DEF Targets!Without
  <1>3. \A x \in I : /\ x \in S /\ x # Targets!NoItem
                     /\ cb[x] = IF x \in X THEN Targets!NoItem ELSE x
    BY <1>1
  <1> HIDE DEF cb, I
  <1>4. none \in L /\ none = <<>>
        /\ \A l \in L, x \in I : (IF cb[x] = Targets!NoItem THEN l ELSE Append(l, cb[x])) \in L
    BY <1>3
  <1> HIDE DEF none, L
  <1>5. PICK c \in [0 .. Len(s) -> L] :
           /\ c[0] = none /\ Targets!Mapped(s, cb) = c[Len(s)]
           /\ \A k \in 1 .. Len(s) : c[k] = (IF cb[s[k]] = Targets!NoItem THEN c[k - 1]
                                             ELSE Append(c[k - 1], cb[s[k]]))
    BY <1>1, <1>4, MappedFold
  <1>6. ASSUME NEW k \in 1 .. Len(s)
        PROVE  c[k] = IF s[k] \in X THEN c[k - 1] ELSE Append(c[k - 1], s[k])
    <2>1. s[k] \in I
      BY <1>1
    <2>2. cb[s[k]] = (IF s[k] \in X THEN Targets!NoItem ELSE s[k]) /\ s[k] # Targets!NoItem
      BY <1>3, <2>1
    <2> QED BY <1>5, <2>2
  <1>7. LeftOut(c, S, s, X)
    BY <1>2, <1>4, <1>5, <1>6 DEF L, LeftOut
  <1> QED BY <1>7

LEMMA WithoutOfNone ==
    ASSUME NEW X
    PROVE  Targets!Without(<<>>, X) = <<>>
  <1> DEFINE none == <<>>
  <1>1. none \in Seq({}) /\ Len(none) = 0
    OBVIOUS
  <1> HIDE DEF none
  <1>2. PICK c : LeftOut(c, {}, none, X)
    BY <1>1, WithoutStepwise
  <1>3. Targets!Without(none, X) = <<>>
    BY <1>1, <1>2 DEF LeftOut
  <1> QED BY <1>3 DEF none

LEMMA WithoutNext ==
    ASSUME NEW S, NEW s \in Seq(S), NEW x \in S, NEW X, Targets!NoItem \notin S
    PROVE  Targets!Without(Append(s, x), X) =
               IF x \in X THEN Targets!Without(s, X) ELSE Append(Targets!Without(s, X), x)
  <1> DEFINE longer == Append(s, x)
             n == Len(s)
  <1>2. /\ longer \in Seq(S) /\ n \in Nat /\ Len(longer) = n + 1 /\ longer[n + 1] = x
        /\ \A i \in 1 .. n : longer[i] = s[i]
    BY AppendProperties
  <1> HIDE DEF longer, n
  <1>3. PICK c : LeftOut(c, S, s, X)
    BY WithoutStepwise
  <1>4. PICK d : LeftOut(d, S, longer, X)
    BY <1>2, WithoutStepwise
  <1> DEFINE T == {k \in 0 .. n : c[k] = d[k]}
  <1>5. /\ \A k \in 1 .. n : c[k] = IF s[k] \in X THEN c[k - 1] ELSE Append(c[k - 1], s[k])
        /\ c[0] = <<>> /\ Targets!Without(s, X) = c[n]
    BY <1>3 DEF LeftOut, n
  <1>6. /\ \A k \in 1 .. n + 1 :
              d[k] = IF longer[k] \in X THEN d[k - 1] ELSE Append(d[k - 1], longer[k])
        /\ d[0] = <<>> /\ Targets!Without(longer, X) = d[n + 1]
    BY <1>2, <1>4 DEF LeftOut
  <1>7. 0 \in T
    BY <1>2, <1>5, <1>6
  <1>8. ASSUME NEW k \in 1 .. n, k - 1 \in T
        PROVE  k \in T
    <2>1. k \in 0 .. n /\ k \in 1 .. n + 1 /\ c[k - 1] = d[k - 1] /\ longer[k] = s[k]
      BY <1>2, <1>8
    <2> QED BY <1>5, <1>6, <2>1
  <1> HIDE DEF T
  <1>9. 0 .. n \subseteq T
    BY <1>2, <1>7, <1>8, StepByStep
  <1>10. c[n] = d[n]
    BY <1>2, <1>9 DEF T
  <1>11. d[n + 1] = IF x \in X THEN d[n] ELSE Append(d[n], x)
    <2>1. n + 1 \in 1 .. n + 1 /\ (n + 1) - 1 = n
      BY <1>2
    <2> QED BY <1>2, <1>6, <2>1
  <1> QED BY <1>5, <1>6, <1>10, <1>11 DEF longer

\* The laws of Without.
LEMMA WithoutTwice ==
    ASSUME NEW S, NEW s \in Seq(S), NEW X, NEW Y, Targets!NoItem \notin S
    PROVE  Targets!Without(Targets!Without(s, X), Y) = Targets!Without(s, X \cup Y)
  <1> DEFINE T == {t \in Seq(S) :
                 Targets!Without(Targets!Without(t, X), Y) = Targets!Without(t, X \cup Y)}
  <1>1. <<>> \in T
    <2>1. /\ Targets!Without(<<>>, X) = <<>> /\ Targets!Without(<<>>, Y) = <<>>
          /\ Targets!Without(<<>>, X \cup Y) = <<>>
      BY WithoutOfNone
    <2>2. <<>> \in Seq(S)
      OBVIOUS
    <2> QED BY <2>1, <2>2
  <1>2. ASSUME NEW t \in Seq(S), NEW x \in S, t \in T
        PROVE  Append(t, x) \in T
    <2> DEFINE less == Targets!Without(t, X)
               longer == Append(t, x)
    <2>1. less \in Seq(S) /\ longer \in Seq(S)
      BY WithoutIs
    <2>2. Targets!Without(less, Y) = Targets!Without(t, X \cup Y)
      BY <1>2
    <2>3. /\ Targets!Without(longer, X) = IF x \in X THEN less ELSE Append(less, x)
          /\ Targets!Without(longer, X \cup Y) =
                 IF x \in X \cup Y THEN Targets!Without(t, X \cup Y)
                 ELSE Append(Targets!Without(t, X \cup Y), x)
      BY WithoutNext
    <2> HIDE DEF less
    <2>4. Targets!Without(Append(less, x), Y) =
              IF x \in Y THEN Targets!Without(less, Y) ELSE Append(Targets!Without(less, Y), x)
      BY <2>1, WithoutNext
    <2> HIDE DEF longer
    <2>5. Targets!Without(Targets!Without(longer, X), Y) = Targets!Without(longer, X \cup Y)
      BY <2>2, <2>3, <2>4
    <2>6. longer \in T
      BY <2>1, <2>5
    <2> QED BY <2>6 DEF longer
  <1> HIDE DEF T
  <1>3. Seq(S) \subseteq T
    BY <1>1, <1>2, ListByList
  <1> QED BY <1>3 DEF T

\* One list behind another.
Linked(s, t) == s \o t
One(x) == <<x>>

LEMMA LinkedIs ==
    ASSUME NEW S, NEW s \in Seq(S), NEW t \in Seq(S)
    PROVE  /\ Linked(s, t) \in Seq(S)
           /\ Targets!ToSet(Linked(s, t)) = Targets!ToSet(s) \cup Targets!ToSet(t)
           /\ (/\ Targets!IsInjective(s) /\ Targets!IsInjective(t)
               /\ Targets!ToSet(s) \cap Targets!ToSet(t) = {}) => Targets!IsInjective(Linked(s, t))
  <1> DEFINE both == s \o t
  <1>1. /\ both \in Seq(S) /\ Len(s) \in Nat /\ Len(t) \in Nat
        /\ DOMAIN s = 1 .. Len(s) /\ DOMAIN t = 1 .. Len(t) /\ DOMAIN both = 1 .. Len(s) + Len(t)
        /\ \A i \in 1 .. Len(s) + Len(t) : both[i] = IF i <= Len(s) THEN s[i] ELSE t[i - Len(s)]
    BY ConcatProperties
  <1> HIDE DEF both
  <1>3. Targets!ToSet(both) = Targets!ToSet(s) \cup Targets!ToSet(t)
    <2>1. ASSUME NEW i \in DOMAIN both
          PROVE  both[i] \in Targets!ToSet(s) \cup Targets!ToSet(t)
      <3>1. CASE i <= Len(s)
        BY <1>1, <3>1 DEF Targets!ToSet
      <3>2. CASE i > Len(s)
        <4>1. both[i] = t[i - Len(s)] /\ i - Len(s) \in DOMAIN t
          BY <1>1, <3>2
        <4> QED BY <4>1 DEF Targets!ToSet
      <3> QED BY <1>1, <3>1, <3>2
    <2>2. ASSUME NEW i \in DOMAIN s
          PROVE  s[i] \in Targets!ToSet(both)
      <3>1. both[i] = s[i] /\ i \in DOMAIN both
        BY <1>1
      <3> QED BY <3>1 DEF Targets!ToSet
    <2>3. ASSUME NEW i \in DOMAIN t
          PROVE  t[i] \in Targets!ToSet(both)
      <3>1. both[i + Len(s)] = t[i] /\ i + Len(s) \in DOMAIN both
        BY <1>1
      <3> QED BY <3>1 DEF Targets!ToSet
    <2>4. /\ \A y \in Targets!ToSet(both) : y \in Targets!ToSet(s) \cup Targets!ToSet(t)
          /\ \A y \in Targets!ToSet(s) : y \in Targets!ToSet(both)
          /\ \A y \in Targets!ToSet(t) : y \in Targets!ToSet(both)
      <3>1. \A u, y : y \in Targets!ToSet(u) <=> \E i \in DOMAIN u : y = u[i]
        BY DEF Targets!ToSet
      <3> QED BY <2>1, <2>2, <2>3, <3>1
    <2> QED BY <2>4
  <1>4. ASSUME Targets!IsInjective(s), Targets!IsInjective(t),
               Targets!ToSet(s) \cap Targets!ToSet(t) = {}
        PROVE  Targets!IsInjective(both)
    <2> SUFFICES ASSUME NEW i \in DOMAIN both, NEW j \in DOMAIN both, both[i] = both[j]
                 PROVE  i = j
      BY DEF Targets!IsInjective
    <2>1. CASE i <= Len(s) /\ j <= Len(s)
      BY <1>1, <1>4, <2>1 DEF Targets!IsInjective
    <2>2. CASE i > Len(s) /\ j > Len(s)
      <3>1. /\ i - Len(s) \in DOMAIN t /\ j - Len(s) \in DOMAIN t
            /\ t[i - Len(s)] = t[j - Len(s)]
        BY <1>1, <2>2
      <3>2. i - Len(s) = j - Len(s)
        BY <1>4, <3>1 DEF Targets!IsInjective
      <3> QED BY <1>1, <3>2
    <2>3. \A k \in DOMAIN both : IF k <= Len(s) THEN both[k] \in Targets!ToSet(s)
                                 ELSE both[k] \in Targets!ToSet(t)
      <3>1. ASSUME NEW k \in DOMAIN both, k <= Len(s)
            PROVE  both[k] \in Targets!ToSet(s)
        BY <1>1, <3>1 DEF Targets!ToSet
      <3>2. ASSUME NEW k \in DOMAIN both, ~(k <= Len(s))
            PROVE  both[k] \in Targets!ToSet(t)
        <4>1. both[k] = t[k - Len(s)] /\ k - Len(s) \in DOMAIN t
          BY <1>1, <3>2
        <4> QED BY <4>1 DEF Targets!ToSet
      <3> QED BY <3>1, <3>2
    <2>4. i <= Len(s) <=> j <= Len(s)
      BY <1>4, <2>3
    <2> QED BY <1>1, <2>1, <2>2, <2>4
  <1> QED BY <1>1, <1>3, <1>4 DEF both, Linked

LEMMA LinkedAgain ==
    ASSUME NEW S, NEW s \in Seq(S), NEW t \in Seq(S), NEW u \in Seq(S)
    PROVE  Linked(Linked(s, t), u) = Linked(s, Linked(t, u))
  BY ConcatAssociative DEF Linked

LEMMA LinkedNone ==
    ASSUME NEW S, NEW s \in Seq(S)
    PROVE  Linked(s, <<>>) = s /\ Linked(<<>>, s) = s
  BY ConcatEmptySeq DEF Linked

LEMMA LinkedOne ==
    ASSUME NEW S, NEW s \in Seq(S), NEW x \in S
    PROVE  Append(s, x) = Linked(s, One(x)) /\ One(x) \in Seq(S)
  <1>1. Append(s, x) = s \o <<x>>
    BY AppendIsConcat
  <1>2. <<x>> \in Seq(S)
    OBVIOUS
  <1> QED BY <1>1, <1>2, Zenon DEF Linked, One

LEMMA OneIs ==
    ASSUME NEW x
    PROVE  Targets!ToSet(One(x)) = {x} /\ Targets!IsInjective(One(x))
  BY DEF One, Targets!ToSet, Targets!IsInjective

LEMMA WithoutOfBoth ==
    ASSUME NEW S, NEW s \in Seq(S), NEW t \in Seq(S), NEW X, Targets!NoItem \notin S
    PROVE  Targets!Without(Linked(s, t), X) =
               Linked(Targets!Without(s, X), Targets!Without(t, X))
  <1> DEFINE less == Targets!Without(s, X)
             Right(u) == Targets!Without(Linked(s, u), X) = Linked(less, Targets!Without(u, X))
             T == {u \in Seq(S) : Right(u)}
  <1>0. less \in Seq(S)
    BY WithoutIs
  <1>1. <<>> \in T
    <2>1. Targets!Without(<<>>, X) = <<>>
      BY WithoutOfNone
    <2>2. Linked(s, <<>>) = s /\ Linked(less, <<>>) = less /\ <<>> \in Seq(S)
      BY <1>0, LinkedNone
    <2> HIDE DEF less
    <2>3. Targets!Without(Linked(s, <<>>), X) = Linked(less, Targets!Without(<<>>, X))
      BY <2>1, <2>2 DEF less
    <2> QED BY <2>2, <2>3 DEF less
  <1>2. ASSUME NEW u \in Seq(S), NEW x \in S, u \in T
        PROVE  Append(u, x) \in T
    <2> DEFINE rest == Targets!Without(u, X)
               longer == Append(u, x)
               both == Linked(s, u)
    <2>1. rest \in Seq(S) /\ longer \in Seq(S) /\ both \in Seq(S)
      BY WithoutIs, LinkedIs
    <2>2. longer = Linked(u, One(x)) /\ One(x) \in Seq(S)
      BY LinkedOne
    <2>3. Linked(s, longer) = Linked(both, One(x))
      <3> HIDE DEF longer
      <3> QED BY <2>2, LinkedAgain
    <2>4. Targets!Without(longer, X) = IF x \in X THEN rest ELSE Append(rest, x)
      BY WithoutNext
    <2>5. Targets!Without(both, X) = Linked(less, rest)
      BY <1>2
    <2> HIDE DEF both, rest, less
    <2>6. Targets!Without(Append(both, x), X) =
              IF x \in X THEN Linked(less, rest) ELSE Append(Linked(less, rest), x)
      BY <2>1, <2>5, WithoutNext
    <2>7. Linked(less, rest) \in Seq(S)
      BY <1>0, <2>1, LinkedIs
    <2> HIDE DEF longer
    <2>12. Append(both, x) = Linked(both, One(x))
      BY <2>1, LinkedOne, Zenon
    <2>8. ASSUME x \in X
          PROVE  Targets!Without(Linked(s, longer), X) = Linked(less, Targets!Without(longer, X))
      <3>1. Targets!Without(Linked(s, longer), X) = Linked(less, rest)
        BY <2>3, <2>6, <2>8, <2>12
      <3>2. Targets!Without(longer, X) = rest
        BY <2>4, <2>8
      <3> QED BY <3>1, <3>2
    <2>9. ASSUME x \notin X
          PROVE  Targets!Without(Linked(s, longer), X) = Linked(less, Targets!Without(longer, X))
      <3>1. Append(rest, x) = Linked(rest, One(x))
        BY <2>1, LinkedOne, Zenon
      <3>2. Append(Linked(less, rest), x) = Linked(Linked(less, rest), One(x))
        BY <2>7, LinkedOne, Zenon
      <3>4. Linked(Linked(less, rest), One(x)) = Linked(less, Linked(rest, One(x)))
        BY <1>0, <2>1, <2>2, LinkedAgain
      <3>5. Targets!Without(Linked(s, longer), X) = Linked(Linked(less, rest), One(x))
        <4>1. Targets!Without(Append(both, x), X) = Append(Linked(less, rest), x)
          BY <2>6, <2>9
        <4> QED BY <2>3, <2>12, <3>2, <4>1, Zenon
      <3>6. Targets!Without(longer, X) = Linked(rest, One(x))
        <4>1. Targets!Without(longer, X) = Append(rest, x)
          BY <2>4, <2>9
        <4> QED BY <3>1, <4>1, Zenon
      <3> QED BY <3>4, <3>5, <3>6
    <2>10. Right(longer)
      BY <2>8, <2>9
    <2> HIDE DEF Right
    <2>11. longer \in T
      BY <2>1, <2>10
    <2> QED BY <2>11 DEF longer
  <1> HIDE DEF T
  <1>3. Seq(S) \subseteq T
    BY <1>1, <1>2, ListByList
  <1> QED BY <1>3 DEF T

LEMMA WithoutSame ==
    ASSUME NEW S, NEW s \in Seq(S), NEW X, NEW Y, Targets!NoItem \notin S,
           \A x \in Targets!ToSet(s) : x \in X <=> x \in Y
    PROVE  Targets!Without(s, X) = Targets!Without(s, Y)
  <1>1. PICK c : LeftOut(c, S, s, X)
    BY WithoutStepwise
  <1>2. PICK d : LeftOut(d, S, s, Y)
    BY WithoutStepwise
  <1> DEFINE T == {k \in 0 .. Len(s) : c[k] = d[k]}
  <1>3. 0 \in T
    BY <1>1, <1>2 DEF LeftOut
  <1>4. ASSUME NEW k \in 1 .. Len(s), k - 1 \in T
        PROVE  k \in T
    <2>1. k \in 0 .. Len(s) /\ c[k - 1] = d[k - 1] /\ s[k] \in Targets!ToSet(s)
      BY <1>4 DEF Targets!ToSet
    <2>2. s[k] \in X <=> s[k] \in Y
      BY <2>1
    <2> QED BY <1>1, <1>2, <2>1, <2>2 DEF LeftOut
  <1> HIDE DEF T
  <1>5. Len(s) \in T
    <2>1. Len(s) \in Nat /\ Len(s) \in 0 .. Len(s)
      OBVIOUS
    <2>2. 0 .. Len(s) \subseteq T
      BY <1>3, <1>4, <2>1, StepByStep
    <2> QED BY <2>1, <2>2
  <1> QED BY <1>1, <1>2, <1>5 DEF T, LeftOut

LEMMA WithoutNone ==
    ASSUME NEW S, NEW s \in Seq(S), NEW X, Targets!NoItem \notin S,
           \A x \in Targets!ToSet(s) : x \notin X
    PROVE  Targets!Without(s, X) = s
  <1>1. PICK c : LeftOut(c, S, s, X)
    BY WithoutStepwise
  <1> DEFINE T == {k \in 0 .. Len(s) : c[k] = SubSeq(s, 1, k)}
  <1>2. 0 \in T
    BY <1>1, SubSeqEmpty DEF LeftOut
  <1>3. ASSUME NEW k \in 1 .. Len(s), k - 1 \in T
        PROVE  k \in T
    <2>1. /\ k \in 0 .. Len(s) /\ k - 1 \in 0 .. Len(s) /\ 1 \in 1 .. Len(s)
          /\ s[k] \in S /\ s[k] \in Targets!ToSet(s)
      BY DEF Targets!ToSet
    <2>2. c[k] = Append(c[k - 1], s[k]) /\ c[k - 1] \in Seq(S)
      BY <1>1, <2>1 DEF LeftOut
    <2>3. SubSeq(s, 1, k) = SubSeq(s, 1, k - 1) \o <<s[k]>>
      BY <2>1, SubSeqRecursiveSecond
    <2>4. c[k - 1] = SubSeq(s, 1, k - 1)
      BY <1>3
    <2>5. Append(c[k - 1], s[k]) = c[k - 1] \o <<s[k]>>
      BY <2>1, <2>2, AppendIsConcat
    <2> QED BY <2>1, <2>2, <2>3, <2>4, <2>5
  <1> HIDE DEF T
  <1>4. Len(s) \in T
    <2>1. Len(s) \in Nat /\ Len(s) \in 0 .. Len(s)
      OBVIOUS
    <2>2. 0 .. Len(s) \subseteq T
      BY <1>2, <1>3, <2>1, StepByStep
    <2> QED BY <2>1, <2>2
  <1>5. SubSeq(s, 1, Len(s)) = s
    BY SubSeqFull
  <1> QED BY <1>1, <1>4, <1>5 DEF T, LeftOut

\* What the folds over the keys of a list come to, key by key.
Deleting(c, X, b, keys) ==
    /\ c \in [0 .. Len(keys) -> X]
    /\ c[0] = b /\ Targets!DeleteKeys(b, keys) = c[Len(keys)]
    /\ \A k \in 1 .. Len(keys) : c[k] = Targets!Without(c[k - 1], {keys[k]})
Appending(c, X, b, keys) ==
    /\ c \in [0 .. Len(keys) -> X]
    /\ c[0] = b /\ Targets!AppendKeys(b, keys) = c[Len(keys)]
    /\ \A k \in 1 .. Len(keys) : c[k] = MovedToEnd(c[k - 1], keys[k])
Prepending(c, X, b, keys, s) ==
    /\ c \in [0 .. Len(s) -> X]
    /\ c[0] = b /\ Targets!PrependKeys(b, keys) = c[Len(s)]
    /\ \A k \in 1 .. Len(s) : c[k] = MovedToFront(c[k - 1], s[k])

\* DeleteKeys leaves the keys out one by one (_DeleteKeys).
LEMMA DeleteKeysFold ==
    ASSUME NEW X, NEW I, NEW b \in X, NEW s \in Seq(I),
           \A x \in X, i \in I : Targets!Without(x, {i}) \in X
    PROVE  \E c : Deleting(c, X, b, s)
  <1> DEFINE n == Len(s)
             g == [p \in X \X I |-> Targets!Without(p[1], {p[2]})]
             IsFold(f) == f = [t \in SUBSET (DOMAIN s) |->
                 IF t = {} THEN b
                 ELSE Targets!Without(f[t \ {Targets!Max(t)}], {s[Targets!Max(t)]})]
             iter == CHOOSE f : IsFold(f)
             c == [k \in 0 .. n |-> iter[1 .. k]]
  <1>1. Targets!DeleteKeys(b, s) = iter[DOMAIN s]
    BY DEF Targets!DeleteKeys, Targets!FoldLeft, Targets!MapThenFoldSet
  <1>2. n \in Nat /\ DOMAIN s = 1 .. n /\ s \in [1 .. n -> I]
    OBVIOUS
  <1>3. g \in [X \X I -> X]
    OBVIOUS
  <1> HIDE DEF n, g, IsFold, iter
  <1>4. PICK h \in [SUBSET (1 .. n) -> X] : FoldOf(h, b, n, s, g)
    BY <1>2, <1>3, FoldExists
  <1>5. IsFold(h)
    <2>1. ASSUME NEW t \in SUBSET (1 .. n)
          PROVE  h[t] = IF t = {} THEN b
                        ELSE Targets!Without(h[t \ {Targets!Max(t)}], {s[Targets!Max(t)]})
      <3>1. CASE t = {}
        BY <1>4, <3>1 DEF FoldOf
      <3>2. CASE t # {}
        <4>1. Targets!Max(t) \in 1 .. n /\ t \ {Targets!Max(t)} \in SUBSET (1 .. n)
          BY <1>2, <3>2, LargestIs
        <4>2. h[t \ {Targets!Max(t)}] \in X /\ s[Targets!Max(t)] \in I
          BY <1>2, <1>4, <4>1
        <4>3. h[t] = g[<<h[t \ {Targets!Max(t)}], s[Targets!Max(t)]>>]
          BY <1>4, <3>2 DEF FoldOf
        <4> QED BY <3>2, <4>2, <4>3 DEF g
      <3> QED BY <3>1, <3>2
    <2> QED BY <1>2, <1>4, <2>1 DEF IsFold
  <1>6. IsFold(iter)
    BY <1>5 DEF iter
  <1>7. ASSUME NEW t \in SUBSET (1 .. n)
        PROVE  iter[t] = IF t = {} THEN b
                         ELSE Targets!Without(iter[t \ {Targets!Max(t)}], {s[Targets!Max(t)]})
    BY <1>2, <1>6 DEF IsFold
  <1>8. ASSUME NEW k \in 1 .. n
        PROVE  iter[1 .. k] = Targets!Without(iter[1 .. (k - 1)], {s[k]})
    BY <1>2, <1>7, UpToLargest
  <1>9. iter[1 .. 0] = b
    <2>1. 1 .. 0 = {} /\ {} \in SUBSET (1 .. n)
      OBVIOUS
    <2> QED BY <1>7, <2>1
  <1>10. 0 .. n \subseteq {k \in 0 .. n : iter[1 .. k] \in X}
    <2> DEFINE T == {k \in 0 .. n : iter[1 .. k] \in X}
    <2>1. 0 \in T
      BY <1>2, <1>9
    <2>2. ASSUME NEW k \in 1 .. n, k - 1 \in T
          PROVE  k \in T
      <3>1. k - 1 \in 0 .. n /\ k \in 0 .. n /\ iter[1 .. (k - 1)] \in X /\ s[k] \in I
        BY <1>2, <2>2
      <3>2. Targets!Without(iter[1 .. (k - 1)], {s[k]}) \in X
        BY <3>1
      <3> QED BY <1>8, <3>1, <3>2
    <2> HIDE DEF T
    <2>3. 0 .. n \subseteq T
      BY <1>2, <2>1, <2>2, StepByStep
    <2> QED BY <2>3 DEF T
  <1>11. c \in [0 .. n -> X] /\ c[0] = b /\ Targets!DeleteKeys(b, s) = c[n]
    BY <1>1, <1>2, <1>9, <1>10
  <1>12. ASSUME NEW k \in 1 .. n
         PROVE  c[k] = Targets!Without(c[k - 1], {s[k]})
    <2>1. k \in 0 .. n /\ k - 1 \in 0 .. n /\ c[k] = iter[1 .. k] /\ c[k - 1] = iter[1 .. (k - 1)]
      BY <1>2
    <2> QED BY <1>8, <2>1
  <1> HIDE DEF c
  <1>13. Deleting(c, X, b, s)
    BY <1>11, <1>12 DEF n, Deleting
  <1> QED BY <1>13

LEMMA AppendKeysStepwise ==
    ASSUME NEW X, NEW I, NEW b \in X, NEW s \in Seq(I),
           \A x \in X, i \in I : MovedToEnd(x, i) \in X
    PROVE  \E c : Appending(c, X, b, s)
  BY AppendKeysFold DEF Appending

LEMMA PrependKeysStepwise ==
    ASSUME NEW X, NEW I, NEW b \in X, NEW s \in Seq(I), NEW keys, s = Targets!Reverse(keys),
           \A x \in X, i \in I : MovedToFront(x, i) \in X
    PROVE  \E c : Prepending(c, X, b, keys, s)
  BY PrependKeysFold DEF Prepending

\* The items of a list up to a place.
UpTo(s, k) == {s[j] : j \in 1 .. k}

LEMMA UpToNext ==
    ASSUME NEW S, NEW s \in Seq(S)
    PROVE  /\ UpTo(s, 0) = {} /\ UpTo(s, Len(s)) = Targets!ToSet(s)
           /\ \A k \in 1 .. Len(s) : UpTo(s, k) = UpTo(s, k - 1) \cup {s[k]}
           /\ \A k \in 1 .. Len(s) : Targets!IsInjective(s) => s[k] \notin UpTo(s, k - 1)
  <1>1. UpTo(s, 0) = {} /\ UpTo(s, Len(s)) = Targets!ToSet(s)
    BY DEF UpTo, Targets!ToSet
  <1>2. ASSUME NEW k \in 1 .. Len(s)
        PROVE  /\ UpTo(s, k) = UpTo(s, k - 1) \cup {s[k]}
               /\ Targets!IsInjective(s) => s[k] \notin UpTo(s, k - 1)
    <2>1. 1 .. k = 1 .. (k - 1) \cup {k} /\ Len(s) \in Nat
      OBVIOUS
    <2>2. UpTo(s, k) = UpTo(s, k - 1) \cup {s[k]}
      BY <2>1 DEF UpTo
    <2>3. Targets!IsInjective(s) => s[k] \notin UpTo(s, k - 1)
      BY <2>1 DEF UpTo, Targets!IsInjective
    <2> QED BY <2>2, <2>3
  <1> QED BY <1>1, <1>2

\* What a list is up to a place: the part, of the items up to there.
LEMMA PartNext ==
    ASSUME NEW S, NEW s \in Seq(S)
    PROVE  /\ SubSeq(s, 1, 0) = <<>> /\ SubSeq(s, 1, Len(s)) = s
           /\ \A k \in 0 .. Len(s) : /\ SubSeq(s, 1, k) \in Seq(S)
                                     /\ Targets!ToSet(SubSeq(s, 1, k)) = UpTo(s, k)
           /\ \A k \in 1 .. Len(s) : SubSeq(s, 1, k) = Append(SubSeq(s, 1, k - 1), s[k])
  <1>1. SubSeq(s, 1, 0) = <<>> /\ SubSeq(s, 1, Len(s)) = s /\ Len(s) \in Nat
    BY SubSeqEmpty, SubSeqFull
  <1>2. ASSUME NEW k \in 0 .. Len(s)
        PROVE  SubSeq(s, 1, k) \in Seq(S) /\ Targets!ToSet(SubSeq(s, 1, k)) = UpTo(s, k)
    <2> DEFINE part == SubSeq(s, 1, k)
    <2>1. /\ part \in Seq(S) /\ Len(part) = k /\ DOMAIN part = 1 .. k
          /\ \A i \in 1 .. k : part[i] = s[i]
      <3>1. \A i \in 1 .. k : s[i] \in S
        BY <1>1
      <3>2. /\ part \in Seq(S) /\ Len(part) = IF 1 <= k THEN (k - 1) + 1 ELSE 0
            /\ \A i \in 1 .. (k - 1) + 1 : part[i] = s[(1 + i) - 1]
        BY <1>1, <3>1, SubSeqProperties
      <3> HIDE DEF part
      <3> QED BY <3>2
    <2> HIDE DEF part
    <2>2. Targets!ToSet(part) = UpTo(s, k)
      BY <2>1 DEF UpTo, Targets!ToSet
    <2> QED BY <2>1, <2>2 DEF part
  <1>3. ASSUME NEW k \in 1 .. Len(s)
        PROVE  SubSeq(s, 1, k) = Append(SubSeq(s, 1, k - 1), s[k])
    <2>1. 1 \in 1 .. Len(s) /\ k - 1 \in 0 .. Len(s) /\ k \in 1 .. Len(s) /\ s[k] \in S
      BY <1>1
    <2>2. SubSeq(s, 1, k) = SubSeq(s, 1, k - 1) \o <<s[k]>>
      BY <2>1, SubSeqRecursiveSecond
    <2>3. SubSeq(s, 1, k - 1) \in Seq(S)
      BY <1>2, <2>1
    <2> QED BY <2>1, <2>2, <2>3, AppendIsConcat
  <1> QED BY <1>1, <1>2, <1>3

\* DeleteKeys leaves the keys out.
LEMMA DeleteKeysIs ==
    ASSUME NEW S, NEW l \in Seq(S), NEW keys \in Seq(S), Targets!NoItem \notin S
    PROVE  Targets!DeleteKeys(l, keys) = Targets!Without(l, Targets!ToSet(keys))
  <1>1. \A s \in Seq(S), x \in S : Targets!Without(s, {x}) \in Seq(S)
    BY WithoutIs
  <1>2. PICK c : Deleting(c, Seq(S), l, keys)
    BY <1>1, DeleteKeysFold
  <1>3. /\ c[0] = l /\ Targets!DeleteKeys(l, keys) = c[Len(keys)]
        /\ \A k \in 1 .. Len(keys) : c[k] = Targets!Without(c[k - 1], {keys[k]})
    BY <1>2 DEF Deleting
  <1> DEFINE T == {k \in 0 .. Len(keys) : c[k] = Targets!Without(l, UpTo(keys, k))}
  <1>4. Len(keys) \in Nat /\ Len(keys) \in 0 .. Len(keys) /\ 0 \in 0 .. Len(keys)
    OBVIOUS
  <1>5. 0 \in T
    <2>1. \A x \in Targets!ToSet(l) : x \notin {}
      OBVIOUS
    <2>2. Targets!Without(l, {}) = l
      BY <2>1, WithoutNone
    <2>3. UpTo(keys, 0) = {}
      BY UpToNext
    <2> QED BY <1>3, <1>4, <2>2, <2>3
  <1>6. ASSUME NEW k \in 1 .. Len(keys), k - 1 \in T
        PROVE  k \in T
    <2>1. c[k - 1] = Targets!Without(l, UpTo(keys, k - 1)) /\ k \in 0 .. Len(keys)
      BY <1>4, <1>6
    <2>2. Targets!Without(Targets!Without(l, UpTo(keys, k - 1)), {keys[k]}) =
              Targets!Without(l, UpTo(keys, k - 1) \cup {keys[k]})
      BY WithoutTwice
    <2>3. UpTo(keys, k) = UpTo(keys, k - 1) \cup {keys[k]}
      BY UpToNext
    <2>4. c[k] = Targets!Without(c[k - 1], {keys[k]})
      BY <1>3
    <2>5. c[k] = Targets!Without(l, UpTo(keys, k))
      BY <2>1, <2>2, <2>3, <2>4
    <2> QED BY <2>1, <2>5
  <1> HIDE DEF T
  <1>7. Len(keys) \in T
    BY <1>4, <1>5, <1>6, StepByStep
  <1>8. UpTo(keys, Len(keys)) = Targets!ToSet(keys)
    BY UpToNext
  <1> QED BY <1>3, <1>7, <1>8 DEF T

\* AppendKeys puts the keys, in their order, behind the rest.
LEMMA AppendKeysIs ==
    ASSUME NEW S, NEW l \in Seq(S), NEW keys \in Seq(S), Targets!NoItem \notin S,
           Targets!IsInjective(keys)
    PROVE  Targets!AppendKeys(l, keys) = Linked(Targets!Without(l, Targets!ToSet(keys)), keys)
  <1>1. \A s \in Seq(S), x \in S : MovedToEnd(s, x) \in Seq(S)
    BY WithoutIs DEF MovedToEnd
  <1>2. PICK c : Appending(c, Seq(S), l, keys)
    BY <1>1, AppendKeysStepwise
  <1>3. /\ c[0] = l /\ Targets!AppendKeys(l, keys) = c[Len(keys)]
        /\ \A k \in 1 .. Len(keys) : c[k] = MovedToEnd(c[k - 1], keys[k])
    BY <1>2 DEF Appending
  <1> DEFINE rest(k) == Targets!Without(l, UpTo(keys, k))
             part(k) == SubSeq(keys, 1, k)
             T == {k \in 0 .. Len(keys) : c[k] = Linked(rest(k), part(k))}
  <1>4. Len(keys) \in Nat /\ Len(keys) \in 0 .. Len(keys) /\ 0 \in 0 .. Len(keys)
    OBVIOUS
  <1>5. 0 \in T
    <2>1. \A x \in Targets!ToSet(l) : x \notin {}
      OBVIOUS
    <2>2. Targets!Without(l, {}) = l
      BY <2>1, WithoutNone
    <2>3. UpTo(keys, 0) = {} /\ part(0) = <<>>
      BY UpToNext, PartNext
    <2>4. Linked(l, <<>>) = l
      BY LinkedNone
    <2>5. rest(0) = l
      BY <2>2, <2>3
    <2> HIDE DEF rest, part
    <2> QED BY <1>3, <1>4, <2>3, <2>4, <2>5
  <1>6. ASSUME NEW k \in 1 .. Len(keys), k - 1 \in T
        PROVE  k \in T
    <2>1. k \in 0 .. Len(keys) /\ k - 1 \in 0 .. Len(keys) /\ keys[k] \in S
      BY <1>4
    <2>2. c[k - 1] = Linked(rest(k - 1), part(k - 1))
      BY <1>6
    <2>3. Targets!Without(rest(k - 1), {keys[k]}) = rest(k)
      <3>1. Targets!Without(rest(k - 1), {keys[k]}) =
                Targets!Without(l, UpTo(keys, k - 1) \cup {keys[k]})
        BY WithoutTwice
      <3>2. UpTo(keys, k) = UpTo(keys, k - 1) \cup {keys[k]}
        BY UpToNext
      <3> QED BY <3>1, <3>2
    <2>4. rest(k - 1) \in Seq(S) /\ rest(k) \in Seq(S)
      BY WithoutIs
    <2>5. /\ part(k - 1) \in Seq(S) /\ Targets!ToSet(part(k - 1)) = UpTo(keys, k - 1)
          /\ part(k) = Append(part(k - 1), keys[k])
      BY <2>1, PartNext
    <2>11. keys[k] \notin UpTo(keys, k - 1)
      BY UpToNext
    <2> HIDE DEF rest, part, T
    <2>6. Targets!Without(part(k - 1), {keys[k]}) = part(k - 1)
      <3>1. \A x \in Targets!ToSet(part(k - 1)) : x \notin {keys[k]}
        BY <2>5, <2>11
      <3> QED BY <2>5, <3>1, WithoutNone
    <2>7. Targets!Without(c[k - 1], {keys[k]}) = Linked(rest(k), part(k - 1))
      <3>1. Targets!Without(Linked(rest(k - 1), part(k - 1)), {keys[k]}) =
                Linked(Targets!Without(rest(k - 1), {keys[k]}),
                       Targets!Without(part(k - 1), {keys[k]}))
        BY <2>4, <2>5, WithoutOfBoth
      <3> QED BY <2>2, <2>3, <2>6, <3>1
    <2>8. c[k] = Append(Linked(rest(k), part(k - 1)), keys[k])
      BY <1>3, <2>7 DEF MovedToEnd
    <2>9. Append(Linked(rest(k), part(k - 1)), keys[k]) = Linked(rest(k), part(k))
      <3> DEFINE both == Linked(rest(k), part(k - 1))
                 x == keys[k]
      <3>1. both \in Seq(S) /\ x \in S
        BY <2>1, <2>4, <2>5, LinkedIs
      <3>2. both = Linked(rest(k), part(k - 1)) /\ part(k) = Append(part(k - 1), x)
        BY <2>5
      <3> HIDE DEF both, x
      <3>3. Append(both, x) = Linked(both, One(x)) /\ One(x) \in Seq(S)
        BY <3>1, LinkedOne, Zenon
      <3>4. part(k) = Linked(part(k - 1), One(x))
        BY <2>5, <3>1, <3>2, LinkedOne, Zenon
      <3>5. Linked(both, One(x)) = Linked(rest(k), Linked(part(k - 1), One(x)))
        BY <2>4, <2>5, <3>2, <3>3, LinkedAgain
      <3> QED BY <3>3, <3>4, <3>5, Zenon DEF both, x
    <2>10. c[k] = Linked(rest(k), part(k))
      BY <2>8, <2>9
    <2> QED BY <2>1, <2>10 DEF T
  <1> HIDE DEF T
  <1>7. Len(keys) \in T
    BY <1>4, <1>5, <1>6, StepByStep
  <1>8. UpTo(keys, Len(keys)) = Targets!ToSet(keys) /\ part(Len(keys)) = keys
    BY UpToNext, PartNext
  <1>9. c[Len(keys)] = Linked(rest(Len(keys)), part(Len(keys)))
    BY <1>7 DEF T
  <1> HIDE DEF part
  <1> QED BY <1>3, <1>8, <1>9

\* The items of a list from its end.
LEMMA ReverseIs ==
    ASSUME NEW S, NEW s \in Seq(S)
    PROVE  /\ Targets!Reverse(s) \in Seq(S) /\ Len(Targets!Reverse(s)) = Len(s)
           /\ Targets!ToSet(Targets!Reverse(s)) = Targets!ToSet(s)
           /\ Targets!IsInjective(s) => Targets!IsInjective(Targets!Reverse(s))
           /\ Targets!Reverse(Targets!Reverse(s)) = s
           /\ \A k \in 1 .. Len(s) : Targets!Reverse(s)[k] = s[(Len(s) - k) + 1]
  <1> DEFINE r == Targets!Reverse(s)
             n == Len(s)
  <1>1. n \in Nat /\ DOMAIN s = 1 .. n /\ r \in Seq(S)
    BY ReverseTyped
  <1>2. r = [i \in 1 .. n |-> s[(n - i) + 1]]
    BY DEF Targets!Reverse
  <1>3. DOMAIN r = 1 .. n /\ \A k \in 1 .. n : r[k] = s[(n - k) + 1]
    BY <1>2
  <1>4. Len(r) = n
    BY <1>1, <1>3
  <1>10. Targets!Reverse(r) = [i \in 1 .. Len(r) |-> r[(Len(r) - i) + 1]]
    BY DEF Targets!Reverse
  <1> HIDE DEF r, n
  <1>5. Targets!ToSet(r) = Targets!ToSet(s)
    <2>1. ASSUME NEW i \in 1 .. n
          PROVE  r[i] \in Targets!ToSet(s)
      <3>1. (n - i) + 1 \in DOMAIN s /\ r[i] = s[(n - i) + 1]
        BY <1>1, <1>3
      <3> QED BY <3>1 DEF Targets!ToSet
    <2>2. ASSUME NEW i \in 1 .. n
          PROVE  s[i] \in Targets!ToSet(r)
      <3>1. (n - i) + 1 \in DOMAIN r /\ r[(n - i) + 1] = s[i]
        <4>1. (n - i) + 1 \in 1 .. n /\ (n - ((n - i) + 1)) + 1 = i
          BY <1>1
        <4> QED BY <1>3, <4>1
      <3> QED BY <3>1 DEF Targets!ToSet
    <2>3. \A u, y : y \in Targets!ToSet(u) <=> \E i \in DOMAIN u : y = u[i]
      BY DEF Targets!ToSet
    <2>4. /\ \A y \in Targets!ToSet(r) : y \in Targets!ToSet(s)
          /\ \A y \in Targets!ToSet(s) : y \in Targets!ToSet(r)
      BY <1>1, <1>3, <2>1, <2>2, <2>3
    <2> QED BY <2>4
  <1>6. ASSUME Targets!IsInjective(s)
        PROVE  Targets!IsInjective(r)
    <2> SUFFICES ASSUME NEW i \in 1 .. n, NEW j \in 1 .. n, r[i] = r[j]
                 PROVE  i = j
      BY <1>3 DEF Targets!IsInjective
    <2>1. (n - i) + 1 \in 1 .. n /\ (n - j) + 1 \in 1 .. n /\ s[(n - i) + 1] = s[(n - j) + 1]
      BY <1>1, <1>3
    <2>2. (n - i) + 1 = (n - j) + 1
      BY <1>1, <1>6, <2>1 DEF Targets!IsInjective
    <2> QED BY <1>1, <2>2
  <1>7. Targets!Reverse(r) = s
    <2>1. ASSUME NEW i \in 1 .. n
          PROVE  r[(n - i) + 1] = s[i]
      <3>1. (n - i) + 1 \in 1 .. n /\ (n - ((n - i) + 1)) + 1 = i
        BY <1>1
      <3> QED BY <1>3, <3>1
    <2>2. Targets!Reverse(r) = [i \in 1 .. n |-> s[i]]
      BY <1>4, <1>10, <2>1
    <2>3. s = [i \in 1 .. n |-> s[i]]
      BY <1>1 DEF n
    <2> QED BY <2>2, <2>3
  <1> QED BY <1>1, <1>3, <1>4, <1>5, <1>6, <1>7 DEF r, n

\* PrependKeys puts the keys, in their order, before the rest.
LEMMA PrependKeysIs ==
    ASSUME NEW S, NEW l \in Seq(S), NEW keys \in Seq(S), Targets!NoItem \notin S,
           Targets!IsInjective(keys)
    PROVE  Targets!PrependKeys(l, keys) = Linked(keys, Targets!Without(l, Targets!ToSet(keys)))
  <1> DEFINE s == Targets!Reverse(keys)
             n == Len(s)
  <1>0. /\ s \in Seq(S) /\ n = Len(keys) /\ n \in Nat /\ Targets!ToSet(s) = Targets!ToSet(keys)
        /\ Targets!IsInjective(s) /\ s = Targets!Reverse(keys)
        /\ \A k \in 1 .. n : s[k] = keys[(n - k) + 1]
    BY ReverseIs
  <1> HIDE DEF s
  <1>1. ASSUME NEW u \in Seq(S), NEW x \in S
        PROVE  MovedToFront(u, x) \in Seq(S)
    <2>1. Targets!Without(u, {x}) \in Seq(S) /\ <<x>> \in Seq(S)
      BY WithoutIs
    <2> QED BY <2>1 DEF MovedToFront
  <1>2. PICK c : Prepending(c, Seq(S), l, keys, s)
    BY <1>0, <1>1, PrependKeysStepwise
  <1>3. /\ c[0] = l /\ Targets!PrependKeys(l, keys) = c[n]
        /\ \A k \in 1 .. n : c[k] = MovedToFront(c[k - 1], s[k])
    BY <1>2 DEF Prepending
  <1> HIDE DEF n
  <1> DEFINE rest(k) == Targets!Without(l, UpTo(s, k))
             part(k) == SubSeq(keys, (n - k) + 1, n)
             T == {k \in 0 .. n : /\ part(k) \in Seq(S) /\ Targets!ToSet(part(k)) = UpTo(s, k)
                                  /\ c[k] = Linked(part(k), rest(k))}
  <1>4. n \in Nat /\ n \in 0 .. n /\ 0 \in 0 .. n
    BY <1>0
  <1>10. /\ UpTo(s, 0) = {} /\ UpTo(s, n) = Targets!ToSet(s)
         /\ \A k \in 1 .. n : UpTo(s, k) = UpTo(s, k - 1) \cup {s[k]} /\ s[k] \notin UpTo(s, k - 1)
    BY <1>0, UpToNext DEF n
  <1>5. 0 \in T
    <2>1. \A x \in Targets!ToSet(l) : x \notin {}
      OBVIOUS
    <2>2. Targets!Without(l, {}) = l
      BY <2>1, WithoutNone
    <2>3. part(0) = <<>>
      <3>1. (n - 0) + 1 \in Int /\ n \in Int /\ n < (n - 0) + 1
        BY <1>4
      <3> QED BY <3>1, SubSeqEmpty
    <2>4. Linked(<<>>, l) = l
      BY LinkedNone
    <2>5. rest(0) = l
      BY <1>10, <2>2
    <2>6. <<>> \in Seq(S) /\ Targets!ToSet(<<>>) = {}
      BY NoneOf
    <2> HIDE DEF rest, part
    <2> QED BY <1>3, <1>4, <1>10, <2>3, <2>4, <2>5, <2>6
  <1>6. ASSUME NEW k \in 1 .. n, k - 1 \in T
        PROVE  k \in T
    <2> DEFINE x == s[k]
    <2>1. k \in 0 .. n /\ k - 1 \in 0 .. n /\ x \in S /\ x = keys[(n - k) + 1]
      BY <1>0, <1>4 DEF n
    <2>2. /\ part(k - 1) \in Seq(S) /\ Targets!ToSet(part(k - 1)) = UpTo(s, k - 1)
          /\ c[k - 1] = Linked(part(k - 1), rest(k - 1))
      BY <1>6
    <2>3. part(k) = Linked(One(x), part(k - 1))
      <3>1. /\ (n - k) + 1 \in 1 .. Len(keys) /\ n \in ((n - k) + 1) .. Len(keys)
            /\ ((n - k) + 1) + 1 = (n - (k - 1)) + 1
        BY <1>0, <1>4
      <3>2. part(k) = <<keys[(n - k) + 1]>> \o SubSeq(keys, ((n - k) + 1) + 1, n)
        BY <3>1, SubSeqRecursiveFirst
      <3>3. part(k) = <<x>> \o part(k - 1)
        BY <2>1, <3>1, <3>2
      <3> HIDE DEF part, x
      <3> QED BY <3>3, Zenon DEF Linked, One
    <2>4. Targets!Without(rest(k - 1), {x}) = rest(k)
      <3>1. Targets!Without(rest(k - 1), {x}) = Targets!Without(l, UpTo(s, k - 1) \cup {x})
        BY WithoutTwice
      <3> QED BY <1>10, <3>1
    <2>5. rest(k - 1) \in Seq(S) /\ rest(k) \in Seq(S)
      BY WithoutIs
    <2>6. x \notin UpTo(s, k - 1) /\ UpTo(s, k) = UpTo(s, k - 1) \cup {x}
      BY <1>10
    <2>13. c[k] = MovedToFront(c[k - 1], x)
      BY <1>3
    <2> HIDE DEF rest, part, T, x
    <2>7. Targets!Without(part(k - 1), {x}) = part(k - 1)
      <3>1. \A y \in Targets!ToSet(part(k - 1)) : y \notin {x}
        BY <2>2, <2>6
      <3> QED BY <2>2, <3>1, WithoutNone
    <2>8. Targets!Without(c[k - 1], {x}) = Linked(part(k - 1), rest(k))
      <3>1. Targets!Without(Linked(part(k - 1), rest(k - 1)), {x}) =
                Linked(Targets!Without(part(k - 1), {x}), Targets!Without(rest(k - 1), {x}))
        BY <2>2, <2>5, WithoutOfBoth
      <3> QED BY <2>2, <2>4, <2>7, <3>1
    <2>9. c[k] = Linked(One(x), Linked(part(k - 1), rest(k)))
      BY <2>8, <2>13, Zenon DEF MovedToFront, Linked, One
    <2>10. One(x) \in Seq(S) /\ Targets!ToSet(One(x)) = {x}
      BY <2>1, LinkedOne, OneIs
    <2>11. c[k] = Linked(part(k), rest(k))
      BY <2>2, <2>3, <2>5, <2>9, <2>10, LinkedAgain
    <2>12. part(k) \in Seq(S) /\ Targets!ToSet(part(k)) = UpTo(s, k)
      <3>1. part(k) \in Seq(S) /\ Targets!ToSet(part(k)) = {x} \cup UpTo(s, k - 1)
        BY <2>2, <2>3, <2>10, LinkedIs
      <3> QED BY <2>6, <3>1
    <2> QED BY <2>1, <2>11, <2>12 DEF T
  <1> HIDE DEF T
  <1>7. n \in T
    BY <1>4, <1>5, <1>6, StepByStep
  <1>8. part(n) = keys
    <2>1. (n - n) + 1 = 1
      BY <1>4
    <2> QED BY <1>0, <2>1, SubSeqFull
  <1>9. c[n] = Linked(part(n), rest(n)) /\ rest(n) = Targets!Without(l, Targets!ToSet(keys))
    BY <1>0, <1>7, <1>10 DEF T
  <1> HIDE DEF part
  <1> QED BY <1>3, <1>8, <1>9

\* A list of distinct items stays one without some of them.
LEMMA WithoutSingle ==
    ASSUME NEW S, NEW s \in Seq(S), NEW X, Targets!NoItem \notin S, Targets!IsInjective(s)
    PROVE  Targets!IsInjective(Targets!Without(s, X))
  <1> DEFINE T == {t \in Seq(S) :
                 Targets!IsInjective(t) => Targets!IsInjective(Targets!Without(t, X))}
  <1>1. <<>> \in T
    BY WithoutOfNone, NoneOf
  <1>2. ASSUME NEW t \in Seq(S), NEW x \in S, t \in T
        PROVE  Append(t, x) \in T
    <2> DEFINE longer == Append(t, x)
               less == Targets!Without(t, X)
    <2>1. /\ longer \in Seq(S) /\ Len(longer) = Len(t) + 1 /\ longer[Len(t) + 1] = x
          /\ \A i \in 1 .. Len(t) : longer[i] = t[i]
      BY AppendProperties
    <2>2. Targets!Without(longer, X) = IF x \in X THEN less ELSE Append(less, x)
      BY WithoutNext
    <2>3. less \in Seq(S) /\ Targets!ToSet(less) = Targets!ToSet(t) \ X
      BY WithoutIs
    <2>4. Targets!IsInjective(t) => Targets!IsInjective(less)
      BY <1>2
    <2> HIDE DEF less, longer
    <2>5. ASSUME Targets!IsInjective(longer)
          PROVE  Targets!IsInjective(t) /\ x \notin Targets!ToSet(t)
      <3>1. DOMAIN longer = 1 .. Len(t) + 1 /\ DOMAIN t = 1 .. Len(t) /\ Len(t) \in Nat
        BY <2>1
      <3>2. \A i, j \in 1 .. Len(t) + 1 : longer[i] = longer[j] => i = j
        BY <2>5, <3>1 DEF Targets!IsInjective
      <3>3. Targets!IsInjective(t)
        BY <2>1, <3>1, <3>2 DEF Targets!IsInjective
      <3>4. \A i \in 1 .. Len(t) : t[i] # x
        BY <2>1, <3>1, <3>2
      <3> QED BY <3>1, <3>3, <3>4 DEF Targets!ToSet
    <2>6. ASSUME Targets!IsInjective(longer)
          PROVE  Targets!IsInjective(Targets!Without(longer, X))
      <3>1. Targets!IsInjective(less) /\ x \notin Targets!ToSet(less)
        BY <2>3, <2>4, <2>5, <2>6
      <3>2. Targets!IsInjective(Append(less, x))
        BY <2>3, <3>1, OneMore
      <3> QED BY <2>2, <3>1, <3>2
    <2>7. longer \in T
      BY <2>1, <2>6
    <2> QED BY <2>7 DEF longer
  <1> HIDE DEF T
  <1>3. Seq(S) \subseteq T
    BY <1>1, <1>2, ListByList
  <1> QED BY <1>3 DEF T

\* AddKeys and Mapped, key by key.
Adding(c, X, b, keys) ==
    /\ c \in [0 .. Len(keys) -> X]
    /\ c[0] = b /\ Targets!AddKeys(b, keys) = c[Len(keys)]
    /\ \A k \in 1 .. Len(keys) :
          c[k] = IF keys[k] \in Targets!ToSet(c[k - 1]) THEN c[k - 1] ELSE Append(c[k - 1], keys[k])
Mapping(c, X, s, cb) ==
    /\ c \in [0 .. Len(s) -> X]
    /\ c[0] = <<>> /\ Targets!Mapped(s, cb) = c[Len(s)]
    /\ \A k \in 1 .. Len(s) :
          c[k] = IF cb[s[k]] = Targets!NoItem THEN c[k - 1] ELSE Append(c[k - 1], cb[s[k]])

LEMMA AddKeysStepwise ==
    ASSUME NEW X, NEW I, NEW b \in X, NEW s \in Seq(I),
           \A x \in X, i \in I : (IF i \in Targets!ToSet(x) THEN x ELSE Append(x, i)) \in X
    PROVE  \E c : Adding(c, X, b, s)
  BY AddKeysFold DEF Adding

LEMMA MappedStepwise ==
    ASSUME NEW X, NEW I, NEW b \in X, NEW s \in Seq(I), NEW cb, b = <<>>,
           \A x \in X, i \in I : (IF cb[i] = Targets!NoItem THEN x ELSE Append(x, cb[i])) \in X
    PROVE  \E c : Mapping(c, X, s, cb)
  BY MappedFold DEF Mapping

\* Nothing is added to a list, and a list of distinct items is added to none as it is.
LEMMA NoKeysAdded ==
    ASSUME NEW S, NEW l \in Seq(S)
    PROVE  Targets!AddKeys(l, <<>>) = l
  <1> DEFINE none == <<>>
  <1>1. none \in Seq(S) /\ Len(none) = 0
    OBVIOUS
  <1>2. \A t \in Seq(S), x \in S : (IF x \in Targets!ToSet(t) THEN t ELSE Append(t, x)) \in Seq(S)
    OBVIOUS
  <1> HIDE DEF none
  <1>3. PICK c : Adding(c, Seq(S), l, none)
    BY <1>1, <1>2, AddKeysStepwise
  <1>4. Targets!AddKeys(l, none) = l
    BY <1>1, <1>3 DEF Adding
  <1> QED BY <1>4 DEF none

LEMMA UniqueAlready ==
    ASSUME NEW S, NEW s \in Seq(S), Targets!IsInjective(s)
    PROVE  Targets!MakeUnique(s) = s
  <1> DEFINE none == <<>>
  <1>1. none \in Seq(S) /\ none = <<>>
    OBVIOUS
  <1>2. \A t \in Seq(S), x \in S : (IF x \in Targets!ToSet(t) THEN t ELSE Append(t, x)) \in Seq(S)
    OBVIOUS
  <1> HIDE DEF none
  <1>3. PICK c : Adding(c, Seq(S), none, s)
    BY <1>1, <1>2, AddKeysStepwise
  <1>4. /\ c[0] = <<>> /\ Targets!AddKeys(none, s) = c[Len(s)]
        /\ \A k \in 1 .. Len(s) :
              c[k] = IF s[k] \in Targets!ToSet(c[k - 1]) THEN c[k - 1] ELSE Append(c[k - 1], s[k])
    BY <1>1, <1>3 DEF Adding
  <1> DEFINE part(k) == SubSeq(s, 1, k)
             T == {k \in 0 .. Len(s) : c[k] = part(k)}
  <1>5. Len(s) \in Nat /\ Len(s) \in 0 .. Len(s) /\ 0 \in 0 .. Len(s)
    OBVIOUS
  <1>6. /\ part(0) = <<>> /\ part(Len(s)) = s
        /\ \A k \in 0 .. Len(s) : Targets!ToSet(part(k)) = UpTo(s, k)
        /\ \A k \in 1 .. Len(s) : part(k) = Append(part(k - 1), s[k])
    BY PartNext
  <1>7. \A k \in 1 .. Len(s) : s[k] \notin UpTo(s, k - 1)
    BY UpToNext
  <1> HIDE DEF part
  <1>8. 0 \in T
    BY <1>4, <1>5, <1>6
  <1>9. ASSUME NEW k \in 1 .. Len(s), k - 1 \in T
        PROVE  k \in T
    <2>1. k \in 0 .. Len(s) /\ k - 1 \in 0 .. Len(s) /\ c[k - 1] = part(k - 1)
      BY <1>5, <1>9
    <2>2. s[k] \notin Targets!ToSet(c[k - 1])
      BY <1>6, <1>7, <2>1
    <2>3. c[k] = Append(part(k - 1), s[k])
      BY <1>4, <2>1, <2>2
    <2> QED BY <1>6, <2>1, <2>3
  <1> HIDE DEF T
  <1>10. Len(s) \in T
    BY <1>5, <1>8, <1>9, StepByStep
  <1>11. Targets!AddKeys(none, s) = s
    BY <1>4, <1>6, <1>10 DEF T
  <1> QED BY <1>11 DEF none, Targets!MakeUnique

\* A callback that returns what it is given changes nothing.
LEMMA MappedItself ==
    ASSUME NEW S, NEW s \in Seq(S), NEW U, Targets!NoItem \notin S, Targets!ToSet(s) \subseteq U
    PROVE  Targets!Mapped(s, Targets!Itself(U)) = s
  <1> DEFINE none == <<>>
             I == Targets!ToSet(s)
             cb == Targets!Itself(U)
  <1>1. none \in Seq(S) /\ none = <<>> /\ s \in Seq(I) /\ I \subseteq S
    BY DEF Targets!ToSet
  <1>2. \A x \in I : cb[x] = x /\ x # Targets!NoItem /\ x \in S
    BY <1>1 DEF Targets!Itself
  <1>3. \A k \in 1 .. Len(s) : s[k] \in I
    BY DEF Targets!ToSet
  <1> HIDE DEF none, I, cb
  <1>4. \A t \in Seq(S), x \in I :
            (IF cb[x] = Targets!NoItem THEN t ELSE Append(t, cb[x])) \in Seq(S)
    BY <1>2
  <1>5. PICK c : Mapping(c, Seq(S), s, cb)
    BY <1>1, <1>4, MappedStepwise
  <1>6. /\ c[0] = <<>> /\ Targets!Mapped(s, cb) = c[Len(s)]
        /\ \A k \in 1 .. Len(s) : c[k] = Append(c[k - 1], s[k])
    <2>1. ASSUME NEW k \in 1 .. Len(s)
          PROVE  c[k] = Append(c[k - 1], s[k])
      <3>1. cb[s[k]] = s[k] /\ s[k] # Targets!NoItem
        BY <1>2, <1>3
      <3>2. c[k] = IF cb[s[k]] = Targets!NoItem THEN c[k - 1] ELSE Append(c[k - 1], cb[s[k]])
        BY <1>5 DEF Mapping
      <3> QED BY <3>1, <3>2
    <2> QED BY <1>5, <2>1 DEF Mapping
  <1> DEFINE part(k) == SubSeq(s, 1, k)
             T == {k \in 0 .. Len(s) : c[k] = part(k)}
  <1>7. Len(s) \in Nat /\ Len(s) \in 0 .. Len(s) /\ 0 \in 0 .. Len(s)
    OBVIOUS
  <1>8. /\ part(0) = <<>> /\ part(Len(s)) = s
        /\ \A k \in 1 .. Len(s) : part(k) = Append(part(k - 1), s[k])
    BY PartNext
  <1> HIDE DEF part
  <1>9. 0 \in T
    BY <1>6, <1>7, <1>8
  <1>10. ASSUME NEW k \in 1 .. Len(s), k - 1 \in T
         PROVE  k \in T
    <2>1. k \in 0 .. Len(s) /\ c[k - 1] = part(k - 1)
      BY <1>7, <1>10
    <2> QED BY <1>6, <1>8, <2>1
  <1> HIDE DEF T
  <1>11. Len(s) \in T
    BY <1>7, <1>9, <1>10, StepByStep
  <1>12. Targets!Mapped(s, cb) = s
    BY <1>6, <1>8, <1>11 DEF T
  <1> QED BY <1>12 DEF cb

-----------------------------------------------------------------------------
\* List ops as SetItems leaves them: the lists it makes unique have no item twice.
Unrepeated(op) ==
    \A kind \in Targets!Kinds \ {"added", "ordered"} : Targets!IsInjective(op.items[kind])
Named(op, kind) == Targets!ToSet(op.items[kind])

\* What an op that adds and orders nothing makes of a list: what it prepends, the rest of the
\* list and what it appends.
Around(op, l) ==
    Linked(Targets!Without(op.items["prepended"], Named(op, "appended")),
           Linked(Targets!Without(l, Named(op, "deleted") \cup Named(op, "prepended")
                                         \cup Named(op, "appended")),
                  op.items["appended"]))

LEMMA AppliedIs ==
    ASSUME NEW S, NEW op \in OpsOf(S), NEW l \in Seq(S), Targets!NoItem \notin S, Unrepeated(op),
           ~op.explicit, op.items["added"] = <<>>, op.items["ordered"] = <<>>
    PROVE  Targets!Applied(op, l) = Around(op, l)
  <1> DEFINE U == UNION {Targets!ToSet(op.items[kind]) : kind \in Targets!Kinds}
             keys == [kind \in Targets!Kinds |->
                          Targets!Mapped(op.items[kind], Targets!Itself(U))]
             p == op.items["prepended"]
             a == op.items["appended"]
             d == op.items["deleted"]
             deleted == Targets!DeleteKeys(l, keys["deleted"])
             added == Targets!AddKeys(deleted, keys["added"])
             prepended == Targets!PrependKeys(added, keys["prepended"])
             appended == Targets!AppendKeys(prepended, keys["appended"])
  <1>1. Targets!Applied(op, l) = Targets!ReorderKeys(appended, keys["ordered"])
    BY DEF Targets!Applied, Targets!ApplyOperations
  <1>2. \A kind \in Targets!Kinds :
            op.items[kind] \in Seq(S) /\ Targets!ToSet(op.items[kind]) \subseteq U
    BY DEF OpsOf
  <1>3. /\ "added" \in Targets!Kinds /\ "ordered" \in Targets!Kinds /\ "deleted" \in Targets!Kinds
        /\ "prepended" \in Targets!Kinds /\ "appended" \in Targets!Kinds
    BY DEF Targets!Kinds
  <1> HIDE DEF U
  <1>4. \A kind \in Targets!Kinds : keys[kind] = op.items[kind]
    BY <1>2, MappedItself
  <1>5. /\ keys["deleted"] = d /\ keys["added"] = <<>> /\ keys["ordered"] = <<>>
        /\ keys["prepended"] = p /\ keys["appended"] = a
    BY <1>3, <1>4
  <1>6. /\ p \in Seq(S) /\ a \in Seq(S) /\ d \in Seq(S)
        /\ Targets!IsInjective(p) /\ Targets!IsInjective(a)
    BY <1>2, <1>3 DEF Unrepeated
  <1> HIDE DEF keys
  <1> DEFINE D == Targets!ToSet(d)
             P == Targets!ToSet(p)
             A == Targets!ToSet(a)
  <1>7. deleted = Targets!Without(l, D) /\ Targets!Without(l, D) \in Seq(S)
    <2>1. deleted = Targets!DeleteKeys(l, d)
      BY <1>5
    <2>2. Targets!Without(l, D) \in Seq(S)
      BY WithoutIs
    <2> HIDE DEF deleted, d
    <2> QED BY <1>6, <2>1, <2>2, DeleteKeysIs
  <1>8. added = Targets!Without(l, D)
    <2> HIDE DEF deleted, D
    <2>1. added = Targets!AddKeys(deleted, <<>>)
      BY <1>5
    <2> QED BY <1>7, <2>1, NoKeysAdded
  <1>9. prepended = Linked(p, Targets!Without(Targets!Without(l, D), P))
    <2>1. prepended = Targets!PrependKeys(added, p)
      BY <1>5
    <2> HIDE DEF added, D
    <2> QED BY <1>6, <1>7, <1>8, <2>1, PrependKeysIs
  <1>10. Targets!Without(Targets!Without(l, D), P) = Targets!Without(l, D \cup P)
    BY WithoutTwice
  <1> HIDE DEF deleted, added, D, P, A
  <1> DEFINE m == Targets!Without(l, D \cup P)
  <1>11. m \in Seq(S) /\ prepended = Linked(p, m)
    BY <1>9, <1>10, WithoutIs
  <1> HIDE DEF prepended
  <1>12. prepended \in Seq(S)
    BY <1>6, <1>11, LinkedIs
  <1>13. appended = Linked(Targets!Without(prepended, A), a)
    BY <1>5, <1>6, <1>12, AppendKeysIs DEF A
  <1>14. Targets!Without(m, A) = Targets!Without(l, D \cup P \cup A)
    BY WithoutTwice
  <1> HIDE DEF m
  <1>15. Targets!Without(prepended, A) = Linked(Targets!Without(p, A), Targets!Without(m, A))
    BY <1>6, <1>11, WithoutOfBoth
  <1>16. Targets!Without(p, A) \in Seq(S) /\ Targets!Without(m, A) \in Seq(S)
    BY <1>6, <1>11, WithoutIs
  <1>17. appended = Linked(Targets!Without(p, A), Linked(Targets!Without(m, A), a))
    BY <1>6, <1>13, <1>15, <1>16, LinkedAgain
  <1>18. Targets!Applied(op, l) = appended
    <2> HIDE DEF appended
    <2> QED BY <1>1, <1>5 DEF Targets!ReorderKeys
  <1> QED BY <1>14, <1>17, <1>18 DEF Around, Named, D, P, A

\* The list an explicit op makes of any list.
LEMMA AppliedExplicit ==
    ASSUME NEW S, NEW op \in OpsOf(S), NEW l, Targets!NoItem \notin S, Unrepeated(op), op.explicit
    PROVE  Targets!Applied(op, l) = op.items["explicit"]
  <1> DEFINE U == UNION {Targets!ToSet(op.items[kind]) : kind \in Targets!Kinds}
             e == op.items["explicit"]
  <1>1. "explicit" \in Targets!Kinds
    BY DEF Targets!Kinds
  <1>2. e \in Seq(S) /\ Targets!ToSet(e) \subseteq U /\ Targets!IsInjective(e)
    BY <1>1 DEF OpsOf, Unrepeated
  <1>3. Targets!Applied(op, l) = Targets!AddKeys(<<>>, Targets!Mapped(e, Targets!Itself(U)))
    BY <1>1 DEF Targets!Applied, Targets!ApplyOperations
  <1> HIDE DEF U, e
  <1>4. Targets!Mapped(e, Targets!Itself(U)) = e
    BY <1>2, MappedItself
  <1>5. Targets!MakeUnique(e) = e
    BY <1>2, UniqueAlready
  <1> QED BY <1>3, <1>4, <1>5 DEF e, Targets!MakeUnique

\* SetItems keeps a list of distinct items as it is.
LEMMA SinglesSet ==
    ASSUME NEW S, NEW op \in OpsOf(S), NEW items \in Seq(S), NEW kind \in Targets!Kinds,
           Targets!IsInjective(items), kind # "explicit", ~op.explicit
    PROVE  LET new == Targets!SetItems(op, items, kind)
           IN  /\ new \in OpsOf(S) /\ ~new.explicit /\ new.items[kind] = items
               /\ \A other \in Targets!Kinds \ {kind} : new.items[other] = op.items[other]
  <1> DEFINE unique == CASE kind \in {"added", "ordered"} -> items
                         [] kind = "appended" ->
                                Targets!Reverse(Targets!MakeUnique(Targets!Reverse(items)))
                         [] OTHER -> Targets!MakeUnique(items)
             new == Targets!SetItems(op, items, kind)
  <1>1. /\ new \in OpsOf(S) /\ ~new.explicit
        /\ \A other \in Targets!Kinds \ {kind} : new.items[other] = op.items[other]
    <2>1. /\ new \in OpsOf(S)
          /\ new.explicit = (kind = "explicit")
          /\ \A other \in Targets!Kinds \ {kind} :
                new.items[other] = IF op.explicit = (kind = "explicit") THEN op.items[other]
                                   ELSE <<>>
      BY ItemsSet
    <2> HIDE DEF new
    <2>2. op.explicit = (kind = "explicit")
      BY DEF OpsOf
    <2> QED BY <2>1, <2>2
  <1>2. unique = items
    <2>1. Targets!MakeUnique(items) = items
      BY UniqueAlready
    <2>2. Targets!Reverse(Targets!MakeUnique(Targets!Reverse(items))) = items
      <3>1. /\ Targets!Reverse(items) \in Seq(S) /\ Targets!IsInjective(Targets!Reverse(items))
            /\ Targets!Reverse(Targets!Reverse(items)) = items
        BY ReverseIs
      <3>2. Targets!MakeUnique(Targets!Reverse(items)) = Targets!Reverse(items)
        BY <3>1, UniqueAlready
      <3> QED BY <3>1, <3>2
    <2>3. kind \in {"added", "ordered"} => unique = items
      OBVIOUS
    <2>4. (kind \notin {"added", "ordered"} /\ kind = "appended") =>
              unique = Targets!Reverse(Targets!MakeUnique(Targets!Reverse(items)))
      OBVIOUS
    <2>5. (kind \notin {"added", "ordered"} /\ kind # "appended") =>
              unique = Targets!MakeUnique(items)
      OBVIOUS
    <2> HIDE DEF unique
    <2> QED BY <2>1, <2>2, <2>3, <2>4, <2>5
  <1>3. new.items[kind] = items
    <2> DEFINE base == Targets!SetExplicit(op, kind = "explicit")
    <2>1. new = [base EXCEPT !.items[kind] = unique]
      BY DEF Targets!SetItems
    <2>2. base = op
      BY DEF Targets!SetExplicit, OpsOf
    <2>3. /\ op = [explicit |-> op.explicit, items |-> op.items]
          /\ op.items \in [Targets!Kinds -> Seq(S)]
      BY DEF OpsOf
    <2> HIDE DEF base, new, unique
    <2>4. new.items = [op.items EXCEPT ![kind] = items]
      BY <1>2, <2>1, <2>2, <2>3
    <2> QED BY <2>3, <2>4
  <1> QED BY <1>1, <1>3

\* The op that Create makes.
LEMMA CreatedIs ==
    ASSUME NEW S, NEW p \in Seq(S), NEW a \in Seq(S), NEW d \in Seq(S),
           Targets!IsInjective(p), Targets!IsInjective(a), Targets!IsInjective(d)
    PROVE  LET new == Targets!Create(p, a, d)
           IN  /\ new \in OpsOf(S) /\ ~new.explicit /\ Unrepeated(new)
               /\ new.items["prepended"] = p /\ new.items["appended"] = a
               /\ new.items["deleted"] = d
               /\ new.items["added"] = <<>> /\ new.items["ordered"] = <<>>
  <1> DEFINE first == Targets!SetItems(Targets!NewListOp, p, "prepended")
             second == Targets!SetItems(first, a, "appended")
             third == Targets!SetItems(second, d, "deleted")
  <1>0. Targets!Kinds = {"explicit", "added", "prepended", "appended", "deleted", "ordered"}
    BY DEF Targets!Kinds
  <1>1. /\ Targets!NewListOp \in OpsOf(S) /\ ~Targets!NewListOp.explicit
        /\ \A kind \in Targets!Kinds : Targets!NewListOp.items[kind] = <<>>
    BY NewOps
  <1>2. /\ first \in OpsOf(S) /\ ~first.explicit /\ first.items["prepended"] = p
        /\ \A other \in Targets!Kinds \ {"prepended"} :
              first.items[other] = Targets!NewListOp.items[other]
    BY <1>0, <1>1, SinglesSet
  <1> HIDE DEF first
  <1>3. /\ second \in OpsOf(S) /\ ~second.explicit /\ second.items["appended"] = a
        /\ \A other \in Targets!Kinds \ {"appended"} : second.items[other] = first.items[other]
    BY <1>0, <1>2, SinglesSet
  <1> HIDE DEF second
  <1>4. /\ third \in OpsOf(S) /\ ~third.explicit /\ third.items["deleted"] = d
        /\ \A other \in Targets!Kinds \ {"deleted"} : third.items[other] = second.items[other]
    BY <1>0, <1>3, SinglesSet
  <1>5. Targets!Create(p, a, d) = third
    BY DEF Targets!Create, first, second
  <1> HIDE DEF third
  <1>6. /\ third.items["prepended"] = p /\ third.items["appended"] = a
        /\ third.items["added"] = <<>> /\ third.items["ordered"] = <<>>
        /\ third.items["explicit"] = <<>>
    BY <1>0, <1>1, <1>2, <1>3, <1>4
  <1>7. Unrepeated(third)
    BY <1>0, <1>4, <1>6, NoneOf DEF Unrepeated
  <1> QED BY <1>4, <1>5, <1>6, <1>7

\* The explicit op of a list.
LEMMA ExplicitIs ==
    ASSUME NEW S, NEW items \in Seq(S), Targets!IsInjective(items)
    PROVE  LET new == Targets!SetItems(Targets!NewListOp, items, "explicit")
           IN  new \in OpsOf(S) /\ new.explicit /\ Unrepeated(new) /\ new.items["explicit"] = items
  <1> DEFINE new == Targets!SetItems(Targets!NewListOp, items, "explicit")
             base == Targets!SetExplicit(Targets!NewListOp, TRUE)
  <1>0. Targets!Kinds = {"explicit", "added", "prepended", "appended", "deleted", "ordered"}
    BY DEF Targets!Kinds
  <1>1. /\ Targets!NewListOp \in OpsOf(S) /\ ~Targets!NewListOp.explicit
    BY NewOps
  <1>2. /\ new \in OpsOf(S) /\ new.explicit
        /\ \A other \in Targets!Kinds \ {"explicit"} : new.items[other] = <<>>
    <2> DEFINE kind == "explicit"
    <2>1. /\ kind \in Targets!Kinds /\ kind = "explicit"
          /\ new = Targets!SetItems(Targets!NewListOp, items, kind)
      BY <1>0
    <2> HIDE DEF kind, new
    <2>2. /\ new \in OpsOf(S)
          /\ new.explicit = (kind = "explicit")
          /\ \A other \in Targets!Kinds \ {kind} :
                new.items[other] = IF Targets!NewListOp.explicit = (kind = "explicit")
                                   THEN Targets!NewListOp.items[other] ELSE <<>>
      BY <1>1, <2>1, ItemsSet
    <2>3. Targets!NewListOp.explicit = FALSE
      BY <1>1 DEF OpsOf
    <2> QED BY <2>1, <2>2, <2>3
  <1>3. new.items["explicit"] = items
    <2>1. new = [base EXCEPT !.items["explicit"] = Targets!MakeUnique(items)]
      BY DEF Targets!SetItems
    <2>2. Targets!MakeUnique(items) = items
      BY UniqueAlready
    <2>3. base = [explicit |-> TRUE, items |-> Targets!NoItems]
      BY <1>1 DEF Targets!SetExplicit, OpsOf
    <2>4. Targets!NoItems = [kind \in Targets!Kinds |-> <<>>]
      BY DEF Targets!NoItems
    <2> HIDE DEF base, new
    <2>5. new.items = [Targets!NoItems EXCEPT !["explicit"] = items]
      BY <2>1, <2>2, <2>3
    <2> QED BY <1>0, <2>4, <2>5
  <1> HIDE DEF new
  <1>4. Unrepeated(new)
    BY <1>0, <1>2, <1>3, NoneOf DEF Unrepeated
  <1> QED BY <1>2, <1>3, <1>4 DEF new

LEMMA AroundTyped ==
    ASSUME NEW S, NEW op \in OpsOf(S), NEW l \in Seq(S), Targets!NoItem \notin S
    PROVE  Around(op, l) \in Seq(S)
  <1> DEFINE front == Targets!Without(op.items["prepended"], Named(op, "appended"))
             rest == Targets!Without(l, Named(op, "deleted") \cup Named(op, "prepended")
                                            \cup Named(op, "appended"))
             back == Linked(rest, op.items["appended"])
  <1>1. op.items["prepended"] \in Seq(S) /\ op.items["appended"] \in Seq(S)
    BY DEF OpsOf, Targets!Kinds
  <1>2. front \in Seq(S) /\ rest \in Seq(S)
    BY <1>1, WithoutIs
  <1> HIDE DEF front, rest
  <1>3. back \in Seq(S)
    BY <1>1, <1>2, LinkedIs
  <1> HIDE DEF back
  <1>4. Linked(front, back) \in Seq(S)
    BY <1>2, <1>3, LinkedIs
  <1> QED BY <1>4 DEF Around, front, rest, back

\* What is made of a list of distinct items has none twice.
LEMMA AroundSingle ==
    ASSUME NEW S, NEW op \in OpsOf(S), NEW l \in Seq(S), Targets!NoItem \notin S, Unrepeated(op),
           Targets!IsInjective(l)
    PROVE  Around(op, l) \in Seq(S) /\ Targets!IsInjective(Around(op, l))
  <1> DEFINE p == op.items["prepended"]
             a == op.items["appended"]
             A == Named(op, "appended")
             X == Named(op, "deleted") \cup Named(op, "prepended") \cup Named(op, "appended")
             front == Targets!Without(p, A)
             rest == Targets!Without(l, X)
             back == Linked(rest, a)
  <1>1. /\ p \in Seq(S) /\ a \in Seq(S) /\ Targets!IsInjective(p) /\ Targets!IsInjective(a)
        /\ Targets!ToSet(p) = Named(op, "prepended") /\ Targets!ToSet(a) = A
    BY DEF OpsOf, Targets!Kinds, Unrepeated, Named
  <1>2. Around(op, l) = Linked(front, back)
    BY DEF Around
  <1>3. /\ front \in Seq(S) /\ Targets!ToSet(front) = Targets!ToSet(p) \ A
        /\ Targets!IsInjective(front)
    <2> HIDE DEF p, A
    <2> QED BY <1>1, WithoutIs, WithoutSingle
  <1>4. /\ rest \in Seq(S) /\ Targets!ToSet(rest) = Targets!ToSet(l) \ X
        /\ Targets!IsInjective(rest)
    <2> HIDE DEF X
    <2> QED BY WithoutIs, WithoutSingle
  <1>5. A \subseteq X /\ Named(op, "prepended") \subseteq X
    OBVIOUS
  <1> HIDE DEF p, a, A, X, front, rest
  <1>6. back \in Seq(S) /\ Targets!ToSet(back) = Targets!ToSet(rest) \cup A
    BY <1>1, <1>4, LinkedIs
  <1>7. Targets!IsInjective(back)
    <2>1. Targets!ToSet(rest) \cap Targets!ToSet(a) = {}
      BY <1>1, <1>4, <1>5
    <2> QED BY <1>1, <1>4, <2>1, LinkedIs
  <1> HIDE DEF back
  <1>8. Targets!ToSet(front) \cap Targets!ToSet(back) = {}
    BY <1>1, <1>3, <1>4, <1>5, <1>6
  <1> QED BY <1>2, <1>3, <1>6, <1>7, <1>8, LinkedIs

\* Two list ops, one after the other, and the op composed of them: on the sets of what they name.
LEMMA ComposedAround ==
    ASSUME NEW S, NEW op \in OpsOf(S), NEW inner \in OpsOf(S), NEW new \in OpsOf(S),
           NEW l \in Seq(S), Targets!NoItem \notin S,
           NEW X, X = Named(op, "deleted") \cup Named(op, "prepended") \cup Named(op, "appended"),
           new.items["prepended"] =
               Linked(Targets!Without(op.items["prepended"], Named(op, "appended")),
                      Targets!Without(inner.items["prepended"], X)),
           new.items["appended"] =
               Linked(Targets!Without(inner.items["appended"], X), op.items["appended"]),
           Named(new, "deleted") = (Named(inner, "deleted") \cup Named(op, "deleted"))
                                       \ (Named(op, "prepended") \cup Named(op, "appended"))
    PROVE  Around(new, l) = Around(op, Around(inner, l))
  <1> DEFINE p == op.items["prepended"]
             a == op.items["appended"]
             q == inner.items["prepended"]
             b == inner.items["appended"]
             P == Named(op, "prepended")
             A == Named(op, "appended")
             D == Named(op, "deleted")
             Q == Named(inner, "prepended")
             B == Named(inner, "appended")
             E == Named(inner, "deleted")
             Y == E \cup Q \cup B
             lead == Targets!Without(p, A)
             q1 == Targets!Without(q, X)
             b1 == Targets!Without(b, X)
  <1>1. /\ p \in Seq(S) /\ a \in Seq(S) /\ q \in Seq(S) /\ b \in Seq(S)
        /\ Targets!ToSet(p) = P /\ Targets!ToSet(a) = A
        /\ Targets!ToSet(q) = Q /\ Targets!ToSet(b) = B
    BY DEF OpsOf, Targets!Kinds, Named
  <1>2. X = D \cup P \cup A
    OBVIOUS
  <1>3. new.items["prepended"] = Linked(lead, q1) /\ new.items["appended"] = Linked(b1, a)
    OBVIOUS
  <1>4. Named(new, "deleted") = (E \cup D) \ (P \cup A)
    OBVIOUS
  <1>5. Around(op, Around(inner, l)) =
            Linked(Targets!Without(p, A), Linked(Targets!Without(Around(inner, l), X), a))
    BY <1>2 DEF Around
  <1>6. Around(inner, l) = Linked(Targets!Without(q, B), Linked(Targets!Without(l, Y), b))
    BY DEF Around
  <1>7. Around(new, l) =
            Linked(Targets!Without(new.items["prepended"], Named(new, "appended")),
                   Linked(Targets!Without(l, Named(new, "deleted") \cup Named(new, "prepended")
                                                 \cup Named(new, "appended")),
                          new.items["appended"]))
    BY DEF Around
  <1>8. Named(new, "prepended") = Targets!ToSet(new.items["prepended"])
        /\ Named(new, "appended") = Targets!ToSet(new.items["appended"])
    BY DEF Named
  <1> HIDE DEF p, a, q, b, P, A, D, Q, B, E, lead, q1, b1, Y
  <1>9. /\ lead \in Seq(S) /\ Targets!ToSet(lead) = P \ A
        /\ q1 \in Seq(S) /\ Targets!ToSet(q1) = Q \ X
        /\ b1 \in Seq(S) /\ Targets!ToSet(b1) = B \ X
    BY <1>1, WithoutIs DEF lead, q1, b1
  <1>10. Named(new, "prepended") = (P \ A) \cup (Q \ X) /\ Named(new, "appended") = (B \ X) \cup A
    <2>1. Targets!ToSet(Linked(lead, q1)) = (P \ A) \cup (Q \ X)
      BY <1>9, LinkedIs
    <2>2. Targets!ToSet(Linked(b1, a)) = (B \ X) \cup A
      BY <1>1, <1>9, LinkedIs
    <2> QED BY <1>3, <1>8, <2>1, <2>2
  <1> DEFINE front == Targets!Without(p, A)
             near == Targets!Without(q, B \cup X)
             rest == Targets!Without(l, Y \cup X)
             N == Named(new, "appended")
             Z == Named(new, "deleted") \cup Named(new, "prepended") \cup Named(new, "appended")
  <1>11. front \in Seq(S) /\ near \in Seq(S) /\ rest \in Seq(S)
    BY <1>1, WithoutIs
  \* The composed op on the list.
  <1>12. Targets!Without(Linked(lead, q1), N) = Linked(front, near)
    <2>1. Targets!Without(Linked(lead, q1), N) =
              Linked(Targets!Without(lead, N), Targets!Without(q1, N))
      BY <1>9, WithoutOfBoth
    <2>2. Targets!Without(lead, N) = front
      <3>1. \A x \in Targets!ToSet(p) : x \in A \cup N <=> x \in A
        BY <1>1, <1>2, <1>10
      <3> HIDE DEF N
      <3>2. Targets!Without(lead, N) = Targets!Without(p, A \cup N)
        BY <1>1, WithoutTwice DEF lead
      <3> QED BY <1>1, <3>1, <3>2, WithoutSame
    <2>3. Targets!Without(q1, N) = Targets!Without(q, X \cup N)
      BY <1>1, WithoutTwice DEF q1
    <2>4. Targets!Without(q, X \cup N) = near
      <3>1. X \cup N = B \cup X
        BY <1>2, <1>10
      <3> QED BY <3>1
    <2> QED BY <2>1, <2>2, <2>3, <2>4
  <1>13. Targets!Without(l, Z) = rest
    <2>1. Z = Y \cup X
      BY <1>2, <1>4, <1>10 DEF Y
    <2> QED BY <2>1
  <1>14. Around(new, l) = Linked(Linked(front, near), Linked(rest, Linked(b1, a)))
    BY <1>3, <1>7, <1>12, <1>13
  \* The one op on what the other makes of the list.
  <1>15. Targets!Without(Around(inner, l), X) = Linked(near, Linked(rest, b1))
    <2> DEFINE u == Targets!Without(q, B)
               w == Targets!Without(l, Y)
    <2>1. u \in Seq(S) /\ w \in Seq(S)
      BY <1>1, WithoutIs
    <2>2. Targets!Without(u, X) = near /\ Targets!Without(w, X) = rest
      <3>1. q \in Seq(S)
        BY <1>1
      <3>2. Targets!Without(Targets!Without(q, B), X) = Targets!Without(q, B \cup X)
        BY <3>1, WithoutTwice
      <3>3. Targets!Without(Targets!Without(l, Y), X) = Targets!Without(l, Y \cup X)
        BY WithoutTwice
      <3> QED BY <3>2, <3>3
    <2>3. Around(inner, l) = Linked(u, Linked(w, b))
      BY <1>6
    <2> HIDE DEF u, w, near, rest
    <2>4. Linked(w, b) \in Seq(S)
      BY <1>1, <2>1, LinkedIs
    <2>5. Targets!Without(Linked(u, Linked(w, b)), X) =
              Linked(Targets!Without(u, X), Targets!Without(Linked(w, b), X))
      BY <2>1, <2>4, WithoutOfBoth
    <2>6. Targets!Without(Linked(w, b), X) = Linked(Targets!Without(w, X), b1)
      BY <1>1, <2>1, WithoutOfBoth DEF b1
    <2> QED BY <2>2, <2>3, <2>5, <2>6
  <1> HIDE DEF front, near, rest
  <1>16. Linked(rest, b1) \in Seq(S) /\ Linked(b1, a) \in Seq(S)
         /\ Linked(rest, Linked(b1, a)) \in Seq(S)
    BY <1>1, <1>9, <1>11, LinkedIs
  <1>17. Linked(Linked(near, Linked(rest, b1)), a) = Linked(near, Linked(rest, Linked(b1, a)))
    <2>1. Linked(Linked(near, Linked(rest, b1)), a) = Linked(near, Linked(Linked(rest, b1), a))
      BY <1>1, <1>11, <1>16, LinkedAgain
    <2>2. Linked(Linked(rest, b1), a) = Linked(rest, Linked(b1, a))
      BY <1>1, <1>9, <1>11, LinkedAgain
    <2> QED BY <2>1, <2>2
  <1>18. Linked(Linked(front, near), Linked(rest, Linked(b1, a))) =
             Linked(front, Linked(near, Linked(rest, Linked(b1, a))))
    BY <1>11, <1>16, LinkedAgain
  <1> QED BY <1>5, <1>14, <1>15, <1>17, <1>18 DEF front

\* A list op composed of two does to every list what the two do one after the other, whatever
\* the items are: ApplyOperations on a list op and on a list (listOp.cpp:405).  The lists that
\* SetItems makes unique are so in both; the list that is edited may be any.
THEOREM ComposedDoesBoth ==
    ASSUME NEW S, NEW op \in OpsOf(S), NEW inner \in OpsOf(S), NEW l \in Seq(S),
           Targets!NoItem \notin S, Unrepeated(op), Unrepeated(inner)
    PROVE  Targets!ComposedRight(op, inner, l)
  <1> DEFINE D == Named(op, "deleted")
             N == Named(op, "prepended") \cup Named(op, "appended")
             X == D \cup Named(op, "prepended") \cup Named(op, "appended")
             Added(s) == Targets!Without(Targets!Without(s, D), N)
             none == <<>>
  <1>0. Targets!Kinds = {"explicit", "added", "prepended", "appended", "deleted", "ordered"}
    BY DEF Targets!Kinds
  <1>1. \A kind \in Targets!Kinds : op.items[kind] \in Seq(S) /\ inner.items[kind] \in Seq(S)
    BY DEF OpsOf
  <1> SUFFICES ASSUME Targets!Composed(op, inner) # Targets!NoListOp
               PROVE  Targets!Applied(Targets!Composed(op, inner), l) =
                          Targets!Applied(op, Targets!Applied(inner, l))
    BY DEF Targets!ComposedRight
  <1>2. CASE op.explicit
    <2>1. Targets!Composed(op, inner) = op
      BY <1>2 DEF Targets!Composed
    <2>2. \A s : Targets!Applied(op, s) = op.items["explicit"]
      BY <1>2, AppliedExplicit
    <2> QED BY <2>1, <2>2
  <1>3. CASE ~op.explicit /\ inner.explicit
    <2> DEFINE e == inner.items["explicit"]
               new == Targets!SetItems(Targets!NewListOp, Targets!Applied(op, e), "explicit")
    <2>1. op.items["added"] = none /\ op.items["ordered"] = none
      BY <1>3 DEF Targets!Composed
    <2>2. Targets!Composed(op, inner) = new
      BY <1>3, <2>1 DEF Targets!Composed
    <2>3. e \in Seq(S) /\ Targets!IsInjective(e)
      BY <1>0, <1>1 DEF Unrepeated
    <2>4. Targets!Applied(inner, l) = e
      BY <1>3, AppliedExplicit
    <2> HIDE DEF e
    <2>5. Targets!Applied(op, e) = Around(op, e)
      BY <1>3, <2>1, <2>3, AppliedIs
    <2>6. Targets!Applied(op, e) \in Seq(S) /\ Targets!IsInjective(Targets!Applied(op, e))
      BY <2>3, <2>5, AroundSingle
    <2>7. /\ new \in OpsOf(S) /\ new.explicit /\ Unrepeated(new)
          /\ new.items["explicit"] = Targets!Applied(op, e)
      BY <2>6, ExplicitIs
    <2> HIDE DEF new
    <2>8. Targets!Applied(new, l) = Targets!Applied(op, e)
      BY <2>7, AppliedExplicit
    <2> QED BY <2>2, <2>4, <2>8
  <1>4. CASE ~op.explicit /\ ~inner.explicit
    <2> DEFINE lead == Targets!Without(op.items["prepended"], Named(op, "appended"))
               p == Linked(lead, Added(inner.items["prepended"]))
               a == Linked(Added(inner.items["appended"]), op.items["appended"])
               d == Targets!Without(Targets!AddKeys(inner.items["deleted"], op.items["deleted"]), N)
               new == Targets!Create(p, a, d)
    <2>1. /\ op.items["added"] = none /\ op.items["ordered"] = none
          /\ inner.items["added"] = none /\ inner.items["ordered"] = none
      BY <1>4 DEF Targets!Composed
    <2>2. Targets!Composed(op, inner) = new
      BY <1>4, <2>1 DEF Targets!Composed, Named, Linked
    <2>3. \A s \in Seq(S) : Added(s) = Targets!Without(s, X)
      <3>1. D \cup N = X
        OBVIOUS
      <3> HIDE DEF D, N, X
      <3> QED BY <3>1, WithoutTwice
    <2>4. /\ op.items["prepended"] \in Seq(S) /\ Targets!IsInjective(op.items["prepended"])
          /\ op.items["appended"] \in Seq(S) /\ Targets!IsInjective(op.items["appended"])
          /\ op.items["deleted"] \in Seq(S)
          /\ inner.items["prepended"] \in Seq(S) /\ Targets!IsInjective(inner.items["prepended"])
          /\ inner.items["appended"] \in Seq(S) /\ Targets!IsInjective(inner.items["appended"])
          /\ inner.items["deleted"] \in Seq(S) /\ Targets!IsInjective(inner.items["deleted"])
      BY <1>0, <1>1 DEF Unrepeated
    <2>5. /\ p = Linked(lead, Targets!Without(inner.items["prepended"], X))
          /\ a = Linked(Targets!Without(inner.items["appended"], X), op.items["appended"])
      BY <2>3, <2>4
    <2>6. /\ Targets!ToSet(op.items["prepended"]) \subseteq X
          /\ Targets!ToSet(op.items["appended"]) \subseteq X
          /\ N = Named(op, "prepended") \cup Named(op, "appended")
          /\ X = Named(op, "deleted") \cup Named(op, "prepended") \cup Named(op, "appended")
      BY DEF Named
    <2> HIDE DEF p, a, X, N, D, lead
    <2>7. p \in Seq(S) /\ Targets!IsInjective(p)
      <3> DEFINE s == Targets!Without(inner.items["prepended"], X)
      <3>1. /\ s \in Seq(S) /\ Targets!IsInjective(s)
            /\ Targets!ToSet(s) = Targets!ToSet(inner.items["prepended"]) \ X
        BY <2>4, WithoutIs, WithoutSingle
      <3> HIDE DEF s
      <3>2. /\ lead \in Seq(S) /\ Targets!IsInjective(lead)
            /\ Targets!ToSet(lead) \subseteq Targets!ToSet(op.items["prepended"])
        BY <2>4, WithoutIs, WithoutSingle DEF lead
      <3>3. Targets!ToSet(lead) \cap Targets!ToSet(s) = {}
        BY <2>6, <3>1, <3>2
      <3> QED BY <2>5, <3>1, <3>2, <3>3, LinkedIs DEF s
    <2>8. a \in Seq(S) /\ Targets!IsInjective(a)
      <3> DEFINE s == Targets!Without(inner.items["appended"], X)
      <3>1. /\ s \in Seq(S) /\ Targets!IsInjective(s)
            /\ Targets!ToSet(s) = Targets!ToSet(inner.items["appended"]) \ X
        BY <2>4, WithoutIs, WithoutSingle
      <3> HIDE DEF s
      <3>2. Targets!ToSet(s) \cap Targets!ToSet(op.items["appended"]) = {}
        BY <2>6, <3>1
      <3> QED BY <2>4, <2>5, <3>1, <3>2, LinkedIs DEF s
    <2>9. /\ d \in Seq(S) /\ Targets!IsInjective(d)
          /\ Targets!ToSet(d) = (Named(inner, "deleted") \cup Named(op, "deleted")) \ N
      <3> DEFINE k == Targets!AddKeys(inner.items["deleted"], op.items["deleted"])
      <3>1. /\ k \in Seq(S) /\ Targets!IsInjective(k)
            /\ Targets!ToSet(k) = Named(inner, "deleted") \cup Named(op, "deleted")
        BY <2>4, KeysAdded DEF Named
      <3> HIDE DEF k
      <3>2. d = Targets!Without(k, N)
        BY DEF k
      <3> HIDE DEF d
      <3> QED BY <3>1, <3>2, WithoutIs, WithoutSingle
    <2> HIDE DEF d
    <2>10. /\ new \in OpsOf(S) /\ ~new.explicit /\ Unrepeated(new)
           /\ new.items["prepended"] = p /\ new.items["appended"] = a
           /\ new.items["deleted"] = d
           /\ new.items["added"] = <<>> /\ new.items["ordered"] = <<>>
      BY <2>7, <2>8, <2>9, CreatedIs
    <2> HIDE DEF new
    <2>11. Targets!Applied(new, l) = Around(new, l)
      BY <2>10, AppliedIs
    <2>12. Targets!Applied(inner, l) = Around(inner, l)
      BY <1>4, <2>1, AppliedIs
    <2>13. Around(inner, l) \in Seq(S)
      BY AroundTyped
    <2>14. Targets!Applied(op, Around(inner, l)) = Around(op, Around(inner, l))
      BY <1>4, <2>1, <2>13, AppliedIs
    <2>15. Named(new, "deleted") = (Named(inner, "deleted") \cup Named(op, "deleted"))
                                       \ (Named(op, "prepended") \cup Named(op, "appended"))
      BY <2>6, <2>9, <2>10 DEF Named
    <2>16. Around(new, l) = Around(op, Around(inner, l))
      <3>1. new \in OpsOf(S)
        BY <2>10
      <3>2. X = Named(op, "deleted") \cup Named(op, "prepended") \cup Named(op, "appended")
        BY <2>6
      <3>3. new.items["prepended"] =
                Linked(Targets!Without(op.items["prepended"], Named(op, "appended")),
                       Targets!Without(inner.items["prepended"], X))
        BY <2>5, <2>10 DEF lead
      <3>4. new.items["appended"] =
                Linked(Targets!Without(inner.items["appended"], X), op.items["appended"])
        BY <2>5, <2>10
      <3> QED BY <2>15, <3>1, <3>2, <3>3, <3>4, ComposedAround, SMTT(30)
    <2> QED BY <2>2, <2>11, <2>12, <2>14, <2>16
  <1> QED BY <1>2, <1>3, <1>4 DEF OpsOf

\* Where an item of a list is, and what it goes with in an order (ListOps, ReorderedRight).
IndexOf(s, x) == CHOOSE i \in DOMAIN s : s[i] = x
OrderedOf(l, order) == Targets!ToSet(order) \cap Targets!ToSet(l)
LeaderOf(l, order, x) ==
    LET ahead == {i \in 1 .. IndexOf(l, x) : l[i] \in OrderedOf(l, order)}
    IN  IF ahead = {} THEN Targets!NoItem
        ELSE l[CHOOSE i \in ahead : \A j \in ahead : j <= i]
RankOf(l, order, x) ==
    IF LeaderOf(l, order, x) = Targets!NoItem THEN 0 ELSE IndexOf(order, LeaderOf(l, order, x))

ByPlace(l) == {p \in Targets!ToSet(l) \X Targets!ToSet(l) : IndexOf(l, p[1]) < IndexOf(l, p[2])}
ByRank(l, order) ==
    {p \in Targets!ToSet(l) \X Targets!ToSet(l) :
        \/ RankOf(l, order, p[1]) < RankOf(l, order, p[2])
        \/ /\ RankOf(l, order, p[1]) = RankOf(l, order, p[2])
           /\ IndexOf(l, p[1]) < IndexOf(l, p[2])}
Ascending(s, R) == \A i, j \in DOMAIN s : i < j => <<s[i], s[j]>> \in R
Part(s, m, n) == SubSeq(s, m, n)

LEMMA IndexIs ==
    ASSUME NEW S, NEW s \in Seq(S), Targets!IsInjective(s)
    PROVE  /\ \A i \in 1 .. Len(s) : IndexOf(s, s[i]) = i
           /\ \A x \in Targets!ToSet(s) : IndexOf(s, x) \in 1 .. Len(s) /\ s[IndexOf(s, x)] = x
  <1>1. DOMAIN s = 1 .. Len(s)
    OBVIOUS
  <1>2. ASSUME NEW i \in 1 .. Len(s)
        PROVE  IndexOf(s, s[i]) = i
    <2>1. IndexOf(s, s[i]) \in DOMAIN s /\ s[IndexOf(s, s[i])] = s[i]
      BY <1>1 DEF IndexOf
    <2> QED BY <1>1, <2>1 DEF Targets!IsInjective
  <1>3. ASSUME NEW x \in Targets!ToSet(s)
        PROVE  IndexOf(s, x) \in 1 .. Len(s) /\ s[IndexOf(s, x)] = x
    <2>1. PICK i \in 1 .. Len(s) : s[i] = x
      BY <1>1 DEF Targets!ToSet
    <2> QED BY <1>2, <2>1
  <1> QED BY <1>2, <1>3

\* The leader of an item is the last item of the order that is not behind it.
LEMMA LeaderIs ==
    ASSUME NEW S, NEW l \in Seq(S), NEW order, Targets!NoItem \notin S, Targets!IsInjective(l),
           NEW y \in Targets!ToSet(l)
    PROVE  LET z == LeaderOf(l, order, y)
           IN  /\ z # Targets!NoItem =>
                      /\ z \in OrderedOf(l, order) /\ z \in Targets!ToSet(l)
                      /\ IndexOf(l, z) <= IndexOf(l, y)
               /\ \A x \in OrderedOf(l, order) :
                     IndexOf(l, x) <= IndexOf(l, y) =>
                         z # Targets!NoItem /\ IndexOf(l, x) <= IndexOf(l, z)
  <1> DEFINE z == LeaderOf(l, order, y)
             at == IndexOf(l, y)
             ahead == {i \in 1 .. at : l[i] \in OrderedOf(l, order)}
             last == CHOOSE i \in ahead : \A j \in ahead : j <= i
  <1>1. /\ at \in 1 .. Len(l) /\ Len(l) \in Nat
        /\ \A i \in 1 .. Len(l) : IndexOf(l, l[i]) = i /\ l[i] \in S
        /\ \A x \in Targets!ToSet(l) : IndexOf(l, x) \in 1 .. Len(l) /\ l[IndexOf(l, x)] = x
    <2>1. Len(l) \in Nat /\ \A i \in 1 .. Len(l) : l[i] \in S
      OBVIOUS
    <2>2. /\ \A i \in 1 .. Len(l) : IndexOf(l, l[i]) = i
          /\ \A x \in Targets!ToSet(l) : IndexOf(l, x) \in 1 .. Len(l) /\ l[IndexOf(l, x)] = x
      BY IndexIs
    <2> QED BY <2>1, <2>2
  <1>2. z = IF ahead = {} THEN Targets!NoItem ELSE l[last]
    BY DEF LeaderOf
  <1>3. \A x \in OrderedOf(l, order) : x \in Targets!ToSet(l)
    BY DEF OrderedOf
  <1> HIDE DEF z, at
  <1>4. ASSUME ahead # {}
        PROVE  last \in ahead /\ \A j \in ahead : j <= last
    <2>1. ahead \in SUBSET (1 .. at) /\ at \in Nat
      BY <1>1
    <2> HIDE DEF ahead
    <2>2. Targets!Max(ahead) \in ahead /\ \A j \in ahead : j <= Targets!Max(ahead)
      BY <1>4, <2>1, LargestIs
    <2> QED BY <2>2
  <1>5. ASSUME z # Targets!NoItem
        PROVE  z \in OrderedOf(l, order) /\ IndexOf(l, z) <= at
    <2>1. ahead # {} /\ z = l[last]
      BY <1>2, <1>5
    <2> HIDE DEF last
    <2>2. last \in 1 .. at /\ l[last] \in OrderedOf(l, order)
      BY <1>4, <2>1
    <2>3. IndexOf(l, z) = last
      BY <1>1, <2>1, <2>2
    <2> QED BY <2>1, <2>2, <2>3
  <1>6. ASSUME NEW x \in OrderedOf(l, order), IndexOf(l, x) <= at
        PROVE  z # Targets!NoItem /\ IndexOf(l, x) <= IndexOf(l, z)
    <2>1. IndexOf(l, x) \in 1 .. Len(l) /\ l[IndexOf(l, x)] = x
      BY <1>1, <1>3
    <2>2. IndexOf(l, x) \in ahead
      BY <1>1, <1>6, <2>1
    <2> HIDE DEF last
    <2>3. z = l[last] /\ last \in 1 .. at /\ IndexOf(l, x) <= last
      BY <1>2, <1>4, <2>2
    <2>4. last \in 1 .. Len(l)
      BY <1>1, <2>3
    <2> QED BY <1>1, <2>3, <2>4
  <1> QED BY <1>3, <1>5, <1>6 DEF z, at

\* What an item of the order goes with is itself.
LEMMA LeaderOfOrdered ==
    ASSUME NEW S, NEW l \in Seq(S), NEW order, Targets!NoItem \notin S, Targets!IsInjective(l),
           NEW x \in OrderedOf(l, order)
    PROVE  LeaderOf(l, order, x) = x
  <1> DEFINE z == LeaderOf(l, order, x)
  <1>1. x \in Targets!ToSet(l)
    BY DEF OrderedOf
  <1>2. /\ \A y \in Targets!ToSet(l) : IndexOf(l, y) \in 1 .. Len(l) /\ l[IndexOf(l, y)] = y
        /\ Len(l) \in Nat
    BY IndexIs
  <1>3. /\ z # Targets!NoItem => z \in Targets!ToSet(l) /\ IndexOf(l, z) <= IndexOf(l, x)
        /\ IndexOf(l, x) <= IndexOf(l, x) =>
               z # Targets!NoItem /\ IndexOf(l, x) <= IndexOf(l, z)
    BY <1>1, LeaderIs
  <1> HIDE DEF z
  <1>4. IndexOf(l, x) <= IndexOf(l, x)
    BY <1>1, <1>2
  <1>5. z \in Targets!ToSet(l) /\ IndexOf(l, z) = IndexOf(l, x)
    BY <1>1, <1>2, <1>3, <1>4
  <1> QED BY <1>1, <1>2, <1>5 DEF z

\* Parts of a list and lists put together.
LEMMA PartIs ==
    ASSUME NEW S, NEW s \in Seq(S), NEW m \in 1 .. Len(s) + 1, NEW n \in (m - 1) .. Len(s)
    PROVE  /\ Part(s, m, n) \in Seq(S) /\ Len(Part(s, m, n)) = (n - m) + 1
           /\ Targets!ToSet(Part(s, m, n)) = {s[i] : i \in m .. n}
           /\ \A R : Ascending(s, R) => Ascending(Part(s, m, n), R)
  <1> DEFINE part == SubSeq(s, m, n)
  <1>1. Len(s) \in Nat /\ DOMAIN s = 1 .. Len(s) /\ \A i \in 1 .. Len(s) : s[i] \in S
    OBVIOUS
  <1>2. /\ part \in Seq(S) /\ Len(part) = IF m <= n THEN (n - m) + 1 ELSE 0
        /\ \A i \in 1 .. (n - m) + 1 : part[i] = s[(m + i) - 1]
    BY <1>1, SubSeqProperties
  <1> HIDE DEF part
  <1>3. Len(part) = (n - m) + 1 /\ DOMAIN part = 1 .. (n - m) + 1
    BY <1>1, <1>2
  <1>4. Targets!ToSet(part) = {s[i] : i \in m .. n}
    <2>1. ASSUME NEW i \in DOMAIN part
          PROVE  part[i] \in {s[j] : j \in m .. n}
      <3>1. part[i] = s[(m + i) - 1] /\ (m + i) - 1 \in m .. n
        BY <1>1, <1>2, <1>3
      <3> QED BY <3>1
    <2>2. ASSUME NEW j \in m .. n
          PROVE  s[j] \in Targets!ToSet(part)
      <3>1. (j - m) + 1 \in DOMAIN part /\ part[(j - m) + 1] = s[j]
        <4>1. (j - m) + 1 \in 1 .. (n - m) + 1 /\ (m + ((j - m) + 1)) - 1 = j
          BY <1>1
        <4> QED BY <1>2, <1>3, <4>1
      <3> QED BY <3>1 DEF Targets!ToSet
    <2>3. \A y \in Targets!ToSet(part) : y \in {s[j] : j \in m .. n}
      BY <2>1 DEF Targets!ToSet
    <2> QED BY <2>2, <2>3
  <1>5. ASSUME NEW R, Ascending(s, R)
        PROVE  Ascending(part, R)
    <2> SUFFICES ASSUME NEW i \in DOMAIN part, NEW j \in DOMAIN part, i < j
                 PROVE  <<part[i], part[j]>> \in R
      BY DEF Ascending
    <2>1. /\ part[i] = s[(m + i) - 1] /\ part[j] = s[(m + j) - 1]
          /\ (m + i) - 1 \in DOMAIN s /\ (m + j) - 1 \in DOMAIN s /\ (m + i) - 1 < (m + j) - 1
      BY <1>1, <1>2, <1>3
    <2> QED BY <1>5, <2>1 DEF Ascending
  <1>6. Part(s, m, n) = part
    BY DEF Part, part
  <1> QED BY <1>2, <1>3, <1>4, <1>5, <1>6

LEMMA BothAscending ==
    ASSUME NEW S, NEW s \in Seq(S), NEW t \in Seq(S), NEW R, Ascending(s, R), Ascending(t, R),
           \A x \in Targets!ToSet(s), y \in Targets!ToSet(t) : <<x, y>> \in R
    PROVE  Ascending(Linked(s, t), R) /\ Len(Linked(s, t)) = Len(s) + Len(t)
  <1> DEFINE both == s \o t
  <1>1. /\ both \in Seq(S) /\ Len(s) \in Nat /\ Len(t) \in Nat /\ Len(both) = Len(s) + Len(t)
        /\ DOMAIN s = 1 .. Len(s) /\ DOMAIN t = 1 .. Len(t) /\ DOMAIN both = 1 .. Len(s) + Len(t)
        /\ \A i \in 1 .. Len(s) + Len(t) : both[i] = IF i <= Len(s) THEN s[i] ELSE t[i - Len(s)]
    BY ConcatProperties
  <1> HIDE DEF both
  <1>2. Ascending(both, R)
    <2> SUFFICES ASSUME NEW i \in DOMAIN both, NEW j \in DOMAIN both, i < j
                 PROVE  <<both[i], both[j]>> \in R
      BY DEF Ascending
    <2>1. CASE j <= Len(s)
      <3>1. both[i] = s[i] /\ both[j] = s[j] /\ i \in DOMAIN s /\ j \in DOMAIN s
        BY <1>1, <2>1
      <3> QED BY <3>1 DEF Ascending
    <2>2. CASE i > Len(s)
      <3>1. /\ both[i] = t[i - Len(s)] /\ both[j] = t[j - Len(s)]
            /\ i - Len(s) \in DOMAIN t /\ j - Len(s) \in DOMAIN t /\ i - Len(s) < j - Len(s)
        BY <1>1, <2>2
      <3> QED BY <3>1 DEF Ascending
    <2>3. CASE i <= Len(s) /\ j > Len(s)
      <3>1. both[i] = s[i] /\ i \in DOMAIN s /\ both[j] = t[j - Len(s)] /\ j - Len(s) \in DOMAIN t
        BY <1>1, <2>3
      <3> QED BY <3>1 DEF Targets!ToSet
    <2> QED BY <1>1, <2>1, <2>2, <2>3
  <1> QED BY <1>1, <1>2 DEF both, Linked

\* What TakeAlong takes: the item and what is behind it up to the next item of the order.
Takes(r, x, order, at, end) ==
    LET s == r.scratch
    IN  /\ at \in 1 .. Len(s) /\ s[at] = x /\ end \in at + 1 .. Len(s) + 1
        /\ end \in 1 .. Len(s) => s[end] \in Targets!ToSet(order)
        /\ \A j \in at + 1 .. end - 1 : s[j] \notin Targets!ToSet(order)
        /\ Targets!TakeAlong(r, x, order) =
               [result |-> Linked(r.result, Part(s, at, end - 1)),
                scratch |-> Linked(Part(s, 1, at - 1), Part(s, end, Len(s)))]

LEMMA TakeAlongIs ==
    ASSUME NEW S, NEW r \in Taking(S), NEW x, NEW order
    PROVE  /\ x \notin Targets!ToSet(r.scratch) => Targets!TakeAlong(r, x, order) = r
           /\ x \in Targets!ToSet(r.scratch) => \E at, end : Takes(r, x, order, at, end)
  <1> DEFINE s == r.scratch
             at == FirstPlace(s, x)
             ends == {j \in at + 1 .. Len(s) : s[j] \in Targets!ToSet(order)} \cup {Len(s) + 1}
             end == CHOOSE j \in ends : \A k \in ends : j <= k
  <1>1. Targets!TakeAlong(r, x, order) =
            IF at = 0 THEN r
            ELSE [result |-> r.result \o SubSeq(s, at, end - 1),
                  scratch |-> SubSeq(s, 1, at - 1) \o SubSeq(s, end, Len(s))]
    BY DEF Targets!TakeAlong, Targets!SelectInSeq, FirstPlace
  <1>2. s \in Seq(S) /\ Len(s) \in Nat
    BY DEF Taking
  <1>0. s = r.scratch
    OBVIOUS
  <1> HIDE DEF s
  <1>3. at \in 0 .. Len(s) /\ (at = 0 <=> x \notin Targets!ToSet(s)) /\ (at # 0 => s[at] = x)
    BY <1>2, PlaceIs
  <1> HIDE DEF at
  <1>4. ends \subseteq Nat /\ ends # {} /\ ends \subseteq at + 1 .. Len(s) + 1
    BY <1>2, <1>3
  <1>5. end \in ends /\ \A k \in ends : end <= k
    <2> HIDE DEF ends
    <2> QED BY <1>4, LeastNumber
  <1> HIDE DEF end
  <1>6. ASSUME x \in Targets!ToSet(s)
        PROVE  Takes(r, x, order, at, end)
    <2>1. at \in 1 .. Len(s) /\ s[at] = x /\ end \in at + 1 .. Len(s) + 1
      BY <1>2, <1>3, <1>4, <1>5, <1>6
    <2>2. end \in 1 .. Len(s) => s[end] \in Targets!ToSet(order)
      BY <1>2, <1>5
    <2>3. ASSUME NEW j \in at + 1 .. end - 1
          PROVE  s[j] \notin Targets!ToSet(order)
      <3>1. j \in at + 1 .. Len(s) /\ ~(end <= j)
        BY <1>2, <2>1
      <3> QED BY <1>5, <3>1
    <2>4. Targets!TakeAlong(r, x, order) =
              [result |-> r.result \o SubSeq(s, at, end - 1),
               scratch |-> SubSeq(s, 1, at - 1) \o SubSeq(s, end, Len(s))]
      BY <1>1, <1>3, <1>6
    <2> HIDE DEF ends
    <2> QED BY <1>0, <2>1, <2>2, <2>3, <2>4, Zenon DEF Takes, Linked, Part
  <1> QED BY <1>0, <1>1, <1>3, <1>6

\* The list after the first k items of the order: what goes with them is in the result, sorted.
Led(l, order, K) == {y \in Targets!ToSet(l) : LeaderOf(l, order, y) \in K}
Sorting(r, S, l, order, k) ==
    /\ r \in Taking(S)
    /\ Targets!ToSet(r.result) = Led(l, order, UpTo(order, k))
    /\ Targets!ToSet(r.scratch) = Targets!ToSet(l) \ Led(l, order, UpTo(order, k))
    /\ Len(r.result) + Len(r.scratch) = Len(l)
    /\ Ascending(r.result, ByRank(l, order)) /\ Ascending(r.scratch, ByPlace(l))

LEMMA TakeAlongSorts ==
    ASSUME NEW S, NEW l \in Seq(S), NEW order \in Seq(S), Targets!NoItem \notin S,
           Targets!IsInjective(l), Targets!IsInjective(order),
           NEW k \in 1 .. Len(order), NEW r, Sorting(r, S, l, order, k - 1)
    PROVE  Sorting(Targets!TakeAlong(r, order[k], order), S, l, order, k)
  <1> DEFINE x == order[k]
             T == Targets!ToSet(l)
             s == r.scratch
             K == UpTo(order, k - 1)
             Lead(y) == LeaderOf(l, order, y)
             At(y) == IndexOf(l, y)
  <1>1. /\ r \in Taking(S) /\ r.result \in Seq(S) /\ s \in Seq(S)
        /\ Targets!ToSet(r.result) = Led(l, order, K)
        /\ Targets!ToSet(s) = T \ Led(l, order, K)
        /\ Len(r.result) + Len(s) = Len(l)
        /\ Ascending(r.result, ByRank(l, order)) /\ Ascending(s, ByPlace(l))
    BY DEF Sorting, Taking
  <1>2. /\ x \in S /\ x \in Targets!ToSet(order) /\ UpTo(order, k) = K \cup {x} /\ x \notin K
    <2>1. x \in S /\ x \in Targets!ToSet(order)
      BY DEF Targets!ToSet
    <2>2. UpTo(order, k) = K \cup {x} /\ x \notin K
      BY UpToNext
    <2> QED BY <2>1, <2>2
  <1>3. \A y \in T : At(y) \in 1 .. Len(l)
    BY IndexIs
  <1>4. \A y, z \in T : At(y) = At(z) => y = z
    <2>1. \A y \in T : l[At(y)] = y
      BY IndexIs
    <2> HIDE DEF T, At
    <2> QED BY <2>1
  <1>5. ASSUME NEW y \in T
        PROVE  /\ Lead(y) # Targets!NoItem =>
                      /\ Lead(y) \in OrderedOf(l, order) /\ Lead(y) \in T
                      /\ At(Lead(y)) <= At(y)
               /\ \A z \in OrderedOf(l, order) :
                     At(z) <= At(y) => Lead(y) # Targets!NoItem /\ At(z) <= At(Lead(y))
    BY LeaderIs
  <1>6. \A y \in OrderedOf(l, order) : Lead(y) = y /\ y \in T
    BY LeaderOfOrdered DEF OrderedOf
  <1>7. CASE x \notin T
    <2>1. x \notin Targets!ToSet(s)
      BY <1>1, <1>7
    <2>2. Targets!TakeAlong(r, x, order) = r
      BY <1>1, <2>1, TakeAlongIs
    <2>3. Led(l, order, K \cup {x}) = Led(l, order, K)
      <3>1. ASSUME NEW y \in T
            PROVE  Lead(y) # x
        BY <1>2, <1>5, <1>7
      <3> QED BY <3>1 DEF Led
    <2> QED BY <1>1, <1>2, <2>2, <2>3 DEF Sorting
  <1>8. CASE x \in T
    <2>1. x \in OrderedOf(l, order)
      BY <1>2, <1>8 DEF OrderedOf
    <2>2. Lead(x) = x
      BY <1>6, <2>1
    <2>3. x \in Targets!ToSet(s)
      BY <1>1, <1>2, <1>8, <2>2 DEF Led
    <2>4. PICK at, end : Takes(r, x, order, at, end)
      BY <1>1, <2>3, TakeAlongIs
    <2> DEFINE n == Len(s)
               ahead == Part(s, 1, at - 1)
               taken == Part(s, at, end - 1)
               after == Part(s, end, Len(s))
               new == Targets!TakeAlong(r, x, order)
    <2>5. /\ at \in 1 .. n /\ s[at] = x /\ end \in at + 1 .. n + 1 /\ n \in Nat
          /\ end \in 1 .. n => s[end] \in Targets!ToSet(order)
          /\ \A j \in at + 1 .. end - 1 : s[j] \notin Targets!ToSet(order)
          /\ new = [result |-> Linked(r.result, taken), scratch |-> Linked(ahead, after)]
      BY <1>1, <2>4 DEF Takes
    <2>6. /\ DOMAIN s = 1 .. n /\ Targets!ToSet(s) = {s[i] : i \in 1 .. n}
          /\ \A i \in 1 .. n : s[i] \in Targets!ToSet(s) /\ s[i] \in T
          /\ \A i, j \in 1 .. n : i < j => At(s[i]) < At(s[j])
      <3>1. DOMAIN s = 1 .. n
        BY <1>1
      <3>2. Targets!ToSet(s) = {s[i] : i \in 1 .. n}
        BY <3>1 DEF Targets!ToSet
      <3>3. \A i, j \in 1 .. n : i < j => At(s[i]) < At(s[j])
        BY <1>1, <3>1 DEF Ascending, ByPlace
      <3> QED BY <1>1, <3>1, <3>2, <3>3
    <2>7. \A i, j \in 1 .. n : At(s[i]) < At(s[j]) => i < j
      <3> SUFFICES ASSUME NEW i \in 1 .. n, NEW j \in 1 .. n, At(s[i]) < At(s[j]), ~(i < j)
                   PROVE  FALSE
        OBVIOUS
      <3>1. At(s[i]) \in Nat /\ At(s[j]) \in Nat
        BY <1>3, <2>6
      <3>2. i = j \/ j < i
        BY <2>5
      <3> HIDE DEF At, n
      <3> QED BY <2>6, <3>1, <3>2
    <2> HIDE DEF x, s, T, K, Lead, At, ahead, taken, after, new, n
    \* What is taken is what x leads.
    <2>8. \A i \in 1 .. n : Lead(s[i]) = x <=> i \in at .. end - 1
      <3> SUFFICES ASSUME NEW i \in 1 .. n
                   PROVE  Lead(s[i]) = x <=> i \in at .. end - 1
        OBVIOUS
      <3> DEFINE y == s[i]
                 z == Lead(y)
      <3>1. y \in T /\ y \in Targets!ToSet(s) /\ At(y) \in Nat
        BY <1>3, <2>6
      <3>2. ASSUME z = x
            PROVE  i \in at .. end - 1
        <4>1. z # Targets!NoItem
          BY <1>2, <3>2
        <4>2. At(x) <= At(y)
          BY <1>5, <3>1, <3>2, <4>1
        <4>3. at <= i
          <5>1. ASSUME i < at
                PROVE  FALSE
            <6>1. At(y) < At(x)
              BY <2>5, <2>6, <5>1
            <6>2. At(x) \in Nat /\ At(y) \in Nat
              BY <1>3, <1>8, <3>1
            <6> HIDE DEF y, z
            <6> QED BY <4>2, <6>1, <6>2
          <5> QED BY <2>5, <5>1
        <4>4. ASSUME end <= i
              PROVE  FALSE
          <5>1. end \in 1 .. n /\ s[end] \in Targets!ToSet(order) /\ s[end] \in T
            BY <2>5, <2>6, <4>4
          <5>2. s[end] \in OrderedOf(l, order)
            BY <5>1 DEF OrderedOf, T
          <5>3. At(s[end]) <= At(y)
            <6>1. CASE end = i
              BY <3>1, <6>1
            <6>2. CASE end < i
              BY <1>3, <2>6, <3>1, <5>1, <6>2
            <6> QED BY <2>5, <4>4, <6>1, <6>2
          <5>4. At(s[end]) <= At(x)
            BY <1>5, <3>1, <3>2, <5>2, <5>3
          <5>5. At(x) < At(s[end])
            BY <2>5, <2>6, <5>1
          <5> QED BY <1>3, <1>8, <5>1, <5>4, <5>5
        <4> QED BY <2>5, <4>3, <4>4
      <3>3. ASSUME i \in at .. end - 1
            PROVE  z = x
        <4>1. CASE i = at
          BY <2>2, <2>5, <4>1
        <4>2. CASE i # at
          <5>1. i \in at + 1 .. end - 1 /\ at < i
            BY <2>5, <3>3, <4>2
          <5>2. At(x) < At(y) /\ y \notin Targets!ToSet(order)
            BY <2>5, <2>6, <5>1
          <5>3. z # Targets!NoItem /\ At(x) <= At(z)
            BY <1>3, <1>5, <1>8, <2>1, <3>1, <5>2
          <5>4. z \in OrderedOf(l, order) /\ z \in T /\ At(z) <= At(y)
            BY <1>5, <3>1, <5>3
          <5>5. Lead(z) = z /\ z \in Targets!ToSet(order)
            BY <1>6, <5>4 DEF OrderedOf
          <5>6. z \in Targets!ToSet(s)
            BY <1>1, <3>1, <5>4, <5>5 DEF Led, T, Lead
          <5>7. PICK p \in 1 .. n : s[p] = z
            BY <2>6, <5>6
          <5>8. SUFFICES ASSUME z # x
                         PROVE  FALSE
            OBVIOUS
          <5>9. At(x) < At(z) /\ At(z) < At(y)
            <6>1. At(x) # At(z) /\ At(z) # At(y)
              BY <1>4, <1>8, <3>1, <5>2, <5>4, <5>5, <5>8
            <6> QED BY <1>3, <1>8, <3>1, <5>3, <5>4, <6>1
          <5>10. at < p /\ p < i
            BY <2>5, <2>7, <5>7, <5>9
          <5>11. p \in at + 1 .. end - 1
            BY <2>5, <5>1, <5>10
          <5> QED BY <2>5, <5>5, <5>7, <5>11
        <4> QED BY <4>1, <4>2
      <3> QED BY <3>2, <3>3
    <2>9. /\ ahead \in Seq(S) /\ taken \in Seq(S) /\ after \in Seq(S)
          /\ Len(ahead) = at - 1 /\ Len(taken) = end - at /\ Len(after) = (n - end) + 1
          /\ Targets!ToSet(ahead) = {s[i] : i \in 1 .. at - 1}
          /\ Targets!ToSet(taken) = {s[i] : i \in at .. end - 1}
          /\ Targets!ToSet(after) = {s[i] : i \in end .. n}
          /\ Ascending(ahead, ByPlace(l)) /\ Ascending(taken, ByPlace(l))
          /\ Ascending(after, ByPlace(l))
      <3>1. /\ 1 \in 1 .. Len(s) + 1 /\ at - 1 \in (1 - 1) .. Len(s)
            /\ at \in 1 .. Len(s) + 1 /\ end - 1 \in (at - 1) .. Len(s)
            /\ end \in 1 .. Len(s) + 1 /\ Len(s) \in (end - 1) .. Len(s)
        BY <2>5 DEF n
      <3>2. /\ ahead \in Seq(S) /\ Len(ahead) = ((at - 1) - 1) + 1
            /\ Targets!ToSet(ahead) = {s[i] : i \in 1 .. at - 1}
            /\ Ascending(ahead, ByPlace(l))
        <4> DEFINE from == 1
                   to == at - 1
        <4>1. ahead = Part(s, from, to)
          BY DEF ahead
        <4>2. s \in Seq(S) /\ from \in 1 .. Len(s) + 1 /\ to \in (from - 1) .. Len(s)
          BY <1>1, <3>1
        <4>3. {s[i] : i \in 1 .. at - 1} = {s[i] : i \in from .. to}
          OBVIOUS
        <4> HIDE DEF from, to
        <4>4. /\ Part(s, from, to) \in Seq(S) /\ Len(Part(s, from, to)) = (to - from) + 1
              /\ Targets!ToSet(Part(s, from, to)) = {s[i] : i \in from .. to}
              /\ \A R : Ascending(s, R) => Ascending(Part(s, from, to), R)
          BY <4>2, PartIs
        <4>5. Ascending(ahead, ByPlace(l)) /\ ahead \in Seq(S)
          BY <1>1, <4>1, <4>4
        <4>6. Len(ahead) = ((at - 1) - 1) + 1
          BY <4>1, <4>4 DEF from, to
        <4>7. Targets!ToSet(ahead) = {s[i] : i \in 1 .. at - 1}
          BY <4>1, <4>3, <4>4
        <4> QED BY <4>5, <4>6, <4>7
      <3>3. /\ taken \in Seq(S) /\ Len(taken) = ((end - 1) - at) + 1
            /\ Targets!ToSet(taken) = {s[i] : i \in at .. end - 1}
            /\ Ascending(taken, ByPlace(l))
        <4> DEFINE from == at
                   to == end - 1
        <4>1. taken = Part(s, from, to)
          BY DEF taken
        <4>2. s \in Seq(S) /\ from \in 1 .. Len(s) + 1 /\ to \in (from - 1) .. Len(s)
          BY <1>1, <3>1
        <4>3. {s[i] : i \in at .. end - 1} = {s[i] : i \in from .. to}
          OBVIOUS
        <4> HIDE DEF from, to
        <4>4. /\ Part(s, from, to) \in Seq(S) /\ Len(Part(s, from, to)) = (to - from) + 1
              /\ Targets!ToSet(Part(s, from, to)) = {s[i] : i \in from .. to}
              /\ \A R : Ascending(s, R) => Ascending(Part(s, from, to), R)
          BY <4>2, PartIs
        <4>5. Ascending(taken, ByPlace(l)) /\ taken \in Seq(S)
          BY <1>1, <4>1, <4>4
        <4>6. Len(taken) = ((end - 1) - at) + 1
          BY <4>1, <4>4 DEF from, to
        <4>7. Targets!ToSet(taken) = {s[i] : i \in at .. end - 1}
          BY <4>1, <4>3, <4>4
        <4> QED BY <4>5, <4>6, <4>7
      <3>4. /\ after \in Seq(S) /\ Len(after) = (Len(s) - end) + 1
            /\ Targets!ToSet(after) = {s[i] : i \in end .. Len(s)}
            /\ Ascending(after, ByPlace(l))
        <4> DEFINE from == end
                   to == Len(s)
        <4>1. after = Part(s, from, to)
          BY DEF after
        <4>2. s \in Seq(S) /\ from \in 1 .. Len(s) + 1 /\ to \in (from - 1) .. Len(s)
          BY <1>1, <3>1
        <4>3. {s[i] : i \in end .. Len(s)} = {s[i] : i \in from .. to}
          OBVIOUS
        <4> HIDE DEF from, to
        <4>4. /\ Part(s, from, to) \in Seq(S) /\ Len(Part(s, from, to)) = (to - from) + 1
              /\ Targets!ToSet(Part(s, from, to)) = {s[i] : i \in from .. to}
              /\ \A R : Ascending(s, R) => Ascending(Part(s, from, to), R)
          BY <4>2, PartIs
        <4>5. Ascending(after, ByPlace(l)) /\ after \in Seq(S)
          BY <1>1, <4>1, <4>4
        <4>6. Len(after) = (Len(s) - end) + 1
          BY <4>1, <4>4 DEF from, to
        <4>7. Targets!ToSet(after) = {s[i] : i \in end .. Len(s)}
          BY <4>1, <4>3, <4>4
        <4> QED BY <4>5, <4>6, <4>7
      <3>5. Len(ahead) = at - 1 /\ Len(taken) = end - at
        BY <2>5, <3>2, <3>3
      <3>6. Len(after) = (n - end) + 1 /\ Targets!ToSet(after) = {s[i] : i \in end .. n}
        BY <3>4 DEF n
      <3> QED BY <3>2, <3>3, <3>4, <3>5, <3>6, Zenon
    <2>10. /\ Targets!ToSet(taken) = {y \in Targets!ToSet(s) : Lead(y) = x}
           /\ Targets!ToSet(ahead) \cup Targets!ToSet(after) =
                  {y \in Targets!ToSet(s) : Lead(y) # x}
      <3>1. 1 .. n = (1 .. at - 1) \cup (at .. end - 1) \cup (end .. n)
            /\ \A i \in (1 .. at - 1) \cup (end .. n) : i \notin at .. end - 1
        BY <2>5
      <3>2. \A i \in 1 .. at - 1 : i \in 1 .. n /\ Lead(s[i]) # x
        BY <2>8, <3>1
      <3>3. \A i \in end .. n : i \in 1 .. n /\ Lead(s[i]) # x
        BY <2>8, <3>1
      <3>4. \A i \in at .. end - 1 : i \in 1 .. n /\ Lead(s[i]) = x
        BY <2>8, <3>1
      <3>5. \A i \in 1 .. n : i \in 1 .. at - 1 \/ i \in at .. end - 1 \/ i \in end .. n
        BY <3>1
      <3>6. Targets!ToSet(taken) = {y \in Targets!ToSet(s) : Lead(y) = x}
        BY <2>6, <2>9, <3>2, <3>3, <3>4, <3>5
      <3>7. ASSUME NEW y \in Targets!ToSet(ahead) \cup Targets!ToSet(after)
            PROVE  y \in Targets!ToSet(s) /\ Lead(y) # x
        BY <2>6, <2>9, <3>2, <3>3
      <3>8. ASSUME NEW y \in Targets!ToSet(s), Lead(y) # x
            PROVE  y \in Targets!ToSet(ahead) \cup Targets!ToSet(after)
        <4>1. PICK i \in 1 .. n : s[i] = y
          BY <2>6
        <4>2. i \in 1 .. at - 1 \/ i \in end .. n
          BY <3>4, <3>5, <3>8, <4>1
        <4> QED BY <2>9, <4>1, <4>2
      <3> QED BY <3>6, <3>7, <3>8
    <2>11. Led(l, order, K \cup {x}) = Led(l, order, K) \cup Targets!ToSet(taken)
      BY <1>1, <1>2, <2>10 DEF Led, T, Lead
    <2>12. /\ new \in Taking(S)
           /\ Targets!ToSet(new.result) = Led(l, order, K \cup {x})
           /\ Targets!ToSet(new.scratch) = T \ Led(l, order, K \cup {x})
      <3>1. /\ Linked(r.result, taken) \in Seq(S) /\ Linked(ahead, after) \in Seq(S)
            /\ Targets!ToSet(Linked(r.result, taken)) =
                   Targets!ToSet(r.result) \cup Targets!ToSet(taken)
            /\ Targets!ToSet(Linked(ahead, after)) =
                   Targets!ToSet(ahead) \cup Targets!ToSet(after)
        <4>1. r.result \in Seq(S) /\ taken \in Seq(S)
          BY <1>1, <2>9
        <4>2. ahead \in Seq(S) /\ after \in Seq(S)
          BY <2>9
        <4>3. /\ Linked(r.result, taken) \in Seq(S)
              /\ Targets!ToSet(Linked(r.result, taken)) =
                     Targets!ToSet(r.result) \cup Targets!ToSet(taken)
          BY <4>1, LinkedIs
        <4>4. /\ Linked(ahead, after) \in Seq(S)
              /\ Targets!ToSet(Linked(ahead, after)) =
                     Targets!ToSet(ahead) \cup Targets!ToSet(after)
          BY <4>2, LinkedIs
        <4> QED BY <4>3, <4>4
      <3>2. /\ new.result = Linked(r.result, taken) /\ new.scratch = Linked(ahead, after)
            /\ new \in Taking(S)
        BY <2>5, <3>1 DEF Taking
      <3>3. Targets!ToSet(new.result) = Led(l, order, K \cup {x})
        BY <1>1, <2>11, <3>1, <3>2
      <3>4. Targets!ToSet(new.scratch) = T \ Led(l, order, K \cup {x})
        BY <1>1, <2>10, <2>11, <3>1, <3>2
      <3> QED BY <3>2, <3>3, <3>4
    <2>13. Ascending(taken, ByRank(l, order))
      <3>1. \A i \in DOMAIN taken : taken[i] \in Targets!ToSet(taken)
        BY DEF Targets!ToSet
      <3>2. \A y \in Targets!ToSet(taken) : RankOf(l, order, y) = IndexOf(order, x) /\ y \in T
        <4>1. \A y \in Targets!ToSet(taken) : Lead(y) = x /\ y \in T /\ x # Targets!NoItem
          BY <1>1, <1>2, <2>10
        <4> QED BY <4>1 DEF RankOf, Lead
      <3>3. ASSUME NEW i \in DOMAIN taken, NEW j \in DOMAIN taken, i < j
            PROVE  <<taken[i], taken[j]>> \in ByRank(l, order)
        <4>1. <<taken[i], taken[j]>> \in ByPlace(l)
          BY <2>9, <3>3 DEF Ascending
        <4>2. IndexOf(l, taken[i]) < IndexOf(l, taken[j])
          BY <4>1 DEF ByPlace
        <4>3. RankOf(l, order, taken[i]) = RankOf(l, order, taken[j])
          BY <3>1, <3>2
        <4> QED BY <3>1, <3>2, <4>2, <4>3 DEF ByRank, T
      <3> QED BY <3>3 DEF Ascending
    <2>14. \A y \in Targets!ToSet(r.result), z \in Targets!ToSet(taken) :
              <<y, z>> \in ByRank(l, order)
      <3> SUFFICES ASSUME NEW y \in Targets!ToSet(r.result), NEW z \in Targets!ToSet(taken)
                   PROVE  <<y, z>> \in ByRank(l, order)
        OBVIOUS
      <3>1. y \in T /\ Lead(y) \in K /\ z \in T /\ Lead(z) = x
        BY <1>1, <2>10 DEF Led, T, Lead
      <3>2. PICK j \in 1 .. k - 1 : Lead(y) = order[j]
        BY <3>1 DEF K, UpTo
      <3>3. j \in 1 .. Len(order) /\ order[j] \in S /\ j < k
        OBVIOUS
      <3>4. Lead(y) # Targets!NoItem /\ Lead(z) # Targets!NoItem
        BY <1>2, <3>1, <3>2, <3>3
      <3>5. IndexOf(order, order[j]) = j /\ IndexOf(order, order[k]) = k
        BY <3>3, IndexIs
      <3>6. RankOf(l, order, y) = j /\ RankOf(l, order, z) = k
        BY <3>1, <3>2, <3>4, <3>5 DEF RankOf, Lead, x
      <3> QED BY <3>1, <3>3, <3>6 DEF ByRank, T
    <2>15. \A y \in Targets!ToSet(ahead), z \in Targets!ToSet(after) : <<y, z>> \in ByPlace(l)
      <3> SUFFICES ASSUME NEW i \in 1 .. at - 1, NEW j \in end .. n
                   PROVE  <<s[i], s[j]>> \in ByPlace(l)
        BY <2>9
      <3>1. i \in 1 .. n /\ j \in 1 .. n /\ i < j
        BY <2>5
      <3> QED BY <2>6, <3>1 DEF ByPlace, T, At
    <2>16. /\ Ascending(new.result, ByRank(l, order)) /\ Ascending(new.scratch, ByPlace(l))
           /\ Len(new.result) + Len(new.scratch) = Len(l)
      <3>1. /\ Ascending(Linked(r.result, taken), ByRank(l, order))
            /\ Len(Linked(r.result, taken)) = Len(r.result) + Len(taken)
        BY <1>1, <2>9, <2>13, <2>14, BothAscending
      <3>2. /\ Ascending(Linked(ahead, after), ByPlace(l))
            /\ Len(Linked(ahead, after)) = Len(ahead) + Len(after)
        BY <2>9, <2>15, BothAscending
      <3>3. Len(taken) + (Len(ahead) + Len(after)) = n
        BY <2>5, <2>9
      <3>4. /\ Len(r.result) \in Nat /\ Len(taken) \in Nat /\ Len(ahead) \in Nat
            /\ Len(after) \in Nat /\ Len(r.result) + n = Len(l)
        BY <1>1, <2>9 DEF n
      <3>5. new.result = Linked(r.result, taken) /\ new.scratch = Linked(ahead, after)
        BY <2>5
      <3>6. /\ Len(new.result) = Len(r.result) + Len(taken)
            /\ Len(new.scratch) = Len(ahead) + Len(after)
        BY <3>1, <3>2, <3>5
      <3>7. Len(new.result) + Len(new.scratch) = Len(l)
        <4> DEFINE kept == Len(r.result)
                   got == Len(taken)
                   left == Len(ahead)
                   right == Len(after)
                   first == Len(new.result)
                   second == Len(new.scratch)
        <4>1. /\ kept \in Nat /\ got \in Nat /\ left \in Nat /\ right \in Nat
              /\ first = kept + got /\ second = left + right
              /\ got + (left + right) = n /\ kept + n = Len(l)
          BY <3>3, <3>4, <3>6
        <4> HIDE DEF kept, got, left, right, first, second, n
        <4>2. first + second = Len(l)
          BY <4>1
        <4> QED BY <4>2 DEF first, second
      <3> QED BY <3>1, <3>2, <3>5, <3>7
    <2> QED BY <1>2, <2>12, <2>16 DEF Sorting, new, x, T
  <1> QED BY <1>7, <1>8

TakingAlong(c, X, seq, s, order) ==
    /\ c \in [0 .. Len(s) -> X] /\ c[0] = [result |-> <<>>, scratch |-> seq]
    /\ Targets!TakenAlong(seq, order) = c[Len(s)]
    /\ \A k \in 1 .. Len(s) : c[k] = Targets!TakeAlong(c[k - 1], s[k], order)

LEMMA TakenAlongBy ==
    ASSUME NEW X, NEW I, NEW seq, NEW order, NEW s \in Seq(I), s = Targets!MakeUnique(order),
           [result |-> <<>>, scratch |-> seq] \in X,
           \A x \in X, i \in I : Targets!TakeAlong(x, i, order) \in X
    PROVE  \E c : TakingAlong(c, X, seq, s, order)
  <1> DEFINE b == [result |-> <<>>, scratch |-> seq]
  <1>1. b \in X /\ b = [result |-> <<>>, scratch |-> seq]
    OBVIOUS
  <1> HIDE DEF b
  <1>2. \E c \in [0 .. Len(s) -> X] :
           /\ c[0] = b /\ Targets!TakenAlong(seq, order) = c[Len(s)]
           /\ \A k \in 1 .. Len(s) : c[k] = Targets!TakeAlong(c[k - 1], s[k], order)
    BY <1>1, TakenAlongFold
  <1> QED BY <1>1, <1>2, Zenon DEF TakingAlong

LEMMA TakenAlongStepwise ==
    ASSUME NEW S, NEW l \in Seq(S), NEW order \in Seq(S), Targets!IsInjective(order)
    PROVE  \E c : TakingAlong(c, Taking(S), l, order, order)
  <1>1. [result |-> <<>>, scratch |-> l] \in Taking(S)
    BY DEF Taking
  <1>2. order = Targets!MakeUnique(order)
    BY UniqueAlready
  <1>3. \A x \in Taking(S), i \in S : Targets!TakeAlong(x, i, order) \in Taking(S)
    BY TakeAlongTyped
  <1> QED BY <1>1, <1>2, <1>3, TakenAlongBy, Zenon

\* Once every item of the order has taken its followers, what it leads is in the result.
LEMMA TakenAlongSorts ==
    ASSUME NEW S, NEW l \in Seq(S), NEW order \in Seq(S), Targets!NoItem \notin S,
           Targets!IsInjective(l), Targets!IsInjective(order)
    PROVE  /\ Sorting(Targets!TakenAlong(l, order), S, l, order, Len(order))
           /\ order = <<>> => Targets!TakenAlong(l, order) = [result |-> <<>>, scratch |-> l]
  <1> DEFINE n == Len(order)
             b == [result |-> <<>>, scratch |-> l]
  <1>1. PICK c : TakingAlong(c, Taking(S), l, order, order)
    BY TakenAlongStepwise
  <1> DEFINE T == {k \in 0 .. n : Sorting(c[k], S, l, order, k)}
  <1>2. /\ n \in Nat /\ c[0] = b /\ Targets!TakenAlong(l, order) = c[n]
        /\ \A k \in 1 .. n : c[k] = Targets!TakeAlong(c[k - 1], order[k], order)
    BY <1>1 DEF TakingAlong
  <1>3. Sorting(b, S, l, order, 0)
    <2>1. b \in Taking(S) /\ b.result = <<>> /\ b.scratch = l /\ Len(b.result) = 0
      BY DEF Taking
    <2>2. UpTo(order, 0) = {}
      BY UpToNext
    <2>3. Led(l, order, UpTo(order, 0)) = {}
      BY <2>2 DEF Led
    <2>4. Targets!ToSet(b.result) = {} /\ Ascending(b.result, ByRank(l, order))
      BY <2>1 DEF Targets!ToSet, Ascending
    <2>5. Ascending(l, ByPlace(l))
      <3>1. /\ DOMAIN l = 1 .. Len(l) /\ Len(l) \in Nat
            /\ \A i \in 1 .. Len(l) : IndexOf(l, l[i]) = i /\ l[i] \in Targets!ToSet(l)
        <4>1. DOMAIN l = 1 .. Len(l) /\ Len(l) \in Nat
          OBVIOUS
        <4>2. \A i \in 1 .. Len(l) : IndexOf(l, l[i]) = i
          BY IndexIs
        <4>3. \A i \in 1 .. Len(l) : l[i] \in Targets!ToSet(l)
          BY <4>1 DEF Targets!ToSet
        <4> QED BY <4>1, <4>2, <4>3
      <3> QED BY <3>1 DEF Ascending, ByPlace
    <2>6. Len(b.result) + Len(b.scratch) = Len(l)
      <3>1. Len(l) \in Nat
        OBVIOUS
      <3> QED BY <2>1, <3>1
    <2>7. Targets!ToSet(b.scratch) = Targets!ToSet(l) \ Led(l, order, UpTo(order, 0))
      BY <2>1, <2>3
    <2> HIDE DEF b
    <2> QED BY <2>1, <2>3, <2>4, <2>5, <2>6, <2>7 DEF Sorting
  <1>4. 0 \in T
    BY <1>2, <1>3
  <1>5. ASSUME NEW k \in 1 .. n, k - 1 \in T
        PROVE  k \in T
    <2>1. k \in 1 .. Len(order) /\ Sorting(c[k - 1], S, l, order, k - 1) /\ k \in 0 .. n
      BY <1>2, <1>5
    <2>2. Sorting(Targets!TakeAlong(c[k - 1], order[k], order), S, l, order, k)
      BY <2>1, TakeAlongSorts
    <2> QED BY <1>2, <2>1, <2>2
  <1> HIDE DEF T
  <1>6. 0 .. n \subseteq T
    BY <1>2, <1>4, <1>5, StepByStep
  <1>7. Sorting(c[n], S, l, order, n)
    BY <1>2, <1>6 DEF T
  <1> QED BY <1>2, <1>7

LEMMA RankIs ==
    ASSUME NEW S, NEW l \in Seq(S), NEW order \in Seq(S), Targets!NoItem \notin S,
           Targets!IsInjective(l), Targets!IsInjective(order), NEW y \in Targets!ToSet(l)
    PROVE  /\ LeaderOf(l, order, y) \in Targets!ToSet(order) =>
                  RankOf(l, order, y) \in 1 .. Len(order)
           /\ LeaderOf(l, order, y) \notin Targets!ToSet(order) => RankOf(l, order, y) = 0
           /\ RankOf(l, order, y) \in Nat
  <1> DEFINE z == LeaderOf(l, order, y)
  <1>1. z # Targets!NoItem => z \in Targets!ToSet(order)
    <2>1. z # Targets!NoItem => z \in OrderedOf(l, order)
      BY LeaderIs
    <2> QED BY <2>1 DEF OrderedOf
  <1>2. ASSUME z \in Targets!ToSet(order)
        PROVE  z # Targets!NoItem
    BY <1>2 DEF Targets!ToSet
  <1>3. z \in Targets!ToSet(order) => IndexOf(order, z) \in 1 .. Len(order)
    BY IndexIs
  <1>4. RankOf(l, order, y) = IF z = Targets!NoItem THEN 0 ELSE IndexOf(order, z)
    BY DEF RankOf
  <1> HIDE DEF z
  <1> QED BY <1>1, <1>2, <1>3, <1>4 DEF z

\* A list that ascends in rank has each item once, at its place in that order.
LEMMA RankedPlaces ==
    ASSUME NEW S, NEW l \in Seq(S), NEW order \in Seq(S), Targets!NoItem \notin S,
           Targets!IsInjective(l), Targets!IsInjective(order),
           NEW s \in Seq(S), Targets!ToSet(s) = Targets!ToSet(l), Ascending(s, ByRank(l, order)),
           NEW x \in Targets!ToSet(l), NEW y \in Targets!ToSet(l)
    PROVE  IndexOf(s, x) < IndexOf(s, y) <=> <<x, y>> \in ByRank(l, order)
  <1> DEFINE T == Targets!ToSet(l)
             Rank(z) == RankOf(l, order, z)
             At(z) == IndexOf(l, z)
  <1>1. \A z \in T : Rank(z) \in Nat /\ At(z) \in Nat
    <2>1. \A z \in T : Rank(z) \in Nat
      BY RankIs
    <2>2. Len(l) \in Nat /\ \A z \in T : At(z) \in 1 .. Len(l)
      BY IndexIs
    <2> QED BY <2>1, <2>2
  <1>2. \A z, w \in T : <<z, w>> \in ByRank(l, order) <=>
                            \/ Rank(z) < Rank(w)
                            \/ Rank(z) = Rank(w) /\ At(z) < At(w)
    BY DEF ByRank
  <1>3. DOMAIN s = 1 .. Len(s) /\ Len(s) \in Nat
    OBVIOUS
  <1>4. \A i \in 1 .. Len(s) : s[i] \in T
    BY <1>3 DEF Targets!ToSet
  <1> HIDE DEF T, Rank, At
  <1>5. \A z, w \in T : ~(<<z, w>> \in ByRank(l, order) /\ <<w, z>> \in ByRank(l, order))
    <2> SUFFICES ASSUME NEW z \in T, NEW w \in T,
                        <<z, w>> \in ByRank(l, order), <<w, z>> \in ByRank(l, order)
                 PROVE  FALSE
      OBVIOUS
    <2>1. /\ Rank(z) \in Nat /\ Rank(w) \in Nat /\ At(z) \in Nat /\ At(w) \in Nat
          /\ Rank(z) < Rank(w) \/ (Rank(z) = Rank(w) /\ At(z) < At(w))
          /\ Rank(w) < Rank(z) \/ (Rank(w) = Rank(z) /\ At(w) < At(z))
      BY <1>1, <1>2
    <2> QED BY <2>1
  <1>6. \A i, j \in 1 .. Len(s) : i < j => <<s[i], s[j]>> \in ByRank(l, order)
    BY <1>3 DEF Ascending
  <1>7. Targets!IsInjective(s)
    <2> SUFFICES ASSUME NEW i \in DOMAIN s, NEW j \in DOMAIN s, s[i] = s[j], i # j
                 PROVE  FALSE
      BY DEF Targets!IsInjective
    <2>1. i < j \/ j < i
      BY <1>3
    <2>2. <<s[i], s[i]>> \in ByRank(l, order)
      BY <1>3, <1>6, <2>1
    <2> QED BY <1>3, <1>4, <1>5, <2>2
  <1>8. /\ IndexOf(s, x) \in 1 .. Len(s) /\ s[IndexOf(s, x)] = x
        /\ IndexOf(s, y) \in 1 .. Len(s) /\ s[IndexOf(s, y)] = y
    BY <1>7, IndexIs
  <1>9. IndexOf(s, x) < IndexOf(s, y) => <<x, y>> \in ByRank(l, order)
    BY <1>6, <1>8
  <1>10. IndexOf(s, y) < IndexOf(s, x) => <<y, x>> \in ByRank(l, order)
    BY <1>6, <1>8
  <1>11. x \in T /\ y \in T
    BY DEF T
  <1>12. IndexOf(s, x) = IndexOf(s, y) => <<x, y>> \notin ByRank(l, order)
    BY <1>5, <1>8, <1>11
  <1> QED BY <1>5, <1>8, <1>9, <1>10, <1>11, <1>12

\* ReorderKeys sorts the list by the order, an item that is not in it behind its leader.
LEMMA ReorderedAscends ==
    ASSUME NEW S, NEW l \in Seq(S), NEW order \in Seq(S), Targets!NoItem \notin S,
           Targets!IsInjective(l), Targets!IsInjective(order)
    PROVE  LET done == Targets!ReorderKeys(l, order)
           IN  /\ done \in Seq(S) /\ Targets!ToSet(done) = Targets!ToSet(l)
               /\ Len(done) = Len(l) /\ Ascending(done, ByRank(l, order))
  <1> DEFINE r == Targets!TakenAlong(l, order)
             T == Targets!ToSet(l)
             all == Targets!ToSet(order)
             Lead(y) == LeaderOf(l, order, y)
             Rank(y) == RankOf(l, order, y)
  <1>1. /\ Sorting(r, S, l, order, Len(order))
        /\ order = <<>> => r = [result |-> <<>>, scratch |-> l]
    BY TakenAlongSorts
  <1>2. UpTo(order, Len(order)) = all
    BY UpToNext
  <1>3. Targets!ReorderKeys(l, order) = Linked(r.scratch, r.result)
    <2>1. CASE order = <<>>
      <3>1. Targets!ReorderKeys(l, order) = l
        BY <2>1 DEF Targets!ReorderKeys
      <3>2. r.scratch = l /\ r.result = <<>>
        BY <1>1, <2>1
      <3>3. Linked(l, <<>>) = l
        BY LinkedNone
      <3> QED BY <3>1, <3>2, <3>3
    <2>2. CASE order # <<>>
      BY <2>2 DEF Targets!ReorderKeys, Linked
    <2> QED BY <2>1, <2>2
  <1> DEFINE front == r.scratch
             back == r.result
  <1>4. /\ front \in Seq(S) /\ back \in Seq(S)
        /\ Targets!ToSet(back) = {y \in T : Lead(y) \in all}
        /\ Targets!ToSet(front) = {y \in T : Lead(y) \notin all}
        /\ Len(back) + Len(front) = Len(l)
        /\ Ascending(back, ByRank(l, order)) /\ Ascending(front, ByPlace(l))
    BY <1>1, <1>2 DEF Sorting, Taking, Led
  <1>5. \A y \in T : /\ Lead(y) \in all => Rank(y) \in 1 .. Len(order)
                     /\ Lead(y) \notin all => Rank(y) = 0
    BY RankIs
  <1>6. Targets!ReorderKeys(l, order) = Linked(front, back)
    BY <1>3
  <1> HIDE DEF r, front, back
  <1>7. Ascending(front, ByRank(l, order))
    <2> SUFFICES ASSUME NEW i \in DOMAIN front, NEW j \in DOMAIN front, i < j
                 PROVE  <<front[i], front[j]>> \in ByRank(l, order)
      BY DEF Ascending
    <2>1. front[i] \in Targets!ToSet(front) /\ front[j] \in Targets!ToSet(front)
      BY DEF Targets!ToSet
    <2>2. /\ front[i] \in T /\ front[j] \in T /\ Rank(front[i]) = 0 /\ Rank(front[j]) = 0
      BY <1>4, <1>5, <2>1
    <2>3. <<front[i], front[j]>> \in ByPlace(l)
      BY <1>4 DEF Ascending
    <2> QED BY <2>2, <2>3 DEF ByRank, ByPlace
  <1>8. ASSUME NEW y \in Targets!ToSet(front), NEW z \in Targets!ToSet(back)
        PROVE  <<y, z>> \in ByRank(l, order)
    <2>1. y \in T /\ Rank(y) = 0 /\ z \in T /\ Rank(z) \in 1 .. Len(order)
      BY <1>4, <1>5
    <2>2. Rank(y) < Rank(z)
      BY <2>1
    <2> QED BY <2>1, <2>2 DEF ByRank
  <1>9. Ascending(Linked(front, back), ByRank(l, order))
        /\ Len(Linked(front, back)) = Len(front) + Len(back)
    BY <1>4, <1>7, <1>8, BothAscending
  <1>10. /\ Linked(front, back) \in Seq(S)
         /\ Targets!ToSet(Linked(front, back)) = Targets!ToSet(front) \cup Targets!ToSet(back)
    <2>1. front \in Seq(S) /\ back \in Seq(S)
      BY <1>4
    <2> QED BY <2>1, LinkedIs
  <1>11. Targets!ToSet(Linked(front, back)) = T
    BY <1>4, <1>10
  <1>12. Len(Linked(front, back)) = Len(l)
    <2>1. front \in Seq(S) /\ back \in Seq(S)
      BY <1>4
    <2>2. Len(front) \in Nat /\ Len(back) \in Nat
      BY <2>1
    <2>3. Len(back) + Len(front) = Len(l)
          /\ Len(Linked(front, back)) = Len(front) + Len(back)
      BY <1>4, <1>9
    <2> QED BY <2>2, <2>3
  <1> QED BY <1>6, <1>9, <1>10, <1>11, <1>12

\* Reordering a list by an order keeps its items: those of the order come in its order, each
\* followed by what followed it in the list, and what came before all of them comes first
\* (listOp.cpp:611, _ReorderKeysHelper). It holds of every list and order without
\* repetitions.
THEOREM OrderKeepsFollowers ==
    ASSUME NEW S, NEW l \in Seq(S), NEW order \in Seq(S), Targets!NoItem \notin S,
           Targets!IsInjective(l), Targets!IsInjective(order)
    PROVE  Targets!ReorderedRight(l, order)
  <1> DEFINE done == Targets!ReorderKeys(l, order)
  <1>1. /\ done \in Seq(S) /\ Targets!ToSet(done) = Targets!ToSet(l)
        /\ Len(done) = Len(l) /\ Ascending(done, ByRank(l, order))
    BY ReorderedAscends
  <1>2. ASSUME NEW x \in Targets!ToSet(l), NEW y \in Targets!ToSet(l)
        PROVE  IndexOf(done, x) < IndexOf(done, y) <=>
                   \/ RankOf(l, order, x) < RankOf(l, order, y)
                   \/ RankOf(l, order, x) = RankOf(l, order, y) /\ IndexOf(l, x) < IndexOf(l, y)
    <2> HIDE DEF done
    <2>1. IndexOf(done, x) < IndexOf(done, y) <=> <<x, y>> \in ByRank(l, order)
      BY <1>1, RankedPlaces
    <2> QED BY <2>1 DEF ByRank
  <1> QED BY <1>1, <1>2
          DEF Targets!ReorderedRight, IndexOf, RankOf, LeaderOf, OrderedOf

\* Items renamed one to one.
Renaming(f, S, U) ==
    /\ f \in [S -> U] /\ Targets!NoItem \notin S /\ Targets!NoItem \notin U
    /\ \A x, y \in S : f[x] = f[y] => x = y
Renamed(s, f) == [i \in DOMAIN s |-> f[s[i]]]

LEMMA RenamedIs ==
    ASSUME NEW S, NEW U, NEW f, Renaming(f, S, U), NEW s \in Seq(S)
    PROVE  /\ Renamed(s, f) \in Seq(U) /\ Len(Renamed(s, f)) = Len(s)
           /\ \A i \in 1 .. Len(s) : Renamed(s, f)[i] = f[s[i]]
           /\ \A x \in S : f[x] \in Targets!ToSet(Renamed(s, f)) <=> x \in Targets!ToSet(s)
           /\ \A y \in Targets!ToSet(Renamed(s, f)) : \E x \in Targets!ToSet(s) : y = f[x]
           /\ Targets!IsInjective(s) => Targets!IsInjective(Renamed(s, f))
  <1> DEFINE t == Renamed(s, f)
  <1>1. DOMAIN s = 1 .. Len(s) /\ Len(s) \in Nat /\ \A i \in 1 .. Len(s) : s[i] \in S
    OBVIOUS
  <1>2. /\ t = [i \in 1 .. Len(s) |-> f[s[i]]]
        /\ \A i \in 1 .. Len(s) : f[s[i]] \in U
    BY <1>1 DEF Renaming, Renamed
  <1> HIDE DEF t
  <1>3. t \in Seq(U) /\ Len(t) = Len(s) /\ DOMAIN t = 1 .. Len(s)
    BY <1>1, <1>2
  <1>4. \A i \in 1 .. Len(s) : t[i] = f[s[i]]
    BY <1>2
  <1>5. ASSUME NEW x \in S
        PROVE  f[x] \in Targets!ToSet(t) <=> x \in Targets!ToSet(s)
    <2>1. ASSUME f[x] \in Targets!ToSet(t)
          PROVE  x \in Targets!ToSet(s)
      <3>1. PICK i \in 1 .. Len(s) : t[i] = f[x]
        BY <1>3, <2>1 DEF Targets!ToSet
      <3>2. s[i] = x
        BY <1>1, <1>4, <3>1 DEF Renaming
      <3> QED BY <1>1, <3>2 DEF Targets!ToSet
    <2>2. ASSUME x \in Targets!ToSet(s)
          PROVE  f[x] \in Targets!ToSet(t)
      <3>1. PICK i \in 1 .. Len(s) : s[i] = x
        BY <1>1, <2>2 DEF Targets!ToSet
      <3>2. t[i] = f[x]
        BY <1>4, <3>1
      <3> QED BY <1>3, <3>2 DEF Targets!ToSet
    <2> QED BY <2>1, <2>2
  <1>6. ASSUME NEW y \in Targets!ToSet(t)
        PROVE  \E x \in Targets!ToSet(s) : y = f[x]
    <2>1. PICK i \in 1 .. Len(s) : t[i] = y
      BY <1>3 DEF Targets!ToSet
    <2>2. s[i] \in Targets!ToSet(s)
      BY <1>1 DEF Targets!ToSet
    <2> QED BY <1>4, <2>1, <2>2
  <1>7. ASSUME Targets!IsInjective(s)
        PROVE  Targets!IsInjective(t)
    <2> SUFFICES ASSUME NEW i \in 1 .. Len(s), NEW j \in 1 .. Len(s), t[i] = t[j]
                 PROVE  i = j
      BY <1>3 DEF Targets!IsInjective
    <2>1. s[i] = s[j]
      BY <1>1, <1>4 DEF Renaming
    <2> QED BY <1>1, <1>7, <2>1 DEF Targets!IsInjective
  <1> QED BY <1>3, <1>4, <1>5, <1>6, <1>7 DEF t

\* Two lists of one length with the same items at each place are the same.
LEMMA SameLists ==
    ASSUME NEW U, NEW s \in Seq(U), NEW t \in Seq(U), Len(s) = Len(t),
           \A i \in 1 .. Len(s) : s[i] = t[i]
    PROVE  s = t
  OBVIOUS

LEMMA RenamedNone ==
    ASSUME NEW f
    PROVE  Renamed(<<>>, f) = <<>>
  BY DEF Renamed

LEMMA RenamedNext ==
    ASSUME NEW S, NEW U, NEW f, Renaming(f, S, U), NEW s \in Seq(S), NEW x \in S
    PROVE  Renamed(Append(s, x), f) = Append(Renamed(s, f), f[x])
  <1> DEFINE longer == Append(s, x)
             t == Renamed(s, f)
             n == Len(s)
  <1>1. /\ longer \in Seq(S) /\ Len(longer) = n + 1 /\ n \in Nat /\ longer[n + 1] = x
        /\ \A i \in 1 .. n : longer[i] = s[i]
    BY AppendProperties
  <1>2. t \in Seq(U) /\ Len(t) = n /\ \A i \in 1 .. n : t[i] = f[s[i]]
    BY RenamedIs
  <1> HIDE DEF t
  <1>3. f[x] \in U
    BY DEF Renaming
  <1>4. /\ Append(t, f[x]) \in Seq(U) /\ Len(Append(t, f[x])) = n + 1
        /\ Append(t, f[x])[n + 1] = f[x] /\ \A i \in 1 .. n : Append(t, f[x])[i] = t[i]
    BY <1>2, <1>3, AppendProperties
  <1> HIDE DEF longer, n
  <1>5. /\ Renamed(longer, f) \in Seq(U) /\ Len(Renamed(longer, f)) = n + 1
        /\ \A i \in 1 .. n + 1 : Renamed(longer, f)[i] = f[longer[i]]
    BY <1>1, RenamedIs
  <1> DEFINE end == Append(t, f[x])
             both == Renamed(longer, f)
  <1>7. /\ both \in Seq(U) /\ end \in Seq(U) /\ Len(both) = n + 1 /\ Len(end) = n + 1
        /\ \A i \in 1 .. n + 1 : both[i] = f[longer[i]]
        /\ end[n + 1] = f[x] /\ \A i \in 1 .. n : end[i] = t[i]
    BY <1>4, <1>5
  <1> HIDE DEF both, end
  <1>6. ASSUME NEW i \in 1 .. n + 1
        PROVE  both[i] = end[i]
    <2>1. CASE i = n + 1
      BY <1>1, <1>7, <2>1
    <2>2. CASE i \in 1 .. n
      <3>1. both[i] = f[longer[i]] /\ longer[i] = s[i]
        BY <1>1, <1>7, <2>2
      <3>2. end[i] = t[i] /\ t[i] = f[s[i]]
        BY <1>2, <1>7, <2>2
      <3> QED BY <3>1, <3>2
    <2> QED BY <1>1, <2>1, <2>2
  <1>8. both = end
    BY <1>6, <1>7, SameLists
  <1> QED BY <1>8 DEF both, end, longer, t

LEMMA RenamedBoth ==
    ASSUME NEW S, NEW U, NEW f, Renaming(f, S, U), NEW s \in Seq(S), NEW t \in Seq(S)
    PROVE  Renamed(Linked(s, t), f) = Linked(Renamed(s, f), Renamed(t, f))
  <1> DEFINE both == s \o t
             front == Renamed(s, f)
             back == Renamed(t, f)
             m == Len(s)
             n == Len(t)
             left == Renamed(both, f)
             right == front \o back
  <1>1. /\ both \in Seq(S) /\ m \in Nat /\ n \in Nat /\ Len(both) = m + n
        /\ \A i \in 1 .. m + n : both[i] = IF i <= m THEN s[i] ELSE t[i - m]
    BY ConcatProperties
  <1>2. /\ front \in Seq(U) /\ Len(front) = m /\ \A i \in 1 .. m : front[i] = f[s[i]]
        /\ back \in Seq(U) /\ Len(back) = n /\ \A i \in 1 .. n : back[i] = f[t[i]]
    BY RenamedIs
  <1> HIDE DEF both, front, back, m, n
  <1>3. /\ left \in Seq(U) /\ Len(left) = m + n /\ \A i \in 1 .. m + n : left[i] = f[both[i]]
    <2>1. /\ left \in Seq(U) /\ Len(left) = Len(both)
          /\ \A i \in 1 .. Len(both) : left[i] = f[both[i]]
      <3>1. both \in Seq(S)
        BY <1>1
      <3> QED BY <3>1, RenamedIs
    <2> HIDE DEF left
    <2> QED BY <1>1, <2>1
  <1>4. /\ right \in Seq(U) /\ Len(right) = m + n
        /\ \A i \in 1 .. m + n : right[i] = IF i <= m THEN front[i] ELSE back[i - m]
    <2>1. front \in Seq(U) /\ back \in Seq(U) /\ Len(front) = m /\ Len(back) = n
      BY <1>2
    <2>2. /\ right \in Seq(U) /\ Len(right) = Len(front) + Len(back)
          /\ \A i \in 1 .. Len(front) + Len(back) :
                right[i] = IF i <= Len(front) THEN front[i] ELSE back[i - Len(front)]
      BY <2>1, ConcatProperties
    <2> HIDE DEF right
    <2> QED BY <2>1, <2>2
  <1> HIDE DEF left, right
  <1>5. ASSUME NEW i \in 1 .. m + n
        PROVE  left[i] = right[i]
    <2>0. left[i] = f[both[i]]
      BY <1>3
    <2>1. CASE i <= m
      <3>1. i \in 1 .. m /\ both[i] = s[i] /\ right[i] = front[i]
        BY <1>1, <1>4, <2>1
      <3>2. front[i] = f[s[i]]
        BY <1>2, <3>1
      <3> QED BY <2>0, <3>1, <3>2
    <2>2. CASE ~(i <= m)
      <3>1. i - m \in 1 .. n /\ both[i] = t[i - m] /\ right[i] = back[i - m]
        BY <1>1, <1>4, <2>2
      <3>2. back[i - m] = f[t[i - m]]
        BY <1>2, <3>1
      <3> QED BY <2>0, <3>1, <3>2
    <2> QED BY <1>1, <2>1, <2>2
  <1>6. left = right
    BY <1>3, <1>4, <1>5, SameLists
  <1> QED BY <1>6 DEF left, right, both, front, back, Linked

LEMMA RenamedPart ==
    ASSUME NEW S, NEW U, NEW f, Renaming(f, S, U), NEW s \in Seq(S),
           NEW m \in 1 .. Len(s) + 1, NEW n \in (m - 1) .. Len(s)
    PROVE  Renamed(Part(s, m, n), f) = Part(Renamed(s, f), m, n)
  <1> DEFINE part == SubSeq(s, m, n)
             all == Renamed(s, f)
             left == Renamed(part, f)
             right == SubSeq(all, m, n)
             size == IF m <= n THEN (n - m) + 1 ELSE 0
  <1>1. Len(s) \in Nat /\ \A i \in 1 .. Len(s) : s[i] \in S
    OBVIOUS
  <1>2. /\ part \in Seq(S) /\ Len(part) = size
        /\ \A i \in 1 .. (n - m) + 1 : part[i] = s[(m + i) - 1]
    BY <1>1, SubSeqProperties
  <1>3. all \in Seq(U) /\ Len(all) = Len(s) /\ \A i \in 1 .. Len(s) : all[i] = f[s[i]]
    BY RenamedIs
  <1> HIDE DEF part, all
  <1>4. /\ right \in Seq(U) /\ Len(right) = size
        /\ \A i \in 1 .. (n - m) + 1 : right[i] = all[(m + i) - 1]
    <2>1. Len(all) \in Nat /\ m \in 1 .. Len(all) + 1 /\ n \in (m - 1) .. Len(all)
          /\ \A i \in m .. n : all[i] \in U
      BY <1>1, <1>3
    <2> QED BY <1>3, <2>1, SubSeqProperties
  <1>5. left \in Seq(U) /\ Len(left) = size /\ \A i \in 1 .. size : left[i] = f[part[i]]
    <2>1. part \in Seq(S)
      BY <1>2
    <2>2. left \in Seq(U) /\ Len(left) = Len(part) /\ \A i \in 1 .. Len(part) : left[i] = f[part[i]]
      BY <2>1, RenamedIs
    <2> HIDE DEF left, size
    <2> QED BY <1>2, <2>2
  <1> HIDE DEF left, right
  <1>6. ASSUME NEW i \in 1 .. size
        PROVE  left[i] = right[i]
    <2>1. i \in 1 .. (n - m) + 1 /\ (m + i) - 1 \in 1 .. Len(s)
      BY <1>1
    <2>2. left[i] = f[part[i]] /\ part[i] = s[(m + i) - 1]
      BY <1>2, <1>5, <2>1
    <2>3. right[i] = all[(m + i) - 1] /\ all[(m + i) - 1] = f[s[(m + i) - 1]]
      BY <1>3, <1>4, <2>1
    <2> QED BY <2>2, <2>3
  <1> HIDE DEF size
  <1>7. left = right
    BY <1>4, <1>5, <1>6, SameLists
  <1> QED BY <1>7 DEF left, right, part, all, Part

\* Renaming and leaving out items.
LEMMA RenamedWithout ==
    ASSUME NEW S, NEW U, NEW f, Renaming(f, S, U), NEW s \in Seq(S), NEW X, NEW Y,
           \A x \in S : f[x] \in Y <=> x \in X
    PROVE  Targets!Without(Renamed(s, f), Y) = Renamed(Targets!Without(s, X), f)
  <1> DEFINE T == {t \in Seq(S) :
                      Targets!Without(Renamed(t, f), Y) = Renamed(Targets!Without(t, X), f)}
  <1>0. Targets!NoItem \notin S /\ Targets!NoItem \notin U /\ \A x \in S : f[x] \in U
    BY DEF Renaming
  <1>1. <<>> \in T
    <2>1. Targets!Without(Renamed(<<>>, f), Y) = <<>>
      BY RenamedNone, WithoutOfNone, Zenon
    <2>2. Renamed(Targets!Without(<<>>, X), f) = <<>>
      BY RenamedNone, WithoutOfNone, Zenon
    <2>3. <<>> \in Seq(S)
      OBVIOUS
    <2> QED BY <2>1, <2>2, <2>3
  <1>2. ASSUME NEW t \in Seq(S), NEW x \in S, t \in T
        PROVE  Append(t, x) \in T
    <2> DEFINE y == f[x]
               new == Renamed(t, f)
               less == Targets!Without(t, X)
    <2>1. Append(t, x) \in Seq(S) /\ y \in U
      BY <1>0
    <2>2. Renamed(Append(t, x), f) = Append(new, y)
      BY RenamedNext
    <2>3. new \in Seq(U) /\ less \in Seq(S)
      BY <1>0, RenamedIs, WithoutIs
    <2>4. Targets!Without(new, Y) = Renamed(less, f)
      BY <1>2
    <2>5. Targets!Without(Append(t, x), X) = IF x \in X THEN less ELSE Append(less, x)
      BY <1>0, WithoutNext
    <2> HIDE DEF new, less, y
    <2>6. Targets!Without(Append(new, y), Y) =
              IF y \in Y THEN Targets!Without(new, Y) ELSE Append(Targets!Without(new, Y), y)
      BY <1>0, <2>1, <2>3, WithoutNext
    <2>7. Renamed(Append(less, x), f) = Append(Renamed(less, f), y)
      BY <2>3, RenamedNext DEF y
    <2>8. y \in Y <=> x \in X
      BY DEF y
    <2>9. Targets!Without(Renamed(Append(t, x), f), Y) =
              Renamed(Targets!Without(Append(t, x), X), f)
      <3>1. CASE x \in X
        <4>1. Targets!Without(Append(t, x), X) = less
          BY <2>5, <3>1
        <4>2. Targets!Without(Append(new, y), Y) = Targets!Without(new, Y)
          BY <2>6, <2>8, <3>1
        <4> QED BY <2>2, <2>4, <4>1, <4>2, Zenon
      <3>2. CASE x \notin X
        <4>1. Targets!Without(Append(t, x), X) = Append(less, x)
          BY <2>5, <3>2
        <4>2. Targets!Without(Append(new, y), Y) = Append(Targets!Without(new, Y), y)
          BY <2>6, <2>8, <3>2
        <4> QED BY <2>2, <2>4, <2>7, <4>1, <4>2, Zenon
      <3> QED BY <3>1, <3>2
    <2> QED BY <2>1, <2>9
  <1> HIDE DEF T
  <1>3. Seq(S) \subseteq T
    BY <1>1, <1>2, ListByList
  <1> QED BY <1>3 DEF T

\* Mapped with a one to one callback renames the list.
LEMMA MappedRenamed ==
    ASSUME NEW S, NEW U, NEW f, Renaming(f, S, U), NEW s \in Seq(S)
    PROVE  Targets!Mapped(s, f) = Renamed(s, f)
  <1> DEFINE none == <<>>
             part(k) == SubSeq(s, 1, k)
             n == Len(s)
  <1>1. none \in Seq(U) /\ none = <<>>
    OBVIOUS
  <1>2. \A x \in S : f[x] \in U /\ f[x] # Targets!NoItem
    BY DEF Renaming
  <1>3. \A t \in Seq(U), x \in S :
            (IF f[x] = Targets!NoItem THEN t ELSE Append(t, f[x])) \in Seq(U)
    BY <1>2
  <1> HIDE DEF none
  <1>4. PICK c : Mapping(c, Seq(U), s, f)
    BY <1>1, <1>3, MappedStepwise
  <1>5. /\ c[0] = <<>> /\ Targets!Mapped(s, f) = c[n] /\ n \in Nat
        /\ \A k \in 1 .. n : c[k] = Append(c[k - 1], f[s[k]])
    <2>1. n \in Nat /\ \A k \in 1 .. n : s[k] \in S
      OBVIOUS
    <2>2. c[0] = <<>> /\ Targets!Mapped(s, f) = c[n]
      BY <1>4 DEF Mapping
    <2>3. ASSUME NEW k \in 1 .. n
          PROVE  c[k] = Append(c[k - 1], f[s[k]])
      <3>1. c[k] = IF f[s[k]] = Targets!NoItem THEN c[k - 1] ELSE Append(c[k - 1], f[s[k]])
        BY <1>4 DEF Mapping
      <3>2. f[s[k]] # Targets!NoItem
        BY <1>2, <2>1
      <3> QED BY <3>1, <3>2
    <2> QED BY <2>1, <2>2, <2>3
  <1>6. /\ part(0) = <<>> /\ part(n) = s
        /\ \A k \in 0 .. n : part(k) \in Seq(S)
        /\ \A k \in 1 .. n : part(k) = Append(part(k - 1), s[k])
    BY PartNext
  <1> DEFINE T == {k \in 0 .. n : c[k] = Renamed(part(k), f)}
  <1> HIDE DEF part
  <1>7. 0 \in T
    BY <1>5, <1>6, RenamedNone
  <1>8. ASSUME NEW k \in 1 .. n, k - 1 \in T
        PROVE  k \in T
    <2>1. k \in 0 .. n /\ k - 1 \in 0 .. n /\ c[k - 1] = Renamed(part(k - 1), f) /\ s[k] \in S
      BY <1>5, <1>8
    <2>2. part(k - 1) \in Seq(S)
      BY <1>6, <2>1
    <2>3. Renamed(Append(part(k - 1), s[k]), f) = Append(Renamed(part(k - 1), f), f[s[k]])
      BY <2>1, <2>2, RenamedNext
    <2>4. part(k) = Append(part(k - 1), s[k]) /\ c[k] = Append(c[k - 1], f[s[k]])
      BY <1>5, <1>6
    <2>5. c[k] = Renamed(part(k), f)
      BY <2>1, <2>3, <2>4, Zenon
    <2> QED BY <2>1, <2>5
  <1> HIDE DEF T
  <1>9. n \in T
    <2>1. 0 .. n \subseteq T
      BY <1>5, <1>7, <1>8, StepByStep
    <2> QED BY <1>5, <2>1
  <1> QED BY <1>5, <1>6, <1>9 DEF T

\* The lists that MakeUnique makes item by item.
Unifying(c, S, s) ==
    /\ c \in [0 .. Len(s) -> Seq(S)]
    /\ c[0] = <<>> /\ Targets!MakeUnique(s) = c[Len(s)]
    /\ \A k \in 1 .. Len(s) :
          c[k] = IF s[k] \in Targets!ToSet(c[k - 1]) THEN c[k - 1] ELSE Append(c[k - 1], s[k])

LEMMA UniqueStepwise ==
    ASSUME NEW S, NEW s \in Seq(S)
    PROVE  \E c : Unifying(c, S, s)
  <1> DEFINE none == <<>>
  <1>1. none \in Seq(S) /\ none = <<>>
    OBVIOUS
  <1>2. \A t \in Seq(S), x \in S : (IF x \in Targets!ToSet(t) THEN t ELSE Append(t, x)) \in Seq(S)
    OBVIOUS
  <1> HIDE DEF none
  <1>3. PICK c : Adding(c, Seq(S), none, s)
    BY <1>1, <1>2, AddKeysStepwise
  <1>4. Targets!MakeUnique(s) = Targets!AddKeys(none, s)
    BY <1>1 DEF Targets!MakeUnique
  <1> QED BY <1>1, <1>3, <1>4 DEF Adding, Unifying

LEMMA UniqueRenamed ==
    ASSUME NEW S, NEW U, NEW f, Renaming(f, S, U), NEW s \in Seq(S)
    PROVE  Targets!MakeUnique(Renamed(s, f)) = Renamed(Targets!MakeUnique(s), f)
  <1> DEFINE t == Renamed(s, f)
             n == Len(s)
  <1>1. t \in Seq(U) /\ Len(t) = n /\ n \in Nat /\ \A k \in 1 .. n : t[k] = f[s[k]] /\ s[k] \in S
    <2>1. t \in Seq(U) /\ Len(t) = n /\ \A k \in 1 .. n : t[k] = f[s[k]]
      BY RenamedIs
    <2>2. n \in Nat /\ \A k \in 1 .. n : s[k] \in S
      OBVIOUS
    <2> QED BY <2>1, <2>2
  <1>8. PICK c : Unifying(c, S, s)
    BY UniqueStepwise
  <1>2. /\ c \in [0 .. n -> Seq(S)] /\ c[0] = <<>> /\ Targets!MakeUnique(s) = c[n]
        /\ \A k \in 1 .. n : c[k] = IF s[k] \in Targets!ToSet(c[k - 1]) THEN c[k - 1]
                                    ELSE Append(c[k - 1], s[k])
    BY <1>8 DEF Unifying
  <1> HIDE DEF t
  <1>9. PICK d : Unifying(d, U, t)
    BY <1>1, UniqueStepwise
  <1>3. /\ d \in [0 .. n -> Seq(U)] /\ d[0] = <<>> /\ Targets!MakeUnique(t) = d[n]
        /\ \A k \in 1 .. n : d[k] = IF t[k] \in Targets!ToSet(d[k - 1]) THEN d[k - 1]
                                    ELSE Append(d[k - 1], t[k])
    <2> HIDE DEF n
    <2> QED BY <1>1, <1>9 DEF Unifying
  <1> HIDE DEF n
  <1> DEFINE T == {k \in 0 .. n : d[k] = Renamed(c[k], f)}
  <1>4. 0 \in T
    BY <1>1, <1>2, <1>3, RenamedNone
  <1>5. ASSUME NEW k \in 1 .. n, k - 1 \in T
        PROVE  k \in T
    <2> DEFINE old == c[k - 1]
    <2>1. /\ k \in 0 .. n /\ k - 1 \in 0 .. n /\ d[k - 1] = Renamed(old, f) /\ s[k] \in S
          /\ old \in Seq(S) /\ t[k] = f[s[k]]
      <3>1. k \in 0 .. n /\ k - 1 \in 0 .. n
        BY <1>1
      <3>2. d[k - 1] = Renamed(old, f)
        BY <1>5
      <3>3. s[k] \in S /\ t[k] = f[s[k]]
        BY <1>1
      <3>4. old \in Seq(S)
        BY <1>2, <3>1
      <3> QED BY <3>1, <3>2, <3>3, <3>4
    <2>2. t[k] \in Targets!ToSet(d[k - 1]) <=> s[k] \in Targets!ToSet(old)
      BY <2>1, RenamedIs
    <2>3. d[k] = Renamed(c[k], f)
      <3>1. CASE s[k] \in Targets!ToSet(old)
        <4>1. c[k] = old /\ d[k] = d[k - 1]
          BY <1>2, <1>3, <2>2, <3>1
        <4> QED BY <2>1, <4>1
      <3>2. CASE s[k] \notin Targets!ToSet(old)
        <4>1. c[k] = Append(old, s[k]) /\ d[k] = Append(d[k - 1], t[k])
          BY <1>2, <1>3, <2>2, <3>2
        <4> HIDE DEF old
        <4>2. Renamed(Append(old, s[k]), f) = Append(Renamed(old, f), f[s[k]])
          BY <2>1, RenamedNext
        <4> QED BY <2>1, <4>1, <4>2, Zenon
      <3> QED BY <3>1, <3>2
    <2> QED BY <2>1, <2>3
  <1> HIDE DEF T
  <1>6. n \in T
    <2>1. 0 .. n \subseteq T
      BY <1>1, <1>4, <1>5, StepByStep
    <2> QED BY <1>1, <2>1
  <1>7. d[n] = Renamed(c[n], f)
    BY <1>6 DEF T
  <1> QED BY <1>2, <1>3, <1>7 DEF t

\* AddKeys puts the keys that the list has not, each once, behind it.
LEMMA AddKeysIs ==
    ASSUME NEW S, NEW l \in Seq(S), NEW keys \in Seq(S), Targets!NoItem \notin S
    PROVE  Targets!AddKeys(l, keys) =
               Linked(l, Targets!Without(Targets!MakeUnique(keys), Targets!ToSet(l)))
  <1> DEFINE n == Len(keys)
             L == Targets!ToSet(l)
             New(u) == Targets!Without(u, L)
  <1>1. n \in Nat /\ \A k \in 1 .. n : keys[k] \in S
    OBVIOUS
  <1>9. PICK c : Unifying(c, S, keys)
    BY UniqueStepwise
  <1>2. /\ c \in [0 .. n -> Seq(S)] /\ c[0] = <<>> /\ Targets!MakeUnique(keys) = c[n]
        /\ \A k \in 1 .. n : c[k] = IF keys[k] \in Targets!ToSet(c[k - 1]) THEN c[k - 1]
                                    ELSE Append(c[k - 1], keys[k])
    BY <1>9 DEF Unifying
  <1>3. \A t \in Seq(S), x \in S : (IF x \in Targets!ToSet(t) THEN t ELSE Append(t, x)) \in Seq(S)
    OBVIOUS
  <1>4. PICK d : Adding(d, Seq(S), l, keys)
    BY <1>3, AddKeysStepwise
  <1>5. /\ d[0] = l /\ Targets!AddKeys(l, keys) = d[n]
        /\ \A k \in 1 .. n : d[k] = IF keys[k] \in Targets!ToSet(d[k - 1]) THEN d[k - 1]
                                    ELSE Append(d[k - 1], keys[k])
    BY <1>4 DEF Adding
  <1> DEFINE T == {k \in 0 .. n : d[k] = Linked(l, New(c[k]))}
  <1>6. 0 \in T
    <2>1. New(<<>>) = <<>>
      BY WithoutOfNone
    <2>2. Linked(l, <<>>) = l
      BY LinkedNone
    <2>3. d[0] = Linked(l, New(c[0]))
      BY <1>2, <1>5, <2>1, <2>2, Zenon
    <2> QED BY <1>1, <2>3
  <1>7. ASSUME NEW k \in 1 .. n, k - 1 \in T
        PROVE  k \in T
    <2> DEFINE old == c[k - 1]
               x == keys[k]
               more == New(old)
    <2>1. /\ k \in 0 .. n /\ k - 1 \in 0 .. n /\ d[k - 1] = Linked(l, more)
          /\ old \in Seq(S) /\ x \in S
      <3>1. k \in 0 .. n /\ k - 1 \in 0 .. n /\ x \in S
        BY <1>1
      <3>2. d[k - 1] = Linked(l, more)
        BY <1>7
      <3>3. old \in Seq(S)
        BY <1>2, <3>1
      <3> QED BY <3>1, <3>2, <3>3
    <2>2. c[k] = IF x \in Targets!ToSet(old) THEN old ELSE Append(old, x)
      BY <1>2
    <2>3. d[k] = IF x \in Targets!ToSet(d[k - 1]) THEN d[k - 1] ELSE Append(d[k - 1], x)
      BY <1>5
    <2> HIDE DEF old, x, New
    <2>4. more \in Seq(S) /\ Targets!ToSet(more) = Targets!ToSet(old) \ L
      BY <2>1, WithoutIs DEF New
    <2>5. Targets!ToSet(Linked(l, more)) = L \cup Targets!ToSet(more)
      <3> HIDE DEF more
      <3> QED BY <2>4, LinkedIs
    <2>6. x \in Targets!ToSet(d[k - 1]) <=> (x \in L \/ x \in Targets!ToSet(old))
      BY <2>1, <2>4, <2>5
    <2>7. New(Append(old, x)) = IF x \in L THEN more ELSE Append(more, x)
      BY <2>1, WithoutNext DEF New
    <2> HIDE DEF L, more
    <2>8. d[k] = Linked(l, New(c[k]))
      <3>1. CASE x \in Targets!ToSet(old)
        <4>1. c[k] = old /\ d[k] = d[k - 1]
          BY <2>2, <2>3, <2>6, <3>1
        <4> QED BY <2>1, <4>1 DEF more
      <3>2. CASE x \notin Targets!ToSet(old) /\ x \in L
        <4>1. c[k] = Append(old, x) /\ d[k] = d[k - 1]
          BY <2>2, <2>3, <2>6, <3>2
        <4>2. New(Append(old, x)) = more
          BY <2>7, <3>2
        <4> QED BY <2>1, <4>1, <4>2, Zenon
      <3>3. CASE x \notin Targets!ToSet(old) /\ x \notin L
        <4>1. c[k] = Append(old, x) /\ d[k] = Append(d[k - 1], x)
          BY <2>2, <2>3, <2>6, <3>3
        <4>2. New(Append(old, x)) = Append(more, x)
          BY <2>7, <3>3
        <4>3. One(x) \in Seq(S) /\ Linked(l, more) \in Seq(S)
          BY <2>1, <2>4, LinkedOne, LinkedIs
        <4>4. Append(Linked(l, more), x) = Linked(Linked(l, more), One(x))
          BY <2>1, <4>3, LinkedOne
        <4>5. Append(more, x) = Linked(more, One(x))
          BY <2>1, <2>4, LinkedOne
        <4>6. Linked(Linked(l, more), One(x)) = Linked(l, Linked(more, One(x)))
          BY <2>4, <4>3, LinkedAgain
        <4> QED BY <2>1, <4>1, <4>2, <4>4, <4>5, <4>6, Zenon
      <3> QED BY <3>1, <3>2, <3>3
    <2> QED BY <2>1, <2>8
  <1> HIDE DEF T
  <1>8. n \in T
    <2>1. 0 .. n \subseteq T
      BY <1>1, <1>6, <1>7, StepByStep
    <2> QED BY <1>1, <2>1
  <1> QED BY <1>2, <1>5, <1>8 DEF T

\* Renaming the list and the keys renames what the operations on keys make of them.
LEMMA RenamedAdded ==
    ASSUME NEW S, NEW U, NEW f, Renaming(f, S, U), NEW l \in Seq(S), NEW keys \in Seq(S),
           NEW other \in Seq(U), Targets!MakeUnique(other) = Renamed(Targets!MakeUnique(keys), f)
    PROVE  Targets!AddKeys(Renamed(l, f), other) = Renamed(Targets!AddKeys(l, keys), f)
  <1> DEFINE t == Renamed(l, f)
             X == Targets!ToSet(l)
             Y == Targets!ToSet(t)
             unique == Targets!MakeUnique(keys)
             more == Targets!Without(unique, X)
  <1>1. Targets!NoItem \notin S /\ Targets!NoItem \notin U
    BY DEF Renaming
  <1>2. t \in Seq(U) /\ \A x \in S : f[x] \in Y <=> x \in X
    BY RenamedIs
  <1>3. unique \in Seq(S)
    BY UniqueMade
  <1>4. more \in Seq(S)
    BY <1>1, <1>3, WithoutIs
  <1> HIDE DEF t, X, Y, unique
  <1>5. Targets!AddKeys(t, other) = Linked(t, Targets!Without(Renamed(unique, f), Y))
    <2>1. Targets!AddKeys(t, other) =
              Linked(t, Targets!Without(Targets!MakeUnique(other), Targets!ToSet(t)))
      BY <1>1, <1>2, AddKeysIs
    <2> QED BY <2>1 DEF Y, unique
  <1>6. Targets!Without(Renamed(unique, f), Y) = Renamed(more, f)
    BY <1>2, <1>3, RenamedWithout
  <1>7. Targets!AddKeys(l, keys) = Linked(l, more)
    BY <1>1, AddKeysIs DEF X, unique
  <1> HIDE DEF more
  <1>8. Renamed(Linked(l, more), f) = Linked(t, Renamed(more, f))
    BY <1>4, RenamedBoth DEF t
  <1> QED BY <1>5, <1>6, <1>7, <1>8, Zenon DEF t

LEMMA RenamedRest ==
    ASSUME NEW S, NEW U, NEW f, Renaming(f, S, U), NEW l \in Seq(S), NEW keys \in Seq(S)
    PROVE  /\ Targets!Without(Renamed(l, f), Targets!ToSet(Renamed(keys, f))) =
                  Renamed(Targets!Without(l, Targets!ToSet(keys)), f)
           /\ Targets!Without(l, Targets!ToSet(keys)) \in Seq(S)
           /\ Renamed(l, f) \in Seq(U) /\ Renamed(keys, f) \in Seq(U)
           /\ Targets!NoItem \notin S /\ Targets!NoItem \notin U
  <1> DEFINE X == Targets!ToSet(keys)
             Y == Targets!ToSet(Renamed(keys, f))
  <1>1. Targets!NoItem \notin S /\ Targets!NoItem \notin U
    BY DEF Renaming
  <1>2. \A x \in S : f[x] \in Y <=> x \in X
    BY RenamedIs
  <1>3. Renamed(l, f) \in Seq(U) /\ Renamed(keys, f) \in Seq(U)
    BY RenamedIs
  <1> HIDE DEF X, Y
  <1>4. Targets!Without(Renamed(l, f), Y) = Renamed(Targets!Without(l, X), f)
    BY <1>2, RenamedWithout
  <1>5. Targets!Without(l, X) \in Seq(S)
    BY <1>1, WithoutIs
  <1> QED BY <1>1, <1>3, <1>4, <1>5 DEF X, Y

LEMMA RenamedKeys ==
    ASSUME NEW S, NEW U, NEW f, Renaming(f, S, U), NEW l \in Seq(S), NEW keys \in Seq(S),
           Targets!IsInjective(keys)
    PROVE  /\ Targets!DeleteKeys(Renamed(l, f), Renamed(keys, f)) =
                  Renamed(Targets!DeleteKeys(l, keys), f)
           /\ Targets!PrependKeys(Renamed(l, f), Renamed(keys, f)) =
                  Renamed(Targets!PrependKeys(l, keys), f)
           /\ Targets!AppendKeys(Renamed(l, f), Renamed(keys, f)) =
                  Renamed(Targets!AppendKeys(l, keys), f)
  <1> DEFINE t == Renamed(l, f)
             u == Renamed(keys, f)
             rest == Targets!Without(l, Targets!ToSet(keys))
  <1>1. /\ Targets!Without(t, Targets!ToSet(u)) = Renamed(rest, f)
        /\ rest \in Seq(S) /\ t \in Seq(U) /\ u \in Seq(U)
        /\ Targets!NoItem \notin S /\ Targets!NoItem \notin U
    BY RenamedRest
  <1>2. Targets!IsInjective(u)
    BY RenamedIs
  <1>3. /\ Targets!DeleteKeys(l, keys) = rest
        /\ Targets!PrependKeys(l, keys) = Linked(keys, rest)
        /\ Targets!AppendKeys(l, keys) = Linked(rest, keys)
    BY <1>1, DeleteKeysIs, PrependKeysIs, AppendKeysIs
  <1> HIDE DEF rest
  <1>4. /\ Renamed(Linked(keys, rest), f) = Linked(u, Renamed(rest, f))
        /\ Renamed(Linked(rest, keys), f) = Linked(Renamed(rest, f), u)
    BY <1>1, RenamedBoth
  <1> HIDE DEF t, u
  <1>5. /\ Targets!DeleteKeys(t, u) = Targets!Without(t, Targets!ToSet(u))
        /\ Targets!PrependKeys(t, u) = Linked(u, Targets!Without(t, Targets!ToSet(u)))
        /\ Targets!AppendKeys(t, u) = Linked(Targets!Without(t, Targets!ToSet(u)), u)
    BY <1>1, <1>2, DeleteKeysIs, PrependKeysIs, AppendKeysIs
  <1>6. Targets!DeleteKeys(t, u) = Renamed(Targets!DeleteKeys(l, keys), f)
    BY <1>1, <1>3, <1>5, Zenon
  <1>7. Targets!PrependKeys(t, u) = Renamed(Targets!PrependKeys(l, keys), f)
    BY <1>1, <1>3, <1>4, <1>5, Zenon
  <1>8. Targets!AppendKeys(t, u) = Renamed(Targets!AppendKeys(l, keys), f)
    BY <1>1, <1>3, <1>4, <1>5, Zenon
  <1> QED BY <1>6, <1>7, <1>8 DEF t, u

\* TakeAlong, with the places it looks for.
Ends(s, at, order) ==
    {j \in at + 1 .. Len(s) : s[j] \in Targets!ToSet(order)} \cup {Len(s) + 1}
LeastOf(E) == CHOOSE j \in E : \A k \in E : j <= k
Taken(r, at, end) ==
    [result |-> Linked(r.result, Part(r.scratch, at, end - 1)),
     scratch |-> Linked(Part(r.scratch, 1, at - 1), Part(r.scratch, end, Len(r.scratch)))]
RenamedParts(r, f) == [result |-> Renamed(r.result, f), scratch |-> Renamed(r.scratch, f)]

LEMMA TakeAlongBy ==
    ASSUME NEW r, NEW x, NEW order
    PROVE  LET at == FirstPlace(r.scratch, x)
           IN  Targets!TakeAlong(r, x, order) =
                   IF at = 0 THEN r ELSE Taken(r, at, LeastOf(Ends(r.scratch, at, order)))
  BY DEF Targets!TakeAlong, Targets!SelectInSeq, FirstPlace, Ends, LeastOf, Taken, Linked, Part

LEMMA TakenRenamed ==
    ASSUME NEW S, NEW U, NEW f, Renaming(f, S, U), NEW r \in Taking(S),
           NEW at \in 1 .. Len(r.scratch), NEW end \in at + 1 .. Len(r.scratch) + 1
    PROVE  Taken(RenamedParts(r, f), at, end) = RenamedParts(Taken(r, at, end), f)
  <1> DEFINE s == r.scratch
             t == r.result
             n == Len(s)
             ahead == Part(s, 1, at - 1)
             taken == Part(s, at, end - 1)
             after == Part(s, end, n)
             old == Renamed(s, f)
  <1>1. s \in Seq(S) /\ t \in Seq(S) /\ n \in Nat
    BY DEF Taking
  <1>2. Len(old) = n
    BY <1>1, RenamedIs
  <1>3. /\ 1 \in 1 .. n + 1 /\ at - 1 \in (1 - 1) .. n
        /\ at \in 1 .. n + 1 /\ end - 1 \in (at - 1) .. n
        /\ end \in 1 .. n + 1 /\ n \in (end - 1) .. n
    BY <1>1
  <1>4. ahead \in Seq(S) /\ Renamed(ahead, f) = Part(old, 1, at - 1)
    <2> DEFINE from == 1
               to == at - 1
    <2>1. s \in Seq(S) /\ from \in 1 .. Len(s) + 1 /\ to \in (from - 1) .. Len(s)
      BY <1>1, <1>3
    <2> HIDE DEF s, from, to
    <2> QED BY <2>1, PartIs, RenamedPart DEF from, to
  <1>5. taken \in Seq(S) /\ Renamed(taken, f) = Part(old, at, end - 1)
    <2> DEFINE from == at
               to == end - 1
    <2>1. s \in Seq(S) /\ from \in 1 .. Len(s) + 1 /\ to \in (from - 1) .. Len(s)
      BY <1>1, <1>3
    <2> HIDE DEF s, from, to
    <2> QED BY <2>1, PartIs, RenamedPart DEF from, to
  <1>6. after \in Seq(S) /\ Renamed(after, f) = Part(old, end, n)
    <2> DEFINE from == end
               to == n
    <2>1. s \in Seq(S) /\ from \in 1 .. Len(s) + 1 /\ to \in (from - 1) .. Len(s)
      BY <1>1, <1>3
    <2> HIDE DEF s, from, to
    <2> QED BY <2>1, PartIs, RenamedPart DEF from, to
  <1>7. /\ Taken(r, at, end).result = Linked(t, taken)
        /\ Taken(r, at, end).scratch = Linked(ahead, after)
    BY DEF Taken
  <1>8. Taken(RenamedParts(r, f), at, end) =
            [result |-> Linked(Renamed(t, f), Part(old, at, end - 1)),
             scratch |-> Linked(Part(old, 1, at - 1), Part(old, end, Len(old)))]
    BY DEF Taken, RenamedParts
  <1> HIDE DEF s, t, ahead, taken, after, old
  <1>9. Renamed(Linked(t, taken), f) = Linked(Renamed(t, f), Renamed(taken, f))
    BY <1>1, <1>5, RenamedBoth
  <1>10. Renamed(Linked(ahead, after), f) = Linked(Renamed(ahead, f), Renamed(after, f))
    BY <1>4, <1>6, RenamedBoth
  <1> QED BY <1>2, <1>4, <1>5, <1>6, <1>7, <1>8, <1>9, <1>10, Zenon DEF RenamedParts

LEMMA TakeAlongRenamed ==
    ASSUME NEW S, NEW U, NEW f, Renaming(f, S, U), NEW r \in Taking(S), NEW x \in S,
           NEW order, NEW other,
           \A z \in S : f[z] \in Targets!ToSet(other) <=> z \in Targets!ToSet(order)
    PROVE  Targets!TakeAlong(RenamedParts(r, f), f[x], other) =
               RenamedParts(Targets!TakeAlong(r, x, order), f)
  <1> DEFINE s == r.scratch
             t == Renamed(s, f)
             n == Len(s)
             at == FirstPlace(s, x)
             end == LeastOf(Ends(s, at, order))
  <1>1. s \in Seq(S) /\ n \in Nat /\ \A i \in 1 .. n : s[i] \in S
    BY DEF Taking
  <1>2. Len(t) = n /\ \A i \in 1 .. n : t[i] = f[s[i]]
    BY <1>1, RenamedIs
  <1>3. RenamedParts(r, f).scratch = t
    BY DEF RenamedParts
  <1>0. s = r.scratch
    OBVIOUS
  <1> HIDE DEF s, t
  <1>4. FirstPlace(t, f[x]) = at
    <2>1. {i \in 1 .. n : t[i] = f[x]} = {i \in 1 .. n : s[i] = x}
      <3>1. \A i \in 1 .. n : t[i] = f[x] <=> s[i] = x
        BY <1>1, <1>2 DEF Renaming
      <3> QED BY <3>1
    <2> QED BY <1>2, <2>1, Zenon DEF FirstPlace
  <1>5. at \in 0 .. n
    BY <1>1, PlaceIs
  <1> HIDE DEF at
  <1>6. Ends(t, at, other) = Ends(s, at, order)
    <2>1. \A j \in at + 1 .. n : t[j] \in Targets!ToSet(other) <=> s[j] \in Targets!ToSet(order)
      <3>1. \A j \in at + 1 .. n : j \in 1 .. n
        BY <1>1, <1>5
      <3> QED BY <1>1, <1>2, <3>1
    <2> QED BY <1>2, <2>1 DEF Ends
  <1>7. end \in at + 1 .. n + 1
    <2>1. Ends(s, at, order) \subseteq at + 1 .. n + 1 /\ n + 1 \in Ends(s, at, order)
      BY <1>1, <1>5 DEF Ends
    <2>2. Ends(s, at, order) \subseteq Nat /\ Ends(s, at, order) # {}
      BY <1>1, <1>5, <2>1
    <2> DEFINE E == Ends(s, at, order)
    <2> HIDE DEF E
    <2>3. E # {} /\ E \subseteq Nat
      BY <2>2 DEF E
    <2>4. LeastOf(E) \in E
      BY <2>3, LeastNumber DEF LeastOf
    <2> QED BY <2>1, <2>4 DEF E
  <1> HIDE DEF end, n
  <1>8. Targets!TakeAlong(r, x, order) = IF at = 0 THEN r ELSE Taken(r, at, end)
    BY <1>0, TakeAlongBy DEF at, end
  <1>9. Targets!TakeAlong(RenamedParts(r, f), f[x], other) =
            IF at = 0 THEN RenamedParts(r, f) ELSE Taken(RenamedParts(r, f), at, end)
    <2>1. Targets!TakeAlong(RenamedParts(r, f), f[x], other) =
              IF FirstPlace(t, f[x]) = 0 THEN RenamedParts(r, f)
              ELSE Taken(RenamedParts(r, f), FirstPlace(t, f[x]),
                         LeastOf(Ends(t, FirstPlace(t, f[x]), other)))
      BY <1>3, TakeAlongBy
    <2> QED BY <1>4, <1>6, <2>1 DEF end
  <1>10. CASE at = 0
    BY <1>8, <1>9, <1>10
  <1>11. CASE at # 0
    <2>1. at \in 1 .. Len(r.scratch) /\ end \in at + 1 .. Len(r.scratch) + 1
      BY <1>0, <1>1, <1>5, <1>7, <1>11 DEF n
    <2>2. Taken(RenamedParts(r, f), at, end) = RenamedParts(Taken(r, at, end), f)
      BY <2>1, TakenRenamed
    <2> QED BY <1>8, <1>9, <1>11, <2>2
  <1> QED BY <1>10, <1>11

LEMMA RenamedTyped ==
    ASSUME NEW S, NEW U, NEW f, Renaming(f, S, U), NEW r \in Taking(S)
    PROVE  RenamedParts(r, f) \in Taking(U)
  <1>1. r.result \in Seq(S) /\ r.scratch \in Seq(S)
    BY DEF Taking
  <1>2. Renamed(r.result, f) \in Seq(U) /\ Renamed(r.scratch, f) \in Seq(U)
    BY <1>1, RenamedIs
  <1> QED BY <1>2 DEF RenamedParts, Taking

\* What is taken along an order, item by item; the order may repeat items.
LEMMA TakenAlongUnique ==
    ASSUME NEW S, NEW l \in Seq(S), NEW order \in Seq(S), NEW unique,
           unique = Targets!MakeUnique(order)
    PROVE  unique \in Seq(S) /\ \E c : TakingAlong(c, Taking(S), l, unique, order)
  <1>1. [result |-> <<>>, scratch |-> l] \in Taking(S)
    BY DEF Taking
  <1>2. unique \in Seq(S)
    BY UniqueMade
  <1>3. \A x \in Taking(S), i \in S : Targets!TakeAlong(x, i, order) \in Taking(S)
    BY TakeAlongTyped
  <1>4. \E c : TakingAlong(c, Taking(S), l, unique, order)
    BY <1>1, <1>2, <1>3, TakenAlongBy, Zenon
  <1> QED BY <1>2, <1>4

LEMMA TakenAlongRenamed ==
    ASSUME NEW S, NEW U, NEW f, Renaming(f, S, U), NEW l \in Seq(S), NEW order \in Seq(S),
           NEW other \in Seq(U),
           Targets!MakeUnique(other) = Renamed(Targets!MakeUnique(order), f)
    PROVE  /\ Targets!TakenAlong(Renamed(l, f), other) =
                  RenamedParts(Targets!TakenAlong(l, order), f)
           /\ Targets!TakenAlong(l, order) \in Taking(S)
  <1> DEFINE s == Targets!MakeUnique(order)
             t == Targets!MakeUnique(other)
             n == Len(s)
  <1>1. PICK c : TakingAlong(c, Taking(S), l, s, order)
    BY TakenAlongUnique
  <1>2. Renamed(l, f) \in Seq(U)
    BY RenamedIs
  <1>3. PICK d : TakingAlong(d, Taking(U), Renamed(l, f), t, other)
    BY <1>2, TakenAlongUnique
  <1>4. s \in Seq(S) /\ Targets!ToSet(s) = Targets!ToSet(order)
        /\ t \in Seq(U) /\ Targets!ToSet(t) = Targets!ToSet(other) /\ t = Renamed(s, f)
    BY UniqueMade
  <1> HIDE DEF s, t
  <1>5. \A x \in S : f[x] \in Targets!ToSet(other) <=> x \in Targets!ToSet(order)
    BY <1>4, RenamedIs
  <1>6. n \in Nat /\ Len(t) = n /\ \A k \in 1 .. n : s[k] \in S /\ t[k] = f[s[k]]
    <2>1. n \in Nat /\ \A k \in 1 .. n : s[k] \in S
      BY <1>4
    <2>2. Len(Renamed(s, f)) = n /\ \A k \in 1 .. n : Renamed(s, f)[k] = f[s[k]]
      BY <1>4, RenamedIs
    <2> HIDE DEF n
    <2> QED BY <1>4, <2>1, <2>2
  <1>7. /\ c \in [0 .. n -> Taking(S)] /\ c[0] = [result |-> <<>>, scratch |-> l]
        /\ Targets!TakenAlong(l, order) = c[n]
        /\ \A k \in 1 .. n : c[k] = Targets!TakeAlong(c[k - 1], s[k], order)
    BY <1>1 DEF TakingAlong
  <1> HIDE DEF n
  <1>8. /\ d[0] = [result |-> <<>>, scratch |-> Renamed(l, f)]
        /\ Targets!TakenAlong(Renamed(l, f), other) = d[n]
        /\ \A k \in 1 .. n : d[k] = Targets!TakeAlong(d[k - 1], t[k], other)
    BY <1>3, <1>6 DEF TakingAlong
  <1> DEFINE T == {k \in 0 .. n : d[k] = RenamedParts(c[k], f)}
  <1>9. 0 \in T
    <2>1. c[0].result = <<>> /\ c[0].scratch = l
      BY <1>7
    <2>2. d[0] = RenamedParts(c[0], f)
      BY <1>8, <2>1, RenamedNone, Zenon DEF RenamedParts
    <2> QED BY <1>6, <2>2
  <1>10. ASSUME NEW k \in 1 .. n, k - 1 \in T
         PROVE  k \in T
    <2> DEFINE old == c[k - 1]
               x == s[k]
    <2>1. k \in 0 .. n /\ k - 1 \in 0 .. n
      BY <1>6
    <2>2. old \in Taking(S) /\ x \in S /\ t[k] = f[x] /\ d[k - 1] = RenamedParts(old, f)
      <3>1. old \in Taking(S)
        BY <1>7, <2>1
      <3>2. x \in S /\ t[k] = f[x]
        BY <1>6
      <3>3. d[k - 1] = RenamedParts(old, f)
        BY <1>10
      <3> QED BY <3>1, <3>2, <3>3
    <2>3. c[k] = Targets!TakeAlong(old, x, order) /\ d[k] = Targets!TakeAlong(d[k - 1], t[k], other)
      BY <1>7, <1>8
    <2> HIDE DEF old, x
    <2>4. Targets!TakeAlong(RenamedParts(old, f), f[x], other) =
              RenamedParts(Targets!TakeAlong(old, x, order), f)
      BY <1>5, <2>2, TakeAlongRenamed
    <2>5. d[k] = RenamedParts(c[k], f)
      BY <2>2, <2>3, <2>4, Zenon
    <2> QED BY <2>1, <2>5
  <1> HIDE DEF T
  <1>11. n \in T
    <2>1. 0 .. n \subseteq T
      BY <1>6, <1>9, <1>10, StepByStep
    <2> QED BY <1>6, <2>1
  <1>12. d[n] = RenamedParts(c[n], f)
    BY <1>11 DEF T
  <1>13. c[n] \in Taking(S)
    BY <1>6, <1>7
  <1> QED BY <1>7, <1>8, <1>12, <1>13

\* An empty order takes nothing along: ReorderKeys is what the order leaves and what it takes.
LEMMA ReorderedBy ==
    ASSUME NEW S, NEW l \in Seq(S), NEW order \in Seq(S)
    PROVE  Targets!ReorderKeys(l, order) =
               Linked(Targets!TakenAlong(l, order).scratch, Targets!TakenAlong(l, order).result)
  <1> DEFINE r == Targets!TakenAlong(l, order)
  <1>1. CASE order = <<>>
    <2>1. Targets!IsInjective(order)
      BY <1>1, NoneOf
    <2>2. PICK c : TakingAlong(c, Taking(S), l, order, order)
      BY <2>1, TakenAlongStepwise
    <2>3. Len(order) = 0
      BY <1>1
    <2>4. c[0] = [result |-> <<>>, scratch |-> l] /\ r = c[0]
      BY <2>2, <2>3 DEF TakingAlong
    <2>5. r.scratch = l /\ r.result = <<>>
      BY <2>4
    <2>6. Linked(l, <<>>) = l
      BY LinkedNone
    <2>7. Targets!ReorderKeys(l, order) = l
      BY <1>1 DEF Targets!ReorderKeys
    <2> QED BY <2>5, <2>6, <2>7, Zenon
  <1>2. CASE order # <<>>
    BY <1>2 DEF Targets!ReorderKeys, Linked
  <1> QED BY <1>1, <1>2

LEMMA RenamedOrdered ==
    ASSUME NEW S, NEW U, NEW f, Renaming(f, S, U), NEW l \in Seq(S), NEW order \in Seq(S),
           NEW other \in Seq(U),
           Targets!MakeUnique(other) = Renamed(Targets!MakeUnique(order), f)
    PROVE  Targets!ReorderKeys(Renamed(l, f), other) = Renamed(Targets!ReorderKeys(l, order), f)
  <1> DEFINE r == Targets!TakenAlong(l, order)
             q == Targets!TakenAlong(Renamed(l, f), other)
  <1>1. q = RenamedParts(r, f) /\ r \in Taking(S)
    BY TakenAlongRenamed
  <1>2. Renamed(l, f) \in Seq(U)
    BY RenamedIs
  <1>3. Targets!ReorderKeys(l, order) = Linked(r.scratch, r.result)
    BY ReorderedBy
  <1>4. Targets!ReorderKeys(Renamed(l, f), other) = Linked(q.scratch, q.result)
    BY <1>2, ReorderedBy
  <1> HIDE DEF r, q
  <1>5. r.scratch \in Seq(S) /\ r.result \in Seq(S)
    BY <1>1 DEF Taking
  <1>6. q.scratch = Renamed(r.scratch, f) /\ q.result = Renamed(r.result, f)
    BY <1>1 DEF RenamedParts
  <1>7. Renamed(Linked(r.scratch, r.result), f) =
            Linked(Renamed(r.scratch, f), Renamed(r.result, f))
    BY <1>5, RenamedBoth
  <1> QED BY <1>3, <1>4, <1>6, <1>7, Zenon

-----------------------------------------------------------------------------
\* A list op as the lists of keys it has, mapped or as they are.
Applying(keys, isExplicit, l) ==
    LET deleted == Targets!DeleteKeys(l, keys["deleted"])
        added == Targets!AddKeys(deleted, keys["added"])
        prepended == Targets!PrependKeys(added, keys["prepended"])
        appended == Targets!AppendKeys(prepended, keys["appended"])
    IN  IF isExplicit THEN Targets!AddKeys(<<>>, keys["explicit"])
        ELSE Targets!ReorderKeys(appended, keys["ordered"])

LEMMA ApplyingIs ==
    ASSUME NEW op, NEW l, NEW cb, NEW keys,
           \A kind \in Targets!Kinds : keys[kind] = Targets!Mapped(op.items[kind], cb)
    PROVE  Targets!ApplyOperations(op, l, cb) = Applying(keys, op.explicit, l)
  <1> DEFINE mapped == [kind \in Targets!Kinds |-> Targets!Mapped(op.items[kind], cb)]
  <1>1. /\ mapped["deleted"] = keys["deleted"] /\ mapped["added"] = keys["added"]
        /\ mapped["prepended"] = keys["prepended"] /\ mapped["appended"] = keys["appended"]
        /\ mapped["ordered"] = keys["ordered"] /\ mapped["explicit"] = keys["explicit"]
    BY DEF Targets!Kinds
  <1>2. Targets!ApplyOperations(op, l, cb) = Applying(mapped, op.explicit, l)
    BY DEF Targets!ApplyOperations, Applying
  <1> HIDE DEF mapped
  <1> QED BY <1>1, <1>2, Zenon DEF Applying

LEMMA AppliedBy ==
    ASSUME NEW S, NEW op \in OpsOf(S), NEW l, Targets!NoItem \notin S
    PROVE  Targets!Applied(op, l) = Applying(op.items, op.explicit, l)
  <1> DEFINE U == UNION {Targets!ToSet(op.items[kind]) : kind \in Targets!Kinds}
             cb == Targets!Itself(U)
  <1>1. \A kind \in Targets!Kinds :
            op.items[kind] \in Seq(S) /\ Targets!ToSet(op.items[kind]) \subseteq U
    BY DEF OpsOf
  <1>2. Targets!Applied(op, l) = Targets!ApplyOperations(op, l, cb)
    BY DEF Targets!Applied
  <1> HIDE DEF U
  <1>3. \A kind \in Targets!Kinds : op.items[kind] = Targets!Mapped(op.items[kind], cb)
    BY <1>1, MappedItself
  <1> HIDE DEF cb
  <1>4. Targets!ApplyOperations(op, l, cb) = Applying(op.items, op.explicit, l)
    BY <1>3, ApplyingIs, Zenon
  <1> QED BY <1>2, <1>4

\* An op applied with its lists renamed, each up to repetitions, to a renamed list.
LEMMA RenamedApplying ==
    ASSUME NEW S, NEW U, NEW f, Renaming(f, S, U), NEW op \in OpsOf(S), Unrepeated(op),
           NEW l \in Seq(S), NEW keys, NEW isExplicit \in BOOLEAN,
           \A kind \in Targets!Kinds :
              /\ keys[kind] \in Seq(U)
              /\ Targets!MakeUnique(keys[kind]) =
                     Renamed(Targets!MakeUnique(op.items[kind]), f)
              /\ kind \notin {"added", "ordered"} => keys[kind] = Renamed(op.items[kind], f)
    PROVE  Applying(keys, isExplicit, Renamed(l, f)) =
               Renamed(Applying(op.items, isExplicit, l), f)
  <1> DEFINE its == op.items
             l1 == Targets!DeleteKeys(l, its["deleted"])
             l2 == Targets!AddKeys(l1, its["added"])
             l3 == Targets!PrependKeys(l2, its["prepended"])
             l4 == Targets!AppendKeys(l3, its["appended"])
             m0 == Renamed(l, f)
             m1 == Targets!DeleteKeys(m0, keys["deleted"])
             m2 == Targets!AddKeys(m1, keys["added"])
             m3 == Targets!PrependKeys(m2, keys["prepended"])
             m4 == Targets!AppendKeys(m3, keys["appended"])
             none == <<>>
  <1>1. Applying(its, isExplicit, l) =
            IF isExplicit THEN Targets!AddKeys(none, its["explicit"])
            ELSE Targets!ReorderKeys(l4, its["ordered"])
    BY DEF Applying
  <1>2. Applying(keys, isExplicit, m0) =
            IF isExplicit THEN Targets!AddKeys(none, keys["explicit"])
            ELSE Targets!ReorderKeys(m4, keys["ordered"])
    BY DEF Applying
  <1>3. /\ "added" \in Targets!Kinds /\ "ordered" \in Targets!Kinds /\ "deleted" \in Targets!Kinds
        /\ "prepended" \in Targets!Kinds /\ "appended" \in Targets!Kinds
        /\ "explicit" \in Targets!Kinds
    BY DEF Targets!Kinds
  <1>4. \A kind \in Targets!Kinds : its[kind] \in Seq(S)
    BY DEF OpsOf
  <1>5. /\ Targets!IsInjective(its["deleted"]) /\ Targets!IsInjective(its["prepended"])
        /\ Targets!IsInjective(its["appended"])
    BY <1>3 DEF Unrepeated
  <1>6. /\ keys["deleted"] = Renamed(its["deleted"], f)
        /\ keys["prepended"] = Renamed(its["prepended"], f)
        /\ keys["appended"] = Renamed(its["appended"], f)
    BY <1>3
  <1>7. \A kind \in Targets!Kinds :
           /\ keys[kind] \in Seq(U)
           /\ Targets!MakeUnique(keys[kind]) = Renamed(Targets!MakeUnique(its[kind]), f)
    OBVIOUS
  <1>8. Targets!NoItem \notin S /\ none \in Seq(S) /\ Renamed(none, f) = none
    BY RenamedNone DEF Renaming
  <1> HIDE DEF its, l1, l2, l3, l4, m0, m1, m2, m3, m4, none
  <1>9. l1 \in Seq(S) /\ m1 = Renamed(l1, f)
    <2>1. l1 = Targets!Without(l, Targets!ToSet(its["deleted"]))
      BY <1>3, <1>4, <1>8, DeleteKeysIs DEF l1
    <2>2. l1 \in Seq(S)
      BY <1>8, <2>1, WithoutIs
    <2>3. Targets!DeleteKeys(m0, Renamed(its["deleted"], f)) =
              Renamed(Targets!DeleteKeys(l, its["deleted"]), f)
      BY <1>3, <1>4, <1>5, RenamedKeys DEF m0
    <2> QED BY <1>6, <2>2, <2>3 DEF l1, m1
  <1>10. l2 \in Seq(S) /\ m2 = Renamed(l2, f)
    <2>1. l2 \in Seq(S)
      BY <1>3, <1>4, <1>9, KeysAdded DEF l2
    <2>2. Targets!AddKeys(Renamed(l1, f), keys["added"]) =
              Renamed(Targets!AddKeys(l1, its["added"]), f)
      BY <1>3, <1>4, <1>7, <1>9, RenamedAdded
    <2> QED BY <1>9, <2>1, <2>2 DEF l2, m2
  <1>11. l3 \in Seq(S) /\ m3 = Renamed(l3, f)
    <2>1. l3 \in Seq(S)
      BY <1>3, <1>4, <1>8, <1>10, PrependKeysTyped DEF l3
    <2>2. Targets!PrependKeys(Renamed(l2, f), Renamed(its["prepended"], f)) =
              Renamed(Targets!PrependKeys(l2, its["prepended"]), f)
      BY <1>3, <1>4, <1>5, <1>10, RenamedKeys
    <2> QED BY <1>6, <1>10, <2>1, <2>2 DEF l3, m3
  <1>12. l4 \in Seq(S) /\ m4 = Renamed(l4, f)
    <2>1. l4 \in Seq(S)
      BY <1>3, <1>4, <1>8, <1>11, AppendKeysTyped DEF l4
    <2>2. Targets!AppendKeys(Renamed(l3, f), Renamed(its["appended"], f)) =
              Renamed(Targets!AppendKeys(l3, its["appended"]), f)
      BY <1>3, <1>4, <1>5, <1>11, RenamedKeys
    <2> QED BY <1>6, <1>11, <2>1, <2>2 DEF l4, m4
  <1>13. Targets!ReorderKeys(m4, keys["ordered"]) =
             Renamed(Targets!ReorderKeys(l4, its["ordered"]), f)
    BY <1>3, <1>4, <1>7, <1>12, RenamedOrdered
  <1>14. Targets!AddKeys(none, keys["explicit"]) =
             Renamed(Targets!AddKeys(none, its["explicit"]), f)
    <2>1. Targets!AddKeys(Renamed(none, f), keys["explicit"]) =
              Renamed(Targets!AddKeys(none, its["explicit"]), f)
      BY <1>3, <1>4, <1>7, <1>8, RenamedAdded
    <2> QED BY <1>8, <2>1
  <1>15. CASE isExplicit
    BY <1>1, <1>2, <1>14, <1>15, Zenon DEF its, m0
  <1>16. CASE ~isExplicit
    BY <1>1, <1>2, <1>13, <1>16, Zenon DEF its, m0
  <1> QED BY <1>15, <1>16

\* Items renamed one to one in a list op and in a list are renamed in the result, whether the
\* op is modified (listOp.cpp:704, ModifyOperations) or its items are mapped as it is applied
\* (ApplyOperations). It holds of every op whose lists SetItems made, and of every list.
THEOREM RenamingCommutes ==
    ASSUME NEW S, NEW U, NEW f \in [S -> U], \A x, y \in S : f[x] = f[y] => x = y,
           Targets!NoItem \notin S, Targets!NoItem \notin U,
           NEW op \in OpsOf(S), Unrepeated(op), NEW l \in Seq(S)
    PROVE  Targets!RenamedRight(op, l, f)
  <1> DEFINE new == Targets!ModifyOperations(op, f)
             its == op.items
             mapped == [kind \in Targets!Kinds |-> Renamed(its[kind], f)]
  <1>1. Renaming(f, S, U)
    BY DEF Renaming
  <1>2. \A kind \in Targets!Kinds : its[kind] \in Seq(S)
    BY DEF OpsOf
  <1>3. op.explicit \in BOOLEAN
    BY DEF OpsOf
  <1>4. /\ new.explicit = op.explicit
        /\ new.items =
               [kind \in Targets!Kinds |-> Targets!MakeUnique(Targets!Mapped(its[kind], f))]
        /\ new = [explicit |-> new.explicit, items |-> new.items]
    BY DEF Targets!ModifyOperations, OpsOf
  <1> HIDE DEF its, new
  <1>5. \A kind \in Targets!Kinds : /\ Targets!Mapped(its[kind], f) = Renamed(its[kind], f)
                                    /\ Renamed(its[kind], f) \in Seq(U)
    BY <1>1, <1>2, MappedRenamed, RenamedIs
  <1>6. \A kind \in Targets!Kinds :
           new.items[kind] = Targets!MakeUnique(Renamed(its[kind], f))
    BY <1>4, <1>5
  <1>7. \A kind \in Targets!Kinds :
           /\ Targets!MakeUnique(Renamed(its[kind], f)) =
                  Renamed(Targets!MakeUnique(its[kind]), f)
           /\ Targets!MakeUnique(Renamed(its[kind], f)) \in Seq(U)
           /\ Targets!MakeUnique(Targets!MakeUnique(Renamed(its[kind], f))) =
                  Targets!MakeUnique(Renamed(its[kind], f))
    <2> TAKE kind \in Targets!Kinds
    <2> DEFINE s == Renamed(its[kind], f)
               u == Targets!MakeUnique(s)
    <2>1. s \in Seq(U)
      BY <1>5
    <2>2. u = Renamed(Targets!MakeUnique(its[kind]), f)
      BY <1>1, <1>2, UniqueRenamed
    <2> HIDE DEF s
    <2>3. u \in Seq(U) /\ Targets!IsInjective(u)
      BY <2>1, UniqueMade
    <2> HIDE DEF u
    <2>4. Targets!MakeUnique(u) = u
      BY <2>3, UniqueAlready
    <2> QED BY <2>2, <2>3, <2>4 DEF u, s
  <1>8. \A kind \in Targets!Kinds \ {"added", "ordered"} :
           Targets!MakeUnique(Renamed(its[kind], f)) = Renamed(its[kind], f)
    <2> TAKE kind \in Targets!Kinds \ {"added", "ordered"}
    <2>1. Targets!IsInjective(its[kind])
      BY DEF Unrepeated, its
    <2>2. Targets!IsInjective(Renamed(its[kind], f)) /\ Renamed(its[kind], f) \in Seq(U)
      BY <1>1, <1>2, <2>1, RenamedIs
    <2> QED BY <2>2, UniqueAlready
  <1>9. Targets!Applied(op, l) = Applying(its, op.explicit, l)
    BY AppliedBy DEF its
  \* The op modified.
  <1>10. Targets!Applied(new, Renamed(l, f)) = Renamed(Targets!Applied(op, l), f)
    <2>1. new \in OpsOf(U)
      <3>1. new.items \in [Targets!Kinds -> Seq(U)]
        BY <1>4, <1>6, <1>7
      <3> QED BY <1>3, <1>4, <3>1 DEF OpsOf
    <2>2. Targets!Applied(new, Renamed(l, f)) = Applying(new.items, op.explicit, Renamed(l, f))
      BY <1>4, <2>1, AppliedBy
    <2> DEFINE keys == new.items
    <2>3. \A kind \in Targets!Kinds :
             /\ keys[kind] \in Seq(U)
             /\ Targets!MakeUnique(keys[kind]) = Renamed(Targets!MakeUnique(op.items[kind]), f)
             /\ kind \notin {"added", "ordered"} => keys[kind] = Renamed(op.items[kind], f)
      BY <1>6, <1>7, <1>8 DEF its
    <2> HIDE DEF keys
    <2>4. Applying(keys, op.explicit, Renamed(l, f)) =
              Renamed(Applying(op.items, op.explicit, l), f)
      BY <1>1, <1>3, <2>3, RenamedApplying
    <2> QED BY <1>9, <2>2, <2>4 DEF keys, its
  \* Its items mapped as it is applied.
  <1>11. Targets!ApplyOperations(op, Renamed(l, f), f) = Renamed(Targets!Applied(op, l), f)
    <2>1. \A kind \in Targets!Kinds : mapped[kind] = Targets!Mapped(op.items[kind], f)
      BY <1>5 DEF its
    <2>2. \A kind \in Targets!Kinds :
             /\ mapped[kind] \in Seq(U)
             /\ Targets!MakeUnique(mapped[kind]) = Renamed(Targets!MakeUnique(op.items[kind]), f)
             /\ kind \notin {"added", "ordered"} => mapped[kind] = Renamed(op.items[kind], f)
      BY <1>5, <1>7 DEF its
    <2> HIDE DEF mapped
    <2>3. Targets!ApplyOperations(op, Renamed(l, f), f) =
              Applying(mapped, op.explicit, Renamed(l, f))
      BY <2>1, ApplyingIs, Zenon
    <2>4. Applying(mapped, op.explicit, Renamed(l, f)) =
              Renamed(Applying(op.items, op.explicit, l), f)
      BY <1>1, <1>3, <2>2, RenamedApplying
    <2> QED BY <1>9, <2>3, <2>4 DEF its
  <1> QED BY <1>10, <1>11 DEF Targets!RenamedRight, Renamed, new

=============================================================================
