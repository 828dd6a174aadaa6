----------------------------- MODULE PoolProofs -----------------------------
(***************************************************************************)
(* No element of the pool is in two places while its regions fit in a      *)
(* handle, for every number of threads and every width of the handle.      *)
(*                                                                         *)
(* The invariant that carries the proof is about the one atomic word.      *)
(* Whatever a thread, a client or a shared list has lies below the word,   *)
(* or, while the word is locked, in a region not after that of the thread  *)
(* that locked it; so what the next exchange wins, nobody has.  The        *)
(* exchange compares the whole word, and a word that is equal to the one   *)
(* read is the same frontier.                                              *)
(***************************************************************************)
EXTENDS Pool, Integers, FiniteSetTheorems, TLAPS

-----------------------------------------------------------------------------
(* The constants                                                           *)

\* A power of two of the code's widths is a number, at least two: it is the
\* number of subsets of an interval.
LEMMA PowerOfTwo ==
    ASSUME NEW n \in Nat \ {0}
    PROVE  2^n \in Nat /\ 2^n >= 2
  <1> DEFINE S == 1..n
  <1>1. IsFiniteSet(S) /\ Cardinality(S) = n
    BY FS_Interval
  <1>2. IsFiniteSet(SUBSET S) /\ Cardinality(SUBSET S) = 2^n
    <2> HIDE DEF S
    <2> QED BY <1>1, FS_SUBSET
  <1>3. {{}, S} \subseteq SUBSET S /\ {} # S
    OBVIOUS
  <1>4. Cardinality({{}, S}) = 1 + 1
    <2> HIDE DEF S
    <2>1. Cardinality({S}) = 1 /\ IsFiniteSet({S})
      BY FS_Singleton
    <2>2. {} \notin {S} /\ {S} \cup {{}} = {{}, S}
      BY <1>3
    <2>3. Cardinality({S} \cup {{}}) = Cardinality({S}) + 1
      BY <2>1, <2>2, FS_AddElement
    <2> QED BY <2>1, <2>2, <2>3, Zenon
  <1>5. Cardinality({{}, S}) <= Cardinality(SUBSET S)
    <2> HIDE DEF S
    <2> QED BY <1>2, <1>3, FS_Subset
  <1>6. Cardinality(SUBSET S) \in Nat
    BY <1>2, FS_CardinalityType
  <1> HIDE DEF S
  <1> QED BY <1>2, <1>4, <1>5, <1>6

LEMMA Widths ==
    /\ NumRegions \in Nat /\ NumRegions >= 2
    /\ MaxIndex \in Nat /\ MaxIndex >= 2
    /\ ElemsPerSpan \in Nat /\ 1 <= ElemsPerSpan /\ ElemsPerSpan < MaxIndex
  BY PoolConstants, PowerOfTwo DEF NumRegions, MaxIndex

\* A region and an index that fit come back out of the word; the region after
\* the last one comes back as the null region.
LEMMA InWordFits ==
    ASSUME NEW r \in 0..(NumRegions - 1), NEW i \in 0..MaxIndex
    PROVE  InWord(r, i) = [region |-> r, index |-> i]
  BY Widths DEF InWord

LEMMA InWordPast == InWord(NumRegions, 1) = [region |-> 0, index |-> 1]
  <1>1. NumRegions % NumRegions = 0 /\ 1 % 2 = 1
    BY Widths
  <1> QED BY <1>1 DEF InWord

LEMMA States ==
    /\ InitState = [region |-> 0, index |-> 0]
    /\ LockedState = [region |-> NumRegions - 1, index |-> MaxIndex]
    /\ InitState \in Handle /\ LockedState \in Handle /\ InitState # LockedState
  BY Widths, InWordFits DEF InitState, LockedState, Handle

-----------------------------------------------------------------------------
(* The word                                                                *)

\* The indices at which spans begin.
Boundary(i) == \E k \in Nat : i = 1 + k * ElemsPerSpan

\* The word while it is neither initial nor locked.
Unlocked(w) == w \in Handle /\ Boundary(w.index)

\* An unlocked word looks neither initial nor locked, and leaves something of
\* its region.
LEMMA UnlockedWord ==
    ASSUME NEW w, Unlocked(w)
    PROVE  /\ w # InitState /\ w # LockedState
           /\ w.region \in 0..(NumRegions - 1)
           /\ w.index \in 1..(MaxIndex - 1)
  <1>1. PICK k \in Nat : w.index = 1 + k * ElemsPerSpan
    BY DEF Unlocked, Boundary
  <1>2. (k * ElemsPerSpan) % ElemsPerSpan = 0 /\ k * ElemsPerSpan \in Nat
    BY Widths
  <1>3. w.index # MaxIndex
    BY <1>1, <1>2, Widths, PoolConstants
  <1>4. w.region \in 0..(NumRegions - 1) /\ w.index \in 0..MaxIndex
    BY DEF Unlocked, Handle
  <1> QED BY <1>1, <1>2, <1>3, <1>4, States, Widths

\* What Reserve makes of an unlocked word.
LEMMA ReserveWord ==
    ASSUME NEW w, Unlocked(w)
    PROVE  \/ /\ Reserve(w) = LockedState
           \/ /\ Reserve(w) # LockedState
              /\ Unlocked(Reserve(w))
              /\ Reserve(w).region = w.region
              /\ Reserve(w).index = w.index + ElemsPerSpan
  <1>1. PICK k \in Nat : w.index = 1 + k * ElemsPerSpan
    BY DEF Unlocked, Boundary
  <1>2. w.region \in 0..(NumRegions - 1) /\ w.index \in 1..(MaxIndex - 1)
    BY UnlockedWord
  <1>3. CASE MaxIndex - w.index + 1 <= ElemsPerSpan
    BY <1>3 DEF Reserve
  <1>4. CASE ~(MaxIndex - w.index + 1 <= ElemsPerSpan)
    <2>1. w.index + ElemsPerSpan \in 0..MaxIndex
      BY <1>2, <1>4, Widths
    <2>2. Reserve(w) = [region |-> w.region, index |-> w.index + ElemsPerSpan]
      BY <1>2, <1>4, <2>1, InWordFits DEF Reserve
    <2>3. w.index + ElemsPerSpan = 1 + (k + 1) * ElemsPerSpan /\ k + 1 \in Nat
      BY <1>1, Widths
    <2>4. Unlocked(Reserve(w))
      BY <1>2, <2>1, <2>2, <2>3 DEF Unlocked, Boundary, Handle
    <2> QED BY <2>2, <2>4, UnlockedWord
  <1> QED BY <1>3, <1>4

\* The word NewRegion and InitRegion unlock.
LEMMA FirstWord ==
    ASSUME NEW r \in 1..NumRegions
    PROVE  /\ Unlocked(InWord(r, 1))
           /\ InWord(r, 1).index = 1
           /\ InWord(r, 1).region # r - 1
           /\ r # NumRegions => InWord(r, 1).region = r
  <1>1. 1 = 1 + 0 * ElemsPerSpan
    BY Widths
  <1>2. Boundary(1)
    BY <1>1 DEF Boundary
  <1>3. CASE r = NumRegions
    BY <1>2, <1>3, InWordPast, Widths DEF Unlocked, Handle
  <1>4. CASE r # NumRegions
    <2>1. InWord(r, 1) = [region |-> r, index |-> 1]
      BY <1>4, InWordFits, Widths
    <2> QED BY <1>2, <1>4, <2>1, Widths DEF Unlocked, Handle
  <1> QED BY <1>3, <1>4

\* The elements of a span.
LEMMA SpanMembers ==
    ASSUME NEW s \in [region : 0..(NumRegions - 1), beginIndex : 0..MaxIndex,
                      endIndex : 0..MaxIndex]
    PROVE  SpanElems(s) = {h \in Handle : /\ h.region = s.region
                                          /\ s.beginIndex <= h.index
                                          /\ h.index < s.endIndex}
  <1>1. ASSUME NEW i \in s.beginIndex..(s.endIndex - 1)
        PROVE  i \in 0..MaxIndex /\ InWord(s.region, i) = [region |-> s.region, index |-> i]
    <2>1. i \in 0..MaxIndex
      BY Widths
    <2> QED BY <2>1, InWordFits
  <1>2. ASSUME NEW h \in SpanElems(s)
        PROVE  h \in Handle /\ h.region = s.region
               /\ s.beginIndex <= h.index /\ h.index < s.endIndex
    <2>1. PICK i \in s.beginIndex..(s.endIndex - 1) : h = InWord(s.region, i)
      BY DEF SpanElems
    <2> QED BY <1>1, <2>1 DEF Handle
  <1>3. ASSUME NEW h \in Handle, h.region = s.region,
               s.beginIndex <= h.index, h.index < s.endIndex
        PROVE  h \in SpanElems(s)
    <2>1. h.index \in s.beginIndex..(s.endIndex - 1)
      BY <1>3 DEF Handle
    <2>2. h = [region |-> s.region, index |-> h.index]
      BY <1>3 DEF Handle
    <2> QED BY <1>1, <2>1, <2>2 DEF SpanElems
  <1> QED BY <1>2, <1>3

-----------------------------------------------------------------------------
(* Types                                                                   *)

\* What thread t knows of the word, and the span it has.
StateKnown(t) ==
    /\ pc[t] \in {"initRegion", "loop", "newRegion", "setSpan"} => regionState # InitState
    /\ pc[t] = "loop" => state[t] = LockedState \/ Unlocked(state[t])
    /\ pc[t] \in {"newRegion", "setSpan"} => Unlocked(state[t])
    /\ pc[t] = "newRegion" => newState[t] = LockedState
    /\ pc[t] = "setSpan" => state[t].index < SpanEnd(state[t], newState[t])
    /\ span[t].beginIndex <= span[t].endIndex

TypeInv ==
    /\ TypeOK
    /\ regionState = InitState \/ regionState = LockedState \/ Unlocked(regionState)
    /\ \A t \in Thread : StateKnown(t)

\* A region that is left for the next one is given to the span to its end.
LEMMA SpanEndLocked ==
    ASSUME NEW w, Unlocked(w)
    PROVE  SpanEnd(w, LockedState) = MaxIndex
  BY States DEF SpanEnd

\* The end of a span that was won is an index.
LEMMA SpanEndIndex ==
    ASSUME NEW old \in Handle, NEW new \in Handle
    PROVE  SpanEnd(old, new) \in 0..MaxIndex
  BY Widths DEF SpanEnd, Handle

\* Every step preserves the types.
LEMMA TypeStep ==
    ASSUME TypeInv, [Next]_vars
    PROVE  TypeInv'
  <1> USE DEF TypeInv
  <1>0. CASE UNCHANGED vars
    BY <1>0 DEF vars, threadVars, localVars, TypeOK, StateKnown, SpanEnd
  <1>1. ASSUME NEW t \in Thread, PopFree(t)
        PROVE  TypeInv'
    BY <1>1 DEF PopFree, TypeOK, StateKnown, localVars, SpanEnd
  <1>2. ASSUME NEW t \in Thread, AllocSpan(t)
        PROVE  TypeInv'
    <2> DEFINE h == InWord(span[t].region, span[t].beginIndex)
    <2>1. span[t] \in [region : 0..(NumRegions - 1), beginIndex : 0..MaxIndex,
                       endIndex : 0..MaxIndex] /\ span[t].beginIndex <= span[t].endIndex
      BY DEF TypeOK, StateKnown
    <2>2. span[t].beginIndex < span[t].endIndex
      BY <1>2, <2>1, Widths DEF AllocSpan, SpanEmpty
    <2>3. span[t].beginIndex + 1 \in 0..MaxIndex /\ span[t].beginIndex + 1 <= span[t].endIndex
      BY <2>1, <2>2, Widths
    <2>4. span' = [span EXCEPT ![t] = [span[t] EXCEPT !.beginIndex = span[t].beginIndex + 1]]
      BY <1>2 DEF AllocSpan, AllocFrom
    <2>5. span' \in [Thread -> [region : 0..(NumRegions - 1), beginIndex : 0..MaxIndex,
                                endIndex : 0..MaxIndex]]
      BY <2>3, <2>4 DEF TypeOK
    <2>6. h \in Handle
      BY <2>1, InWordFits DEF Handle
    <2>7. inUse' \in [Handle -> Nat]
      BY <1>2, <2>6 DEF AllocSpan, AllocFrom, TypeOK
    <2>8. TypeOK'
      BY <1>2, <2>5, <2>7 DEF AllocSpan, TypeOK, localVars
    <2>9. \A u \in Thread : StateKnown(u)'
      BY <1>2, <2>1, <2>3, <2>4 DEF AllocSpan, TypeOK, StateKnown, localVars, SpanEnd
    <2> QED BY <1>2, <2>8, <2>9 DEF AllocSpan
  <1>3. ASSUME NEW t \in Thread, TakeShared(t)
        PROVE  TypeInv'
    BY <1>3 DEF TakeShared, TypeOK, StateKnown, localVars, SpanEnd
  <1>4. ASSUME NEW t \in Thread, BeginReserve(t)
        PROVE  TypeInv'
    <2>1. TypeOK'
      BY <1>4 DEF BeginReserve, TypeOK, threadVars
    <2>2. \A u \in Thread : StateKnown(u)'
      BY <1>4 DEF BeginReserve, TypeOK, StateKnown, threadVars, SpanEnd
    <2> QED BY <1>4, <2>1, <2>2 DEF BeginReserve
  <1>5. ASSUME NEW t \in Thread, TryInit(t)
        PROVE  TypeInv'
    <2>1. TypeOK'
      BY <1>5, States DEF TryInit, TypeOK, threadVars
    <2>2. \A u \in Thread : StateKnown(u)'
      BY <1>5, States DEF TryInit, TypeOK, StateKnown, threadVars, SpanEnd
    <2> QED BY <1>5, <2>1, <2>2 DEF TryInit
  <1>6. ASSUME NEW t \in Thread, InitRegion(t)
        PROVE  TypeInv'
    <2>1. Unlocked(InWord(1, 1)) /\ 1 \in 1..NumRegions
      BY FirstWord, Widths
    <2>2. InWord(1, 1) # InitState /\ InWord(1, 1) \in Handle
      BY <2>1, UnlockedWord DEF Unlocked
    <2>3. TypeOK'
      BY <1>6, <2>1, <2>2 DEF InitRegion, TypeOK, threadVars
    <2>4. \A u \in Thread : StateKnown(u)'
      BY <1>6, <2>1, <2>2 DEF InitRegion, TypeOK, StateKnown, threadVars, SpanEnd
    <2> QED BY <1>6, <2>1, <2>3, <2>4 DEF InitRegion
  <1>7. ASSUME NEW t \in Thread, SpinLocked(t)
        PROVE  TypeInv'
    <2>1. TypeOK'
      BY <1>7 DEF SpinLocked, TypeOK, threadVars
    <2>2. \A u \in Thread : StateKnown(u)'
      BY <1>7 DEF SpinLocked, TypeOK, StateKnown, threadVars, SpanEnd
    <2> QED BY <1>7, <2>1, <2>2 DEF SpinLocked
  <1>8. ASSUME NEW t \in Thread, ReserveSpan(t)
        PROVE  TypeInv'
    <2> DEFINE w == Reserve(state[t])
    <2>1. Unlocked(state[t])
      BY <1>8 DEF ReserveSpan, StateKnown
    <2>2. w = LockedState \/ (/\ w # LockedState /\ Unlocked(w)
                              /\ w.region = state[t].region
                              /\ w.index = state[t].index + ElemsPerSpan)
      BY <2>1, ReserveWord
    <2>3. w \in Handle /\ w # InitState
      BY <2>2, States, UnlockedWord DEF Unlocked
    <2>4. w # LockedState => state[t].index < SpanEnd(state[t], w)
      BY <2>1, <2>2, UnlockedWord, Widths DEF SpanEnd
    <2>5. /\ regionState' = w
          /\ newState' = [newState EXCEPT ![t] = w]
          /\ pc' = [pc EXCEPT ![t] = IF w = LockedState THEN "newRegion" ELSE "setSpan"]
          /\ UNCHANGED <<threadVars, regionStarts, state, inUse>>
      BY <1>8 DEF ReserveSpan
    <2> HIDE DEF w
    <2>6. TypeOK'
      BY <2>3, <2>5 DEF TypeOK, threadVars
    <2>7. \A u \in Thread : StateKnown(u)'
      BY <2>1, <2>3, <2>4, <2>5 DEF TypeOK, StateKnown, threadVars, SpanEnd
    <2> QED BY <2>2, <2>5, <2>6, <2>7
  <1>9. ASSUME NEW t \in Thread, ReserveRetry(t)
        PROVE  TypeInv'
    <2>1. TypeOK'
      BY <1>9 DEF ReserveRetry, TypeOK, threadVars
    <2>2. \A u \in Thread : StateKnown(u)'
      BY <1>9 DEF ReserveRetry, TypeOK, StateKnown, threadVars, SpanEnd
    <2> QED BY <1>9, <2>1, <2>2 DEF ReserveRetry
  <1>10. ASSUME NEW t \in Thread, NewRegion(t)
         PROVE  TypeInv'
    <2> DEFINE r == state[t].region + 1
               w == InWord(r, 1)
    <2>1. Unlocked(state[t]) /\ r \in 1..NumRegions
      <3>1. Unlocked(state[t])
        BY <1>10 DEF NewRegion, StateKnown
      <3> QED BY <1>10, <3>1, UnlockedWord, Widths DEF NewRegion
    <2>2. Unlocked(w) /\ w.region # state[t].region
      <3>1. r - 1 = state[t].region
        BY <2>1, UnlockedWord, Widths
      <3> HIDE DEF r
      <3> QED BY <2>1, <3>1, FirstWord
    <2>3. w \in Handle /\ w # InitState
      BY <2>2, UnlockedWord DEF Unlocked
    <2>4. state[t].index < SpanEnd(state[t], w)
      BY <2>1, <2>2, UnlockedWord, Widths DEF SpanEnd
    <2>5. /\ regionState' = w
          /\ regionStarts' = regionStarts \cup {r}
          /\ newState' = [newState EXCEPT ![t] = w]
          /\ pc' = [pc EXCEPT ![t] = "setSpan"]
          /\ UNCHANGED <<threadVars, state, inUse>>
      BY <1>10 DEF NewRegion
    <2> HIDE DEF r, w
    <2>6. TypeOK'
      BY <2>1, <2>3, <2>5 DEF TypeOK, threadVars
    <2>7. \A u \in Thread : StateKnown(u)'
      BY <2>1, <2>3, <2>4, <2>5 DEF TypeOK, StateKnown, threadVars, SpanEnd
    <2> QED BY <2>2, <2>5, <2>6, <2>7
  <1>11. ASSUME NEW t \in Thread, SetSpan(t)
         PROVE  TypeInv'
    <2> DEFINE e == SpanEnd(state[t], newState[t])
               s == [region |-> state[t].region, beginIndex |-> state[t].index, endIndex |-> e]
    <2>1. Unlocked(state[t]) /\ state[t].index < e
      BY <1>11 DEF SetSpan, StateKnown
    <2>2. /\ state[t].region \in 0..(NumRegions - 1)
          /\ state[t].index \in 0..MaxIndex /\ e \in 0..MaxIndex
          /\ state[t].index + 1 \in 0..MaxIndex
      <3>1. e \in 0..MaxIndex
        BY SpanEndIndex DEF TypeOK
      <3> QED BY <2>1, <3>1, UnlockedWord, Widths
    <2>3. /\ span' = [span EXCEPT ![t] = [s EXCEPT !.beginIndex = @ + 1]]
          /\ inUse' = [inUse EXCEPT ![InWord(s.region, s.beginIndex)] = @ + 1]
      BY <1>11 DEF SetSpan, AllocFrom
    <2>4. InWord(s.region, s.beginIndex) \in Handle
      BY <2>2, InWordFits DEF Handle
    <2> HIDE DEF e
    <2>5. span' \in [Thread -> [region : 0..(NumRegions - 1), beginIndex : 0..MaxIndex,
                                endIndex : 0..MaxIndex]]
      BY <2>2, <2>3 DEF TypeOK
    <2>6. inUse' \in [Handle -> Nat]
      BY <2>3, <2>4 DEF TypeOK
    <2>7. TypeOK'
      BY <1>11, <2>5, <2>6 DEF SetSpan, TypeOK, localVars
    <2>8. \A u \in Thread : StateKnown(u)'
      BY <1>11, <2>1, <2>2, <2>3 DEF SetSpan, TypeOK, StateKnown, localVars, SpanEnd
    <2> QED BY <1>11, <2>7, <2>8 DEF SetSpan
  <1>12. ASSUME NEW t \in Thread, NEW h \in InUse, Free(t, h)
         PROVE  TypeInv'
    <2>1. TypeOK'
      BY <1>12 DEF Free, TypeOK, InUse, localVars
    <2>2. \A u \in Thread : StateKnown(u)'
      BY <1>12 DEF Free, TypeOK, StateKnown, localVars, SpanEnd
    <2> QED BY <1>12, <2>1, <2>2 DEF Free
  <1> QED
    BY <1>0, <1>1, <1>2, <1>3, <1>4, <1>5, <1>6, <1>7, <1>8, <1>9, <1>10, <1>11, <1>12
       DEF Next, Allocate, Reserving

-----------------------------------------------------------------------------
(* The invariant                                                           *)

\* Only the thread that locked the word is between locking and unlocking it.
Locking(t) == pc[t] \in {"initRegion", "newRegion"}

LockInv ==
    /\ \A t \in Thread : Locking(t) => regionState = LockedState
    /\ \A t, u \in Thread : Locking(t) /\ Locking(u) => t = u
    /\ regionState = LockedState => \E t \in Thread : Locking(t)

\* The regions that spans are carved out of were reserved.
RegionInv ==
    /\ Unlocked(regionState) => regionState.region \in regionStarts
    /\ \A t \in Thread :
          pc[t] \in {"newRegion", "setSpan"} => state[t].region \in regionStarts

\* The elements that were carved out of regions: those below the word, or below
\* the end of the region that is left for the next one.
Carved(h) ==
    \/ /\ Unlocked(regionState)
       /\ \/ h.region < regionState.region
          \/ h.region = regionState.region /\ h.index < regionState.index
    \/ \E t \in Thread : pc[t] = "newRegion" /\ h.region <= state[t].region

Usable(h) == h.region \in regionStarts /\ h.index \in 1..(MaxIndex - 1)

\* The elements that a client, a thread or a shared list has.
Taken(h) ==
    \/ h \in InUse
    \/ \E t \in Thread : h \in Owned(t)
    \/ \E list \in sharedFreeLists : h \in list

CarvedInv == \A h \in Handle : Taken(h) => Carved(h) /\ Usable(h)

\* A thread that reserves a span has used up the one it had.
EmptyInv == \A t \in Thread : pc[t] # "idle" => SpanEmpty(span[t])

PlaceInv == LockInv /\ RegionInv /\ CarvedInv /\ EmptyInv /\ OnePlace

PoolInv == TypeInv /\ (RegionsFit => PlaceInv)

-----------------------------------------------------------------------------
(* Elements that move                                                      *)

\* The span that a thread won.
LEMMA WonMembers ==
    ASSUME TypeInv, NEW t \in Thread
    PROVE  Won(t) = IF pc[t] \in {"newRegion", "setSpan"}
                    THEN {h \in Handle : /\ h.region = state[t].region
                                         /\ state[t].index <= h.index
                                         /\ h.index < SpanEnd(state[t], newState[t])}
                    ELSE {}
  <1>1. CASE pc[t] \in {"newRegion", "setSpan"}
    <2> DEFINE s == [ region     |-> state[t].region,
                      beginIndex |-> state[t].index,
                      endIndex   |-> SpanEnd(state[t], newState[t]) ]
    <2>1. state[t].region \in 0..(NumRegions - 1) /\ state[t].index \in 0..MaxIndex
      BY DEF TypeInv, TypeOK, Handle
    <2>2. s.endIndex \in 0..MaxIndex
      BY SpanEndIndex DEF TypeInv, TypeOK
    <2>3. s \in [region : 0..(NumRegions - 1), beginIndex : 0..MaxIndex,
                 endIndex : 0..MaxIndex]
      BY <2>1, <2>2
    <2>4. SpanElems(s) = {h \in Handle : /\ h.region = s.region
                                         /\ s.beginIndex <= h.index
                                         /\ h.index < s.endIndex}
      BY <2>3, SpanMembers
    <2> QED BY <1>1, <2>4 DEF Won
  <1>2. CASE pc[t] \notin {"newRegion", "setSpan"}
    BY <1>2 DEF Won
  <1> QED BY <1>1, <1>2

\* The span a thread has; it has none of it left when it is used up.
LEMMA OwnSpan ==
    ASSUME TypeInv, NEW t \in Thread
    PROVE  /\ SpanElems(span[t]) = {h \in Handle : /\ h.region = span[t].region
                                                   /\ span[t].beginIndex <= h.index
                                                   /\ h.index < span[t].endIndex}
           /\ SpanEmpty(span[t]) => SpanElems(span[t]) = {}
  <1>1. span[t] \in [region : 0..(NumRegions - 1), beginIndex : 0..MaxIndex,
                     endIndex : 0..MaxIndex]
    BY DEF TypeInv, TypeOK
  <1>2. SpanElems(span[t]) = {h \in Handle : /\ h.region = span[t].region
                                             /\ span[t].beginIndex <= h.index
                                             /\ h.index < span[t].endIndex}
    BY <1>1, SpanMembers
  <1>3. ASSUME SpanEmpty(span[t]), NEW h \in SpanElems(span[t])
        PROVE  FALSE
    BY <1>1, <1>2, <1>3, Widths DEF SpanEmpty, Handle
  <1> QED BY <1>2, <1>3

LEMMA OwnedType ==
    ASSUME TypeInv, NEW t \in Thread
    PROVE  Owned(t) \subseteq Handle
  <1>1. freeList[t] \subseteq Handle
    BY DEF TypeInv, TypeOK
  <1> QED BY <1>1, OwnSpan, WonMembers DEF Owned

\* A step that moves no element keeps each in its place.
LEMMA NothingMoves ==
    ASSUME UNCHANGED <<freeList, span, sharedFreeLists, inUse>>,
           \A t \in Thread : Won(t)' = Won(t)
    PROVE  /\ OnePlace => OnePlace'
           /\ \A h : Taken(h)' => Taken(h)
  <1>1. InUse' = InUse
    BY DEF InUse
  <1>2. \A t \in Thread : Owned(t)' = Owned(t) /\ SpanElems(span'[t]) = SpanElems(span[t])
    BY DEF Owned
  <1>3. OnePlace => OnePlace'
    BY <1>1, <1>2 DEF OnePlace
  <1> QED BY <1>1, <1>2, <1>3 DEF Taken

\* A thread hands out an element that it alone can hand out.
LEMMA HandOut ==
    ASSUME TypeInv, OnePlace, NEW t \in Thread, NEW h \in Owned(t),
           inUse' = [inUse EXCEPT ![h] = @ + 1],
           sharedFreeLists' = sharedFreeLists,
           freeList'[t] \subseteq freeList[t],
           SpanElems(span'[t]) \subseteq SpanElems(span[t]) \cup Won(t),
           Won(t)' \subseteq Won(t),
           h \notin Owned(t)',
           \A u \in Thread \ {t} : /\ freeList'[u] = freeList[u]
                                   /\ span'[u] = span[u]
                                   /\ Won(u)' = Won(u)
    PROVE  OnePlace' /\ (\A g : Taken(g)' => Taken(g)) /\ inUse[h] = 0
  <1>1. h \in Handle
    BY OwnedType
  <1>2. inUse \in [Handle -> Nat] /\ inUse[h] = 0
    BY <1>1 DEF OnePlace, InUse, TypeInv, TypeOK
  <1>3. InUse' = InUse \cup {h} /\ \A g \in Handle : inUse'[g] <= 1
    BY <1>1, <1>2 DEF InUse, OnePlace
  <1>4. Owned(t)' \subseteq Owned(t) /\ \A u \in Thread \ {t} : Owned(u)' = Owned(u)
    BY DEF Owned
  <1>5. \A u \in Thread : Owned(u)' \cap InUse' = {}
    BY <1>3, <1>4 DEF OnePlace
  <1>6. \A u \in Thread :
           freeList'[u] \cap (SpanElems(span'[u]) \cup Won(u)') = {}
    BY DEF OnePlace
  <1>7. \A u \in Thread : \A v \in Thread \ {u} : Owned(u)' \cap Owned(v)' = {}
    BY <1>4 DEF OnePlace
  <1>8. \A list \in sharedFreeLists :
           list \cap InUse' = {} /\ \A u \in Thread : list \cap Owned(u)' = {}
    BY <1>3, <1>4 DEF OnePlace
  <1>9. OnePlace'
    BY <1>3, <1>5, <1>6, <1>7, <1>8 DEF OnePlace
  <1>10. \A g : Taken(g)' => Taken(g)
    BY <1>3, <1>4 DEF Taken
  <1> QED BY <1>2, <1>9, <1>10

\* What was carved and reserved stays so while neither the word nor the thread
\* that locked it moves.
LEMMA CarvedKept ==
    ASSUME CarvedInv, \A h \in Handle : Taken(h)' => Taken(h),
           regionState' = regionState, regionStarts' = regionStarts,
           \A t \in Thread : pc[t] = "newRegion" => pc'[t] = "newRegion" /\ state'[t] = state[t]
    PROVE  CarvedInv'
  BY DEF CarvedInv, Carved, Usable, Unlocked

-----------------------------------------------------------------------------
(* The steps                                                               *)

\* Steps that neither lock nor unlock the word, and of which no thread wins a
\* span, keep what is said of the word.
LEMMA WordKept ==
    ASSUME LockInv, RegionInv,
           regionState' = regionState, regionStarts' = regionStarts,
           \A t \in Thread : \/ pc'[t] = pc[t]
                             \/ ~Locking(t) /\ pc'[t] \in {"idle", "tryInit", "loop"},
           \A t \in Thread : pc[t] \in {"newRegion", "setSpan"} => state'[t] = state[t]
    PROVE  LockInv' /\ RegionInv'
  <1>1. LockInv'
    BY DEF LockInv, Locking
  <1>2. RegionInv'
    BY DEF RegionInv, Unlocked
  <1> QED BY <1>1, <1>2

LEMMA PopFreeStep ==
    ASSUME TypeInv, PlaceInv, NEW t \in Thread, PopFree(t)
    PROVE  PlaceInv'
  <1> USE DEF PopFree, localVars
  <1>1. PICK h \in freeList[t] : /\ freeList' = [freeList EXCEPT ![t] = @ \ {h}]
                                 /\ inUse' = [inUse EXCEPT ![h] = @ + 1]
    OBVIOUS
  <1>2. \A u \in Thread : Won(u)' = Won(u)
    BY DEF Won, SpanElems
  <1>3. h \in Owned(t) /\ freeList'[t] = freeList[t] \ {h}
    BY <1>1 DEF Owned, TypeInv, TypeOK
  <1>4. h \notin Owned(t)'
    BY <1>1, <1>2, <1>3 DEF Owned, PlaceInv, OnePlace
  <1>5. OnePlace' /\ \A g : Taken(g)' => Taken(g)
    BY <1>1, <1>2, <1>3, <1>4, HandOut, ZenonT(30) DEF PlaceInv, TypeInv, TypeOK
  <1>6. CarvedInv'
    BY <1>5, CarvedKept DEF PlaceInv
  <1>7. LockInv' /\ RegionInv' /\ EmptyInv'
    BY WordKept DEF PlaceInv, EmptyInv
  <1> QED BY <1>5, <1>6, <1>7 DEF PlaceInv

\* The first element of a span leaves it.
LEMMA AllocSpanStep ==
    ASSUME TypeInv, PlaceInv, NEW t \in Thread, AllocSpan(t)
    PROVE  PlaceInv'
  <1> USE DEF AllocSpan, localVars
  <1> DEFINE h == InWord(span[t].region, span[t].beginIndex)
  <1>1. span[t] \in [region : 0..(NumRegions - 1), beginIndex : 0..MaxIndex,
                     endIndex : 0..MaxIndex] /\ span[t].beginIndex < span[t].endIndex
    <2>1. span[t] \in [region : 0..(NumRegions - 1), beginIndex : 0..MaxIndex,
                       endIndex : 0..MaxIndex] /\ span[t].beginIndex <= span[t].endIndex
      BY DEF TypeInv, TypeOK, StateKnown
    <2> QED BY <2>1, Widths DEF SpanEmpty
  <1>2. h \in Handle /\ h.region = span[t].region /\ h.index = span[t].beginIndex
    BY <1>1, InWordFits DEF Handle
  <1>3. h \in SpanElems(span[t])
    BY <1>1, <1>2, OwnSpan
  <1>4. /\ span' = [span EXCEPT ![t] = [span[t] EXCEPT !.beginIndex = span[t].beginIndex + 1]]
        /\ inUse' = [inUse EXCEPT ![h] = @ + 1]
    BY DEF AllocFrom
  <1>5. span'[t] \in [region : 0..(NumRegions - 1), beginIndex : 0..MaxIndex,
                      endIndex : 0..MaxIndex]
    BY <1>1, <1>4, Widths DEF TypeInv, TypeOK
  <1>6. SpanElems(span'[t]) = {g \in Handle : /\ g.region = span[t].region
                                              /\ span[t].beginIndex + 1 <= g.index
                                              /\ g.index < span[t].endIndex}
    BY <1>4, <1>5, SpanMembers DEF TypeInv, TypeOK
  <1>7. SpanElems(span'[t]) \subseteq SpanElems(span[t]) /\ h \notin SpanElems(span'[t])
    BY <1>1, <1>2, <1>6, OwnSpan, Widths DEF Handle
  <1> HIDE DEF h
  <1>8. \A u \in Thread : Won(u)' = Won(u)
    BY DEF Won, SpanElems
  <1>9. Won(t) = {}
    BY WonMembers
  <1>10. h \in Owned(t) /\ h \notin Owned(t)'
    BY <1>3, <1>7, <1>8, <1>9 DEF Owned, PlaceInv, OnePlace
  <1>11. OnePlace' /\ \A g : Taken(g)' => Taken(g)
    BY <1>4, <1>7, <1>8, <1>10, HandOut DEF PlaceInv, TypeInv, TypeOK
  <1>12. CarvedInv'
    BY <1>11, CarvedKept DEF PlaceInv
  <1>13. LockInv' /\ RegionInv' /\ EmptyInv'
    BY <1>4, WordKept DEF PlaceInv, EmptyInv, TypeInv, TypeOK
  <1> QED BY <1>11, <1>12, <1>13 DEF PlaceInv

\* A shared list passes to one thread.
LEMMA TakeSharedStep ==
    ASSUME TypeInv, PlaceInv, NEW t \in Thread, TakeShared(t)
    PROVE  PlaceInv'
  <1> USE DEF TakeShared, localVars
  <1>0. PICK list \in sharedFreeLists : \E h \in list :
              /\ sharedFreeLists' = sharedFreeLists \ {list}
              /\ freeList' = [freeList EXCEPT ![t] = list \ {h}]
              /\ inUse' = [inUse EXCEPT ![h] = @ + 1]
    OBVIOUS
  <1>1. PICK h \in list : /\ sharedFreeLists' = sharedFreeLists \ {list}
                          /\ freeList' = [freeList EXCEPT ![t] = list \ {h}]
                          /\ inUse' = [inUse EXCEPT ![h] = @ + 1]
    BY <1>0
  <1>2. h \in Handle /\ inUse \in [Handle -> Nat]
    BY DEF TypeInv, TypeOK
  <1>3. inUse[h] = 0
    BY <1>2 DEF PlaceInv, OnePlace, InUse
  <1>4. InUse' = InUse \cup {h} /\ \A g \in Handle : inUse'[g] <= 1
    BY <1>1, <1>2, <1>3 DEF InUse, PlaceInv, OnePlace
  <1>5. \A u \in Thread : Won(u)' = Won(u) /\ span'[u] = span[u]
    BY DEF Won, SpanElems
  <1>6. freeList'[t] = list \ {h} /\ \A u \in Thread \ {t} : freeList'[u] = freeList[u]
    BY <1>1 DEF TypeInv, TypeOK
  <1>7. /\ \A u \in Thread \ {t} : Owned(u)' = Owned(u)
        /\ Owned(t)' \subseteq Owned(t) \cup (list \ {h})
    BY <1>5, <1>6 DEF Owned
  <1>8. \A u \in Thread : Owned(u)' \cap InUse' = {}
    BY <1>4, <1>7 DEF PlaceInv, OnePlace
  <1>9. \A u \in Thread : freeList'[u] \cap (SpanElems(span'[u]) \cup Won(u)') = {}
    <2>1. \A u \in Thread : SpanElems(span[u]) \cup Won(u) \subseteq Owned(u)
      BY DEF Owned
    <2>2. \A u \in Thread : SpanElems(span'[u]) \cup Won(u)' = SpanElems(span[u]) \cup Won(u)
      BY <1>5
    <2> QED BY <1>6, <2>1, <2>2 DEF PlaceInv, OnePlace
  <1>10. \A u \in Thread : \A v \in Thread \ {u} : Owned(u)' \cap Owned(v)' = {}
    BY <1>7 DEF PlaceInv, OnePlace
  <1>11. \A other \in sharedFreeLists' :
            /\ other \cap InUse' = {}
            /\ \A u \in Thread : other \cap Owned(u)' = {}
            /\ \A third \in sharedFreeLists' \ {other} : other \cap third = {}
    BY <1>1, <1>4, <1>7 DEF PlaceInv, OnePlace
  <1>12. OnePlace'
    BY <1>4, <1>8, <1>9, <1>10, <1>11 DEF OnePlace
  <1>13. \A g : Taken(g)' => Taken(g)
    BY <1>1, <1>4, <1>7 DEF Taken
  <1>14. CarvedInv'
    BY <1>13, CarvedKept DEF PlaceInv
  <1>15. LockInv' /\ RegionInv' /\ EmptyInv'
    BY WordKept DEF PlaceInv, EmptyInv
  <1> QED BY <1>12, <1>14, <1>15 DEF PlaceInv

\* An element comes back to the list of whoever frees it, or with that list to
\* the shared ones.
LEMMA FreeStep ==
    ASSUME TypeInv, PlaceInv, NEW t \in Thread, NEW h \in InUse, Free(t, h)
    PROVE  PlaceInv'
  <1> DEFINE list == freeList[t] \cup {h}
             share == Cardinality(list) >= ElemsPerSpan
  <1>1. /\ inUse' = [inUse EXCEPT ![h] = @ - 1]
        /\ freeList' = [freeList EXCEPT ![t] = IF share THEN {} ELSE list]
        /\ sharedFreeLists' = IF share THEN sharedFreeLists \cup {list} ELSE sharedFreeLists
        /\ UNCHANGED <<span, regionStarts, regionState, pc, state, newState>>
    BY DEF Free, localVars
  <1> HIDE DEF share
  <1>2. h \in Handle /\ inUse \in [Handle -> Nat] /\ inUse[h] = 1
    BY DEF TypeInv, TypeOK, InUse, PlaceInv, OnePlace
  <1>3. InUse' = InUse \ {h} /\ \A g \in Handle : inUse'[g] <= 1
    BY <1>1, <1>2 DEF InUse, PlaceInv, OnePlace
  <1>4. \A u \in Thread : Won(u)' = Won(u) /\ span'[u] = span[u]
    BY <1>1 DEF Won, SpanElems
  <1>5. /\ \A u \in Thread \ {t} : freeList'[u] = freeList[u]
        /\ freeList'[t] = IF share THEN {} ELSE list
    BY <1>1 DEF TypeInv, TypeOK
  <1>6. /\ \A u \in Thread \ {t} : Owned(u)' = Owned(u)
        /\ Owned(t)' \subseteq Owned(t) \cup {h}
        /\ share => Owned(t)' \subseteq SpanElems(span[t]) \cup Won(t)
    BY <1>4, <1>5 DEF Owned
  <1>7. \A u \in Thread : h \notin Owned(u)
    BY DEF PlaceInv, OnePlace
  <1>8. \A other \in sharedFreeLists : h \notin other
    BY DEF PlaceInv, OnePlace
  <1>9. \A u \in Thread : Owned(u)' \cap InUse' = {}
    BY <1>3, <1>6 DEF PlaceInv, OnePlace
  <1>10. \A u \in Thread : freeList'[u] \cap (SpanElems(span'[u]) \cup Won(u)') = {}
    <2>1. \A u \in Thread : h \notin SpanElems(span[u]) \cup Won(u)
      BY <1>7 DEF Owned
    <2>2. \A u \in Thread : freeList[u] \cap (SpanElems(span[u]) \cup Won(u)) = {}
      BY DEF PlaceInv, OnePlace
    <2>3. \A u \in Thread : freeList'[u] \subseteq freeList[u] \cup {h}
      BY <1>5
    <2> QED BY <1>4, <2>1, <2>2, <2>3
  <1>11. \A u \in Thread : \A v \in Thread \ {u} : Owned(u)' \cap Owned(v)' = {}
    BY <1>6, <1>7 DEF PlaceInv, OnePlace
  <1>12. share => \A u \in Thread : list \cap Owned(u)' = {}
    <2>1. list \cap (SpanElems(span[t]) \cup Won(t)) = {}
      BY <1>7 DEF PlaceInv, OnePlace, Owned
    <2>2. \A u \in Thread \ {t} : list \cap Owned(u) = {}
      BY <1>7 DEF PlaceInv, OnePlace, Owned
    <2> QED BY <1>6, <2>1, <2>2
  <1>13. \A other \in sharedFreeLists : list \cap other = {}
    BY <1>8 DEF PlaceInv, OnePlace, Owned
  <1>14. list \cap InUse' = {}
    BY <1>3 DEF PlaceInv, OnePlace, Owned
  <1>15. \A other \in sharedFreeLists : \A u \in Thread : other \cap Owned(u)' = {}
    BY <1>6, <1>8 DEF PlaceInv, OnePlace
  <1>16. \A other \in sharedFreeLists' :
            /\ other \cap InUse' = {}
            /\ \A u \in Thread : other \cap Owned(u)' = {}
            /\ \A third \in sharedFreeLists' \ {other} : other \cap third = {}
    BY <1>1, <1>3, <1>12, <1>13, <1>14, <1>15 DEF PlaceInv, OnePlace
  <1>17. OnePlace'
    BY <1>3, <1>9, <1>10, <1>11, <1>16 DEF OnePlace
  <1>18. \A g : Taken(g)' => Taken(g)
    <2>1. Taken(h) /\ \A g \in list : Taken(g)
      BY DEF Taken, Owned
    <2> QED BY <1>1, <1>3, <1>6, <2>1 DEF Taken
  <1>19. CarvedInv'
    BY <1>1, <1>18, CarvedKept DEF PlaceInv
  <1>20. LockInv' /\ RegionInv' /\ EmptyInv'
    BY <1>1, WordKept DEF PlaceInv, EmptyInv
  <1> QED BY <1>17, <1>19, <1>20 DEF PlaceInv

\* The span and its first element are a thread's when its exchange succeeds, and
\* nobody's before.
LEMMA ReserveSpanStep ==
    ASSUME TypeInv, PlaceInv, NEW t \in Thread, ReserveSpan(t)
    PROVE  PlaceInv'
  <1> DEFINE w == Reserve(state[t])
  <1>1. /\ pc[t] = "loop" /\ state[t] # LockedState /\ regionState = state[t]
        /\ regionState' = w
        /\ newState' = [newState EXCEPT ![t] = w]
        /\ pc' = [pc EXCEPT ![t] = IF w = LockedState THEN "newRegion" ELSE "setSpan"]
        /\ UNCHANGED <<freeList, span, sharedFreeLists, regionStarts, state, inUse>>
    BY DEF ReserveSpan, threadVars
  <1>2. Unlocked(state[t])
    BY <1>1 DEF TypeInv, StateKnown
  <1>3. w = LockedState \/ (/\ w # LockedState /\ Unlocked(w)
                            /\ w.region = state[t].region
                            /\ w.index = state[t].index + ElemsPerSpan)
    BY <1>2, ReserveWord
  <1>4. state[t].region \in 0..(NumRegions - 1) /\ state[t].index \in 1..(MaxIndex - 1)
    BY <1>2, UnlockedWord
  <1>5. \A u \in Thread : ~Locking(u)
    BY <1>1 DEF PlaceInv, LockInv
  <1> HIDE DEF w
  <1>7. \A u \in Thread \ {t} : Won(u)' = Won(u)
    BY <1>1 DEF Won, SpanElems, TypeInv, TypeOK, SpanEnd
  <1>8. \/ w = LockedState /\ SpanEnd(state[t], w) = MaxIndex
        \/ /\ Unlocked(w) /\ SpanEnd(state[t], w) = w.index
           /\ w.region = state[t].region /\ w.index \in 1..(MaxIndex - 1)
    BY <1>2, <1>3, SpanEndLocked, UnlockedWord DEF SpanEnd
  <1>9. /\ pc'[t] = IF w = LockedState THEN "newRegion" ELSE "setSpan"
        /\ newState'[t] = w /\ state'[t] = state[t]
    BY <1>1 DEF TypeInv, TypeOK
  <1>10. Won(t)' = {h \in Handle : /\ h.region = state[t].region
                                   /\ state[t].index <= h.index
                                   /\ h.index < SpanEnd(state[t], w)}
    <2> DEFINE s == [ region     |-> state[t].region,
                      beginIndex |-> state[t].index,
                      endIndex   |-> SpanEnd(state[t], w) ]
    <2>1. Won(t)' = SpanElems(s)
      BY <1>9 DEF Won, SpanElems
    <2>2. s.endIndex \in 0..MaxIndex
      BY <1>8, Widths
    <2>3. s \in [region : 0..(NumRegions - 1), beginIndex : 0..MaxIndex,
                 endIndex : 0..MaxIndex]
      BY <1>4, <2>2, Widths
    <2>4. SpanElems(s) = {h \in Handle : /\ h.region = s.region
                                         /\ s.beginIndex <= h.index
                                         /\ h.index < s.endIndex}
      BY <2>3, SpanMembers
    <2> QED BY <2>1, <2>4
  <1>11. Won(t) = {} /\ SpanElems(span[t]) = {} /\ SpanElems(span'[t]) = {}
    BY <1>1, OwnSpan, WonMembers DEF PlaceInv, EmptyInv
  <1>12. ASSUME NEW h \in Won(t)'
         PROVE  ~Taken(h)
    <2>1. h \in Handle /\ h.region = state[t].region /\ h.index >= state[t].index
      BY <1>4, <1>10 DEF Handle
    <2>2. ~Carved(h)
      BY <1>1, <1>4, <1>5, <2>1 DEF Carved, Locking, Handle
    <2> QED BY <2>1, <2>2 DEF PlaceInv, CarvedInv
  <1>13. /\ \A u \in Thread \ {t} : Owned(u)' = Owned(u)
         /\ Owned(t)' = Owned(t) \cup Won(t)'
         /\ InUse' = InUse
    BY <1>1, <1>7, <1>11 DEF Owned, InUse
  <1>14. \A u \in Thread : SpanElems(span'[u]) = SpanElems(span[u]) /\ freeList'[u] = freeList[u]
    BY <1>1
  <1>15. OnePlace'
    <2>1. \A u \in Thread : Owned(u)' \cap InUse' = {}
      BY <1>12, <1>13 DEF PlaceInv, OnePlace, Taken
    <2>2. \A u \in Thread : freeList'[u] \cap (SpanElems(span'[u]) \cup Won(u)') = {}
      BY <1>7, <1>11, <1>12, <1>14 DEF PlaceInv, OnePlace, Taken, Owned
    <2>3. \A u \in Thread : \A v \in Thread \ {u} : Owned(u)' \cap Owned(v)' = {}
      BY <1>12, <1>13 DEF PlaceInv, OnePlace, Taken
    <2>4. \A list \in sharedFreeLists :
             list \cap InUse' = {} /\ \A u \in Thread : list \cap Owned(u)' = {}
      BY <1>12, <1>13 DEF PlaceInv, OnePlace, Taken
    <2> QED BY <1>1, <2>1, <2>2, <2>3, <2>4 DEF PlaceInv, OnePlace
  <1>16. LockInv' /\ RegionInv'
    <2>1. \A u \in Thread \ {t} : pc'[u] = pc[u]
      BY <1>1 DEF TypeInv, TypeOK
    <2>2. Locking(t)' <=> w = LockedState
      BY <1>9 DEF Locking
    <2>3. LockInv'
      BY <1>1, <1>5, <2>1, <2>2 DEF LockInv, Locking
    <2>4. state[t].region \in regionStarts
      BY <1>1, <1>2 DEF PlaceInv, RegionInv
    <2>5. Unlocked(w) => w.region = state[t].region
      BY <1>3, UnlockedWord
    <2>6. RegionInv'
      BY <1>1, <2>1, <2>4, <2>5 DEF PlaceInv, RegionInv, Unlocked
    <2> QED BY <2>3, <2>6
  <1>17. CarvedInv'
    <2>1. \A h : Taken(h)' => Taken(h) \/ h \in Won(t)'
      BY <1>1, <1>13 DEF Taken
    <2>2. ASSUME NEW h \in Handle, Taken(h)
          PROVE  Carved(h)' /\ Usable(h)'
      <3>1. Carved(h) /\ Usable(h)
        BY <2>2 DEF PlaceInv, CarvedInv
      <3>2. h.region < state[t].region \/ (h.region = state[t].region /\ h.index < state[t].index)
        BY <1>1, <1>5, <3>1 DEF Carved, Locking
      <3>3. Carved(h)'
        BY <1>1, <1>4, <1>3, <1>9, <3>2, Widths DEF Carved, Handle
      <3> QED BY <1>1, <3>1, <3>3 DEF Usable
    <2>3. ASSUME NEW h \in Won(t)'
          PROVE  Carved(h)' /\ Usable(h)'
      <3>1. /\ h \in Handle /\ h.region = state[t].region
            /\ state[t].index <= h.index /\ h.index < SpanEnd(state[t], w)
        BY <1>10
      <3>2. h.index \in 1..(MaxIndex - 1)
        BY <1>4, <1>8, <3>1, Widths DEF Handle
      <3>3. h.region \in regionStarts'
        BY <1>1, <1>2, <3>1 DEF PlaceInv, RegionInv
      <3>4. Carved(h)'
        BY <1>1, <1>4, <1>8, <1>9, <3>1 DEF Carved
      <3> QED BY <3>2, <3>3, <3>4 DEF Usable
    <2> QED BY <2>1, <2>2, <2>3 DEF CarvedInv
  <1>18. EmptyInv'
    BY <1>1 DEF PlaceInv, EmptyInv, TypeInv, TypeOK
  <1> QED BY <1>15, <1>16, <1>17, <1>18 DEF PlaceInv

\* The next region follows all that were carved.
LEMMA NewRegionStep ==
    ASSUME TypeInv, PlaceInv, NEW t \in Thread, NewRegion(t), RegionsFit'
    PROVE  PlaceInv'
  <1> DEFINE r == state[t].region + 1
             w == InWord(r, 1)
  <1>1. /\ pc[t] = "newRegion"
        /\ regionState' = w
        /\ regionStarts' = regionStarts \cup {r}
        /\ newState' = [newState EXCEPT ![t] = w]
        /\ pc' = [pc EXCEPT ![t] = "setSpan"]
        /\ UNCHANGED <<freeList, span, sharedFreeLists, state, inUse>>
    BY DEF NewRegion, threadVars
  <1>2. Unlocked(state[t]) /\ newState[t] = LockedState
    BY <1>1 DEF TypeInv, StateKnown
  <1>3. state[t].region \in 0..(NumRegions - 1) /\ state[t].index \in 1..(MaxIndex - 1)
    BY <1>2, UnlockedWord
  <1>4. r \in 1..NumRegions /\ r # NumRegions
    BY <1>1, <1>3, Widths DEF RegionsFit
  <1>5. Unlocked(w) /\ w.region = r /\ w.region # state[t].region
    BY <1>3, <1>4, FirstWord
  <1> HIDE DEF w
  <1>7. \A u \in Thread : pc'[u] = (IF u = t THEN "setSpan" ELSE pc[u])
                          /\ newState'[u] = (IF u = t THEN w ELSE newState[u])
    BY <1>1 DEF TypeInv, TypeOK
  <1>8. SpanEnd(state[t], newState[t]) = MaxIndex /\ SpanEnd(state[t], w) = MaxIndex
    BY <1>2, <1>5, SpanEndLocked DEF SpanEnd
  <1>9. \A u \in Thread : Won(u)' = Won(u)
    <2>1. Won(t)' = Won(t)
      BY <1>1, <1>7, <1>8 DEF Won, SpanElems
    <2>2. \A u \in Thread \ {t} : Won(u)' = Won(u)
      BY <1>1, <1>7 DEF Won, SpanElems
    <2> QED BY <2>1, <2>2
  <1>10. OnePlace' /\ \A g : Taken(g)' => Taken(g)
    BY <1>1, <1>9, NothingMoves DEF PlaceInv
  <1>11. \A u \in Thread : Locking(u) => u = t
    BY <1>1 DEF PlaceInv, LockInv, Locking
  <1>12. LockInv'
    BY <1>1, <1>5, <1>7, <1>11, UnlockedWord DEF LockInv, Locking
  <1>13. RegionInv'
    BY <1>1, <1>5, <1>7 DEF PlaceInv, RegionInv
  <1>14. CarvedInv'
    <2>1. ASSUME NEW h \in Handle, Carved(h), Usable(h)
          PROVE  Carved(h)' /\ Usable(h)'
      <3>1. regionState = LockedState
        BY <1>1 DEF PlaceInv, LockInv, Locking
      <3>2. h.region <= state[t].region
        BY <1>11, <2>1, <3>1, UnlockedWord DEF Carved, Locking
      <3>3. h.region < w.region
        BY <1>3, <1>5, <3>2, Widths DEF Handle
      <3> QED BY <1>1, <1>5, <2>1, <3>3 DEF Carved, Usable
    <2> QED BY <1>10, <2>1 DEF PlaceInv, CarvedInv
  <1>15. EmptyInv'
    BY <1>1, <1>7 DEF PlaceInv, EmptyInv
  <1> QED BY <1>10, <1>12, <1>13, <1>14, <1>15 DEF PlaceInv

\* The first region; nothing was carved before.
LEMMA InitRegionStep ==
    ASSUME TypeInv, PlaceInv, NEW t \in Thread, InitRegion(t)
    PROVE  PlaceInv'
  <1>1. /\ pc[t] = "initRegion"
        /\ regionStarts' = regionStarts \cup {1}
        /\ regionState' = InWord(1, 1)
        /\ state' = [state EXCEPT ![t] = InWord(1, 1)]
        /\ pc' = [pc EXCEPT ![t] = "loop"]
        /\ UNCHANGED <<freeList, span, sharedFreeLists, newState, inUse>>
    BY DEF InitRegion, threadVars
  <1>2. Unlocked(InWord(1, 1)) /\ InWord(1, 1).region = 1
    BY FirstWord, Widths
  <1>3. \A u \in Thread : /\ pc'[u] = (IF u = t THEN "loop" ELSE pc[u])
                          /\ u # t => state'[u] = state[u]
    BY <1>1 DEF TypeInv, TypeOK
  <1>4. \A u \in Thread : Won(u)' = Won(u)
    <2>1. Won(t)' = Won(t)
      BY <1>1, <1>3 DEF Won
    <2>2. \A u \in Thread \ {t} : Won(u)' = Won(u)
      BY <1>1, <1>3 DEF Won, SpanElems
    <2> QED BY <2>1, <2>2
  <1>5. OnePlace' /\ \A g : Taken(g)' => Taken(g)
    BY <1>1, <1>4, NothingMoves DEF PlaceInv
  <1>6. regionState = LockedState /\ \A u \in Thread : Locking(u) => u = t
    BY <1>1 DEF PlaceInv, LockInv, Locking
  <1>7. \A h \in Handle : ~Taken(h)
    BY <1>1, <1>6, UnlockedWord DEF PlaceInv, CarvedInv, Carved, Locking
  <1>8. LockInv'
    BY <1>1, <1>2, <1>3, <1>6, UnlockedWord DEF LockInv, Locking
  <1>9. RegionInv'
    BY <1>1, <1>2, <1>3 DEF PlaceInv, RegionInv
  <1>10. CarvedInv' /\ EmptyInv'
    BY <1>1, <1>3, <1>5, <1>7 DEF PlaceInv, CarvedInv, EmptyInv
  <1> QED BY <1>5, <1>8, <1>9, <1>10 DEF PlaceInv

\* A thread locks the initial word, or finds that another was there before.
LEMMA TryInitStep ==
    ASSUME TypeInv, PlaceInv, NEW t \in Thread, TryInit(t)
    PROVE  PlaceInv'
  <1>1. /\ pc[t] = "tryInit"
        /\ UNCHANGED <<freeList, span, sharedFreeLists, regionStarts, newState, inUse>>
    BY DEF TryInit, threadVars
  <1>2. \A u \in Thread : Won(u)' = Won(u)
    <2>1. /\ pc'[t] \in {"initRegion", "loop"}
          /\ \A u \in Thread \ {t} : pc'[u] = pc[u] /\ state'[u] = state[u]
      BY DEF TryInit, TypeInv, TypeOK
    <2>2. Won(t)' = Won(t)
      BY <1>1, <2>1 DEF Won
    <2>3. \A u \in Thread \ {t} : Won(u)' = Won(u)
      BY <1>1, <2>1 DEF Won, SpanElems
    <2> QED BY <2>2, <2>3
  <1>3. OnePlace' /\ \A g : Taken(g)' => Taken(g)
    BY <1>1, <1>2, NothingMoves DEF PlaceInv
  <1>4. EmptyInv'
    BY <1>1 DEF TryInit, PlaceInv, EmptyInv, TypeInv, TypeOK
  <1>5. CASE regionState = InitState
    <2>1. /\ regionState' = LockedState /\ state' = state
          /\ \A u \in Thread : pc'[u] = IF u = t THEN "initRegion" ELSE pc[u]
      BY <1>5 DEF TryInit, TypeInv, TypeOK
    <2>2. \A u \in Thread : ~Locking(u)
      BY <1>5, States DEF PlaceInv, LockInv
    <2>3. LockInv'
      BY <2>1, <2>2 DEF LockInv, Locking
    <2>4. ~Unlocked(LockedState) /\ ~Unlocked(InitState)
      BY UnlockedWord
    <2>5. RegionInv'
      BY <1>1, <2>1, <2>4 DEF PlaceInv, RegionInv
    <2>6. \A h \in Handle : ~Taken(h)
      BY <1>5, <2>2, <2>4 DEF PlaceInv, CarvedInv, Carved, Locking
    <2> QED BY <1>3, <1>4, <2>3, <2>5, <2>6 DEF PlaceInv, CarvedInv
  <1>6. CASE regionState # InitState
    <2>1. /\ regionState' = regionState
          /\ state' = [state EXCEPT ![t] = regionState]
          /\ pc' = [pc EXCEPT ![t] = "loop"]
      BY <1>6 DEF TryInit
    <2>2. LockInv' /\ RegionInv'
      BY <1>1, <2>1, WordKept DEF PlaceInv, TypeInv, TypeOK, Locking
    <2>3. CarvedInv'
      BY <1>1, <1>3, <2>1, CarvedKept DEF PlaceInv, TypeInv, TypeOK
    <2> QED BY <1>3, <1>4, <2>2, <2>3 DEF PlaceInv
  <1> QED BY <1>5, <1>6

\* A thread reads the word.
LEMMA ReadWordStep ==
    ASSUME TypeInv, PlaceInv, NEW t \in Thread,
           BeginReserve(t) \/ SpinLocked(t) \/ ReserveRetry(t)
    PROVE  PlaceInv'
  <1>1. /\ UNCHANGED <<freeList, span, sharedFreeLists, regionStarts, regionState,
                       newState, inUse>>
        /\ state' = [state EXCEPT ![t] = regionState]
        /\ pc[t] \in {"idle", "loop"}
        /\ pc[t] = "idle" => SpanEmpty(span[t])
        /\ \/ pc' = pc
           \/ pc' = [pc EXCEPT ![t] = IF regionState = InitState THEN "tryInit" ELSE "loop"]
    BY DEF BeginReserve, SpinLocked, ReserveRetry, threadVars
  <1>2. \A u \in Thread : Won(u)' = Won(u)
    <2>1. /\ pc'[t] \in {"idle", "tryInit", "loop"}
          /\ \A u \in Thread \ {t} : pc'[u] = pc[u] /\ state'[u] = state[u]
      BY <1>1 DEF TypeInv, TypeOK
    <2>2. Won(t)' = Won(t)
      BY <1>1, <2>1 DEF Won
    <2>3. \A u \in Thread \ {t} : Won(u)' = Won(u)
      BY <1>1, <2>1 DEF Won, SpanElems
    <2> QED BY <2>2, <2>3
  <1>3. OnePlace' /\ \A g : Taken(g)' => Taken(g)
    BY <1>1, <1>2, NothingMoves DEF PlaceInv
  <1>4. LockInv' /\ RegionInv'
    BY <1>1, WordKept DEF PlaceInv, TypeInv, TypeOK, Locking
  <1>5. CarvedInv'
    BY <1>1, <1>3, CarvedKept DEF PlaceInv, TypeInv, TypeOK
  <1>6. EmptyInv'
    BY <1>1 DEF PlaceInv, EmptyInv, TypeInv, TypeOK
  <1> QED BY <1>3, <1>4, <1>5, <1>6 DEF PlaceInv

\* The thread takes the span it won, without its first element.
LEMMA SetSpanStep ==
    ASSUME TypeInv, PlaceInv, NEW t \in Thread, SetSpan(t)
    PROVE  PlaceInv'
  <1> DEFINE e == SpanEnd(state[t], newState[t])
             s == [region |-> state[t].region, beginIndex |-> state[t].index, endIndex |-> e]
             h == InWord(state[t].region, state[t].index)
  <1>1. /\ pc[t] = "setSpan"
        /\ span' = [span EXCEPT ![t] = [s EXCEPT !.beginIndex = state[t].index + 1]]
        /\ inUse' = [inUse EXCEPT ![h] = @ + 1]
        /\ pc' = [pc EXCEPT ![t] = "idle"]
        /\ UNCHANGED <<freeList, sharedFreeLists, regionStarts, regionState, state, newState>>
    BY DEF SetSpan, AllocFrom, localVars
  <1>2. Unlocked(state[t]) /\ state[t].index < e
    BY <1>1 DEF TypeInv, StateKnown
  <1>3. /\ state[t].region \in 0..(NumRegions - 1) /\ state[t].index \in 1..(MaxIndex - 1)
        /\ e \in 0..MaxIndex
    BY <1>2, UnlockedWord, SpanEndIndex DEF TypeInv, TypeOK
  <1>4. h \in Handle /\ h.region = state[t].region /\ h.index = state[t].index
    BY <1>3, InWordFits, Widths DEF Handle
  <1> HIDE DEF e
  <1>5. Won(t) = {g \in Handle : /\ g.region = state[t].region
                                 /\ state[t].index <= g.index /\ g.index < e}
    BY <1>1, WonMembers DEF e
  <1>6. SpanElems(span'[t]) = {g \in Handle : /\ g.region = state[t].region
                                              /\ state[t].index + 1 <= g.index
                                              /\ g.index < e}
    <2>1. span'[t] = [region |-> state[t].region, beginIndex |-> state[t].index + 1,
                      endIndex |-> e]
      BY <1>1 DEF TypeInv, TypeOK
    <2>2. span'[t] \in [region : 0..(NumRegions - 1), beginIndex : 0..MaxIndex,
                        endIndex : 0..MaxIndex]
      BY <1>3, <2>1, Widths
    <2>3. SpanElems(span'[t]) = {g \in Handle : /\ g.region = span'[t].region
                                                /\ span'[t].beginIndex <= g.index
                                                /\ g.index < span'[t].endIndex}
      BY <2>2, SpanMembers
    <2> QED BY <2>1, <2>3
  <1> HIDE DEF h
  <1>7. /\ h \in Won(t) /\ h \notin SpanElems(span'[t])
        /\ SpanElems(span'[t]) \subseteq Won(t)
    BY <1>2, <1>3, <1>4, <1>5, <1>6 DEF Handle
  <1>8. Won(t)' = {}
    BY <1>1 DEF Won, TypeInv, TypeOK
  <1>9. \A u \in Thread \ {t} : /\ freeList'[u] = freeList[u] /\ span'[u] = span[u]
                                /\ Won(u)' = Won(u)
    BY <1>1 DEF Won, SpanElems, TypeInv, TypeOK
  <1>10. h \in Owned(t) /\ h \notin Owned(t)'
    BY <1>1, <1>7, <1>8 DEF Owned, PlaceInv, OnePlace
  <1>11. OnePlace' /\ \A g : Taken(g)' => Taken(g)
    BY <1>1, <1>7, <1>8, <1>9, <1>10, HandOut DEF PlaceInv
  <1>12. CarvedInv'
    BY <1>1, <1>11, CarvedKept DEF PlaceInv, TypeInv, TypeOK
  <1>13. LockInv' /\ RegionInv'
    BY <1>1, WordKept DEF PlaceInv, Locking, TypeInv, TypeOK
  <1>14. EmptyInv'
    BY <1>1 DEF PlaceInv, EmptyInv, TypeInv, TypeOK
  <1> QED BY <1>11, <1>12, <1>13, <1>14 DEF PlaceInv

-----------------------------------------------------------------------------
(* The results                                                             *)

LEMMA PoolInit == Init => PoolInv
  <1> SUFFICES ASSUME Init PROVE PoolInv
    OBVIOUS
  <1> USE DEF Init
  <1>1. TypeOK
    BY States, Widths DEF TypeOK
  <1>2. \A t \in Thread : StateKnown(t)
    BY DEF StateKnown
  <1>3. TypeInv
    BY <1>1, <1>2 DEF TypeInv
  <1>4. \A t \in Thread : Won(t) = {} /\ SpanElems(span[t]) = {} /\ freeList[t] = {}
    BY <1>3, OwnSpan DEF Won, SpanEmpty
  <1>5. InUse = {} /\ \A t \in Thread : Owned(t) = {}
    BY <1>4 DEF InUse, Owned
  <1>6. OnePlace
    BY <1>4, <1>5 DEF OnePlace
  <1>7. CarvedInv
    BY <1>5 DEF CarvedInv, Taken
  <1>8. LockInv /\ RegionInv /\ EmptyInv
    BY States, UnlockedWord DEF LockInv, RegionInv, EmptyInv, Locking, SpanEmpty
  <1> QED BY <1>3, <1>6, <1>7, <1>8 DEF PoolInv, PlaceInv

LEMMA PoolStep ==
    ASSUME PoolInv, [Next]_vars
    PROVE  PoolInv'
  <1>1. TypeInv /\ TypeInv'
    BY TypeStep DEF PoolInv
  <1>2. RegionsFit' => RegionsFit
    BY DEF RegionsFit, Next, vars, threadVars, localVars, Allocate, Reserving, PopFree,
           AllocSpan, TakeShared, BeginReserve, TryInit, InitRegion, SpinLocked, ReserveSpan,
           ReserveRetry, NewRegion, SetSpan, Free
  <1>3. ASSUME RegionsFit'
        PROVE  PlaceInv'
    <2>1. PlaceInv
      BY <1>2, <1>3 DEF PoolInv
    <2>2. CASE UNCHANGED vars
      <3>1. UNCHANGED <<freeList, span, sharedFreeLists, regionStarts, regionState, pc,
                        state, newState, inUse>>
        BY <2>2 DEF vars, threadVars, localVars
      <3>2. \A t \in Thread : Won(t)' = Won(t)
        BY <3>1 DEF Won, SpanElems
      <3>3. OnePlace' /\ \A g : Taken(g)' => Taken(g)
        BY <2>1, <3>1, <3>2, NothingMoves DEF PlaceInv
      <3>4. CarvedInv' /\ LockInv' /\ RegionInv' /\ EmptyInv'
        BY <2>1, <3>1, <3>3, CarvedKept, WordKept DEF PlaceInv, EmptyInv
      <3> QED BY <3>3, <3>4 DEF PlaceInv
    <2>3. ASSUME NEW t \in Thread, Allocate(t)
          PROVE  PlaceInv'
      BY <1>1, <2>1, <2>3, PopFreeStep, AllocSpanStep, TakeSharedStep, ReadWordStep
         DEF Allocate
    <2>4. ASSUME NEW t \in Thread, Reserving(t)
          PROVE  PlaceInv'
      BY <1>1, <1>3, <2>1, <2>4, TryInitStep, InitRegionStep, ReadWordStep, ReserveSpanStep,
         NewRegionStep, SetSpanStep
         DEF Reserving
    <2>5. ASSUME NEW t \in Thread, NEW h \in InUse, Free(t, h)
          PROVE  PlaceInv'
      BY <1>1, <2>1, <2>5, FreeStep
    <2> QED BY <2>2, <2>3, <2>4, <2>5 DEF Next
  <1> QED BY <1>1, <1>3 DEF PoolInv

\* Everything the other results rest on holds in every reachable state.
THEOREM PoolSafety == Spec => []PoolInv
  BY PoolInit, PoolStep, PTL DEF Spec

\* Every variable has its type (pool.h), also when a region number did not fit.
THEOREM PoolTypes == Spec => []TypeOK
  <1>1. PoolInv => TypeOK
    BY DEF PoolInv, TypeInv
  <1> QED BY <1>1, PoolSafety, PTL

\* While the regions fit no element is in two places, none has two clients, what
\* is handed out has memory, and whoever locked the word will unlock it
\* (instantiatePool.h): for any number of threads and any widths.
THEOREM PoolSound == Spec => []ElementsSound
  <1>1. ASSUME PoolInv
        PROVE  ElementsSound
    <2>1. ASSUME RegionsFit
          PROVE  OnePlace /\ HandlesUsable
      BY <1>1, <2>1 DEF PoolInv, PlaceInv, CarvedInv, Taken, Usable, HandlesUsable, InUse
    <2>2. LockHasOwner
      BY <1>1 DEF PoolInv, PlaceInv, LockInv, LockHasOwner, Locking
    <2> QED BY <2>1, <2>2 DEF ElementsSound, OnePlaceIfFit, HandlesUsableIfFit
  <1> QED BY <1>1, PoolSafety, PTL

\* An Allocate that ends hands out an element that no one has.
LEMMA AllocateStep ==
    ASSUME TypeInv, OnePlace, NEW t \in Thread,
           PopFree(t) \/ AllocSpan(t) \/ TakeShared(t) \/ SetSpan(t)
    PROVE  \E h \in Handle : inUse[h] = 0 /\ inUse' = [inUse EXCEPT ![h] = 1]
  <1> DEFINE Allocated(h) == inUse[h] = 0 /\ inUse' = [inUse EXCEPT ![h] = @ + 1]
  <1>1. SUFFICES \E h \in Handle : Allocated(h)
    <2>1. ASSUME NEW h, Allocated(h)
          PROVE  inUse[h] = 0 /\ inUse' = [inUse EXCEPT ![h] = 1]
      <3>1. inUse[h] + 1 = 1
        BY <2>1
      <3> QED BY <2>1, <3>1, Zenon
    <2> QED BY <2>1
  <1>2. inUse \in [Handle -> Nat]
    BY DEF TypeInv, TypeOK
  <1>3. \A h \in Owned(t) : h \in Handle /\ inUse[h] = 0
    BY <1>2, OwnedType DEF OnePlace, InUse
  <1>4. CASE PopFree(t)
    BY <1>3, <1>4 DEF PopFree, Owned
  <1>5. CASE AllocSpan(t)
    <2> DEFINE h == InWord(span[t].region, span[t].beginIndex)
    <2>1. span[t].beginIndex \in span[t].beginIndex..(span[t].endIndex - 1)
      <3>1. /\ span[t].beginIndex \in 0..MaxIndex /\ span[t].endIndex \in 0..MaxIndex
            /\ span[t].beginIndex <= span[t].endIndex
        BY DEF TypeInv, TypeOK, StateKnown
      <3> QED BY <1>5, <3>1, Widths DEF AllocSpan, SpanEmpty
    <2>2. h \in Owned(t)
      BY <2>1 DEF Owned, SpanElems
    <2> QED BY <1>3, <1>5, <2>2 DEF AllocSpan, AllocFrom
  <1>6. CASE TakeShared(t)
    <2>1. PICK list \in sharedFreeLists : \E h \in list : inUse' = [inUse EXCEPT ![h] = @ + 1]
      BY <1>6 DEF TakeShared
    <2>2. \A h \in list : h \in Handle /\ inUse[h] = 0
      BY <1>2 DEF OnePlace, InUse, TypeInv, TypeOK
    <2> QED BY <2>1, <2>2
  <1>7. CASE SetSpan(t)
    <2> DEFINE s == [ region     |-> state[t].region,
                      beginIndex |-> state[t].index,
                      endIndex   |-> SpanEnd(state[t], newState[t]) ]
               h == InWord(s.region, s.beginIndex)
    <2>1. Won(t) = SpanElems(s)
      BY <1>7 DEF SetSpan, Won
    <2>2. s.beginIndex \in s.beginIndex..(s.endIndex - 1)
      <3>1. state[t].index \in 0..MaxIndex /\ s.endIndex \in 0..MaxIndex
            /\ state[t].index < s.endIndex
        BY <1>7, SpanEndIndex DEF SetSpan, TypeInv, TypeOK, StateKnown, Handle
      <3> QED BY <3>1, Widths
    <2>3. h \in Owned(t)
      BY <2>1, <2>2 DEF Owned, SpanElems
    <2> QED BY <1>3, <1>7, <2>3 DEF SetSpan, AllocFrom
  <1> QED BY <1>4, <1>5, <1>6, <1>7

\* While the regions fit, the pool keeps what Allocator promises: each step of it
\* hands out one element nobody has, takes one back, or is none of the client's
\* business.
THEOREM PoolImplementsAllocator == Spec /\ []RegionsFit => ImplementsAllocator
  <1>1. Init => Abstract!Init
    BY DEF Init, Abstract!Init
  <1>2. ASSUME PoolInv, RegionsFit, [Next]_vars
        PROVE  [Abstract!Next]_inUse
    <2>1. TypeInv /\ OnePlace /\ inUse \in [Handle -> Nat]
      BY <1>2 DEF PoolInv, PlaceInv, TypeInv, TypeOK
    <2>2. CASE UNCHANGED inUse
      BY <2>2
    <2>3. ASSUME NEW t \in Thread,
                 PopFree(t) \/ AllocSpan(t) \/ TakeShared(t) \/ SetSpan(t)
          PROVE  Abstract!Next
      <3>1. PICK h \in Handle : inUse[h] = 0 /\ inUse' = [inUse EXCEPT ![h] = 1]
        BY <2>1, <2>3, AllocateStep
      <3> QED BY <3>1 DEF Abstract!Next, Abstract!Allocate
    <2>4. ASSUME NEW t \in Thread, NEW h \in InUse, Free(t, h)
          PROVE  Abstract!Next
      <3>1. h \in Handle /\ inUse[h] = 1
        BY <2>1 DEF OnePlace, InUse
      <3>2. inUse' = [inUse EXCEPT ![h] = 0]
        BY <2>1, <2>4, <3>1 DEF Free
      <3> QED BY <3>1, <3>2 DEF Abstract!Next, Abstract!Free
    <2>5. ASSUME NEW t \in Thread, BeginReserve(t) \/ TryInit(t) \/ InitRegion(t)
                 \/ SpinLocked(t) \/ ReserveSpan(t) \/ ReserveRetry(t) \/ NewRegion(t)
          PROVE  UNCHANGED inUse
      BY <2>5 DEF BeginReserve, TryInit, InitRegion, SpinLocked, ReserveSpan, ReserveRetry,
                  NewRegion
    <2> QED
      BY <1>2, <2>2, <2>3, <2>4, <2>5 DEF Next, Allocate, Reserving, vars
  <1> QED
    BY <1>1, <1>2, PoolSafety, PTL DEF Spec, ImplementsAllocator, Abstract!Spec
=============================================================================
