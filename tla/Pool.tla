-------------------------------- MODULE Pool --------------------------------
(***************************************************************************)
(* Sdf_Pool of src/pxr/sdf/pool.h and instantiatePool.h, the allocator of  *)
(* the path nodes: a thread takes elements from its own free list, from    *)
(* the span it reserved, from a free list another thread shared, and at    *)
(* last from a new span.  Spans are carved out of regions through one      *)
(* atomic word, _regionState, with compare and exchange; the thread that   *)
(* takes the last span of a region locks the word, reserves the next       *)
(* region and unlocks it.                                                  *)
(*                                                                         *)
(* The width of the region number and of the index in a handle are         *)
(* constants.  A free list is a LIFO in the code; which of its elements    *)
(* comes next does not matter here, so it is a set.                        *)
(***************************************************************************)
EXTENDS Naturals, FiniteSets

CONSTANTS
    Thread,
    RegionBits,    \* bits of the region number in a handle
    IndexBits,     \* bits of the index in a handle: 32 - RegionBits
    ElemsPerSpan,  \* elements a thread reserves at a time
    MaxInUse       \* bound on the elements the clients have at a time

NumRegions == 2^RegionBits

MaxIndex == 2^IndexBits - 1

\* The last line is so for the 24 bits and the 16384 elements of the code: no
\* span begins at the index that is part of LockedState.
ASSUME PoolConstants ==
    /\ RegionBits \in Nat \ {0}
    /\ IndexBits \in Nat \ {0}
    /\ MaxInUse \in Nat
    /\ ElemsPerSpan \in 1..(MaxIndex - 1)
    /\ (MaxIndex - 1) % ElemsPerSpan # 0

\* A region number and an index that come back out of the word they were put
\* in, (index << RegionBits) | region.  The number NumRegions does not fit:
\* its only bit is the lowest one of the index.
InWord(region, index) ==
    [ region |-> region % NumRegions,
      index  |-> IF region = NumRegions /\ index % 2 = 0 THEN index + 1 ELSE index ]

\* Sdf_Pool::Handle
Handle == [region : 0..(NumRegions - 1), index : 0..MaxIndex]

InitState == InWord(0, 0)

LockedState == InWord(NumRegions - 1, MaxIndex)

VARIABLES
    freeList,        \* _PerThreadData::freeList
    span,            \* _PerThreadData::span
    sharedFreeLists, \* _sharedFreeLists
    regionStarts,    \* the regions that have an entry in _regionStarts
    regionState,     \* _regionState
    pc,              \* where each thread is in _ReserveSpan
    state, newState, \* the local variables of _ReserveSpan
    inUse            \* how many clients have each element

threadVars == <<freeList, span, sharedFreeLists>>
localVars == <<state, newState>>
vars == <<threadVars, regionStarts, regionState, pc, localVars, inUse>>

\* The elements of a _PoolSpan.
SpanElems(s) == {InWord(s.region, i) : i \in s.beginIndex..(s.endIndex - 1)}

SpanEmpty(s) == s.beginIndex = s.endIndex

-----------------------------------------------------------------------------
(* Allocate                                                                *)

InUse == {h \in Handle : inUse[h] > 0}

\* The bound on the clients.
Room == Cardinality(InUse) + Cardinality({t \in Thread : pc[t] # "idle"}) < MaxInUse

\* From the local free list.
PopFree(t) ==
    /\ pc[t] = "idle"
    /\ Room
    /\ \E h \in freeList[t] :
          /\ freeList' = [freeList EXCEPT ![t] = @ \ {h}]
          /\ inUse' = [inUse EXCEPT ![h] = @ + 1]
    /\ UNCHANGED <<span, sharedFreeLists, regionStarts, regionState, pc, localVars>>

\* From the span s of the thread, which has some left.
AllocFrom(t, s) ==
    /\ span' = [span EXCEPT ![t] = [s EXCEPT !.beginIndex = @ + 1]]
    /\ inUse' = [inUse EXCEPT ![InWord(s.region, s.beginIndex)] = @ + 1]

AllocSpan(t) ==
    /\ pc[t] = "idle"
    /\ Room
    /\ freeList[t] = {}
    /\ ~SpanEmpty(span[t])
    /\ AllocFrom(t, span[t])
    /\ UNCHANGED <<freeList, sharedFreeLists, regionStarts, regionState, pc, localVars>>

\* From a shared free list, taken whole.
TakeShared(t) ==
    /\ pc[t] = "idle"
    /\ Room
    /\ freeList[t] = {}
    /\ SpanEmpty(span[t])
    /\ \E list \in sharedFreeLists : \E h \in list :
          /\ sharedFreeLists' = sharedFreeLists \ {list}
          /\ freeList' = [freeList EXCEPT ![t] = list \ {h}]
          /\ inUse' = [inUse EXCEPT ![h] = @ + 1]
    /\ UNCHANGED <<span, regionStarts, regionState, pc, localVars>>

-----------------------------------------------------------------------------
(* _ReserveSpan                                                            *)

BeginReserve(t) ==
    /\ pc[t] = "idle"
    /\ Room
    /\ freeList[t] = {}
    /\ SpanEmpty(span[t])
    /\ sharedFreeLists = {}
    /\ state' = [state EXCEPT ![t] = regionState]
    /\ pc' = [pc EXCEPT ![t] = IF regionState = InitState THEN "tryInit" ELSE "loop"]
    /\ UNCHANGED <<threadVars, regionStarts, regionState, newState, inUse>>

\* The first compare and exchange, from the initial to the locked state.
TryInit(t) ==
    /\ pc[t] = "tryInit"
    /\ IF regionState = InitState
       THEN /\ regionState' = LockedState
            /\ pc' = [pc EXCEPT ![t] = "initRegion"]
            /\ UNCHANGED state
       ELSE /\ state' = [state EXCEPT ![t] = regionState]
            /\ pc' = [pc EXCEPT ![t] = "loop"]
            /\ UNCHANGED regionState
    /\ UNCHANGED <<threadVars, regionStarts, newState, inUse>>

\* The first region is reserved and the word unlocked.
InitRegion(t) ==
    /\ pc[t] = "initRegion"
    /\ regionStarts' = regionStarts \cup {1}
    /\ regionState' = InWord(1, 1)
    /\ state' = [state EXCEPT ![t] = InWord(1, 1)]
    /\ pc' = [pc EXCEPT ![t] = "loop"]
    /\ UNCHANGED <<threadVars, newState, inUse>>

\* _RegionState::Reserve: locked if nothing would be left.
Reserve(s) ==
    IF MaxIndex - s.index + 1 <= ElemsPerSpan
    THEN LockedState
    ELSE InWord(s.region, s.index + ElemsPerSpan)

\* The word was locked when it was read: read it again.
SpinLocked(t) ==
    /\ pc[t] = "loop"
    /\ state[t] = LockedState
    /\ regionState # LockedState
    /\ state' = [state EXCEPT ![t] = regionState]
    /\ UNCHANGED <<threadVars, regionStarts, regionState, pc, newState, inUse>>

\* Mutant: the word is stored without a comparison.
StoreReserved(t) ==
    /\ pc[t] = "loop"
    /\ state[t] # LockedState
    /\ regionState' = Reserve(state[t])
    /\ newState' = [newState EXCEPT ![t] = Reserve(state[t])]
    /\ pc' = [pc EXCEPT ![t] =
                 IF Reserve(state[t]) = LockedState THEN "newRegion" ELSE "setSpan"]
    /\ UNCHANGED <<threadVars, regionStarts, state, inUse>>

\* compare_exchange_weak succeeds: the span is this thread's.
ReserveSpan(t) ==
    /\ pc[t] = "loop"
    /\ state[t] # LockedState
    /\ regionState = state[t]
    /\ regionState' = Reserve(state[t])
    /\ newState' = [newState EXCEPT ![t] = Reserve(state[t])]
    /\ pc' = [pc EXCEPT ![t] =
                 IF Reserve(state[t]) = LockedState THEN "newRegion" ELSE "setSpan"]
    /\ UNCHANGED <<threadVars, regionStarts, state, inUse>>

\* It fails because another thread changed the word, which is read again.
ReserveRetry(t) ==
    /\ pc[t] = "loop"
    /\ state[t] # LockedState
    /\ regionState # state[t]
    /\ state' = [state EXCEPT ![t] = regionState]
    /\ UNCHANGED <<threadVars, regionStarts, regionState, pc, newState, inUse>>

\* The next region is reserved and the word unlocked, or the process dies.
NewRegion(t) ==
    LET newRegion == state[t].region + 1 IN
    /\ pc[t] = "newRegion"
    /\ newRegion <= NumRegions
    /\ regionStarts' = regionStarts \cup {newRegion}
    /\ regionState' = InWord(newRegion, 1)
    /\ newState' = [newState EXCEPT ![t] = InWord(newRegion, 1)]
    /\ pc' = [pc EXCEPT ![t] = "setSpan"]
    /\ UNCHANGED <<threadVars, state, inUse>>

\* Mutant: the rest of the region is given to its last span, one too many.
SpanEndPast(old, new) ==
    IF new.region = old.region THEN new.index ELSE MaxIndex + 1

\* Where the span ends: where the next one begins, or with the region.
SpanEnd(old, new) ==
    IF new.region = old.region THEN new.index ELSE MaxIndex

\* The span is set and its first element allocated.
SetSpan(t) ==
    /\ pc[t] = "setSpan"
    /\ AllocFrom(t, [ region     |-> state[t].region,
                      beginIndex |-> state[t].index,
                      endIndex   |-> SpanEnd(state[t], newState[t]) ])
    /\ pc' = [pc EXCEPT ![t] = "idle"]
    /\ UNCHANGED <<freeList, sharedFreeLists, regionStarts, regionState, localVars>>

-----------------------------------------------------------------------------
(* Free                                                                    *)

\* Any thread may free any element; a list that grew as long as a span is
\* shared.
Free(t, h) ==
    LET list  == freeList[t] \cup {h}
        share == Cardinality(list) >= ElemsPerSpan
    IN
    /\ pc[t] = "idle"
    /\ inUse[h] > 0
    /\ inUse' = [inUse EXCEPT ![h] = @ - 1]
    /\ freeList' = [freeList EXCEPT ![t] = IF share THEN {} ELSE list]
    /\ sharedFreeLists' = IF share THEN sharedFreeLists \cup {list} ELSE sharedFreeLists
    /\ UNCHANGED <<span, regionStarts, regionState, pc, localVars>>

-----------------------------------------------------------------------------
Init ==
    /\ freeList = [t \in Thread |-> {}]
    /\ span = [t \in Thread |-> [region |-> 0, beginIndex |-> 0, endIndex |-> 0]]
    /\ sharedFreeLists = {}
    /\ regionStarts = {}
    /\ regionState = InitState
    /\ pc = [t \in Thread |-> "idle"]
    /\ state = [t \in Thread |-> InitState]
    /\ newState = [t \in Thread |-> InitState]
    /\ inUse = [h \in Handle |-> 0]

\* A step of an allocation that has begun.
Reserving(t) ==
    \/ TryInit(t) \/ InitRegion(t) \/ SpinLocked(t)
    \/ ReserveSpan(t) \/ ReserveRetry(t) \/ NewRegion(t) \/ SetSpan(t)

Allocate(t) == PopFree(t) \/ AllocSpan(t) \/ TakeShared(t) \/ BeginReserve(t)

Next ==
    \E t \in Thread :
        \/ Allocate(t)
        \/ Reserving(t)
        \/ \E h \in InUse : Free(t, h)

Spec == Init /\ [][Next]_vars

-----------------------------------------------------------------------------
(* Properties                                                              *)

\* Every variable has its type.
TypeOK ==
    /\ freeList \in [Thread -> SUBSET Handle]
    /\ span \in [Thread -> [region : 0..(NumRegions - 1), beginIndex : 0..MaxIndex,
                            endIndex : 0..MaxIndex]]
    /\ sharedFreeLists \subseteq SUBSET Handle
    /\ regionStarts \subseteq 1..NumRegions
    /\ regionState \in Handle
    /\ pc \in [Thread -> {"idle", "tryInit", "initRegion", "loop", "newRegion", "setSpan"}]
    /\ state \in [Thread -> Handle]
    /\ newState \in [Thread -> Handle]
    /\ inUse \in [Handle -> Nat]

\* The span a thread won with its compare and exchange but has not set yet.
Won(t) ==
    IF pc[t] \in {"newRegion", "setSpan"}
    THEN SpanElems([ region     |-> state[t].region,
                     beginIndex |-> state[t].index,
                     endIndex   |-> SpanEnd(state[t], newState[t]) ])
    ELSE {}

\* The last region number does not fit in a handle: what follows is about the
\* regions before it.
RegionsFit == NumRegions \notin regionStarts

\* The elements only thread t can hand out.
Owned(t) == freeList[t] \cup SpanElems(span[t]) \cup Won(t)

\* No element is in two places, and none has two clients: whatever the interleaving of the reservations
\* and of the free lists that pass from thread to thread, what Allocate hands
\* out next no client has, and no other thread can hand out.
OnePlace ==
    /\ \A h \in Handle : inUse[h] <= 1
    /\ \A t \in Thread :
          /\ Owned(t) \cap InUse = {}
          /\ freeList[t] \cap (SpanElems(span[t]) \cup Won(t)) = {}
          /\ \A u \in Thread \ {t} : Owned(t) \cap Owned(u) = {}
    /\ \A list \in sharedFreeLists :
          /\ list \cap InUse = {}
          /\ \A t \in Thread : list \cap Owned(t) = {}
          /\ \A other \in sharedFreeLists \ {list} : list \cap other = {}

OnePlaceIfFit == RegionsFit => OnePlace

\* An element that is handed out has memory: it is not the null handle and its
\* region was reserved.  It does not hold of the last region: see the README.
HandlesUsable ==
    \A h \in InUse : h.region \in regionStarts /\ h.index \in 1..(MaxIndex - 1)

HandlesUsableIfFit == RegionsFit => HandlesUsable

\* The word is locked only by a thread that is about to unlock it: the others
\* do not spin for ever, and no state of the word looks locked by accident.
LockHasOwner ==
    RegionsFit /\ regionState = LockedState
    => \E t \in Thread : pc[t] \in {"initRegion", "newRegion"}

\* No element is in two places, what is handed out has memory, and whoever locked the word
\* will unlock it (instantiatePool.h).
ElementsSound == OnePlaceIfFit /\ HandlesUsableIfFit /\ LockHasOwner

\* The pool does what its clients are promised.
Abstract == INSTANCE Allocator WITH Element <- Handle

ImplementsAllocator == Abstract!Spec

=============================================================================
