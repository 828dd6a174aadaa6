--------------------------- MODULE LayerLifecycle ---------------------------
(***************************************************************************)
(* The life of the layers of a process: src/pxr/sdf/layer.cpp opens them,  *)
(* shares them between threads through the layer registry, renames them    *)
(* and destroys them.  Threads run the static functions FindOrOpen, Find,  *)
(* CreateNew, New, CreateAnonymous, OpenAsAnonymous and the members        *)
(* SetIdentifier and UpdateAssetInfo, and drop references.                 *)
(*                                                                         *)
(* Each action is one stretch of a call between two points where another   *)
(* thread can intervene: taking or giving up the registry mutex (a         *)
(* tbb::queuing_rw_mutex, at most one writer or any number of readers),    *)
(* the spin on _initializationComplete, and the drop of a reference.       *)
(*                                                                         *)
(* A layer is a reference counted object.  The references are those that   *)
(* the threads keep between calls (held) and the one a call in progress    *)
(* has (cur).  The thread that drops the last one runs ~SdfLayer, which    *)
(* takes the registry mutex: until then the layer is alive, unreferenced   *)
(* and still in the registry, that is, expiring.                           *)
(***************************************************************************)
EXTENDS LayerRegistry, Naturals, FiniteSets

CONSTANTS
    Thread, NoThread,
    Calls,              \* the calls the threads make
    Failures,           \* what may go wrong: "read", "throw", "save"
    MaxResolverChanges, \* bound on the changes of the asset resolver
    InitialLocation,    \* where each identifier resolves to at first
    InitialAssets       \* the paths where an asset exists at first

CallNames == { "FindOrOpen", "Find", "CreateNew", "New", "CreateAnonymous",
               "OpenAsAnonymous", "SetIdentifier", "UpdateAssetInfo" }

ASSUME LifecycleConstants ==
    /\ NoThread \notin Thread
    /\ Calls \subseteq CallNames
    /\ Failures \subseteq {"read", "throw", "save"}
    /\ MaxResolverChanges \in Nat
    /\ InitialLocation \in [Identifier -> Path]
    /\ InitialAssets \subseteq Path

VARIABLES
    registry,        \* _layerRegistry
    writer, readers, \* the holders of _GetLayerRegistryMutex()
    alive,           \* layers constructed and not yet destroyed
    info,            \* SdfLayer::_assetInfo
    init,            \* _initializationComplete, _initializationWasSuccessful
    held,            \* layers each thread has a reference to between calls
    cur,             \* the layer the call in progress has a reference to
    dying,           \* the layer whose destructor the thread runs
    pc,              \* where each thread is
    call,            \* the call in progress and what it was given
    candidate,       \* the expiring layer _TryToFindLayer is to erase
    hasWriteLock,    \* the local variable of _TryToFindLayer
    location,        \* ArResolver: the path each identifier stands for
    assets,          \* ArResolver: the paths where an asset exists
    resolverChanges  \* number of changes of location and assets so far

lockVars     == <<writer, readers>>
layerVars    == <<alive, info, init>>
refVars      == <<held, cur, dying>>
findVars     == <<candidate, hasWriteLock>>
resolverVars == <<location, assets, resolverChanges>>
vars == <<registry, lockVars, layerVars, refVars, pc, call, findVars,
          resolverVars>>

ControlPoint ==
    { "idle",
      "wantRead",     \* waiting for the mutex in FindOrOpen or _Find
      "lookup",       \* in _TryToFindLayer, holding the mutex
      "wantUpgrade",  \* in upgrade_to_writer, still a reader
      "wantRelock",   \* in upgrade_to_writer, having given the mutex up
      "missed",       \* FindOrOpen, a writer: no layer was found
      "reading",      \* in _Read, the mutex released
      "waiting",      \* in _WaitForInitializationAndCheckIfSuccessful
      "wantCreate",   \* waiting for the mutex in _CreateNew
      "creating",     \* in _CreateNew, holding the mutex
      "createFailed", \* _CreateNew returns, the layer not yet dropped
      "wantUpdate",   \* waiting for the mutex in UpdateAssetInfo
      "updating",     \* in _InitializeFromIdentifier
      "wantErase",    \* waiting for the mutex in ~SdfLayer
      "erasing" }     \* in ~SdfLayer, holding the mutex

\* The control points at which a thread is about to take the mutex.
Acquiring == {"wantRead", "wantRelock", "wantCreate", "wantUpdate", "wantErase"}

\* A call: its name, the identifier it is given, what that resolved to when
\* the call began and the layer it is made on.
Call == [ op : CallNames \cup {"none"}, ident : Identifier \cup Layer \cup {NoIdentifier},
          path : Path \cup {NoPath}, target : Layer \cup {NoLayer} ]

NoCall == [ op |-> "none", ident |-> NoIdentifier, path |-> NoPath,
            target |-> NoLayer ]

-----------------------------------------------------------------------------
(* The asset resolver (external).                                          *)

\* ArResolver::Resolve: empty unless the asset exists.
Resolve(id) ==
    IF id \in Identifier /\ location[id] \in assets THEN location[id] ELSE NoPath

\* Sdf_ComputeFilePath: where the asset is, or where it would be created.
ComputeFilePath(id) == IF id \in Identifier THEN location[id] ELSE NoPath

\* The context, the search paths or the links on disk change.
Relocate(id, p) ==
    /\ resolverChanges < MaxResolverChanges
    /\ location[id] # p
    /\ location' = [location EXCEPT ![id] = p]
    /\ resolverChanges' = resolverChanges + 1
    /\ UNCHANGED <<registry, lockVars, layerVars, refVars, pc, call, findVars, assets>>

\* An asset appears or disappears.
ToggleAsset(p) ==
    /\ resolverChanges < MaxResolverChanges
    /\ assets' = IF p \in assets THEN assets \ {p} ELSE assets \cup {p}
    /\ resolverChanges' = resolverChanges + 1
    /\ UNCHANGED <<registry, lockVars, layerVars, refVars, pc, call, findVars, location>>

-----------------------------------------------------------------------------
(* References and the mutex.                                               *)

Referenced(l) == \E t \in Thread : l \in held[t] \/ cur[t] = l

Goto(t, where) == pc' = [pc EXCEPT ![t] = where]

\* The call of t is over.
Finish(t) == Goto(t, "idle") /\ call' = [call EXCEPT ![t] = NoCall]

\* TfRefPtr: t gives up a reference to l; newHeld and newCur are what remains.
\* The last reference takes t into ~SdfLayer before it goes on at where.
DropReference(t, l, newHeld, newCur, where) ==
    /\ held' = newHeld
    /\ cur' = newCur
    /\ IF \E u \in Thread : l \in newHeld[u] \/ newCur[u] = l
       THEN Goto(t, where) /\ UNCHANGED dying
       ELSE Goto(t, "wantErase") /\ dying' = [dying EXCEPT ![t] = l]

DropCurrent(t, where) ==
    DropReference(t, cur[t], held, [cur EXCEPT ![t] = NoLayer], where)

\* The call of t returns the layer it has a reference to.
ReturnLayer(t) ==
    /\ held' = [held EXCEPT ![t] = @ \cup {cur[t]}]
    /\ cur' = [cur EXCEPT ![t] = NoLayer]
    /\ Finish(t)
    /\ UNCHANGED dying

Release(t) ==
    /\ writer' = IF writer = t THEN NoThread ELSE writer
    /\ readers' = readers \ {t}

AcquireWrite(t) ==
    /\ writer = NoThread
    /\ readers = {}
    /\ writer' = t
    /\ UNCHANGED readers

\* SdfLayer::SdfLayer, called with the mutex held: the layer is published in
\* the registry with its initialization not complete.
Construct(t, l, newInfo) ==
    /\ l \in Layer \ alive
    /\ alive' = alive \cup {l}
    /\ info' = [info EXCEPT ![l] = newInfo]
    /\ registry' = Insert(registry, l, newInfo)

\* Bound on the environment: a call that may construct a layer begins only
\* while there is an object left for every call in progress.
RoomToConstruct ==
    Cardinality({t \in Thread : pc[t] # "idle"}) < Cardinality(Layer \ alive)

-----------------------------------------------------------------------------
(* The calls begin.                                                        *)

Begin(t, name, id, l, where) ==
    /\ pc[t] = "idle"
    /\ name \in Calls
    /\ call' = [call EXCEPT ![t] = [op |-> name, ident |-> id,
                                    path |-> Resolve(id), target |-> l]]
    /\ Goto(t, where)
    /\ UNCHANGED <<registry, lockVars, layerVars, refVars, findVars, resolverVars>>

\* _ComputeInfoToFindOrOpenLayer resolves before the mutex is taken.
BeginFindOrOpen(t, id) ==
    RoomToConstruct /\ Begin(t, "FindOrOpen", id, NoLayer, "wantRead")

BeginFind(t, id) == Begin(t, "Find", id, NoLayer, "wantRead")

\* _CreateNew: an anonymous identifier is refused.
BeginCreateNew(t, name, id) ==
    RoomToConstruct /\ name \in {"CreateNew", "New"} /\ Begin(t, name, id, NoLayer, "wantCreate")

BeginCreateAnonymous(t) ==
    RoomToConstruct /\ Begin(t, "CreateAnonymous", NoIdentifier, NoLayer, "wantCreate")

BeginOpenAsAnonymous(t, id) ==
    RoomToConstruct /\ Begin(t, "OpenAsAnonymous", id, NoLayer, "wantCreate")

\* A layer is not edited by two threads at once: the callers see to it.
NotEdited(l) == \A u \in Thread : call[u].target # l

BeginSetIdentifier(t, l, id) ==
    l \in held[t] /\ NotEdited(l) /\ Begin(t, "SetIdentifier", id, l, "wantRead")

BeginUpdateAssetInfo(t, l) ==
    /\ l \in held[t]
    /\ NotEdited(l)
    /\ Begin(t, "UpdateAssetInfo", info[l].identifier, l, "wantUpdate")

\* A thread drops a reference it kept, not one a call of its own is using.
Drop(t, l) ==
    /\ pc[t] = "idle"
    /\ l \in held[t]
    /\ DropReference(t, l, [held EXCEPT ![t] = @ \ {l}], cur, "idle")
    /\ UNCHANGED <<registry, lockVars, layerVars, call, findVars, resolverVars>>

-----------------------------------------------------------------------------
(* _TryToFindLayer, under FindOrOpen, Find and SetIdentifier.              *)

\* FindOrOpen and SetIdentifier pass retryAsWriter.
RetryAsWriter(t) == call[t].op \in {"FindOrOpen", "SetIdentifier"}

AcquireRead(t) ==
    /\ pc[t] = "wantRead"
    /\ writer = NoThread
    /\ readers' = readers \cup {t}
    /\ Goto(t, "lookup")
    /\ UNCHANGED <<registry, writer, layerVars, refVars, call, findVars, resolverVars>>

\* What the registry lookup of t may find.
Found(t) ==
    Find(registry, call[t].ident,
         IF call[t].path \in Path THEN call[t].path
                                  ELSE ComputeFilePath(call[t].ident))

\* Mutant: a strong reference is made of an expiring layer.
LookupHitExpiring(t) ==
    /\ pc[t] = "lookup"
    /\ \E l \in Found(t) \ {NoLayer} : cur' = [cur EXCEPT ![t] = l]
    /\ Release(t)
    /\ hasWriteLock' = [hasWriteLock EXCEPT ![t] = FALSE]
    /\ Goto(t, "waiting")
    /\ UNCHANGED <<registry, layerVars, held, dying, call, candidate, resolverVars>>

\* TfCreateRefPtrFromProtectedWeakPtr succeeds: the mutex is released and the
\* layer, now referenced, is waited for.
LookupHit(t) ==
    /\ pc[t] = "lookup"
    /\ \E l \in Found(t) \ {NoLayer} :
          /\ Referenced(l)
          /\ cur' = [cur EXCEPT ![t] = l]
    /\ Release(t)
    /\ hasWriteLock' = [hasWriteLock EXCEPT ![t] = FALSE]
    /\ Goto(t, "waiting")
    /\ UNCHANGED <<registry, layerVars, held, dying, call, candidate, resolverVars>>

\* _TryToFindLayer returns null: _Find without retryAsWriter releases the
\* mutex, the other callers go on as writers.
ReturnNull(t) ==
    IF RetryAsWriter(t)
    THEN /\ writer' = t
         /\ readers' = {}
         /\ Goto(t, IF call[t].op = "SetIdentifier" THEN "updating" ELSE "missed")
         /\ UNCHANGED call
    ELSE /\ writer' = NoThread
         /\ readers' = readers \ {t}
         /\ Finish(t)

\* Nothing is found, or an expiring layer is.  A writer erases it from the
\* registry; a reader has to upgrade first if it has to erase or to retry.
LookupMiss(t) ==
    /\ pc[t] = "lookup"
    /\ \E l \in Found(t) :
          /\ l = NoLayer \/ ~Referenced(l)
          /\ IF ~hasWriteLock[t] /\ (l # NoLayer \/ RetryAsWriter(t))
             THEN /\ candidate' = [candidate EXCEPT ![t] = l]
                  /\ Goto(t, "wantUpgrade")
                  /\ UNCHANGED <<registry, lockVars, call, hasWriteLock>>
             ELSE /\ registry' = IF l = NoLayer THEN registry
                                 ELSE Erase(registry, l, info[l])
                  /\ hasWriteLock' = [hasWriteLock EXCEPT ![t] = FALSE]
                  /\ ReturnNull(t)
                  /\ UNCHANGED candidate
    /\ UNCHANGED <<layerVars, refVars, resolverVars>>

\* upgrade_to_writer returns true: no one had the mutex in between, and what
\* was looked up is still so.
UpgradeAtomic(t) ==
    /\ pc[t] = "wantUpgrade"
    /\ readers = {t}
    /\ registry' = IF candidate[t] = NoLayer THEN registry
                   ELSE Erase(registry, candidate[t], info[candidate[t]])
    /\ candidate' = [candidate EXCEPT ![t] = NoLayer]
    /\ ReturnNull(t)
    /\ UNCHANGED <<layerVars, refVars, hasWriteLock, resolverVars>>

\* upgrade_to_writer gives the mutex up because another thread is at it, and
\* returns false once t is a writer: everything is looked up again.
UpgradeByRelease(t) ==
    /\ pc[t] = "wantUpgrade"
    /\ \E u \in Thread \ {t} : u \in readers \/ pc[u] \in Acquiring
    /\ readers' = readers \ {t}
    /\ candidate' = [candidate EXCEPT ![t] = NoLayer]
    /\ hasWriteLock' = [hasWriteLock EXCEPT ![t] = TRUE]
    /\ Goto(t, "wantRelock")
    /\ UNCHANGED <<registry, writer, layerVars, refVars, call, resolverVars>>

\* Mutant: the result of upgrade_to_writer is ignored.
ReacquireNoRetry(t) ==
    /\ pc[t] = "wantRelock"
    /\ AcquireWrite(t)
    /\ Goto(t, "missed")
    /\ UNCHANGED <<registry, layerVars, refVars, call, findVars, resolverVars>>

Reacquire(t) ==
    /\ pc[t] = "wantRelock"
    /\ AcquireWrite(t)
    /\ Goto(t, "lookup")
    /\ UNCHANGED <<registry, layerVars, refVars, call, findVars, resolverVars>>

-----------------------------------------------------------------------------
(* FindOrOpen creates and reads the layer it did not find.                 *)

\* An anonymous layer, or an asset that does not resolve: nothing to open.
OpenNothing(t) ==
    /\ pc[t] = "missed"
    /\ IsAnonymous(call[t].ident) \/ call[t].path = NoPath
    /\ Release(t)
    /\ Finish(t)
    /\ UNCHANGED <<registry, layerVars, refVars, findVars, resolverVars>>

\* _OpenLayerAndUnlockRegistry up to the release of the mutex.
OpenLayer(t) ==
    /\ pc[t] = "missed"
    /\ ~IsAnonymous(call[t].ident)
    /\ call[t].path # NoPath
    /\ \E l \in Layer :
          /\ Construct(t, l, ComputeAssetInfo(call[t].ident, call[t].path))
          /\ init' = [init EXCEPT ![l] = "pending"]
          /\ cur' = [cur EXCEPT ![t] = l]
    /\ Release(t)
    /\ Goto(t, "reading")
    /\ UNCHANGED <<held, dying, call, findVars, resolverVars>>

\* _FinishInitialization(success)
FinishInitialization(l, success) ==
    init' = [init EXCEPT ![l] = IF success THEN "ok" ELSE "failed"]

ReadSucceeds(t) ==
    /\ pc[t] = "reading"
    /\ FinishInitialization(cur[t], TRUE)
    /\ ReturnLayer(t)
    /\ UNCHANGED <<registry, lockVars, alive, info, findVars, resolverVars>>

\* Mutant: the threads that wait are not told of the failure.
ReadFailsSilently(t) ==
    /\ pc[t] = "reading"
    /\ "read" \in Failures
    /\ call' = [call EXCEPT ![t] = NoCall]
    /\ DropCurrent(t, "idle")
    /\ UNCHANGED <<registry, lockVars, layerVars, findVars, resolverVars>>

\* OpenAsAnonymous treats an exception as a failure to read.
ReadFails(t) ==
    /\ pc[t] = "reading"
    /\ \/ "read" \in Failures
       \/ "throw" \in Failures /\ call[t].op = "OpenAsAnonymous"
    /\ FinishInitialization(cur[t], FALSE)
    /\ call' = [call EXCEPT ![t] = NoCall]
    /\ DropCurrent(t, "idle")
    /\ UNCHANGED <<registry, lockVars, alive, info, findVars, resolverVars>>

\* The exception leaves _OpenLayerAndUnlockRegistry and is caught in
\* FindOrOpen, which returns null; the reference is dropped on the way.
ReadThrows(t) ==
    /\ pc[t] = "reading"
    /\ "throw" \in Failures
    /\ call[t].op = "FindOrOpen"
    /\ call' = [call EXCEPT ![t] = NoCall]
    /\ DropCurrent(t, "idle")
    /\ UNCHANGED <<registry, lockVars, layerVars, findVars, resolverVars>>

-----------------------------------------------------------------------------
(* A layer that was found may still be initialized by another thread.      *)

Initialized(t) == pc[t] = "waiting" /\ init[cur[t]] # "pending"

\* Mutant: the success of the initialization is not looked at.
WaitNotChecked(t) ==
    /\ Initialized(t)
    /\ call[t].op = "FindOrOpen"
    /\ ReturnLayer(t)
    /\ UNCHANGED <<registry, lockVars, layerVars, findVars, resolverVars>>

WaitFindOrOpen(t) ==
    /\ Initialized(t)
    /\ call[t].op = "FindOrOpen"
    /\ IF init[cur[t]] = "ok"
       THEN ReturnLayer(t)
       ELSE /\ call' = [call EXCEPT ![t] = NoCall]
            /\ DropCurrent(t, "idle")
    /\ UNCHANGED <<registry, lockVars, layerVars, findVars, resolverVars>>

\* Find returns a weak handle: the reference is dropped in any case.
WaitFind(t) ==
    /\ Initialized(t)
    /\ call[t].op = "Find"
    /\ call' = [call EXCEPT ![t] = NoCall]
    /\ DropCurrent(t, "idle")
    /\ UNCHANGED <<registry, lockVars, layerVars, findVars, resolverVars>>

\* Another layer has the identifier: an error.  The layer itself has it, or
\* the one found was not initialized: go on, the mutex is released already.
WaitSetIdentifier(t) ==
    /\ Initialized(t)
    /\ call[t].op = "SetIdentifier"
    /\ IF init[cur[t]] = "ok" /\ cur[t] # call[t].target
       THEN /\ call' = [call EXCEPT ![t] = NoCall]
            /\ DropCurrent(t, "idle")
       ELSE /\ DropCurrent(t, "updating")
            /\ UNCHANGED call
    /\ UNCHANGED <<registry, lockVars, layerVars, findVars, resolverVars>>

-----------------------------------------------------------------------------
(* _CreateNew, _CreateAnonymousWithFormat and OpenAsAnonymous.             *)

AcquireCreate(t) ==
    /\ pc[t] = "wantCreate"
    /\ AcquireWrite(t)
    /\ Goto(t, "creating")
    /\ UNCHANGED <<registry, layerVars, refVars, call, findVars, resolverVars>>

CreateAnonymous(t) ==
    /\ pc[t] = "creating"
    /\ call[t].op = "CreateAnonymous"
    /\ \E l \in Layer :
          /\ Construct(t, l, ComputeAssetInfo(l, NoPath))
          /\ FinishInitialization(l, TRUE)
          /\ held' = [held EXCEPT ![t] = @ \cup {l}]
    /\ Release(t)
    /\ Finish(t)
    /\ UNCHANGED <<cur, dying, findVars, resolverVars>>

\* The layer is constructed under the mutex and read after its release.
OpenAnonymous(t) ==
    /\ pc[t] = "creating"
    /\ call[t].op = "OpenAsAnonymous"
    /\ \E l \in Layer :
          /\ Construct(t, l, ComputeAssetInfo(l, NoPath))
          /\ init' = [init EXCEPT ![l] = "pending"]
          /\ cur' = [cur EXCEPT ![t] = l]
    /\ Release(t)
    /\ Goto(t, "reading")
    /\ UNCHANGED <<held, dying, call, findVars, resolverVars>>

\* "A layer already exists with identifier": any layer the registry has under
\* it counts, an expiring one too.
AlreadyExists(id) == NoLayer \notin Find(registry, id, ComputeFilePath(id))

CreateRefused(t) ==
    /\ pc[t] = "creating"
    /\ call[t].op \in {"CreateNew", "New"}
    /\ AlreadyExists(call[t].ident)
    /\ Release(t)
    /\ Finish(t)
    /\ UNCHANGED <<registry, layerVars, refVars, findVars, resolverVars>>

CreateNew(t) ==
    LET id == call[t].ident IN
    /\ pc[t] = "creating"
    /\ call[t].op \in {"CreateNew", "New"}
    /\ ~AlreadyExists(id)
    /\ \E l \in Layer :
          /\ Construct(t, l, ComputeAssetInfo(id, ComputeFilePath(id)))
          /\ FinishInitialization(l, TRUE)
          /\ held' = [held EXCEPT ![t] = @ \cup {l}]
    /\ assets' = IF call[t].op = "CreateNew" THEN assets \cup {ComputeFilePath(id)}
                 ELSE assets
    /\ Release(t)
    /\ Finish(t)
    /\ UNCHANGED <<cur, dying, findVars, location, resolverChanges>>

\* Mutant: the layer is dropped before the mutex is released.
CreateFailsLocked(t) ==
    LET id == call[t].ident IN
    /\ pc[t] = "creating"
    /\ call[t].op = "CreateNew"
    /\ "save" \in Failures
    /\ ~AlreadyExists(id)
    /\ \E l \in Layer :
          /\ Construct(t, l, ComputeAssetInfo(id, ComputeFilePath(id)))
          /\ init' = [init EXCEPT ![l] = "pending"]
          /\ dying' = [dying EXCEPT ![t] = l]
    /\ Goto(t, "wantErase")
    /\ call' = [call EXCEPT ![t] = NoCall]
    /\ UNCHANGED <<lockVars, held, cur, findVars, resolverVars>>

\* _Save fails: the mutex is released first, the reference dropped after.
CreateFails(t) ==
    LET id == call[t].ident IN
    /\ pc[t] = "creating"
    /\ call[t].op = "CreateNew"
    /\ "save" \in Failures
    /\ ~AlreadyExists(id)
    /\ \E l \in Layer :
          /\ Construct(t, l, ComputeAssetInfo(id, ComputeFilePath(id)))
          /\ init' = [init EXCEPT ![l] = "pending"]
          /\ cur' = [cur EXCEPT ![t] = l]
    /\ Release(t)
    /\ Goto(t, "createFailed")
    /\ UNCHANGED <<held, dying, call, findVars, resolverVars>>

DropFailed(t) ==
    /\ pc[t] = "createFailed"
    /\ call' = [call EXCEPT ![t] = NoCall]
    /\ DropCurrent(t, "idle")
    /\ UNCHANGED <<registry, lockVars, layerVars, findVars, resolverVars>>

-----------------------------------------------------------------------------
(* A layer changes its identifier or is resolved again.                    *)

AcquireUpdate(t) ==
    /\ pc[t] = "wantUpdate"
    /\ AcquireWrite(t)
    /\ Goto(t, "updating")
    /\ UNCHANGED <<registry, layerVars, refVars, call, findVars, resolverVars>>

\* _InitializeFromIdentifier of a layer that is registered already.
UpdateRegistry(t) ==
    LET l   == call[t].target
        id  == IF call[t].op = "SetIdentifier" THEN call[t].ident ELSE info[l].identifier
        new == ComputeAssetInfo(id, ComputeFilePath(id))
    IN
    /\ pc[t] = "updating"
    /\ info' = [info EXCEPT ![l] = new]
    /\ registry' = IF new = info[l] THEN registry
                   ELSE Update(registry, l, info[l], new)
    /\ Release(t)
    /\ Finish(t)
    /\ UNCHANGED <<alive, init, refVars, findVars, resolverVars>>

-----------------------------------------------------------------------------
(* ~SdfLayer                                                               *)

AcquireErase(t) ==
    /\ pc[t] = "wantErase"
    /\ AcquireWrite(t)
    /\ Goto(t, "erasing")
    /\ UNCHANGED <<registry, layerVars, refVars, call, findVars, resolverVars>>

\* The object is gone when the destructor returns.  The call that dropped the
\* last reference goes on if it was not over.
Destroy(t) ==
    LET l == dying[t] IN
    /\ pc[t] = "erasing"
    /\ registry' = Erase(registry, l, info[l])
    /\ alive' = alive \ {l}
    /\ info' = [info EXCEPT ![l] = NoAssetInfo]
    /\ init' = [init EXCEPT ![l] = "none"]
    /\ dying' = [dying EXCEPT ![t] = NoLayer]
    /\ Release(t)
    /\ Goto(t, IF call[t].op = "SetIdentifier" THEN "updating" ELSE "idle")
    /\ UNCHANGED <<held, cur, call, findVars, resolverVars>>

-----------------------------------------------------------------------------
Init ==
    /\ registry = EmptyRegistry
    /\ writer = NoThread
    /\ readers = {}
    /\ alive = {}
    /\ info = [l \in Layer |-> NoAssetInfo]
    /\ init = [l \in Layer |-> "none"]
    /\ held = [t \in Thread |-> {}]
    /\ cur = [t \in Thread |-> NoLayer]
    /\ dying = [t \in Thread |-> NoLayer]
    /\ pc = [t \in Thread |-> "idle"]
    /\ call = [t \in Thread |-> NoCall]
    /\ candidate = [t \in Thread |-> NoLayer]
    /\ hasWriteLock = [t \in Thread |-> FALSE]
    /\ location = InitialLocation
    /\ assets = InitialAssets
    /\ resolverChanges = 0

\* Thread t makes a call.
Request(t) ==
    \/ \E id \in Identifier \cup Layer : BeginFindOrOpen(t, id) \/ BeginFind(t, id)
    \/ \E id \in Identifier, name \in {"CreateNew", "New"} : BeginCreateNew(t, name, id)
    \/ BeginCreateAnonymous(t)
    \/ \E id \in Identifier : BeginOpenAsAnonymous(t, id)
    \/ \E l \in Layer, id \in Identifier : BeginSetIdentifier(t, l, id)
    \/ \E l \in Layer : BeginUpdateAssetInfo(t, l) \/ Drop(t, l)

\* Thread t takes the registry mutex.
Acquire(t) ==
    \/ AcquireRead(t) \/ UpgradeAtomic(t) \/ UpgradeByRelease(t) \/ Reacquire(t)
    \/ AcquireCreate(t) \/ AcquireUpdate(t) \/ AcquireErase(t)

\* Thread t goes on with its call, the mutex being no obstacle.
Proceed(t) ==
    \/ LookupHit(t) \/ LookupMiss(t)
    \/ OpenNothing(t) \/ OpenLayer(t)
    \/ ReadSucceeds(t) \/ ReadFails(t) \/ ReadThrows(t)
    \/ WaitFindOrOpen(t) \/ WaitFind(t) \/ WaitSetIdentifier(t)
    \/ CreateAnonymous(t) \/ OpenAnonymous(t)
    \/ CreateRefused(t) \/ CreateNew(t)
    \/ CreateFails(t) \/ DropFailed(t)
    \/ UpdateRegistry(t) \/ Destroy(t)

Next ==
    \/ \E t \in Thread : Request(t) \/ Acquire(t) \/ Proceed(t)
    \/ \E id \in Identifier, p \in Path : Relocate(id, p)
    \/ \E p \in Path : ToggleAsset(p)

Spec == Init /\ [][Next]_vars

\* Every thread is scheduled, and the queuing mutex serves the threads that
\* wait for it in their order of arrival, so each of them gets it.
Fairness ==
    \A t \in Thread : WF_vars(Proceed(t)) /\ SF_vars(Acquire(t))

FairSpec == Spec /\ Fairness

-----------------------------------------------------------------------------
(* Properties                                                              *)

\* Every variable has its type.
TypeOK ==
    /\ registry \in Registry
    /\ writer \in Thread \cup {NoThread}
    /\ readers \subseteq Thread
    /\ alive \subseteq Layer
    /\ info \in [Layer -> AssetInfo]
    /\ init \in [Layer -> {"none", "pending", "ok", "failed"}]
    /\ held \in [Thread -> SUBSET Layer]
    /\ cur \in [Thread -> Layer \cup {NoLayer}]
    /\ dying \in [Thread -> Layer \cup {NoLayer}]
    /\ pc \in [Thread -> ControlPoint]
    /\ call \in [Thread -> Call]
    /\ candidate \in [Thread -> Layer \cup {NoLayer}]
    /\ hasWriteLock \in [Thread -> BOOLEAN]
    /\ location \in [Identifier -> Path]
    /\ assets \subseteq Path
    /\ resolverChanges \in 0..MaxResolverChanges

\* The registry never hands out a name that is not the layer's, nor a layer
\* that was destroyed: whatever interleaving of openings, renames, early
\* evictions and destructors led here, an entry under an alias is of a layer
\* that is alive and whose asset info has that alias now.
RegistryMatchesAssetInfo == Matches(registry, alive, info)

\* A layer a thread has a reference to is not destroyed under it, however the
\* lookup raced with the drop of the last reference; a layer that no thread
\* has a reference to any more is not forgotten but being destroyed; and a
\* destructor runs once, in one thread, on a layer no one can get at.
ReferencesKeepAlive ==
    /\ \A l \in Layer : Referenced(l) => l \in alive
    /\ \A l \in alive : Referenced(l) \/ \E t \in Thread : dying[t] = l
    /\ \A t \in Thread : dying[t] # NoLayer =>
          /\ dying[t] \in alive
          /\ ~Referenced(dying[t])
          /\ \A u \in Thread \ {t} : dying[u] # dying[t]

\* No thread waits for the registry mutex while it holds it (the mutex is
\* not recursive): in particular no call drops what may be the last reference
\* to a layer, and so runs its destructor, before it released the mutex.
NoSelfDeadlock ==
    \A t \in Thread : pc[t] \in Acquiring => t # writer /\ t \notin readers

\* Where a thread is in a call says what it has at hand: the layer being read
\* or waited for, and the layer SetIdentifier and UpdateAssetInfo are made on,
\* which the caller keeps.
ControlOK ==
    \A t \in Thread :
        /\ pc[t] \in {"reading", "waiting", "createFailed"} <=> cur[t] # NoLayer
        /\ call[t].op \in {"SetIdentifier", "UpdateAssetInfo"} => call[t].target \in held[t]
        /\ pc[t] = "wantUpdate" => call[t].op = "UpdateAssetInfo"
        /\ pc[t] = "updating" => call[t].op \in {"SetIdentifier", "UpdateAssetInfo"}
        /\ pc[t] = "idle" => call[t] = NoCall
        /\ call[t].op \in {"CreateNew", "New"} => call[t].ident \in Identifier
        /\ pc[t] \in {"wantErase", "erasing"} => call[t] = NoCall \/ call[t].op = "SetIdentifier"
        /\ pc[t] \in {"wantErase", "erasing"} <=> dying[t] # NoLayer

\* Where a thread is in a call says whether it may hold the mutex, and how.
LockOK ==
    \A t \in Thread :
        /\ t = writer => pc[t] \in {"lookup", "missed", "creating", "updating", "erasing"}
        /\ t \in readers => pc[t] \in {"lookup", "wantUpgrade"}
        /\ pc[t] = "wantRelock" => hasWriteLock[t]
        /\ pc[t] = "lookup" /\ t = writer => hasWriteLock[t]

\* The inductive invariant: what holds of the layers and of the registry
\* depends on what each thread has at hand and on the mutex discipline of
\* every call.
LayerInvariant ==
    /\ TypeOK
    /\ ControlOK
    /\ LockOK
    /\ ReferencesKeepAlive
    /\ RegistryMatchesAssetInfo

\* FindOrOpen returns a layer only when its initialization succeeded, whoever
\* of the threads that found it did the reading.
ReturnsInitialized ==
    [][\A t \in Thread : \A l \in held'[t] \ held[t] : init'[l] = "ok"]_vars

\* An asset is open once: two different layers that threads keep are never
\* of the same resolved path.
OneLayerPerPath ==
    \A t, u \in Thread : \A l \in held[t], m \in held[u] :
        l # m /\ info[l].resolvedPath # NoPath
        => info[l].resolvedPath # info[m].resolvedPath

\* The layer FindOrOpen has just created is the one the registry finds, as
\* TF_VERIFY in _OpenLayerAndUnlockRegistry says.  It does not hold once an
\* identifier resolves elsewhere than before: see the README.
OpenedLayerIsFound ==
    [][\A t \in Thread : pc[t] = "missed" /\ pc'[t] = "reading" =>
          cur'[t] \in Find(registry', info'[cur'[t]].identifier,
                                      info'[cur'[t]].resolvedPath)]_vars

\* "We should have acquired a write lock on the layer registry by this point":
\* the registry is changed under it only.  It does not hold: see the README.
UpdatesUnderWriteLock == \A t \in Thread : pc[t] = "updating" => writer = t

\* Every call returns.
CallsReturn == \A t \in Thread : pc[t] # "idle" ~> pc[t] = "idle"

=============================================================================
