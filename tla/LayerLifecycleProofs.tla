------------------------ MODULE LayerLifecycleProofs ------------------------
(***************************************************************************)
(* The safety of the life of layers, for any number of threads, layers,    *)
(* identifiers and paths and any sequence of calls and failures:           *)
(* LayerInvariant is inductive.  Each of its conjuncts has a lemma that    *)
(* says that every action preserves it.  From it, and from what is added   *)
(* where the names are settled, an asset is open once.                     *)
(***************************************************************************)
EXTENDS LayerLifecycle, TLAPS

-----------------------------------------------------------------------------
(* What the operations of the registry preserve: its type, and that each    *)
(* entry is of a live layer under an alias it has.                         *)


\* Insert, Update and Erase yield registries.
LEMMA InsertType ==
    ASSUME NEW reg \in Registry, NEW l \in Layer, NEW new \in AssetInfo
    PROVE  Insert(reg, l, new) \in Registry
  BY DEF Insert, Registry, AssetInfo, EmplaceRealPath, Entry

LEMMA UpdateType ==
    ASSUME NEW reg \in Registry, NEW l \in Layer,
           NEW old \in AssetInfo, NEW new \in AssetInfo
    PROVE  Update(reg, l, old, new) \in Registry
  BY DEF Update, Registry, AssetInfo, EmplaceRealPath, RemoveRealPath, MoveEntry, Entry

LEMMA EraseType ==
    ASSUME NEW reg \in Registry, NEW l, NEW old
    PROVE  Erase(reg, l, old) \in Registry
  BY DEF Erase, Registry, RemoveRealPath

\* The asset info that is computed for an identifier has its type.
LEMMA ComputeAssetInfoType ==
    ASSUME NEW id \in Identifier \cup Layer \cup {NoIdentifier},
           NEW path \in Path \cup {NoPath}
    PROVE  ComputeAssetInfo(id, path) \in AssetInfo
  BY RegistryConstants DEF ComputeAssetInfo, AssetInfo

\* A lookup yields a layer or nothing.
LEMMA FindType ==
    ASSUME NEW reg \in Registry, NEW id, NEW path
    PROVE  Find(reg, id, path) \subseteq Layer \cup {NoLayer}
  BY DEF Find, StoredUnder, FindByRealPath, Registry

\* A layer that the registry finds is alive.
LEMMA FindAlive ==
    ASSUME NEW reg, NEW live, NEW inf, Matches(reg, live, inf), NEW id, NEW path,
           NEW l \in Find(reg, id, path), l # NoLayer
    PROVE  l \in live
  <1>1. \/ l \in StoredUnder(reg.byIdentifier, id)
        \/ l \in StoredUnder(reg.byRepositoryPath, id)
        \/ l \in FindByRealPath(reg, path)
    BY DEF Find
  <1>2. CASE l \in StoredUnder(reg.byIdentifier, id)
    <2>1. <<id, l>> \in reg.byIdentifier
      BY <1>2 DEF StoredUnder
    <2> QED BY <2>1 DEF Matches
  <1>3. CASE l \in StoredUnder(reg.byRepositoryPath, id)
    <2>1. <<id, l>> \in reg.byRepositoryPath
      BY <1>3 DEF StoredUnder
    <2> QED BY <2>1 DEF Matches
  <1>4. CASE l \in FindByRealPath(reg, path)
    <2>1. path \in Path /\ l = reg.byRealPath[path]
      BY <1>4 DEF FindByRealPath
    <2> QED BY <2>1 DEF Matches
  <1> QED BY <1>1, <1>2, <1>3, <1>4

-----------------------------------------------------------------------------
\* A layer that is constructed takes no entry of another one.
LEMMA InsertMatches ==
    ASSUME NEW reg \in Registry, NEW live \in SUBSET Layer,
           NEW inf \in [Layer -> AssetInfo], Matches(reg, live, inf),
           NEW l \in Layer \ live, NEW new \in AssetInfo
    PROVE  Matches(Insert(reg, l, new), live \cup {l}, [inf EXCEPT ![l] = new])
  <1> DEFINE reg2 == Insert(reg, l, new)
             inf2 == [inf EXCEPT ![l] = new]
  <1>1. \A m \in live : inf2[m] = inf[m] /\ m # l
    OBVIOUS
  <1>2. inf2[l] = new
    OBVIOUS
  <1>3. ASSUME NEW p \in Path, reg2.byRealPath[p] # NoLayer
        PROVE  /\ reg2.byRealPath[p] \in live \cup {l}
               /\ inf2[reg2.byRealPath[p]].resolvedPath = p
    BY <1>1, <1>2, <1>3 DEF Matches, Insert, EmplaceRealPath, Registry
  <1>4. ASSUME NEW e \in reg2.byIdentifier
        PROVE  e[2] \in live \cup {l} /\ inf2[e[2]].identifier = e[1]
    BY <1>1, <1>2 DEF Matches, Insert, Entry
  <1>5. ASSUME NEW e \in reg2.byRepositoryPath
        PROVE  e[2] \in live \cup {l} /\ inf2[e[2]].repoPath = e[1]
    BY <1>1, <1>2 DEF Matches, Insert, Entry
  <1> QED
    BY <1>3, <1>4, <1>5 DEF Matches

\* A layer that is renamed or resolved again leaves its old entries, and takes
\* no entry of another one.
LEMMA UpdateMatches ==
    ASSUME NEW reg \in Registry, NEW live \in SUBSET Layer,
           NEW inf \in [Layer -> AssetInfo], Matches(reg, live, inf),
           NEW l \in live, NEW new \in AssetInfo
    PROVE  Matches(Update(reg, l, inf[l], new), live, [inf EXCEPT ![l] = new])
  <1> DEFINE reg2 == Update(reg, l, inf[l], new)
             inf2 == [inf EXCEPT ![l] = new]
  <1>1. \A m \in live \ {l} : inf2[m] = inf[m]
    OBVIOUS
  <1>2. inf2[l] = new /\ l \in Layer /\ inf[l] \in AssetInfo
    OBVIOUS
  <1>3. ASSUME NEW p \in Path, reg2.byRealPath[p] # NoLayer
        PROVE  /\ reg2.byRealPath[p] \in live
               /\ inf2[reg2.byRealPath[p]].resolvedPath = p
    BY <1>1, <1>2, <1>3
       DEF Matches, Update, EmplaceRealPath, RemoveRealPath, Registry
  <1>4. ASSUME NEW e \in reg2.byIdentifier
        PROVE  e[2] \in live /\ inf2[e[2]].identifier = e[1]
    BY <1>1, <1>2, RegistryConstants
       DEF Matches, Update, MoveEntry, Entry, Registry, AssetInfo
  <1>5. ASSUME NEW e \in reg2.byRepositoryPath
        PROVE  e[2] \in live /\ inf2[e[2]].repoPath = e[1]
    BY <1>1, <1>2, RegistryConstants
       DEF Matches, Update, MoveEntry, Entry, Registry, AssetInfo
  <1> QED
    BY <1>3, <1>4, <1>5 DEF Matches

\* The early eviction of an expiring layer only removes entries.
LEMMA EraseMatches ==
    ASSUME NEW reg \in Registry, NEW live, NEW inf, Matches(reg, live, inf),
           NEW l, NEW old
    PROVE  Matches(Erase(reg, l, old), live, inf)
  BY DEF Matches, Erase, RemoveRealPath, Registry

\* A layer that is destroyed leaves no entry, whether it was evicted before or
\* not.
LEMMA DestroyMatches ==
    ASSUME NEW reg \in Registry, NEW live \in SUBSET Layer,
           NEW inf \in [Layer -> AssetInfo], Matches(reg, live, inf),
           NEW l \in Layer
    PROVE  Matches(Erase(reg, l, inf[l]), live \ {l}, [inf EXCEPT ![l] = NoAssetInfo])
  <1> DEFINE reg2 == Erase(reg, l, inf[l])
             inf2 == [inf EXCEPT ![l] = NoAssetInfo]
  <1>1. \A m \in live \ {l} : inf2[m] = inf[m]
    OBVIOUS
  <1>2. ASSUME NEW p \in Path, reg2.byRealPath[p] # NoLayer
        PROVE  /\ reg2.byRealPath[p] \in live \ {l}
               /\ inf2[reg2.byRealPath[p]].resolvedPath = p
    BY <1>1, <1>2 DEF Matches, Erase, RemoveRealPath, Registry
  <1>3. ASSUME NEW e \in reg2.byIdentifier
        PROVE  e[2] \in live \ {l} /\ inf2[e[2]].identifier = e[1]
    BY <1>1, RegistryConstants DEF Matches, Erase, Entry, Registry, AssetInfo
  <1>4. ASSUME NEW e \in reg2.byRepositoryPath
        PROVE  e[2] \in live \ {l} /\ inf2[e[2]].repoPath = e[1]
    BY <1>1, RegistryConstants DEF Matches, Erase, Entry, Registry, AssetInfo
  <1> QED
    BY <1>2, <1>3, <1>4 DEF Matches

-----------------------------------------------------------------------------
USE RegistryConstants, LifecycleConstants

-----------------------------------------------------------------------------
(* The types.                                                              *)

\* Dropping a reference keeps the types of what it assigns.
LEMMA DropReferenceType ==
    ASSUME TypeOK, NEW t \in Thread, NEW l \in Layer \cup {NoLayer},
           NEW newHeld \in [Thread -> SUBSET Layer],
           NEW newCur \in [Thread -> Layer \cup {NoLayer}],
           NEW where \in ControlPoint,
           DropReference(t, l, newHeld, newCur, where)
    PROVE  /\ held' \in [Thread -> SUBSET Layer]
           /\ cur' \in [Thread -> Layer \cup {NoLayer}]
           /\ dying' \in [Thread -> Layer \cup {NoLayer}]
           /\ pc' \in [Thread -> ControlPoint]
  BY DEF TypeOK, DropReference, Goto, ControlPoint

\* A call that begins has the type of a call.
LEMMA BeginType ==
    ASSUME TypeOK, NEW t \in Thread, NEW name \in CallNames,
           NEW id \in Identifier \cup Layer \cup {NoIdentifier},
           NEW l \in Layer \cup {NoLayer}, NEW where \in ControlPoint,
           Begin(t, name, id, l, where)
    PROVE  TypeOK'
  <1>1. Resolve(id) \in Path \cup {NoPath}
    BY DEF TypeOK, Resolve
  <1>2. [op |-> name, ident |-> id, path |-> Resolve(id), target |-> l] \in Call
    BY <1>1 DEF Call
  <1>3. call' \in [Thread -> Call] /\ pc' \in [Thread -> ControlPoint]
    BY <1>2 DEF TypeOK, Begin, Goto
  <1> QED
    BY <1>3 DEF TypeOK, Begin, lockVars, layerVars, refVars, findVars, resolverVars

\* What every call that ends leaves has its type.
LEMMA NoCallType == NoCall \in Call
  BY DEF NoCall, Call

\* A layer that is constructed keeps the types of the registry and the layers.
LEMMA ConstructType ==
    ASSUME TypeOK, NEW t, NEW l \in Layer, NEW new \in AssetInfo,
           Construct(t, l, new)
    PROVE  /\ registry' \in Registry
           /\ alive' \subseteq Layer
           /\ info' \in [Layer -> AssetInfo]
  BY InsertType DEF TypeOK, Construct

\* The paths of the resolver have their types.
LEMMA ComputeFilePathType ==
    ASSUME TypeOK, NEW id
    PROVE  ComputeFilePath(id) \in Path \cup {NoPath}
  BY DEF TypeOK, ComputeFilePath

\* Every step keeps the types.
LEMMA TypeStep ==
    ASSUME TypeOK, ControlOK, [Next]_vars
    PROVE  TypeOK'
  <1>1. ASSUME NEW id \in Identifier, NEW p \in Path, Relocate(id, p)
        PROVE  TypeOK'
    BY <1>1 DEF TypeOK, Relocate, lockVars, layerVars, refVars, findVars, resolverVars
  <1>2. ASSUME NEW p \in Path, ToggleAsset(p)
        PROVE  TypeOK'
    BY <1>2 DEF TypeOK, ToggleAsset, lockVars, layerVars, refVars, findVars,
       resolverVars
  <1>3. ASSUME NEW t \in Thread, NEW id \in Identifier \cup Layer,
               BeginFindOrOpen(t, id) \/ BeginFind(t, id)
        PROVE  TypeOK'
    BY <1>3, BeginType DEF BeginFindOrOpen, BeginFind, CallNames, ControlPoint
  <1>4. ASSUME NEW t \in Thread, NEW id \in Identifier, NEW name \in {"CreateNew",
               "New"},
              BeginCreateNew(t, name, id)
        PROVE  TypeOK'
    BY <1>4, BeginType DEF BeginCreateNew, CallNames, ControlPoint
  <1>5. ASSUME NEW t \in Thread, BeginCreateAnonymous(t)
        PROVE  TypeOK'
    BY <1>5, BeginType DEF BeginCreateAnonymous, CallNames, ControlPoint
  <1>31. ASSUME NEW t \in Thread, NEW id \in Identifier, BeginOpenAsAnonymous(t, id)
        PROVE  TypeOK'
    BY <1>31, BeginType DEF BeginOpenAsAnonymous, CallNames, ControlPoint
  <1>6. ASSUME NEW t \in Thread, NEW l \in Layer, NEW id \in Identifier,
               BeginSetIdentifier(t, l, id)
        PROVE  TypeOK'
    BY <1>6, BeginType DEF BeginSetIdentifier, CallNames, ControlPoint
  <1>7. ASSUME NEW t \in Thread, NEW l \in Layer, BeginUpdateAssetInfo(t, l)
        PROVE  TypeOK'
    BY <1>7, BeginType DEF BeginUpdateAssetInfo, CallNames, ControlPoint, TypeOK,
       AssetInfo
  <1>8. ASSUME NEW t \in Thread, NEW l \in Layer, Drop(t, l)
        PROVE  TypeOK'
    <2>1. [held EXCEPT ![t] = @ \ {l}] \in [Thread -> SUBSET Layer]
      BY DEF TypeOK
    <2>2. /\ held' \in [Thread -> SUBSET Layer]
          /\ cur' \in [Thread -> Layer \cup {NoLayer}]
          /\ dying' \in [Thread -> Layer \cup {NoLayer}]
          /\ pc' \in [Thread -> ControlPoint]
      BY <1>8, <2>1, DropReferenceType DEF Drop, TypeOK, ControlPoint
    <2> QED
      BY <1>8, <2>2 DEF TypeOK, Drop, lockVars, layerVars, refVars, findVars,
         resolverVars
  <1>9. ASSUME NEW t \in Thread, AcquireRead(t)
        PROVE  TypeOK'
    BY <1>9 DEF TypeOK, AcquireRead, Goto, lockVars, layerVars, refVars, findVars,
       resolverVars, ControlPoint
  <1>10. ASSUME NEW t \in Thread, LookupHit(t)
        PROVE  TypeOK'
    <2>1. Found(t) \subseteq Layer \cup {NoLayer}
      BY FindType DEF Found, TypeOK
    <2> QED
      BY <1>10, <2>1 DEF TypeOK, LookupHit, Release, Goto, lockVars, layerVars,
         refVars, findVars, resolverVars, ControlPoint
  <1>11. ASSUME NEW t \in Thread, LookupMiss(t)
        PROVE  TypeOK'
    <2> PICK l \in Found(t) :
          /\ IF ~hasWriteLock[t] /\ (l # NoLayer \/ RetryAsWriter(t))
             THEN /\ candidate' = [candidate EXCEPT ![t] = l]
                  /\ Goto(t, "wantUpgrade")
                  /\ UNCHANGED <<registry, lockVars, call, hasWriteLock>>
             ELSE /\ registry' = IF l = NoLayer THEN registry
                                 ELSE Erase(registry, l, info[l])
                  /\ hasWriteLock' = [hasWriteLock EXCEPT ![t] = FALSE]
                  /\ ReturnNull(t)
                  /\ UNCHANGED candidate
      BY <1>11 DEF LookupMiss
    <2>1. l \in Layer \cup {NoLayer} /\ Erase(registry, l, info[l]) \in Registry
      BY FindType, EraseType DEF Found, TypeOK
    <2>2. registry' \in Registry /\ hasWriteLock' \in [Thread -> BOOLEAN]
      BY <2>1, ZenonT(30) DEF TypeOK
    <2>3. candidate' \in [Thread -> Layer \cup {NoLayer}]
      BY <2>1 DEF TypeOK
    <2>4. writer' \in Thread \cup {NoThread} /\ readers' \subseteq Thread
      BY DEF TypeOK, ReturnNull, lockVars
    <2>5. pc' \in [Thread -> ControlPoint] /\ call' \in [Thread -> Call]
      BY NoCallType DEF TypeOK, ReturnNull, Goto, Finish, ControlPoint
    <2> QED
      BY <1>11, <2>2, <2>3, <2>4, <2>5 DEF TypeOK, LookupMiss, layerVars, refVars,
         resolverVars
  <1>12. ASSUME NEW t \in Thread, UpgradeAtomic(t)
        PROVE  TypeOK'
    <2>1. registry' \in Registry
      BY <1>12, EraseType DEF TypeOK, UpgradeAtomic
    <2>2. /\ writer' \in Thread \cup {NoThread} /\ readers' \subseteq Thread
          /\ pc' \in [Thread -> ControlPoint] /\ call' \in [Thread -> Call]
      BY <1>12, NoCallType DEF TypeOK, UpgradeAtomic, ReturnNull, Goto, Finish,
         ControlPoint
    <2> QED
      BY <1>12, <2>1, <2>2 DEF TypeOK, UpgradeAtomic, layerVars, refVars, resolverVars
  <1>13. ASSUME NEW t \in Thread, UpgradeByRelease(t)
        PROVE  TypeOK'
    BY <1>13 DEF TypeOK, UpgradeByRelease, Goto, lockVars, layerVars, refVars,
       findVars, resolverVars, ControlPoint
  <1>14. ASSUME NEW t \in Thread, Reacquire(t)
        PROVE  TypeOK'
    BY <1>14 DEF TypeOK, Reacquire, AcquireWrite, Goto, lockVars, layerVars,
       refVars, findVars, resolverVars, ControlPoint
  <1>15. ASSUME NEW t \in Thread,
                AcquireCreate(t) \/ AcquireUpdate(t) \/ AcquireErase(t)
        PROVE  TypeOK'
    BY <1>15 DEF TypeOK, AcquireCreate, AcquireUpdate, AcquireErase, AcquireWrite,
       Goto, lockVars, layerVars, refVars, findVars, resolverVars, ControlPoint
  <1>16. ASSUME NEW t \in Thread, OpenNothing(t) \/ CreateRefused(t)
        PROVE  TypeOK'
    BY <1>16, NoCallType DEF TypeOK, OpenNothing, CreateRefused, Release, Finish,
       Goto, lockVars, layerVars, refVars, findVars, resolverVars, ControlPoint
  <1>17. ASSUME NEW t \in Thread, OpenLayer(t)
        PROVE  TypeOK'
    <2> PICK l \in Layer : Construct(t, l, ComputeAssetInfo(call[t].ident,
    call[t].path)) /\ init' = [init EXCEPT ![l] = "pending"] /\ cur' = [cur EXCEPT ![t] = l]
      BY <1>17 DEF OpenLayer
    <2>1. ComputeAssetInfo(call[t].ident, call[t].path) \in AssetInfo
      BY ComputeAssetInfoType, ComputeFilePathType DEF TypeOK, Call
    <2>2. registry' \in Registry /\ alive' \subseteq Layer /\ info' \in [Layer -> AssetInfo]
      BY <2>1, ConstructType
    <2> QED
      BY <1>17, <2>2 DEF TypeOK, OpenLayer, Release, Goto, lockVars, layerVars,
         refVars, findVars, resolverVars, ControlPoint
  <1>18. ASSUME NEW t \in Thread, CreateAnonymous(t)
        PROVE  TypeOK'
    <2> PICK l \in Layer : Construct(t, l, ComputeAssetInfo(l,
    NoPath)) /\ FinishInitialization(l,
    TRUE) /\ held' = [held EXCEPT ![t] = @ \cup {l}]
      BY <1>18 DEF CreateAnonymous
    <2>1. ComputeAssetInfo(l, NoPath) \in AssetInfo
      BY ComputeAssetInfoType, ComputeFilePathType DEF TypeOK, Call
    <2>2. registry' \in Registry /\ alive' \subseteq Layer /\ info' \in [Layer -> AssetInfo]
      BY <2>1, ConstructType
    <2>3. /\ held' \in [Thread -> SUBSET Layer]
          /\ init' \in [Layer -> {"none", "pending", "ok", "failed"}]
      BY DEF TypeOK, FinishInitialization
    <2>4. pc' \in [Thread -> ControlPoint] /\ call' \in [Thread -> Call]
      BY <1>18, NoCallType DEF TypeOK, CreateAnonymous, Finish, Goto, ControlPoint
    <2> QED
      BY <1>18, <2>2, <2>3, <2>4 DEF TypeOK, CreateAnonymous, Release, findVars,
         resolverVars
  <1>19. ASSUME NEW t \in Thread, OpenAnonymous(t)
        PROVE  TypeOK'
    <2> PICK l \in Layer : Construct(t, l, ComputeAssetInfo(l,
    NoPath)) /\ init' = [init EXCEPT ![l] = "pending"] /\ cur' = [cur EXCEPT ![t] = l]
      BY <1>19 DEF OpenAnonymous
    <2>1. ComputeAssetInfo(l, NoPath) \in AssetInfo
      BY ComputeAssetInfoType, ComputeFilePathType DEF TypeOK, Call
    <2>2. registry' \in Registry /\ alive' \subseteq Layer /\ info' \in [Layer -> AssetInfo]
      BY <2>1, ConstructType
    <2> QED
      BY <1>19, <2>2 DEF TypeOK, OpenAnonymous, Release, Goto, lockVars, layerVars,
         refVars, findVars, resolverVars, ControlPoint
  <1>20. ASSUME NEW t \in Thread, CreateNew(t)
        PROVE  TypeOK'
    <2> PICK l \in Layer : Construct(t, l, ComputeAssetInfo(call[t].ident,
    ComputeFilePath(call[t].ident))) /\ FinishInitialization(l,
    TRUE) /\ held' = [held EXCEPT ![t] = @ \cup {l}]
      BY <1>20 DEF CreateNew
    <2>1. ComputeAssetInfo(call[t].ident,
    ComputeFilePath(call[t].ident)) \in AssetInfo
      BY ComputeAssetInfoType, ComputeFilePathType DEF TypeOK, Call
    <2>2. registry' \in Registry /\ alive' \subseteq Layer /\ info' \in [Layer -> AssetInfo]
      BY <2>1, ConstructType
    <2>3. /\ held' \in [Thread -> SUBSET Layer]
          /\ init' \in [Layer -> {"none", "pending", "ok", "failed"}]
      BY DEF TypeOK, FinishInitialization
    <2>4. pc' \in [Thread -> ControlPoint] /\ call' \in [Thread -> Call]
      BY <1>20, NoCallType DEF TypeOK, CreateNew, Finish, Goto, ControlPoint
    <2>5. assets' \subseteq Path
      BY <1>20 DEF TypeOK, ControlOK, CreateNew, ComputeFilePath
    <2> QED
      BY <1>20, <2>2, <2>3, <2>4, <2>5 DEF TypeOK, CreateNew, Release, findVars
  <1>21. ASSUME NEW t \in Thread, CreateFails(t)
        PROVE  TypeOK'
    <2> PICK l \in Layer : Construct(t, l, ComputeAssetInfo(call[t].ident,
    ComputeFilePath(call[t].ident))) /\ init' = [init EXCEPT ![l] = "pending"] /\ cur' = [cur EXCEPT ![t] = l]
      BY <1>21 DEF CreateFails
    <2>1. ComputeAssetInfo(call[t].ident,
    ComputeFilePath(call[t].ident)) \in AssetInfo
      BY ComputeAssetInfoType, ComputeFilePathType DEF TypeOK, Call
    <2>2. registry' \in Registry /\ alive' \subseteq Layer /\ info' \in [Layer -> AssetInfo]
      BY <2>1, ConstructType
    <2> QED
      BY <1>21, <2>2 DEF TypeOK, CreateFails, Release, Goto, lockVars, layerVars,
         refVars, findVars, resolverVars, ControlPoint
  <1>22. ASSUME NEW t \in Thread, ReadSucceeds(t)
        PROVE  TypeOK'
    <2>1. cur[t] \in Layer
      BY <1>22 DEF ReadSucceeds, ControlOK, TypeOK
    <2> QED
      BY <1>22, <2>1, NoCallType
         DEF TypeOK, ReadSucceeds, FinishInitialization, ReturnLayer, Finish, Goto,
             lockVars, layerVars, refVars, findVars, resolverVars, ControlPoint
  <1>23. ASSUME NEW t \in Thread, ReadFails(t) \/ ReadThrows(t)
        PROVE  TypeOK'
    <2>1. [cur EXCEPT ![t] = NoLayer] \in [Thread -> Layer \cup {NoLayer}]
      BY DEF TypeOK
    <2>2. /\ held' \in [Thread -> SUBSET Layer]
          /\ cur' \in [Thread -> Layer \cup {NoLayer}]
          /\ dying' \in [Thread -> Layer \cup {NoLayer}]
          /\ pc' \in [Thread -> ControlPoint]
      BY <1>23, <2>1, DropReferenceType DEF ReadFails, ReadThrows, DropCurrent,
         TypeOK, ControlPoint
    <2> QED
      BY <1>23, <2>2, NoCallType DEF TypeOK, ReadFails, ReadThrows,
         FinishInitialization, lockVars, layerVars, refVars, findVars, resolverVars
  <1>24. ASSUME NEW t \in Thread, WaitFind(t) \/ DropFailed(t)
        PROVE  TypeOK'
    <2>1. [cur EXCEPT ![t] = NoLayer] \in [Thread -> Layer \cup {NoLayer}]
      BY DEF TypeOK
    <2>2. /\ held' \in [Thread -> SUBSET Layer]
          /\ cur' \in [Thread -> Layer \cup {NoLayer}]
          /\ dying' \in [Thread -> Layer \cup {NoLayer}]
          /\ pc' \in [Thread -> ControlPoint]
      BY <1>24, <2>1, DropReferenceType DEF WaitFind, DropFailed, DropCurrent,
         TypeOK, ControlPoint
    <2> QED
      BY <1>24, <2>2, NoCallType DEF TypeOK, WaitFind, DropFailed, lockVars,
         layerVars, refVars, findVars, resolverVars
  <1>25. ASSUME NEW t \in Thread, WaitFindOrOpen(t), ReturnLayer(t)
        PROVE  TypeOK'
    <2>1. cur[t] \in Layer
      BY <1>25 DEF WaitFindOrOpen, Initialized, ControlOK, TypeOK
    <2> QED
      BY <1>25, <2>1, NoCallType DEF TypeOK, WaitFindOrOpen, ReturnLayer, Finish,
         Goto, lockVars, layerVars, refVars, findVars, resolverVars, ControlPoint
  <1>26. ASSUME NEW t \in Thread, WaitFindOrOpen(t), ~ReturnLayer(t)
        PROVE  TypeOK'
    <2>0. DropCurrent(t, "idle") /\ call' = [call EXCEPT ![t] = NoCall]
      BY <1>26 DEF WaitFindOrOpen
    <2>1. [cur EXCEPT ![t] = NoLayer] \in [Thread -> Layer \cup {NoLayer}]
      BY DEF TypeOK
    <2>2. /\ held' \in [Thread -> SUBSET Layer]
          /\ cur' \in [Thread -> Layer \cup {NoLayer}]
          /\ dying' \in [Thread -> Layer \cup {NoLayer}]
          /\ pc' \in [Thread -> ControlPoint]
      BY <2>0, <2>1, DropReferenceType DEF DropCurrent, TypeOK, ControlPoint
    <2> QED
      BY <1>26, <2>0, <2>2, NoCallType DEF TypeOK, WaitFindOrOpen, lockVars,
         layerVars, refVars, findVars, resolverVars
  <1>27. ASSUME NEW t \in Thread, WaitSetIdentifier(t)
        PROVE  TypeOK'
    <2>0. /\ DropCurrent(t, "idle") \/ DropCurrent(t, "updating")
          /\ call' = [call EXCEPT ![t] = NoCall] \/ UNCHANGED call
      BY <1>27 DEF WaitSetIdentifier
    <2>1. [cur EXCEPT ![t] = NoLayer] \in [Thread -> Layer \cup {NoLayer}]
      BY DEF TypeOK
    <2>2. /\ held' \in [Thread -> SUBSET Layer]
          /\ cur' \in [Thread -> Layer \cup {NoLayer}]
          /\ dying' \in [Thread -> Layer \cup {NoLayer}]
          /\ pc' \in [Thread -> ControlPoint]
      BY <2>0, <2>1, DropReferenceType DEF DropCurrent, TypeOK, ControlPoint
    <2> QED
      BY <1>27, <2>0, <2>2, NoCallType DEF TypeOK, WaitSetIdentifier, lockVars,
         layerVars, refVars, findVars, resolverVars
  <1>28. ASSUME NEW t \in Thread, UpdateRegistry(t)
        PROVE  TypeOK'
    <2> DEFINE l   == call[t].target
               id  == IF call[t].op = "SetIdentifier" THEN call[t].ident ELSE info[l].identifier
               new == ComputeAssetInfo(id, ComputeFilePath(id))
    <2>1. l \in Layer
      BY <1>28 DEF UpdateRegistry, ControlOK, TypeOK
    <2>2. id \in Identifier \cup Layer \cup {NoIdentifier}
      BY <2>1 DEF TypeOK, Call, AssetInfo
    <2>3. new \in AssetInfo
      BY <2>2, ComputeAssetInfoType, ComputeFilePathType
    <2>4. Update(registry, l, info[l], new) \in Registry
      BY <2>1, <2>3, UpdateType DEF TypeOK
    <2>5. registry' \in Registry /\ info' \in [Layer -> AssetInfo]
      BY <1>28, <2>1, <2>3, <2>4 DEF UpdateRegistry, TypeOK
    <2> QED
      BY <1>28, <2>5, NoCallType DEF TypeOK, UpdateRegistry, Release, Finish, Goto,
         lockVars, layerVars, refVars, findVars, resolverVars, ControlPoint
  <1>29. ASSUME NEW t \in Thread, Destroy(t)
        PROVE  TypeOK'
    <2>1. registry' \in Registry
      BY <1>29, EraseType DEF TypeOK, Destroy
    <2>2. NoAssetInfo \in AssetInfo
      BY DEF NoAssetInfo, AssetInfo
    <2> QED
      BY <1>29, <2>1, <2>2 DEF TypeOK, Destroy, Release, Goto, lockVars, layerVars,
         refVars, findVars, resolverVars, ControlPoint
  <1>30. CASE UNCHANGED vars
    BY <1>30 DEF TypeOK, vars, lockVars, layerVars, refVars, findVars, resolverVars
  <1> QED
    BY <1>1, <1>2, <1>3, <1>4, <1>5, <1>6, <1>7, <1>8, <1>9, <1>10, <1>11, <1>12,
       <1>13, <1>14, <1>15, <1>16, <1>17, <1>18, <1>19, <1>20, <1>21, <1>22, <1>23,
                     <1>24, <1>25, <1>26, <1>27, <1>28, <1>29, <1>30,
                                   <1>31 DEF Next, Request, Acquire, Proceed

-----------------------------------------------------------------------------
(* Where the threads are, and what they hold.                              *)

\* Every step leaves each thread with what its control point says.
LEMMA ControlStep ==
    ASSUME TypeOK, ControlOK, [Next]_vars
    PROVE  ControlOK'
  <1>1. ASSUME NEW id \in Identifier, NEW p \in Path, Relocate(id, p)
        PROVE  ControlOK'
    BY <1>1
       DEF TypeOK, ControlOK, NoCall, Relocate, refVars
  <1>2. ASSUME NEW p \in Path, ToggleAsset(p)
        PROVE  ControlOK'
    BY <1>2
       DEF TypeOK, ControlOK, NoCall, ToggleAsset, refVars
  <1>3. ASSUME NEW t \in Thread, NEW id \in Identifier \cup Layer,
               BeginFindOrOpen(t, id)
        PROVE  ControlOK'
    BY <1>3
       DEF TypeOK, ControlOK, NoCall, BeginFindOrOpen, Begin, Goto, refVars
  <1>4. ASSUME NEW t \in Thread, NEW id \in Identifier \cup Layer, BeginFind(t, id)
        PROVE  ControlOK'
    BY <1>4
       DEF TypeOK, ControlOK, NoCall, BeginFind, Begin, Goto, refVars
  <1>5. ASSUME NEW t \in Thread, NEW id \in Identifier, NEW name \in {"CreateNew",
               "New"}, BeginCreateNew(t, name, id)
        PROVE  ControlOK'
    BY <1>5
       DEF TypeOK, ControlOK, NoCall, BeginCreateNew, Begin, Goto, refVars
  <1>6. ASSUME NEW t \in Thread, BeginCreateAnonymous(t)
        PROVE  ControlOK'
    BY <1>6
       DEF TypeOK, ControlOK, NoCall, BeginCreateAnonymous, Begin, Goto, refVars
  <1>7. ASSUME NEW t \in Thread, NEW id \in Identifier, BeginOpenAsAnonymous(t, id)
        PROVE  ControlOK'
    BY <1>7
       DEF TypeOK, ControlOK, NoCall, BeginOpenAsAnonymous, Begin, Goto, refVars
  <1>8. ASSUME NEW t \in Thread, NEW l \in Layer, NEW id \in Identifier,
               BeginSetIdentifier(t, l, id)
        PROVE  ControlOK'
    BY <1>8
       DEF TypeOK, ControlOK, NoCall, BeginSetIdentifier, Begin, Goto, refVars
  <1>9. ASSUME NEW t \in Thread, NEW l \in Layer, BeginUpdateAssetInfo(t, l)
        PROVE  ControlOK'
    BY <1>9
       DEF TypeOK, ControlOK, NoCall, BeginUpdateAssetInfo, Begin, Goto, refVars
  <1>10. ASSUME NEW t \in Thread, NEW l \in Layer, Drop(t, l)
        PROVE  ControlOK'
    BY <1>10
       DEF TypeOK, ControlOK, NoCall, Drop, DropReference, Goto, refVars
  <1>11. ASSUME NEW t \in Thread, AcquireRead(t)
        PROVE  ControlOK'
    BY <1>11
       DEF TypeOK, ControlOK, NoCall, AcquireRead, Goto, refVars
  <1>12. ASSUME NEW t \in Thread, LookupHit(t)
        PROVE  ControlOK'
    <2>1. Found(t) \subseteq Layer \cup {NoLayer}
      BY FindType DEF Found, TypeOK
    <2> QED
      BY <1>12, <2>1
         DEF TypeOK, ControlOK, NoCall, LookupHit, Release, Goto, layerVars, refVars
  <1>13. ASSUME NEW t \in Thread, LookupMiss(t)
        PROVE  ControlOK'
    BY <1>13
       DEF TypeOK, ControlOK, NoCall, LookupMiss, ReturnNull, RetryAsWriter, Goto,
           Finish, refVars
  <1>14. ASSUME NEW t \in Thread, UpgradeAtomic(t)
        PROVE  ControlOK'
    BY <1>14
       DEF TypeOK, ControlOK, NoCall, UpgradeAtomic, ReturnNull, RetryAsWriter,
           Goto, Finish, refVars
  <1>15. ASSUME NEW t \in Thread, UpgradeByRelease(t)
        PROVE  ControlOK'
    BY <1>15
       DEF TypeOK, ControlOK, NoCall, UpgradeByRelease, Goto, refVars
  <1>16. ASSUME NEW t \in Thread, Reacquire(t)
        PROVE  ControlOK'
    BY <1>16
       DEF TypeOK, ControlOK, NoCall, Reacquire, AcquireWrite, Goto, refVars
  <1>17. ASSUME NEW t \in Thread, AcquireCreate(t)
        PROVE  ControlOK'
    BY <1>17
       DEF TypeOK, ControlOK, NoCall, AcquireCreate, AcquireWrite, Goto, refVars
  <1>18. ASSUME NEW t \in Thread, AcquireUpdate(t)
        PROVE  ControlOK'
    BY <1>18
       DEF TypeOK, ControlOK, NoCall, AcquireUpdate, AcquireWrite, Goto, refVars
  <1>19. ASSUME NEW t \in Thread, AcquireErase(t)
        PROVE  ControlOK'
    BY <1>19
       DEF TypeOK, ControlOK, NoCall, AcquireErase, AcquireWrite, Goto, refVars
  <1>20. ASSUME NEW t \in Thread, OpenNothing(t)
        PROVE  ControlOK'
    BY <1>20
       DEF TypeOK, ControlOK, NoCall, OpenNothing, Release, Finish, Goto, refVars
  <1>21. ASSUME NEW t \in Thread, OpenLayer(t)
        PROVE  ControlOK'
    BY <1>21
       DEF TypeOK, ControlOK, NoCall, OpenLayer, Construct, Release, Goto, refVars
  <1>22. ASSUME NEW t \in Thread, ReadSucceeds(t)
        PROVE  ControlOK'
    BY <1>22
       DEF TypeOK, ControlOK, NoCall, ReadSucceeds, FinishInitialization,
           ReturnLayer, Finish, Goto, refVars
  <1>23. ASSUME NEW t \in Thread, ReadFails(t)
        PROVE  ControlOK'
    BY <1>23
       DEF TypeOK, ControlOK, NoCall, ReadFails, FinishInitialization, DropCurrent,
           DropReference, Goto, refVars
  <1>24. ASSUME NEW t \in Thread, ReadThrows(t)
        PROVE  ControlOK'
    BY <1>24
       DEF TypeOK, ControlOK, NoCall, ReadThrows, DropCurrent, DropReference, Goto,
           refVars
  <1>25. ASSUME NEW t \in Thread, WaitFindOrOpen(t)
        PROVE  ControlOK'
    BY <1>25
       DEF TypeOK, ControlOK, NoCall, WaitFindOrOpen, Initialized, ReturnLayer,
           Finish, DropCurrent, DropReference, Goto, refVars
  <1>26. ASSUME NEW t \in Thread, WaitFind(t)
        PROVE  ControlOK'
    BY <1>26
       DEF TypeOK, ControlOK, NoCall, WaitFind, Initialized, DropCurrent,
           DropReference, Goto, refVars
  <1>27. ASSUME NEW t \in Thread, WaitSetIdentifier(t)
        PROVE  ControlOK'
    BY <1>27
       DEF TypeOK, ControlOK, NoCall, WaitSetIdentifier, Initialized, DropCurrent,
           DropReference, Goto, refVars
  <1>28. ASSUME NEW t \in Thread, CreateAnonymous(t)
        PROVE  ControlOK'
    BY <1>28
       DEF TypeOK, ControlOK, NoCall, CreateAnonymous, Construct,
           FinishInitialization, Release, Finish, Goto, refVars
  <1>29. ASSUME NEW t \in Thread, OpenAnonymous(t)
        PROVE  ControlOK'
    BY <1>29
       DEF TypeOK, ControlOK, NoCall, OpenAnonymous, Construct, Release, Goto, refVars
  <1>30. ASSUME NEW t \in Thread, CreateRefused(t)
        PROVE  ControlOK'
    BY <1>30
       DEF TypeOK, ControlOK, NoCall, CreateRefused, Release, Finish, Goto, refVars
  <1>31. ASSUME NEW t \in Thread, CreateNew(t)
        PROVE  ControlOK'
    BY <1>31
       DEF TypeOK, ControlOK, NoCall, CreateNew, Construct, FinishInitialization,
           Release, Finish, Goto, refVars
  <1>32. ASSUME NEW t \in Thread, CreateFails(t)
        PROVE  ControlOK'
    BY <1>32
       DEF TypeOK, ControlOK, NoCall, CreateFails, Construct, Release, Goto, refVars
  <1>33. ASSUME NEW t \in Thread, DropFailed(t)
        PROVE  ControlOK'
    BY <1>33
       DEF TypeOK, ControlOK, NoCall, DropFailed, DropCurrent, DropReference, Goto,
           refVars
  <1>34. ASSUME NEW t \in Thread, UpdateRegistry(t)
        PROVE  ControlOK'
    BY <1>34
       DEF TypeOK, ControlOK, NoCall, UpdateRegistry, Release, Finish, Goto, refVars
  <1>35. ASSUME NEW t \in Thread, Destroy(t)
        PROVE  ControlOK'
    BY <1>35
       DEF TypeOK, ControlOK, NoCall, Destroy, Release, Goto, Finish, refVars
  <1>36. CASE UNCHANGED vars
    BY <1>36 DEF TypeOK, ControlOK, NoCall, vars, refVars
  <1> QED
    BY <1>1, <1>2, <1>3, <1>4, <1>5, <1>6, <1>7, <1>8, <1>9, <1>10, <1>11, <1>12,
       <1>13, <1>14, <1>15, <1>16, <1>17, <1>18, <1>19, <1>20, <1>21, <1>22, <1>23,
                     <1>24, <1>25, <1>26, <1>27, <1>28, <1>29, <1>30, <1>31, <1>32,
                                   <1>33, <1>34, <1>35, <1>36
       DEF Next, Request, Acquire, Proceed

\* No step leaves a thread with the mutex where it should not have it.
LEMMA LockStep ==
    ASSUME TypeOK, LockOK, [Next]_vars
    PROVE  LockOK'
  <1>1. ASSUME NEW id \in Identifier, NEW p \in Path, Relocate(id, p)
        PROVE  LockOK'
    BY <1>1
       DEF TypeOK, LockOK, Relocate, lockVars, findVars
  <1>2. ASSUME NEW p \in Path, ToggleAsset(p)
        PROVE  LockOK'
    BY <1>2
       DEF TypeOK, LockOK, ToggleAsset, lockVars, findVars
  <1>3. ASSUME NEW t \in Thread, NEW id \in Identifier \cup Layer,
               BeginFindOrOpen(t, id)
        PROVE  LockOK'
    BY <1>3
       DEF TypeOK, LockOK, BeginFindOrOpen, Begin, Goto, lockVars, findVars
  <1>4. ASSUME NEW t \in Thread, NEW id \in Identifier \cup Layer, BeginFind(t, id)
        PROVE  LockOK'
    BY <1>4
       DEF TypeOK, LockOK, BeginFind, Begin, Goto, lockVars, findVars
  <1>5. ASSUME NEW t \in Thread, NEW id \in Identifier, NEW name \in {"CreateNew",
               "New"}, BeginCreateNew(t, name, id)
        PROVE  LockOK'
    BY <1>5
       DEF TypeOK, LockOK, BeginCreateNew, Begin, Goto, lockVars, findVars
  <1>6. ASSUME NEW t \in Thread, BeginCreateAnonymous(t)
        PROVE  LockOK'
    BY <1>6
       DEF TypeOK, LockOK, BeginCreateAnonymous, Begin, Goto, lockVars, findVars
  <1>7. ASSUME NEW t \in Thread, NEW id \in Identifier, BeginOpenAsAnonymous(t, id)
        PROVE  LockOK'
    BY <1>7
       DEF TypeOK, LockOK, BeginOpenAsAnonymous, Begin, Goto, lockVars, findVars
  <1>8. ASSUME NEW t \in Thread, NEW l \in Layer, NEW id \in Identifier,
               BeginSetIdentifier(t, l, id)
        PROVE  LockOK'
    BY <1>8
       DEF TypeOK, LockOK, BeginSetIdentifier, Begin, Goto, lockVars, findVars
  <1>9. ASSUME NEW t \in Thread, NEW l \in Layer, BeginUpdateAssetInfo(t, l)
        PROVE  LockOK'
    BY <1>9
       DEF TypeOK, LockOK, BeginUpdateAssetInfo, Begin, Goto, lockVars, findVars
  <1>10. ASSUME NEW t \in Thread, NEW l \in Layer, Drop(t, l)
        PROVE  LockOK'
    BY <1>10
       DEF TypeOK, LockOK, Drop, DropReference, Goto, lockVars, findVars
  <1>11. ASSUME NEW t \in Thread, AcquireRead(t)
        PROVE  LockOK'
    BY <1>11
       DEF TypeOK, LockOK, AcquireRead, Goto, lockVars, findVars
  <1>12. ASSUME NEW t \in Thread, LookupHit(t)
        PROVE  LockOK'
    BY <1>12
       DEF TypeOK, LockOK, LookupHit, Release, Goto, lockVars, findVars
  <1>13. ASSUME NEW t \in Thread, LookupMiss(t)
        PROVE  LockOK'
    BY <1>13
       DEF TypeOK, LockOK, LookupMiss, ReturnNull, RetryAsWriter, Goto, Finish,
           lockVars, findVars
  <1>14. ASSUME NEW t \in Thread, UpgradeAtomic(t)
        PROVE  LockOK'
    BY <1>14
       DEF TypeOK, LockOK, UpgradeAtomic, ReturnNull, RetryAsWriter, Goto, Finish,
           lockVars, findVars
  <1>15. ASSUME NEW t \in Thread, UpgradeByRelease(t)
        PROVE  LockOK'
    BY <1>15
       DEF TypeOK, LockOK, UpgradeByRelease, Goto, lockVars, findVars
  <1>16. ASSUME NEW t \in Thread, Reacquire(t)
        PROVE  LockOK'
    BY <1>16
       DEF TypeOK, LockOK, Reacquire, AcquireWrite, Goto, lockVars, findVars
  <1>17. ASSUME NEW t \in Thread, AcquireCreate(t)
        PROVE  LockOK'
    BY <1>17
       DEF TypeOK, LockOK, AcquireCreate, AcquireWrite, Goto, lockVars, findVars
  <1>18. ASSUME NEW t \in Thread, AcquireUpdate(t)
        PROVE  LockOK'
    BY <1>18
       DEF TypeOK, LockOK, AcquireUpdate, AcquireWrite, Goto, lockVars, findVars
  <1>19. ASSUME NEW t \in Thread, AcquireErase(t)
        PROVE  LockOK'
    BY <1>19
       DEF TypeOK, LockOK, AcquireErase, AcquireWrite, Goto, lockVars, findVars
  <1>20. ASSUME NEW t \in Thread, OpenNothing(t)
        PROVE  LockOK'
    BY <1>20
       DEF TypeOK, LockOK, OpenNothing, Release, Finish, Goto, lockVars, findVars
  <1>21. ASSUME NEW t \in Thread, OpenLayer(t)
        PROVE  LockOK'
    BY <1>21
       DEF TypeOK, LockOK, OpenLayer, Construct, Release, Goto, lockVars, findVars
  <1>22. ASSUME NEW t \in Thread, ReadSucceeds(t)
        PROVE  LockOK'
    BY <1>22
       DEF TypeOK, LockOK, ReadSucceeds, FinishInitialization, ReturnLayer, Finish,
           Goto, lockVars, findVars
  <1>23. ASSUME NEW t \in Thread, ReadFails(t)
        PROVE  LockOK'
    BY <1>23
       DEF TypeOK, LockOK, ReadFails, FinishInitialization, DropCurrent,
           DropReference, Goto, lockVars, findVars
  <1>24. ASSUME NEW t \in Thread, ReadThrows(t)
        PROVE  LockOK'
    BY <1>24
       DEF TypeOK, LockOK, ReadThrows, DropCurrent, DropReference, Goto, lockVars,
           findVars
  <1>25. ASSUME NEW t \in Thread, WaitFindOrOpen(t)
        PROVE  LockOK'
    BY <1>25
       DEF TypeOK, LockOK, WaitFindOrOpen, Initialized, ReturnLayer, Finish,
           DropCurrent, DropReference, Goto, lockVars, findVars
  <1>26. ASSUME NEW t \in Thread, WaitFind(t)
        PROVE  LockOK'
    BY <1>26
       DEF TypeOK, LockOK, WaitFind, Initialized, DropCurrent, DropReference, Goto,
           lockVars, findVars
  <1>27. ASSUME NEW t \in Thread, WaitSetIdentifier(t)
        PROVE  LockOK'
    BY <1>27
       DEF TypeOK, LockOK, WaitSetIdentifier, Initialized, DropCurrent,
           DropReference, Goto, lockVars, findVars
  <1>28. ASSUME NEW t \in Thread, CreateAnonymous(t)
        PROVE  LockOK'
    BY <1>28
       DEF TypeOK, LockOK, CreateAnonymous, Construct, FinishInitialization,
           Release, Finish, Goto, lockVars, findVars
  <1>29. ASSUME NEW t \in Thread, OpenAnonymous(t)
        PROVE  LockOK'
    BY <1>29
       DEF TypeOK, LockOK, OpenAnonymous, Construct, Release, Goto, lockVars, findVars
  <1>30. ASSUME NEW t \in Thread, CreateRefused(t)
        PROVE  LockOK'
    BY <1>30
       DEF TypeOK, LockOK, CreateRefused, Release, Finish, Goto, lockVars, findVars
  <1>31. ASSUME NEW t \in Thread, CreateNew(t)
        PROVE  LockOK'
    BY <1>31
       DEF TypeOK, LockOK, CreateNew, Construct, FinishInitialization, Release,
           Finish, Goto, lockVars, findVars
  <1>32. ASSUME NEW t \in Thread, CreateFails(t)
        PROVE  LockOK'
    BY <1>32
       DEF TypeOK, LockOK, CreateFails, Construct, Release, Goto, lockVars, findVars
  <1>33. ASSUME NEW t \in Thread, DropFailed(t)
        PROVE  LockOK'
    BY <1>33
       DEF TypeOK, LockOK, DropFailed, DropCurrent, DropReference, Goto, lockVars,
           findVars
  <1>34. ASSUME NEW t \in Thread, UpdateRegistry(t)
        PROVE  LockOK'
    BY <1>34
       DEF TypeOK, LockOK, UpdateRegistry, Release, Finish, Goto, lockVars, findVars
  <1>35. ASSUME NEW t \in Thread, Destroy(t)
        PROVE  LockOK'
    BY <1>35
       DEF TypeOK, LockOK, Destroy, Release, Goto, Finish, lockVars, findVars
  <1>36. CASE UNCHANGED vars
    BY <1>36 DEF TypeOK, LockOK, vars, lockVars, findVars
  <1> QED
    BY <1>1, <1>2, <1>3, <1>4, <1>5, <1>6, <1>7, <1>8, <1>9, <1>10, <1>11, <1>12,
       <1>13, <1>14, <1>15, <1>16, <1>17, <1>18, <1>19, <1>20, <1>21, <1>22, <1>23,
                     <1>24, <1>25, <1>26, <1>27, <1>28, <1>29, <1>30, <1>31, <1>32,
                                   <1>33, <1>34, <1>35, <1>36
       DEF Next, Request, Acquire, Proceed

\* A call that drops its reference leaves the layer alive, in the hands of
\* another thread or of the destructor.
LEMMA DropCurrentKeepAlive ==
    ASSUME TypeOK, ReferencesKeepAlive, NEW t \in Thread, NEW where,
           cur[t] # NoLayer, dying[t] = NoLayer, DropCurrent(t, where), alive' = alive
    PROVE  ReferencesKeepAlive'
  <1>1. CASE \E u \in Thread : cur[t] \in held[u] \/ (u # t /\ cur[u] = cur[t])
    BY <1>1 DEF TypeOK, ReferencesKeepAlive, Referenced, DropCurrent, DropReference
  <1>2. CASE ~ \E u \in Thread : cur[t] \in held[u] \/ (u # t /\ cur[u] = cur[t])
    BY <1>2 DEF TypeOK, ReferencesKeepAlive, Referenced, DropCurrent, DropReference
  <1> QED
    BY <1>1, <1>2

\* No step destroys a layer under a reference, or forgets one.
LEMMA KeepAliveStep ==
    ASSUME TypeOK, ControlOK, ReferencesKeepAlive, [Next]_vars
    PROVE  ReferencesKeepAlive'
  <1>1. ASSUME NEW id \in Identifier, NEW p \in Path, Relocate(id, p)
        PROVE  ReferencesKeepAlive'
    BY <1>1
       DEF TypeOK, ControlOK, ReferencesKeepAlive, Referenced, Relocate, layerVars,
           refVars
  <1>2. ASSUME NEW p \in Path, ToggleAsset(p)
        PROVE  ReferencesKeepAlive'
    BY <1>2
       DEF TypeOK, ControlOK, ReferencesKeepAlive, Referenced, ToggleAsset,
           layerVars, refVars
  <1>3. ASSUME NEW t \in Thread, NEW id \in Identifier \cup Layer,
               BeginFindOrOpen(t, id)
        PROVE  ReferencesKeepAlive'
    BY <1>3
       DEF TypeOK, ControlOK, ReferencesKeepAlive, Referenced, BeginFindOrOpen,
           Begin, Goto, layerVars, refVars
  <1>4. ASSUME NEW t \in Thread, NEW id \in Identifier \cup Layer, BeginFind(t, id)
        PROVE  ReferencesKeepAlive'
    BY <1>4
       DEF TypeOK, ControlOK, ReferencesKeepAlive, Referenced, BeginFind, Begin,
           Goto, layerVars, refVars
  <1>5. ASSUME NEW t \in Thread, NEW id \in Identifier, NEW name \in {"CreateNew",
               "New"}, BeginCreateNew(t, name, id)
        PROVE  ReferencesKeepAlive'
    BY <1>5
       DEF TypeOK, ControlOK, ReferencesKeepAlive, Referenced, BeginCreateNew,
           Begin, Goto, layerVars, refVars
  <1>6. ASSUME NEW t \in Thread, BeginCreateAnonymous(t)
        PROVE  ReferencesKeepAlive'
    BY <1>6
       DEF TypeOK, ControlOK, ReferencesKeepAlive, Referenced,
           BeginCreateAnonymous, Begin, Goto, layerVars, refVars
  <1>7. ASSUME NEW t \in Thread, NEW id \in Identifier, BeginOpenAsAnonymous(t, id)
        PROVE  ReferencesKeepAlive'
    BY <1>7
       DEF TypeOK, ControlOK, ReferencesKeepAlive, Referenced,
           BeginOpenAsAnonymous, Begin, Goto, layerVars, refVars
  <1>8. ASSUME NEW t \in Thread, NEW l \in Layer, NEW id \in Identifier,
               BeginSetIdentifier(t, l, id)
        PROVE  ReferencesKeepAlive'
    BY <1>8
       DEF TypeOK, ControlOK, ReferencesKeepAlive, Referenced, BeginSetIdentifier,
           Begin, Goto, layerVars, refVars
  <1>9. ASSUME NEW t \in Thread, NEW l \in Layer, BeginUpdateAssetInfo(t, l)
        PROVE  ReferencesKeepAlive'
    BY <1>9
       DEF TypeOK, ControlOK, ReferencesKeepAlive, Referenced,
           BeginUpdateAssetInfo, Begin, Goto, layerVars, refVars
  <1>10. ASSUME NEW t \in Thread, NEW l \in Layer, Drop(t, l)
        PROVE  ReferencesKeepAlive'
    BY <1>10
       DEF TypeOK, ControlOK, ReferencesKeepAlive, Referenced, Drop, DropReference,
           Goto, layerVars, refVars
  <1>11. ASSUME NEW t \in Thread, AcquireRead(t)
        PROVE  ReferencesKeepAlive'
    BY <1>11
       DEF TypeOK, ControlOK, ReferencesKeepAlive, Referenced, AcquireRead, Goto,
           layerVars, refVars
  <1>12. ASSUME NEW t \in Thread, LookupHit(t)
        PROVE  ReferencesKeepAlive'
    <2>1. Found(t) \subseteq Layer \cup {NoLayer}
      BY FindType DEF Found, TypeOK
    <2> QED
      BY <1>12, <2>1
         DEF TypeOK, ControlOK, ReferencesKeepAlive, Referenced, LookupHit,
             Release, Goto, layerVars, refVars
  <1>13. ASSUME NEW t \in Thread, LookupMiss(t)
        PROVE  ReferencesKeepAlive'
    BY <1>13
       DEF TypeOK, ControlOK, ReferencesKeepAlive, Referenced, LookupMiss,
           ReturnNull, RetryAsWriter, Goto, Finish, layerVars, refVars
  <1>14. ASSUME NEW t \in Thread, UpgradeAtomic(t)
        PROVE  ReferencesKeepAlive'
    BY <1>14
       DEF TypeOK, ControlOK, ReferencesKeepAlive, Referenced, UpgradeAtomic,
           ReturnNull, RetryAsWriter, Goto, Finish, layerVars, refVars
  <1>15. ASSUME NEW t \in Thread, UpgradeByRelease(t)
        PROVE  ReferencesKeepAlive'
    BY <1>15
       DEF TypeOK, ControlOK, ReferencesKeepAlive, Referenced, UpgradeByRelease,
           Goto, layerVars, refVars
  <1>16. ASSUME NEW t \in Thread, Reacquire(t)
        PROVE  ReferencesKeepAlive'
    BY <1>16
       DEF TypeOK, ControlOK, ReferencesKeepAlive, Referenced, Reacquire,
           AcquireWrite, Goto, layerVars, refVars
  <1>17. ASSUME NEW t \in Thread, AcquireCreate(t)
        PROVE  ReferencesKeepAlive'
    BY <1>17
       DEF TypeOK, ControlOK, ReferencesKeepAlive, Referenced, AcquireCreate,
           AcquireWrite, Goto, layerVars, refVars
  <1>18. ASSUME NEW t \in Thread, AcquireUpdate(t)
        PROVE  ReferencesKeepAlive'
    BY <1>18
       DEF TypeOK, ControlOK, ReferencesKeepAlive, Referenced, AcquireUpdate,
           AcquireWrite, Goto, layerVars, refVars
  <1>19. ASSUME NEW t \in Thread, AcquireErase(t)
        PROVE  ReferencesKeepAlive'
    BY <1>19
       DEF TypeOK, ControlOK, ReferencesKeepAlive, Referenced, AcquireErase,
           AcquireWrite, Goto, layerVars, refVars
  <1>20. ASSUME NEW t \in Thread, OpenNothing(t)
        PROVE  ReferencesKeepAlive'
    BY <1>20
       DEF TypeOK, ControlOK, ReferencesKeepAlive, Referenced, OpenNothing,
           Release, Finish, Goto, layerVars, refVars
  <1>21. ASSUME NEW t \in Thread, OpenLayer(t)
        PROVE  ReferencesKeepAlive'
    BY <1>21
       DEF TypeOK, ControlOK, ReferencesKeepAlive, Referenced, OpenLayer,
           Construct, Release, Goto, layerVars, refVars
  <1>22. ASSUME NEW t \in Thread, ReadSucceeds(t)
        PROVE  ReferencesKeepAlive'
    BY <1>22
       DEF TypeOK, ControlOK, ReferencesKeepAlive, Referenced, ReadSucceeds,
           FinishInitialization, ReturnLayer, Finish, Goto, layerVars, refVars
  <1>23. ASSUME NEW t \in Thread, ReadFails(t)
        PROVE  ReferencesKeepAlive'
    BY <1>23, DropCurrentKeepAlive DEF TypeOK, ControlOK, ReadFails, layerVars
  <1>24. ASSUME NEW t \in Thread, ReadThrows(t)
        PROVE  ReferencesKeepAlive'
    BY <1>24, DropCurrentKeepAlive DEF TypeOK, ControlOK, ReadThrows, layerVars
  <1>25. ASSUME NEW t \in Thread, WaitFindOrOpen(t)
        PROVE  ReferencesKeepAlive'
    <2>1. cur[t] # NoLayer /\ dying[t] = NoLayer /\ alive' = alive
      BY <1>25 DEF TypeOK, ControlOK, WaitFindOrOpen, Initialized, layerVars
    <2>2. CASE ReturnLayer(t)
      BY <2>1, <2>2 DEF TypeOK, ReferencesKeepAlive, Referenced, ReturnLayer
    <2>3. CASE DropCurrent(t, "idle")
      BY <2>1, <2>3, DropCurrentKeepAlive
    <2> QED
      BY <1>25, <2>2, <2>3 DEF WaitFindOrOpen
  <1>26. ASSUME NEW t \in Thread, WaitFind(t)
        PROVE  ReferencesKeepAlive'
    BY <1>26, DropCurrentKeepAlive DEF TypeOK, ControlOK, WaitFind, Initialized,
       layerVars
  <1>27. ASSUME NEW t \in Thread, WaitSetIdentifier(t)
        PROVE  ReferencesKeepAlive'
    BY <1>27, DropCurrentKeepAlive DEF TypeOK, ControlOK, WaitSetIdentifier,
       Initialized, layerVars
  <1>28. ASSUME NEW t \in Thread, CreateAnonymous(t)
        PROVE  ReferencesKeepAlive'
    BY <1>28
       DEF TypeOK, ControlOK, ReferencesKeepAlive, Referenced, CreateAnonymous,
           Construct, FinishInitialization, Release, Finish, Goto, layerVars, refVars
  <1>29. ASSUME NEW t \in Thread, OpenAnonymous(t)
        PROVE  ReferencesKeepAlive'
    BY <1>29
       DEF TypeOK, ControlOK, ReferencesKeepAlive, Referenced, OpenAnonymous,
           Construct, Release, Goto, layerVars, refVars
  <1>30. ASSUME NEW t \in Thread, CreateRefused(t)
        PROVE  ReferencesKeepAlive'
    BY <1>30
       DEF TypeOK, ControlOK, ReferencesKeepAlive, Referenced, CreateRefused,
           Release, Finish, Goto, layerVars, refVars
  <1>31. ASSUME NEW t \in Thread, CreateNew(t)
        PROVE  ReferencesKeepAlive'
    BY <1>31
       DEF TypeOK, ControlOK, ReferencesKeepAlive, Referenced, CreateNew,
           Construct, FinishInitialization, Release, Finish, Goto, layerVars, refVars
  <1>32. ASSUME NEW t \in Thread, CreateFails(t)
        PROVE  ReferencesKeepAlive'
    BY <1>32
       DEF TypeOK, ControlOK, ReferencesKeepAlive, Referenced, CreateFails,
           Construct, Release, Goto, layerVars, refVars
  <1>33. ASSUME NEW t \in Thread, DropFailed(t)
        PROVE  ReferencesKeepAlive'
    BY <1>33, DropCurrentKeepAlive DEF TypeOK, ControlOK, DropFailed, layerVars
  <1>34. ASSUME NEW t \in Thread, UpdateRegistry(t)
        PROVE  ReferencesKeepAlive'
    BY <1>34
       DEF TypeOK, ControlOK, ReferencesKeepAlive, Referenced, UpdateRegistry,
           Release, Finish, Goto, layerVars, refVars
  <1>35. ASSUME NEW t \in Thread, Destroy(t)
        PROVE  ReferencesKeepAlive'
    BY <1>35
       DEF TypeOK, ControlOK, ReferencesKeepAlive, Referenced, Destroy, Release,
           Goto, Finish, layerVars, refVars
  <1>36. CASE UNCHANGED vars
    BY <1>36 DEF TypeOK, ControlOK, ReferencesKeepAlive, Referenced, vars,
       layerVars, refVars
  <1> QED
    BY <1>1, <1>2, <1>3, <1>4, <1>5, <1>6, <1>7, <1>8, <1>9, <1>10, <1>11, <1>12,
       <1>13, <1>14, <1>15, <1>16, <1>17, <1>18, <1>19, <1>20, <1>21, <1>22, <1>23,
                     <1>24, <1>25, <1>26, <1>27, <1>28, <1>29, <1>30, <1>31, <1>32,
                                   <1>33, <1>34, <1>35, <1>36
       DEF Next, Request, Acquire, Proceed

\* Every step keeps the registry in agreement with the asset infos.
LEMMA RegistryStep ==
    ASSUME TypeOK, ControlOK, ReferencesKeepAlive, RegistryMatchesAssetInfo,
    [Next]_vars
    PROVE  RegistryMatchesAssetInfo'
  <1>1. ASSUME NEW id \in Identifier, NEW p \in Path, Relocate(id, p)
        PROVE  RegistryMatchesAssetInfo'
    BY <1>1 DEF RegistryMatchesAssetInfo, Relocate, Begin, layerVars
  <1>2. ASSUME NEW p \in Path, ToggleAsset(p)
        PROVE  RegistryMatchesAssetInfo'
    BY <1>2 DEF RegistryMatchesAssetInfo, ToggleAsset, Begin, layerVars
  <1>3. ASSUME NEW t \in Thread, NEW id \in Identifier \cup Layer,
                  \/ BeginFindOrOpen(t, id)
                  \/ BeginFind(t, id)
        PROVE  RegistryMatchesAssetInfo'
    BY <1>3 DEF RegistryMatchesAssetInfo, BeginFindOrOpen, BeginFind, Begin, layerVars
  <1>4. ASSUME NEW t \in Thread, NEW id \in Identifier, NEW name \in {"CreateNew",
               "New"}, BeginCreateNew(t, name, id)
        PROVE  RegistryMatchesAssetInfo'
    BY <1>4 DEF RegistryMatchesAssetInfo, BeginCreateNew, Begin, layerVars
  <1>5. ASSUME NEW t \in Thread,
                  \/ BeginCreateAnonymous(t)
                  \/ AcquireRead(t)
                  \/ LookupHit(t)
                  \/ UpgradeByRelease(t)
                  \/ Reacquire(t)
                  \/ AcquireCreate(t)
                  \/ AcquireUpdate(t)
                  \/ AcquireErase(t)
                  \/ OpenNothing(t)
                  \/ ReadSucceeds(t)
                  \/ ReadFails(t)
                  \/ ReadThrows(t)
                  \/ WaitFindOrOpen(t)
                  \/ WaitFind(t)
                  \/ WaitSetIdentifier(t)
                  \/ CreateRefused(t)
                  \/ DropFailed(t)
        PROVE  RegistryMatchesAssetInfo'
    BY <1>5 DEF RegistryMatchesAssetInfo, BeginCreateAnonymous, AcquireRead,
       LookupHit, UpgradeByRelease, Reacquire, AcquireCreate, AcquireUpdate,
       AcquireErase, OpenNothing, ReadSucceeds, ReadFails, ReadThrows,
       WaitFindOrOpen, WaitFind, WaitSetIdentifier, CreateRefused, DropFailed,
       Begin, layerVars
  <1>6. ASSUME NEW t \in Thread, NEW id \in Identifier, BeginOpenAsAnonymous(t, id)
        PROVE  RegistryMatchesAssetInfo'
    BY <1>6 DEF RegistryMatchesAssetInfo, BeginOpenAsAnonymous, Begin, layerVars
  <1>7. ASSUME NEW t \in Thread, NEW l \in Layer, NEW id \in Identifier,
               BeginSetIdentifier(t, l, id)
        PROVE  RegistryMatchesAssetInfo'
    BY <1>7 DEF RegistryMatchesAssetInfo, BeginSetIdentifier, Begin, layerVars
  <1>8. ASSUME NEW t \in Thread, NEW l \in Layer,
                  \/ BeginUpdateAssetInfo(t, l)
                  \/ Drop(t, l)
        PROVE  RegistryMatchesAssetInfo'
    BY <1>8 DEF RegistryMatchesAssetInfo, BeginUpdateAssetInfo, Drop, Begin, layerVars
  <1>9. ASSUME NEW t \in Thread, LookupMiss(t)
        PROVE  RegistryMatchesAssetInfo'
    <2>1. PICK l : registry' = registry \/ registry' = Erase(registry, l, info[l])
      BY <1>9 DEF LookupMiss
    <2> QED
      BY <1>9, <2>1, EraseMatches DEF LookupMiss, layerVars, TypeOK,
         RegistryMatchesAssetInfo
  <1>10. ASSUME NEW t \in Thread, UpgradeAtomic(t)
        PROVE  RegistryMatchesAssetInfo'
    BY <1>10, EraseMatches DEF UpgradeAtomic, layerVars, TypeOK,
       RegistryMatchesAssetInfo
  <1>11. ASSUME NEW t \in Thread, OpenLayer(t)
        PROVE  RegistryMatchesAssetInfo'
    <2> PICK l \in Layer : Construct(t, l, ComputeAssetInfo(call[t].ident,
    call[t].path))
      BY <1>11 DEF OpenLayer
    <2>1. ComputeAssetInfo(call[t].ident, call[t].path) \in AssetInfo
      BY ComputeAssetInfoType, ComputeFilePathType DEF TypeOK, Call
    <2> QED
      BY <2>1, InsertMatches DEF TypeOK, RegistryMatchesAssetInfo, Construct
  <1>12. ASSUME NEW t \in Thread, CreateAnonymous(t)
        PROVE  RegistryMatchesAssetInfo'
    <2> PICK l \in Layer : Construct(t, l, ComputeAssetInfo(l, NoPath))
      BY <1>12 DEF CreateAnonymous
    <2>1. ComputeAssetInfo(l, NoPath) \in AssetInfo
      BY ComputeAssetInfoType, ComputeFilePathType DEF TypeOK, Call
    <2> QED
      BY <2>1, InsertMatches DEF TypeOK, RegistryMatchesAssetInfo, Construct
  <1>13. ASSUME NEW t \in Thread, OpenAnonymous(t)
        PROVE  RegistryMatchesAssetInfo'
    <2> PICK l \in Layer : Construct(t, l, ComputeAssetInfo(l, NoPath))
      BY <1>13 DEF OpenAnonymous
    <2>1. ComputeAssetInfo(l, NoPath) \in AssetInfo
      BY ComputeAssetInfoType, ComputeFilePathType DEF TypeOK, Call
    <2> QED
      BY <2>1, InsertMatches DEF TypeOK, RegistryMatchesAssetInfo, Construct
  <1>14. ASSUME NEW t \in Thread, CreateNew(t)
        PROVE  RegistryMatchesAssetInfo'
    <2> PICK l \in Layer : Construct(t, l, ComputeAssetInfo(call[t].ident,
    ComputeFilePath(call[t].ident)))
      BY <1>14 DEF CreateNew
    <2>1. ComputeAssetInfo(call[t].ident,
    ComputeFilePath(call[t].ident)) \in AssetInfo
      BY ComputeAssetInfoType, ComputeFilePathType DEF TypeOK, Call
    <2> QED
      BY <2>1, InsertMatches DEF TypeOK, RegistryMatchesAssetInfo, Construct
  <1>15. ASSUME NEW t \in Thread, CreateFails(t)
        PROVE  RegistryMatchesAssetInfo'
    <2> PICK l \in Layer : Construct(t, l, ComputeAssetInfo(call[t].ident,
    ComputeFilePath(call[t].ident)))
      BY <1>15 DEF CreateFails
    <2>1. ComputeAssetInfo(call[t].ident,
    ComputeFilePath(call[t].ident)) \in AssetInfo
      BY ComputeAssetInfoType, ComputeFilePathType DEF TypeOK, Call
    <2> QED
      BY <2>1, InsertMatches DEF TypeOK, RegistryMatchesAssetInfo, Construct
  <1>16. ASSUME NEW t \in Thread, UpdateRegistry(t)
        PROVE  RegistryMatchesAssetInfo'
    <2> DEFINE l   == call[t].target
               id  == IF call[t].op = "SetIdentifier" THEN call[t].ident ELSE info[l].identifier
               new == ComputeAssetInfo(id, ComputeFilePath(id))
    <2>1. l \in Layer /\ l \in alive
      BY <1>16 DEF UpdateRegistry, ControlOK, TypeOK, ReferencesKeepAlive, Referenced
    <2>2. id \in Identifier \cup Layer \cup {NoIdentifier}
      BY <2>1 DEF TypeOK, Call, AssetInfo
    <2>3. new \in AssetInfo
      BY <2>2, ComputeAssetInfoType, ComputeFilePathType
    <2>4. CASE new = info[l]
      <3>1. registry' = registry /\ alive' = alive /\ info' = info
        BY <1>16, <2>1, <2>4 DEF UpdateRegistry, TypeOK
      <3> QED
        BY <3>1 DEF RegistryMatchesAssetInfo
    <2>5. CASE new # info[l]
      <3>1. /\ registry' = Update(registry, l, info[l], new)
            /\ alive' = alive
            /\ info' = [info EXCEPT ![l] = new]
        BY <1>16, <2>5 DEF UpdateRegistry
      <3> QED
        BY <2>1, <2>3, <3>1, UpdateMatches DEF RegistryMatchesAssetInfo, TypeOK
    <2> QED
      BY <2>4, <2>5
  <1>17. ASSUME NEW t \in Thread, Destroy(t)
        PROVE  RegistryMatchesAssetInfo'
    <2>1. dying[t] \in Layer
      BY <1>17 DEF Destroy, ControlOK, TypeOK
    <2> QED
      BY <1>17, <2>1, DestroyMatches DEF Destroy, RegistryMatchesAssetInfo, TypeOK
  <1>18. CASE UNCHANGED vars
    BY <1>18 DEF RegistryMatchesAssetInfo, vars, lockVars, layerVars, refVars,
       findVars, resolverVars
  <1> QED
    BY <1>1, <1>2, <1>3, <1>4, <1>5, <1>6, <1>7, <1>8, <1>9, <1>10, <1>11, <1>12,
       <1>13, <1>14, <1>15, <1>16, <1>17, <1>18
       DEF Next, Request, Acquire, Proceed

\* A layer that a step adds to those a thread keeps is initialized.
LEMMA ReturnStep ==
    ASSUME TypeOK, ControlOK, [Next]_vars
    PROVE  \A u \in Thread : \A m \in held'[u] \ held[u] : init'[m] = "ok"
  <1>1. ASSUME NEW id \in Identifier, NEW p \in Path, Relocate(id, p)
        PROVE  \A u \in Thread : \A m \in held'[u] \ held[u] : init'[m] = "ok"
    BY <1>1 DEF Relocate, Begin, refVars
  <1>2. ASSUME NEW p \in Path, ToggleAsset(p)
        PROVE  \A u \in Thread : \A m \in held'[u] \ held[u] : init'[m] = "ok"
    BY <1>2 DEF ToggleAsset, Begin, refVars
  <1>3. ASSUME NEW t \in Thread, NEW id \in Identifier \cup Layer,
                  \/ BeginFindOrOpen(t, id)
                  \/ BeginFind(t, id)
        PROVE  \A u \in Thread : \A m \in held'[u] \ held[u] : init'[m] = "ok"
    BY <1>3 DEF BeginFindOrOpen, BeginFind, Begin, refVars
  <1>4. ASSUME NEW t \in Thread, NEW id \in Identifier, NEW name \in {"CreateNew",
               "New"}, BeginCreateNew(t, name, id)
        PROVE  \A u \in Thread : \A m \in held'[u] \ held[u] : init'[m] = "ok"
    BY <1>4 DEF BeginCreateNew, Begin, refVars
  <1>5. ASSUME NEW t \in Thread,
                  \/ BeginCreateAnonymous(t)
                  \/ AcquireRead(t)
                  \/ LookupHit(t)
                  \/ LookupMiss(t)
                  \/ UpgradeAtomic(t)
                  \/ UpgradeByRelease(t)
                  \/ Reacquire(t)
                  \/ AcquireCreate(t)
                  \/ AcquireUpdate(t)
                  \/ AcquireErase(t)
                  \/ OpenNothing(t)
                  \/ OpenLayer(t)
                  \/ ReadFails(t)
                  \/ ReadThrows(t)
                  \/ WaitFind(t)
                  \/ WaitSetIdentifier(t)
                  \/ OpenAnonymous(t)
                  \/ CreateRefused(t)
                  \/ CreateFails(t)
                  \/ DropFailed(t)
                  \/ UpdateRegistry(t)
                  \/ Destroy(t)
        PROVE  \A u \in Thread : \A m \in held'[u] \ held[u] : init'[m] = "ok"
    BY <1>5 DEF BeginCreateAnonymous, AcquireRead, LookupHit, LookupMiss,
       UpgradeAtomic, UpgradeByRelease, Reacquire, AcquireCreate, AcquireUpdate,
       AcquireErase, OpenNothing, OpenLayer, ReadFails, ReadThrows, WaitFind,
       WaitSetIdentifier, OpenAnonymous, CreateRefused, CreateFails, DropFailed,
       UpdateRegistry, Destroy, Begin, DropCurrent, DropReference, refVars
  <1>6. ASSUME NEW t \in Thread, NEW id \in Identifier, BeginOpenAsAnonymous(t, id)
        PROVE  \A u \in Thread : \A m \in held'[u] \ held[u] : init'[m] = "ok"
    BY <1>6 DEF BeginOpenAsAnonymous, Begin, refVars
  <1>7. ASSUME NEW t \in Thread, NEW l \in Layer, NEW id \in Identifier,
               BeginSetIdentifier(t, l, id)
        PROVE  \A u \in Thread : \A m \in held'[u] \ held[u] : init'[m] = "ok"
    BY <1>7 DEF BeginSetIdentifier, Begin, refVars
  <1>8. ASSUME NEW t \in Thread, NEW l \in Layer, BeginUpdateAssetInfo(t, l)
        PROVE  \A u \in Thread : \A m \in held'[u] \ held[u] : init'[m] = "ok"
    BY <1>8 DEF BeginUpdateAssetInfo, Begin, refVars
  <1>9. ASSUME NEW t \in Thread, NEW l \in Layer, Drop(t, l)
        PROVE  \A u \in Thread : \A m \in held'[u] \ held[u] : init'[m] = "ok"
    BY <1>9 DEF TypeOK, ControlOK, Drop, DropReference, layerVars
  <1>10. ASSUME NEW t \in Thread, ReadSucceeds(t)
        PROVE  \A u \in Thread : \A m \in held'[u] \ held[u] : init'[m] = "ok"
    BY <1>10 DEF TypeOK, ControlOK, ReadSucceeds, FinishInitialization,
       ReturnLayer, layerVars
  <1>11. ASSUME NEW t \in Thread, WaitFindOrOpen(t)
        PROVE  \A u \in Thread : \A m \in held'[u] \ held[u] : init'[m] = "ok"
    BY <1>11 DEF TypeOK, ControlOK, WaitFindOrOpen, Initialized, ReturnLayer,
       DropCurrent, DropReference, layerVars
  <1>12. ASSUME NEW t \in Thread, CreateAnonymous(t)
        PROVE  \A u \in Thread : \A m \in held'[u] \ held[u] : init'[m] = "ok"
    BY <1>12 DEF TypeOK, ControlOK, CreateAnonymous, Construct,
       FinishInitialization, layerVars
  <1>13. ASSUME NEW t \in Thread, CreateNew(t)
        PROVE  \A u \in Thread : \A m \in held'[u] \ held[u] : init'[m] = "ok"
    BY <1>13 DEF TypeOK, ControlOK, CreateNew, Construct, FinishInitialization,
       layerVars
  <1>14. CASE UNCHANGED vars
    BY <1>14 DEF TypeOK, vars, lockVars, layerVars, refVars, findVars, resolverVars
  <1> QED
    BY <1>1, <1>2, <1>3, <1>4, <1>5, <1>6, <1>7, <1>8, <1>9, <1>10, <1>11, <1>12,
       <1>13, <1>14
       DEF Next, Request, Acquire, Proceed

-----------------------------------------------------------------------------
(* The theorems.                                                           *)

\* The invariant holds when the process starts.
LEMMA InitInvariant == Init => LayerInvariant
  <1> SUFFICES ASSUME Init PROVE LayerInvariant
    OBVIOUS
  <1>1. TypeOK
    BY NoCallType DEF Init, TypeOK, Registry, EmptyRegistry, AssetInfo,
       NoAssetInfo, ControlPoint
  <1>2. ControlOK /\ LockOK
    BY DEF Init, ControlOK, LockOK, NoCall
  <1>3. ReferencesKeepAlive
    BY DEF Init, ReferencesKeepAlive, Referenced
  <1>4. RegistryMatchesAssetInfo
    BY DEF Init, RegistryMatchesAssetInfo, Matches, EmptyRegistry
  <1> QED
    BY <1>1, <1>2, <1>3, <1>4 DEF LayerInvariant

\* The inductive invariant holds in every reachable state: the layers, the
\* registry and the mutex are as they should be whatever the threads do and
\* whatever fails.
THEOREM LayerSafety == Spec => []LayerInvariant
  <1>1. LayerInvariant /\ [Next]_vars => LayerInvariant'
    BY TypeStep, ControlStep, LockStep, KeepAliveStep, RegistryStep DEF LayerInvariant
  <1> QED
    BY InitInvariant, <1>1, PTL DEF Spec

\* Every variable has its type.
THEOREM TypeCorrect == Spec => []TypeOK
  BY LayerSafety, PTL DEF LayerInvariant

\* No layer is destroyed under a reference, none is forgotten, and each is
\* destroyed once.
THEOREM KeepAlive == Spec => []ReferencesKeepAlive
  BY LayerSafety, PTL DEF LayerInvariant

\* The registry finds a layer only under the aliases it has, and no layer that
\* was destroyed.
THEOREM RegistryCorrect == Spec => []RegistryMatchesAssetInfo
  BY LayerSafety, PTL DEF LayerInvariant

\* No call waits for the mutex that its own thread holds.
THEOREM SelfDeadlockFree == Spec => []NoSelfDeadlock
  <1>1. LayerInvariant => NoSelfDeadlock
    BY DEF LayerInvariant, LockOK, NoSelfDeadlock, Acquiring
  <1> QED
    BY LayerSafety, <1>1, PTL

\* FindOrOpen and its like return no layer that was not initialized.
THEOREM ReturnsCorrect == Spec => ReturnsInitialized
  <1>1. LayerInvariant /\ [Next]_vars =>
            [\A t \in Thread : \A l \in held'[t] \ held[t] : init'[l] = "ok"]_vars
    BY ReturnStep DEF LayerInvariant
  <1> QED
    BY LayerSafety, <1>1, PTL DEF Spec, ReturnsInitialized

-----------------------------------------------------------------------------
(* One layer per path.  Where the names are settled, the registry has every *)
(* layer that is referenced, and what a thread looked up under the mutex is *)
(* still so when it acts on it.                                             *)

\* What an identifier resolves to does not change, neither by the resolver nor
\* by SetIdentifier, and a repository path, which the registry takes for an
\* identifier, resolves to the asset it is the repository path of.  Without
\* this an asset can be open twice: see the README.
SettledNames ==
    /\ "SetIdentifier" \notin Calls
    /\ MaxResolverChanges = 0
    /\ \A p \in Path : RepoPath[p] # NoIdentifier => InitialLocation[RepoPath[p]] = p

\* What a call resolved its identifier to is where that still is.
CallsInv ==
    \A t \in Thread :
        /\ call[t].op # "SetIdentifier"
        /\ call[t].path # NoPath =>
              call[t].ident \in Identifier /\ call[t].path = location[call[t].ident]

ResolverInv == location = InitialLocation /\ resolverChanges = 0

\* The mutex excludes, and a thread has it wherever it relies on the registry.
MutexInv ==
    /\ writer # NoThread => readers = {}
    /\ \A t \in Thread :
        /\ pc[t] \in {"missed", "creating", "updating", "erasing"} => writer = t
        /\ pc[t] = "lookup" => IF hasWriteLock[t] THEN writer = t ELSE t \in readers
        /\ pc[t] = "wantUpgrade" => t \in readers
        /\ hasWriteLock[t] => pc[t] \in {"wantRelock", "lookup"}

\* A layer knows where its identifier resolves to.
InfoInv ==
    \A l \in alive :
        /\ info[l].identifier \in Identifier \cup Layer
        /\ info[l] = ComputeAssetInfo(info[l].identifier, ComputeFilePath(info[l].identifier))

\* A layer that has an entry under a name has the one under its path too.
WholeInv ==
    \A e \in (registry.byIdentifier \cup registry.byRepositoryPath) :
        info[e[2]].resolvedPath # NoPath =>
            registry.byRealPath[info[e[2]].resolvedPath] = e[2]

\* No layer that a thread has a reference to is missing from the registry.
CompleteInv ==
    \A l \in Layer :
        Referenced(l) /\ info[l].resolvedPath # NoPath =>
            registry.byRealPath[info[l].resolvedPath] = l

\* What was looked up is still so: the path of a thread that found nothing is
\* free, and the candidate of one that waits to upgrade is found and expiring.
MissInv ==
    \A t \in Thread :
        /\ pc[t] = "missed" /\ call[t].path # NoPath =>
              registry.byRealPath[call[t].path] = NoLayer
        /\ pc[t] = "wantUpgrade" =>
              /\ candidate[t] \in Found(t)
              /\ candidate[t] = NoLayer \/ ~Referenced(candidate[t])

\* The inductive invariant: that no path is open twice depends on the registry
\* being complete, on the lookups being current, and on the mutex.
UniqueInvariant ==
    /\ CallsInv
    /\ ResolverInv
    /\ MutexInv
    /\ InfoInv
    /\ WholeInv
    /\ CompleteInv
    /\ MissInv

-----------------------------------------------------------------------------
\* Where the identifier of a layer resolves to is its path.
LEMMA InfoFields ==
    ASSUME UniqueInvariant, NEW l \in alive
    PROVE  /\ info[l].identifier \in Identifier =>
                info[l].resolvedPath = location[info[l].identifier]
           /\ info[l].repoPath # NoIdentifier =>
                 /\ info[l].resolvedPath # NoPath
                 /\ info[l].repoPath = RepoPath[info[l].resolvedPath]
  <1> DEFINE id == info[l].identifier
  <1>1. info[l] = ComputeAssetInfo(id, ComputeFilePath(id))
    BY DEF UniqueInvariant, InfoInv
  <1>2. ComputeAssetInfo(id, ComputeFilePath(id)).resolvedPath =
            (IF id \in Layer THEN NoPath ELSE ComputeFilePath(id))
    BY DEF ComputeAssetInfo, IsAnonymous
  <1>3. ComputeAssetInfo(id, ComputeFilePath(id)).repoPath =
            (IF id \in Layer \/ ComputeFilePath(id) = NoPath
             THEN NoIdentifier ELSE RepoPath[ComputeFilePath(id)])
    BY DEF ComputeAssetInfo, IsAnonymous
  <1>4. info[l].resolvedPath = (IF id \in Layer THEN NoPath ELSE ComputeFilePath(id))
    BY <1>1, <1>2
  <1>5. info[l].repoPath = (IF id \in Layer \/ ComputeFilePath(id) = NoPath
                            THEN NoIdentifier ELSE RepoPath[ComputeFilePath(id)])
    BY <1>1, <1>3
  <1> QED
    BY <1>4, <1>5 DEF ComputeFilePath

\* A layer found by a call whose identifier resolves has that path, and the
\* entry under it.
LEMMA FoundAtPath ==
    ASSUME SettledNames, LayerInvariant, UniqueInvariant, NEW t \in Thread,
           call[t].path # NoPath, NEW l \in Found(t), l # NoLayer
    PROVE  /\ l \in alive
           /\ info[l].resolvedPath = call[t].path
           /\ registry.byRealPath[call[t].path] = l
  <1> DEFINE id   == call[t].ident
             path == call[t].path
  <1>1. id \in Identifier /\ path \in Path /\ path = location[id] /\ path = InitialLocation[id]
    BY DEF UniqueInvariant, CallsInv, ResolverInv, LayerInvariant, TypeOK, Call
  <1>2. l \in Find(registry, id, path)
    BY <1>1 DEF Found
  <1>3. registry \in Registry /\ Matches(registry, alive, info) /\ alive \subseteq Layer
        /\ info \in [Layer -> AssetInfo]
    BY DEF LayerInvariant, TypeOK, RegistryMatchesAssetInfo
  <1>4. CASE <<id, l>> \in registry.byIdentifier
    <2>1. l \in alive /\ info[l].identifier = id
      BY <1>3, <1>4 DEF Matches
    <2>2. info[l].resolvedPath = path
      BY <1>1, <2>1, InfoFields
    <2> QED
      BY <1>1, <1>4, <2>1, <2>2 DEF UniqueInvariant, WholeInv
  <1>5. CASE <<id, l>> \in registry.byRepositoryPath
    <2>1. l \in alive /\ info[l].repoPath = id
      BY <1>3, <1>5 DEF Matches
    <2>2. /\ info[l].resolvedPath \in Path
          /\ RepoPath[info[l].resolvedPath] = id
      BY <1>1, <1>3, <2>1, InfoFields DEF AssetInfo
    <2>3. info[l].resolvedPath = path
      BY <1>1, <2>2 DEF SettledNames
    <2> QED
      BY <1>1, <1>5, <2>1, <2>3 DEF UniqueInvariant, WholeInv
  <1>6. CASE l \in FindByRealPath(registry, path)
    BY <1>1, <1>3, <1>6 DEF FindByRealPath, Matches
  <1> QED
    BY <1>2, <1>4, <1>5, <1>6 DEF Find, StoredUnder

\* Where a lookup finds nothing there is no layer at the path.
LEMMA NothingAtPath ==
    ASSUME NEW reg \in Registry, NEW id, NEW path \in Path,
           NoLayer \in Find(reg, id, path)
    PROVE  reg.byRealPath[path] = NoLayer
  BY DEF Find, StoredUnder, FindByRealPath

-----------------------------------------------------------------------------
\* A layer that is constructed where there is none has all its entries.
LEMMA ConstructUnique ==
    ASSUME LayerInvariant, UniqueInvariant, NEW t \in Thread, NEW l \in Layer,
           NEW id \in Identifier \cup Layer,
           Construct(t, l, ComputeAssetInfo(id, ComputeFilePath(id))),
           id \in Identifier => registry.byRealPath[location[id]] = NoLayer,
           \A m \in Layer \ {l} : Referenced(m)' => Referenced(m),
           UNCHANGED location
    PROVE  InfoInv' /\ WholeInv' /\ CompleteInv'
  <1> DEFINE new == ComputeAssetInfo(id, ComputeFilePath(id))
  <1>1. registry \in Registry /\ Matches(registry, alive, info) /\ alive \subseteq Layer
        /\ info \in [Layer -> AssetInfo] /\ location \in [Identifier -> Path]
    BY DEF LayerInvariant, TypeOK, RegistryMatchesAssetInfo
  <1>2. /\ new.identifier = id
        /\ id \in Layer => new.resolvedPath = NoPath
        /\ id \in Identifier => new.resolvedPath = location[id]
    BY DEF ComputeAssetInfo, ComputeFilePath, IsAnonymous
  <1>3. ~RealPathTaken(registry.byRealPath, new.resolvedPath)
    BY <1>2 DEF RealPathTaken
  <1>4. /\ l \notin alive
        /\ alive' = alive \cup {l}
        /\ info'[l] = new
        /\ \A m \in Layer \ {l} : info'[m] = info[m]
    BY <1>1 DEF Construct
  <1>5. /\ registry'.byRealPath =
              EmplaceRealPath(registry.byRealPath, new.resolvedPath, l)
        /\ registry'.byIdentifier = registry.byIdentifier \cup Entry(new.identifier, l)
        /\ registry'.byRepositoryPath = registry.byRepositoryPath \cup Entry(new.repoPath, l)
    BY <1>3 DEF Construct, Insert
  <1>6. /\ \A p \in Path : registry.byRealPath[p] # NoLayer =>
              registry'.byRealPath[p] = registry.byRealPath[p]
        /\ new.resolvedPath # NoPath => registry'.byRealPath[new.resolvedPath] = l
    BY <1>1, <1>2, <1>5 DEF EmplaceRealPath, Registry
  <1>7. InfoInv'
    BY <1>1, <1>2, <1>4 DEF UniqueInvariant, InfoInv, ComputeFilePath
  <1>8. WholeInv'
    <2> SUFFICES ASSUME NEW e \in (registry'.byIdentifier \cup registry'.byRepositoryPath),
                        info'[e[2]].resolvedPath # NoPath
                 PROVE  registry'.byRealPath[info'[e[2]].resolvedPath] = e[2]
      BY DEF WholeInv
    <2>1. CASE e \in (registry.byIdentifier \cup registry.byRepositoryPath)
      <3>1. e[2] \in alive /\ e[2] \in Layer /\ e[2] # l /\ info'[e[2]] = info[e[2]]
        BY <1>1, <1>4, <2>1 DEF Matches
      <3>2. registry.byRealPath[info[e[2]].resolvedPath] = e[2]
        BY <2>1, <3>1 DEF UniqueInvariant, WholeInv
      <3>3. info[e[2]].resolvedPath \in Path /\ e[2] # NoLayer
        BY <1>1, <3>1 DEF AssetInfo
      <3> QED
        BY <1>6, <3>1, <3>2, <3>3
    <2>2. CASE e \in Entry(new.identifier, l) \/ e \in Entry(new.repoPath, l)
      BY <1>4, <1>6, <2>2 DEF Entry
    <2> QED
      BY <1>5, <2>1, <2>2
  <1>9. CompleteInv'
    <2> SUFFICES ASSUME NEW m \in Layer, Referenced(m)', info'[m].resolvedPath # NoPath
                 PROVE  registry'.byRealPath[info'[m].resolvedPath] = m
      BY DEF CompleteInv
    <2>1. CASE m = l
      BY <1>4, <1>6, <2>1
    <2>2. CASE m # l
      <3>1. Referenced(m) /\ info'[m] = info[m]
        BY <1>4, <2>2
      <3>2. registry.byRealPath[info[m].resolvedPath] = m
        BY <3>1 DEF UniqueInvariant, CompleteInv
      <3> QED
        BY <1>1, <1>6, <3>1, <3>2 DEF AssetInfo
    <2> QED
      BY <2>1, <2>2
  <1> QED
    BY <1>7, <1>8, <1>9

\* An expiring layer leaves no entry behind when it is evicted or destroyed.
LEMMA EraseUnique ==
    ASSUME LayerInvariant, UniqueInvariant, NEW l \in alive, ~Referenced(l),
           registry' = Erase(registry, l, info[l]),
           alive' \subseteq alive,
           \A m \in alive' : info'[m] = info[m],
           \A m \in Layer \ {l} : info'[m] = info[m],
           \A m \in Layer : Referenced(m)' => Referenced(m),
           UNCHANGED location
    PROVE  InfoInv' /\ WholeInv' /\ CompleteInv'
  <1>1. registry \in Registry /\ Matches(registry, alive, info) /\ alive \subseteq Layer
        /\ info \in [Layer -> AssetInfo]
    BY DEF LayerInvariant, TypeOK, RegistryMatchesAssetInfo
  <1>2. \A p \in Path : registry.byRealPath[p] # l =>
            registry'.byRealPath[p] = registry.byRealPath[p]
    BY DEF Erase, RemoveRealPath
  <1>3. InfoInv'
    BY DEF UniqueInvariant, InfoInv, ComputeFilePath
  <1>4. WholeInv'
    <2> SUFFICES ASSUME NEW e \in (registry'.byIdentifier \cup registry'.byRepositoryPath),
                        info'[e[2]].resolvedPath # NoPath
                 PROVE  registry'.byRealPath[info'[e[2]].resolvedPath] = e[2]
      BY DEF WholeInv
    <2>1. e \in (registry.byIdentifier \cup registry.byRepositoryPath)
      BY DEF Erase
    <2>2. e[2] \in alive /\ e[2] \in Layer
      BY <1>1, <2>1 DEF Matches
    <2>3. e[2] # l
      <3>1. CASE e \in registry'.byIdentifier
        <4>1. e \in registry.byIdentifier /\ e \notin Entry(info[l].identifier, l)
          BY <3>1 DEF Erase
        <4> QED
          BY <1>1, <4>1 DEF Matches, Entry, Registry
      <3>2. CASE e \in registry'.byRepositoryPath
        <4>1. e \in registry.byRepositoryPath /\ e \notin Entry(info[l].repoPath, l)
          BY <3>2 DEF Erase
        <4> QED
          BY <1>1, <4>1 DEF Matches, Entry, Registry
      <3> QED
        BY <3>1, <3>2
    <2>4. info'[e[2]] = info[e[2]]
      BY <2>2, <2>3
    <2>5. registry.byRealPath[info[e[2]].resolvedPath] = e[2]
      BY <2>1, <2>4 DEF UniqueInvariant, WholeInv
    <2> QED
      BY <1>1, <1>2, <2>2, <2>3, <2>4, <2>5 DEF AssetInfo
  <1>5. CompleteInv'
    <2> SUFFICES ASSUME NEW m \in Layer, Referenced(m)', info'[m].resolvedPath # NoPath
                 PROVE  registry'.byRealPath[info'[m].resolvedPath] = m
      BY DEF CompleteInv
    <2>1. Referenced(m) /\ m # l /\ info'[m] = info[m]
      OBVIOUS
    <2>2. registry.byRealPath[info[m].resolvedPath] = m
      BY <2>1 DEF UniqueInvariant, CompleteInv
    <2> QED
      BY <1>1, <1>2, <2>1, <2>2 DEF AssetInfo
  <1> QED
    BY <1>3, <1>4, <1>5

\* The other threads stay where they are.
OthersStay(t) ==
    \A u \in Thread \ {t} :
        pc'[u] = pc[u] /\ call'[u] = call[u] /\ candidate'[u] = candidate[u]

\* No lookup of another thread depends on the registry.
NoOtherLookup(t) == \A u \in Thread \ {t} : pc[u] \notin {"missed", "wantUpgrade"}

\* The thread that has the mutex to itself may change the registry.
LEMMA AloneUnderMutex ==
    ASSUME LayerInvariant, UniqueInvariant, NEW t \in Thread,
           writer = t \/ readers = {t}
    PROVE  NoOtherLookup(t)
  BY DEF UniqueInvariant, MutexInv, NoOtherLookup, LayerInvariant, TypeOK

LEMMA AloneMiss ==
    ASSUME NEW t \in Thread, NoOtherLookup(t), OthersStay(t),
           pc'[t] \notin {"missed", "wantUpgrade"}
    PROVE  MissInv'
  BY DEF NoOtherLookup, OthersStay, MissInv

\* A step of t that leaves the registry and the layers as they are, makes no
\* reference to an expiring layer and ends no lookup.
Calm(t) ==
    /\ UNCHANGED <<registry, info, alive, location>>
    /\ \A l \in Layer : Referenced(l)' => Referenced(l)
    /\ OthersStay(t)
    /\ pc'[t] \notin {"missed", "wantUpgrade"}

LEMMA CalmStep ==
    ASSUME LayerInvariant, UniqueInvariant, NEW t \in Thread, Calm(t)
    PROVE  InfoInv' /\ WholeInv' /\ CompleteInv' /\ MissInv'
  <1>1. InfoInv' /\ WholeInv'
    BY DEF Calm, UniqueInvariant, InfoInv, WholeInv, ComputeFilePath
  <1>2. CompleteInv'
    BY DEF Calm, UniqueInvariant, CompleteInv
  <1>3. MissInv'
    <2> SUFFICES ASSUME NEW u \in Thread
                 PROVE  /\ pc'[u] = "missed" /\ call'[u].path # NoPath =>
                              registry'.byRealPath[call'[u].path] = NoLayer
                        /\ pc'[u] = "wantUpgrade" =>
                              /\ (candidate[u] \in Found(u))'
                              /\ (candidate[u] = NoLayer \/ ~Referenced(candidate[u]))'
      BY DEF MissInv
    <2>1. CASE u = t
      BY <2>1 DEF Calm
    <2>2. CASE u # t
      <3>1. pc'[u] = pc[u] /\ call'[u] = call[u] /\ candidate'[u] = candidate[u]
        BY <2>2 DEF Calm, OthersStay
      <3>2. Found(u)' = Found(u)
        BY <3>1 DEF Calm, Found, ComputeFilePath
      <3>3. candidate[u] \in Layer \cup {NoLayer}
        BY DEF LayerInvariant, TypeOK
      <3>4. candidate[u] \in Layer /\ ~Referenced(candidate[u]) =>
                (~Referenced(candidate[u]))'
        BY <3>1 DEF Calm, Referenced
      <3>5. pc[u] = "missed" /\ call[u].path # NoPath =>
                registry.byRealPath[call[u].path] = NoLayer
        BY DEF UniqueInvariant, MissInv
      <3>6. pc[u] = "wantUpgrade" =>
                /\ candidate[u] \in Found(u)
                /\ candidate[u] = NoLayer \/ ~Referenced(candidate[u])
        BY DEF UniqueInvariant, MissInv
      <3>7. registry' = registry
        BY DEF Calm
      <3> QED
        BY <3>1, <3>2, <3>3, <3>4, <3>5, <3>6, <3>7
    <2> QED
      BY <2>1, <2>2
  <1> QED
    BY <1>1, <1>2, <1>3

-----------------------------------------------------------------------------
\* No step renames a layer or moves an asset, and what a call resolved stays
\* where it is.
LEMMA CallsStep ==
    ASSUME SettledNames, LayerInvariant, UniqueInvariant, [Next]_vars
    PROVE  CallsInv' /\ ResolverInv'
  <1> USE DEF LayerInvariant, TypeOK, UniqueInvariant, CallsInv, ResolverInv
  <1>1. ASSUME NEW id \in Identifier, NEW p \in Path, Relocate(id, p)
        PROVE  FALSE
    BY <1>1 DEF SettledNames, Relocate
  <1>2. ASSUME NEW p \in Path, ToggleAsset(p)
        PROVE  FALSE
    BY <1>2 DEF SettledNames, ToggleAsset
  <1>3. ASSUME NEW t \in Thread, NEW name, NEW id, NEW l, NEW where,
               Begin(t, name, id, l, where), name # "SetIdentifier"
        PROVE  CallsInv' /\ ResolverInv'
    BY <1>3 DEF Begin, Resolve, resolverVars
  <1>4. ASSUME NEW t \in Thread, Request(t)
        PROVE  CallsInv' /\ ResolverInv'
    <2>1. ASSUME NEW id, BeginFindOrOpen(t, id) \/ BeginFind(t, id)
          PROVE  CallsInv' /\ ResolverInv'
      BY <1>3, <2>1 DEF BeginFindOrOpen, BeginFind
    <2>2. ASSUME NEW id, NEW name, BeginCreateNew(t, name, id)
          PROVE  CallsInv' /\ ResolverInv'
      BY <1>3, <2>2 DEF BeginCreateNew
    <2>3. CASE BeginCreateAnonymous(t)
      BY <1>3, <2>3 DEF BeginCreateAnonymous
    <2>4. ASSUME NEW id, BeginOpenAsAnonymous(t, id)
          PROVE  CallsInv' /\ ResolverInv'
      BY <1>3, <2>4 DEF BeginOpenAsAnonymous
    <2>5. ASSUME NEW l, NEW id, BeginSetIdentifier(t, l, id)
          PROVE  FALSE
      BY <2>5 DEF SettledNames, BeginSetIdentifier, Begin
    <2>6. ASSUME NEW l, BeginUpdateAssetInfo(t, l)
          PROVE  CallsInv' /\ ResolverInv'
      BY <1>3, <2>6 DEF BeginUpdateAssetInfo
    <2>7. ASSUME NEW l, Drop(t, l)
          PROVE  CallsInv' /\ ResolverInv'
      BY <2>7 DEF Drop, resolverVars
    <2> QED
      BY <1>4, <2>1, <2>2, <2>3, <2>4, <2>5, <2>6, <2>7 DEF Request
  <1>5. ASSUME NEW t \in Thread, Acquire(t) \/ Proceed(t)
        PROVE  CallsInv' /\ ResolverInv'
    <2>1. UNCHANGED <<location, resolverChanges>>
      BY <1>5 DEF Acquire, Proceed, AcquireRead, UpgradeAtomic, UpgradeByRelease,
         Reacquire, AcquireCreate, AcquireUpdate, AcquireErase, LookupHit, LookupMiss,
         OpenNothing, OpenLayer, ReadSucceeds, ReadFails, ReadThrows, WaitFindOrOpen,
         WaitFind, WaitSetIdentifier, CreateAnonymous, OpenAnonymous, CreateRefused,
         CreateNew, CreateFails, DropFailed, UpdateRegistry, Destroy, resolverVars
    <2>2. call' = call \/ call' = [call EXCEPT ![t] = NoCall]
      BY <1>5 DEF Acquire, Proceed, AcquireRead, UpgradeAtomic, UpgradeByRelease,
         Reacquire, AcquireCreate, AcquireUpdate, AcquireErase, LookupHit, LookupMiss,
         OpenNothing, OpenLayer, ReadSucceeds, ReadFails, ReadThrows, WaitFindOrOpen,
         WaitFind, WaitSetIdentifier, CreateAnonymous, OpenAnonymous, CreateRefused,
         CreateNew, CreateFails, DropFailed, UpdateRegistry, Destroy, ReturnNull,
         ReturnLayer, Finish
    <2> QED
      BY <2>1, <2>2 DEF NoCall
  <1>6. CASE UNCHANGED vars
    BY <1>6 DEF vars, resolverVars
  <1> QED
    BY <1>1, <1>2, <1>4, <1>5, <1>6 DEF Next

\* No step lets a second thread in, and every thread that goes on with the
\* registry has the mutex.
LEMMA MutexStep ==
    ASSUME LayerInvariant, UniqueInvariant, [Next]_vars
    PROVE  MutexInv'
  <1>0. TypeOK /\ ControlOK /\ LockOK /\ MutexInv /\ CallsInv
    BY DEF LayerInvariant, UniqueInvariant
  <1>1. ASSUME NEW id \in Identifier, NEW p \in Path, Relocate(id, p)
        PROVE  MutexInv'
    BY <1>0, <1>1
       DEF TypeOK, LockOK, MutexInv, Relocate, lockVars, findVars
  <1>2. ASSUME NEW p \in Path, ToggleAsset(p)
        PROVE  MutexInv'
    BY <1>0, <1>2
       DEF TypeOK, LockOK, MutexInv, ToggleAsset, lockVars, findVars
  <1>3. ASSUME NEW t \in Thread, NEW id \in Identifier \cup Layer,
               BeginFindOrOpen(t, id)
        PROVE  MutexInv'
    BY <1>0, <1>3
       DEF TypeOK, LockOK, MutexInv, BeginFindOrOpen, Begin, Goto, lockVars, findVars
  <1>4. ASSUME NEW t \in Thread, NEW id \in Identifier \cup Layer, BeginFind(t, id)
        PROVE  MutexInv'
    BY <1>0, <1>4
       DEF TypeOK, LockOK, MutexInv, BeginFind, Begin, Goto, lockVars, findVars
  <1>5. ASSUME NEW t \in Thread, NEW id \in Identifier, NEW name \in {"CreateNew",
               "New"}, BeginCreateNew(t, name, id)
        PROVE  MutexInv'
    BY <1>0, <1>5
       DEF TypeOK, LockOK, MutexInv, BeginCreateNew, Begin, Goto, lockVars, findVars
  <1>6. ASSUME NEW t \in Thread, BeginCreateAnonymous(t)
        PROVE  MutexInv'
    BY <1>0, <1>6
       DEF TypeOK, LockOK, MutexInv, BeginCreateAnonymous, Begin, Goto, lockVars, findVars
  <1>7. ASSUME NEW t \in Thread, NEW id \in Identifier, BeginOpenAsAnonymous(t, id)
        PROVE  MutexInv'
    BY <1>0, <1>7
       DEF TypeOK, LockOK, MutexInv, BeginOpenAsAnonymous, Begin, Goto, lockVars, findVars
  <1>8. ASSUME NEW t \in Thread, NEW l \in Layer, NEW id \in Identifier,
               BeginSetIdentifier(t, l, id)
        PROVE  MutexInv'
    BY <1>0, <1>8
       DEF TypeOK, LockOK, MutexInv, BeginSetIdentifier, Begin, Goto, lockVars, findVars
  <1>9. ASSUME NEW t \in Thread, NEW l \in Layer, BeginUpdateAssetInfo(t, l)
        PROVE  MutexInv'
    BY <1>0, <1>9
       DEF TypeOK, LockOK, MutexInv, BeginUpdateAssetInfo, Begin, Goto, lockVars, findVars
  <1>10. ASSUME NEW t \in Thread, NEW l \in Layer, Drop(t, l)
        PROVE  MutexInv'
    BY <1>0, <1>10
       DEF TypeOK, LockOK, MutexInv, Drop, DropReference, Goto, lockVars, findVars
  <1>11. ASSUME NEW t \in Thread, AcquireRead(t)
        PROVE  MutexInv'
    BY <1>0, <1>11
       DEF TypeOK, LockOK, MutexInv, AcquireRead, Goto, lockVars, findVars
  <1>12. ASSUME NEW t \in Thread, LookupHit(t)
        PROVE  MutexInv'
    BY <1>0, <1>12
       DEF TypeOK, LockOK, MutexInv, LookupHit, Release, Goto, lockVars, findVars
  <1>13. ASSUME NEW t \in Thread, LookupMiss(t)
        PROVE  MutexInv'
    BY <1>0, <1>13
       DEF TypeOK, LockOK, MutexInv, LookupMiss, ReturnNull, RetryAsWriter, Goto, Finish,
           lockVars, findVars
  <1>14. ASSUME NEW t \in Thread, UpgradeAtomic(t)
        PROVE  MutexInv'
    BY <1>0, <1>14
       DEF TypeOK, LockOK, MutexInv, UpgradeAtomic, ReturnNull, RetryAsWriter, Goto, Finish,
           lockVars, findVars
  <1>15. ASSUME NEW t \in Thread, UpgradeByRelease(t)
        PROVE  MutexInv'
    BY <1>0, <1>15
       DEF TypeOK, LockOK, MutexInv, UpgradeByRelease, Goto, lockVars, findVars
  <1>16. ASSUME NEW t \in Thread, Reacquire(t)
        PROVE  MutexInv'
    BY <1>0, <1>16
       DEF TypeOK, LockOK, MutexInv, Reacquire, AcquireWrite, Goto, lockVars, findVars
  <1>17. ASSUME NEW t \in Thread, AcquireCreate(t)
        PROVE  MutexInv'
    BY <1>0, <1>17
       DEF TypeOK, LockOK, MutexInv, AcquireCreate, AcquireWrite, Goto, lockVars, findVars
  <1>18. ASSUME NEW t \in Thread, AcquireUpdate(t)
        PROVE  MutexInv'
    BY <1>0, <1>18
       DEF TypeOK, LockOK, MutexInv, AcquireUpdate, AcquireWrite, Goto, lockVars, findVars
  <1>19. ASSUME NEW t \in Thread, AcquireErase(t)
        PROVE  MutexInv'
    BY <1>0, <1>19
       DEF TypeOK, LockOK, MutexInv, AcquireErase, AcquireWrite, Goto, lockVars, findVars
  <1>20. ASSUME NEW t \in Thread, OpenNothing(t)
        PROVE  MutexInv'
    BY <1>0, <1>20
       DEF TypeOK, LockOK, MutexInv, OpenNothing, Release, Finish, Goto, lockVars, findVars
  <1>21. ASSUME NEW t \in Thread, OpenLayer(t)
        PROVE  MutexInv'
    BY <1>0, <1>21
       DEF TypeOK, LockOK, MutexInv, OpenLayer, Construct, Release, Goto, lockVars, findVars
  <1>22. ASSUME NEW t \in Thread, ReadSucceeds(t)
        PROVE  MutexInv'
    BY <1>0, <1>22
       DEF TypeOK, LockOK, MutexInv, ReadSucceeds, FinishInitialization, ReturnLayer, Finish,
           Goto, lockVars, findVars
  <1>23. ASSUME NEW t \in Thread, ReadFails(t)
        PROVE  MutexInv'
    BY <1>0, <1>23
       DEF TypeOK, LockOK, MutexInv, ReadFails, FinishInitialization, DropCurrent,
           DropReference, Goto, lockVars, findVars
  <1>24. ASSUME NEW t \in Thread, ReadThrows(t)
        PROVE  MutexInv'
    BY <1>0, <1>24
       DEF TypeOK, LockOK, MutexInv, ReadThrows, DropCurrent, DropReference, Goto, lockVars,
           findVars
  <1>25. ASSUME NEW t \in Thread, WaitFindOrOpen(t)
        PROVE  MutexInv'
    BY <1>0, <1>25
       DEF TypeOK, LockOK, MutexInv, WaitFindOrOpen, Initialized, ReturnLayer, Finish,
           DropCurrent, DropReference, Goto, lockVars, findVars
  <1>26. ASSUME NEW t \in Thread, WaitFind(t)
        PROVE  MutexInv'
    BY <1>0, <1>26
       DEF TypeOK, LockOK, MutexInv, WaitFind, Initialized, DropCurrent, DropReference, Goto,
           lockVars, findVars
  <1>27. ASSUME NEW t \in Thread, WaitSetIdentifier(t)
        PROVE  MutexInv'
    BY <1>0, <1>27
       DEF TypeOK, LockOK, MutexInv, CallsInv, ControlOK,
           WaitSetIdentifier, Initialized, DropCurrent,
           DropReference, Goto, lockVars, findVars
  <1>28. ASSUME NEW t \in Thread, CreateAnonymous(t)
        PROVE  MutexInv'
    BY <1>0, <1>28
       DEF TypeOK, LockOK, MutexInv, CreateAnonymous, Construct, FinishInitialization,
           Release, Finish, Goto, lockVars, findVars
  <1>29. ASSUME NEW t \in Thread, OpenAnonymous(t)
        PROVE  MutexInv'
    BY <1>0, <1>29
       DEF TypeOK, LockOK, MutexInv, OpenAnonymous, Construct, Release, Goto,
           lockVars, findVars
  <1>30. ASSUME NEW t \in Thread, CreateRefused(t)
        PROVE  MutexInv'
    BY <1>0, <1>30
       DEF TypeOK, LockOK, MutexInv, CreateRefused, Release, Finish, Goto, lockVars, findVars
  <1>31. ASSUME NEW t \in Thread, CreateNew(t)
        PROVE  MutexInv'
    BY <1>0, <1>31
       DEF TypeOK, LockOK, MutexInv, CreateNew, Construct, FinishInitialization, Release,
           Finish, Goto, lockVars, findVars
  <1>32. ASSUME NEW t \in Thread, CreateFails(t)
        PROVE  MutexInv'
    BY <1>0, <1>32
       DEF TypeOK, LockOK, MutexInv, CreateFails, Construct, Release, Goto, lockVars, findVars
  <1>33. ASSUME NEW t \in Thread, DropFailed(t)
        PROVE  MutexInv'
    BY <1>0, <1>33
       DEF TypeOK, LockOK, MutexInv, DropFailed, DropCurrent, DropReference, Goto, lockVars,
           findVars
  <1>34. ASSUME NEW t \in Thread, UpdateRegistry(t)
        PROVE  MutexInv'
    BY <1>0, <1>34
       DEF TypeOK, LockOK, MutexInv, CallsInv, ControlOK,
           UpdateRegistry, Release, Finish, Goto, lockVars, findVars
  <1>35. ASSUME NEW t \in Thread, Destroy(t)
        PROVE  MutexInv'
    BY <1>0, <1>35
       DEF TypeOK, LockOK, MutexInv, CallsInv, ControlOK,
           Destroy, Release, Goto, Finish, lockVars, findVars
  <1>36. CASE UNCHANGED vars
    BY <1>0, <1>36 DEF TypeOK, LockOK, MutexInv, vars, lockVars, findVars
  <1> QED
    BY <1>1, <1>2, <1>3, <1>4, <1>5, <1>6, <1>7, <1>8, <1>9, <1>10, <1>11, <1>12,
       <1>13, <1>14, <1>15, <1>16, <1>17, <1>18, <1>19, <1>20, <1>21, <1>22, <1>23,
                     <1>24, <1>25, <1>26, <1>27, <1>28, <1>29, <1>30, <1>31, <1>32,
                                   <1>33, <1>34, <1>35, <1>36
       DEF Next, Request, Acquire, Proceed

\* A call that begins or a reference that is dropped is calm.
LEMMA CalmRequest ==
    ASSUME LayerInvariant, UniqueInvariant, NEW t \in Thread, Request(t)
    PROVE  Calm(t)
  <1>0. TypeOK
    BY DEF LayerInvariant
  <1>1. ASSUME NEW name, NEW id, NEW l,
               NEW where \in {"wantRead", "wantCreate", "wantUpdate"},
               Begin(t, name, id, l, where)
        PROVE  Calm(t)
    BY <1>0, <1>1 DEF Calm, OthersStay, TypeOK, Begin, Goto, Referenced, layerVars, refVars,
       findVars, resolverVars
  <1>2. ASSUME NEW l, Drop(t, l)
        PROVE  Calm(t)
    BY <1>0, <1>2 DEF Calm, OthersStay, TypeOK, Drop, DropReference, Goto, Referenced,
       layerVars, findVars, resolverVars
  <1> QED
    BY <1>1, <1>2 DEF Request, BeginFindOrOpen, BeginFind, BeginCreateNew,
       BeginCreateAnonymous, BeginOpenAsAnonymous, BeginSetIdentifier,
       BeginUpdateAssetInfo

\* Taking the mutex is calm, other than to evict.
LEMMA CalmAcquire ==
    ASSUME LayerInvariant, UniqueInvariant, NEW t \in Thread,
           Acquire(t), ~UpgradeAtomic(t)
    PROVE  Calm(t)
  <1>0. TypeOK
    BY DEF LayerInvariant
  <1>1. CASE AcquireRead(t) \/ Reacquire(t) \/ UpgradeByRelease(t)
    BY <1>0, <1>1 DEF Calm, OthersStay, TypeOK, AcquireRead, Reacquire, UpgradeByRelease,
       Goto, Referenced, layerVars, refVars, findVars, resolverVars
  <1>2. CASE AcquireCreate(t) \/ AcquireUpdate(t) \/ AcquireErase(t)
    BY <1>0, <1>2 DEF Calm, OthersStay, TypeOK, AcquireCreate, AcquireUpdate, AcquireErase,
       Goto, Referenced, layerVars, refVars, findVars, resolverVars
  <1> QED
    BY <1>1, <1>2 DEF Acquire

\* Giving up the reference of a call makes no new one.
LEMMA CalmDrop ==
    ASSUME TypeOK, NEW t \in Thread,
           NEW where \in {"idle", "updating"}, DropCurrent(t, where),
           UNCHANGED <<registry, info, alive, location, candidate>>,
           call' = call \/ call' = [call EXCEPT ![t] = NoCall]
    PROVE  Calm(t)
  BY DEF Calm, OthersStay, TypeOK, DropCurrent, DropReference, Goto, Referenced

\* What a call does with the layer it found or read is calm.
LEMMA CalmProceed ==
    ASSUME LayerInvariant, UniqueInvariant, NEW t \in Thread,
           \/ LookupHit(t) \/ OpenNothing(t) \/ CreateRefused(t)
           \/ ReadSucceeds(t) \/ ReadFails(t) \/ ReadThrows(t)
           \/ WaitFindOrOpen(t) \/ WaitFind(t) \/ WaitSetIdentifier(t)
           \/ DropFailed(t)
    PROVE  Calm(t)
  <1>0. TypeOK
    BY DEF LayerInvariant
  <1>1. CASE LookupHit(t)
    BY <1>0, <1>1 DEF Calm, OthersStay, TypeOK, LookupHit, Goto, Referenced, layerVars,
       resolverVars
  <1>2. CASE OpenNothing(t) \/ CreateRefused(t)
    BY <1>0, <1>2 DEF Calm, OthersStay, TypeOK, OpenNothing, CreateRefused, Finish, Goto,
       Referenced, layerVars, refVars, findVars, resolverVars
  <1>3. ASSUME ReturnLayer(t),
               UNCHANGED <<registry, info, alive, location, candidate>>
        PROVE  Calm(t)
    BY <1>0, <1>3 DEF Calm, OthersStay, TypeOK, ReturnLayer, Finish, Goto, Referenced
  <1>4. CASE ReadSucceeds(t)
    BY <1>3, <1>4 DEF ReadSucceeds, findVars, resolverVars
  <1>5. CASE ReadFails(t) \/ ReadThrows(t) \/ WaitFind(t) \/ DropFailed(t)
    BY <1>0, <1>5, CalmDrop DEF ReadFails, ReadThrows, WaitFind, DropFailed, layerVars,
       findVars, resolverVars
  <1>6. CASE WaitFindOrOpen(t) \/ WaitSetIdentifier(t)
    BY <1>0, <1>3, <1>6, CalmDrop DEF WaitFindOrOpen, WaitSetIdentifier, layerVars,
       findVars, resolverVars
  <1> QED
    BY <1>1, <1>2, <1>4, <1>5, <1>6

\* Where the names are settled UpdateAssetInfo finds nothing to change.
LEMMA CalmUpdate ==
    ASSUME LayerInvariant, UniqueInvariant, NEW t \in Thread, UpdateRegistry(t)
    PROVE  Calm(t)
  <1> DEFINE l == call[t].target
  <1>1. l \in alive
    BY DEF LayerInvariant, ControlOK, ReferencesKeepAlive, Referenced, UpdateRegistry, TypeOK
  <1>2. call[t].op # "SetIdentifier"
    BY DEF UniqueInvariant, CallsInv
  <1>3. ComputeAssetInfo(info[l].identifier, ComputeFilePath(info[l].identifier)) = info[l]
    BY <1>1 DEF UniqueInvariant, InfoInv
  <1>4. registry' = registry /\ info' = info
    BY <1>1, <1>2, <1>3 DEF UpdateRegistry, LayerInvariant, TypeOK
  <1> QED
    BY <1>4 DEF UpdateRegistry, Calm, OthersStay, LayerInvariant, TypeOK, Finish, Goto,
       Referenced, refVars, findVars, resolverVars

-----------------------------------------------------------------------------
\* A lookup that found nothing, or an expiring layer, leaves what it found: a
\* writer evicts it, and then nothing is at the path; a reader goes to upgrade.
LEMMA LookupUnique ==
    ASSUME SettledNames, LayerInvariant, UniqueInvariant, NEW t \in Thread,
           LookupMiss(t) \/ UpgradeAtomic(t)
    PROVE  InfoInv' /\ WholeInv' /\ CompleteInv' /\ MissInv'
  <1>0. TypeOK
    BY DEF LayerInvariant
  <1>1. UNCHANGED <<alive, info, held, cur, location>>
    BY DEF LookupMiss, UpgradeAtomic, layerVars, refVars, resolverVars
  <1>2. \A l \in Layer : Referenced(l)' => Referenced(l)
    BY <1>1 DEF Referenced
  <1>3. ASSUME NEW l \in Found(t), l = NoLayer \/ ~Referenced(l),
               registry' = (IF l = NoLayer THEN registry ELSE Erase(registry, l, info[l])),
               ReturnNull(t),
               candidate' = candidate \/ candidate' = [candidate EXCEPT ![t] = NoLayer],
               l # NoLayer \/ RetryAsWriter(t) => NoOtherLookup(t)
        PROVE  InfoInv' /\ WholeInv' /\ CompleteInv' /\ MissInv'
    <2>1. l \in Layer \cup {NoLayer}
      BY <1>0, FindType DEF Found, TypeOK
    <2>2. OthersStay(t)
      BY <1>0, <1>3 DEF OthersStay, TypeOK, ReturnNull, Goto, Finish
    <2>3. pc'[t] \in {"missed", "updating", "idle"}
      BY <1>0, <1>3 DEF TypeOK, ReturnNull, Goto, Finish
    <2>4. InfoInv' /\ WholeInv' /\ CompleteInv'
      <3>1. CASE l = NoLayer
        BY <1>1, <1>2, <1>3, <3>1
           DEF UniqueInvariant, InfoInv, WholeInv, CompleteInv, ComputeFilePath
      <3>2. CASE l # NoLayer
        <4>1. l \in alive
          <5>1. Matches(registry, alive, info)
            BY DEF LayerInvariant, RegistryMatchesAssetInfo
          <5> QED
            BY <1>3, <3>2, <5>1, FindAlive DEF Found
        <4>2. registry' = Erase(registry, l, info[l])
          BY <1>3, <3>2
        <4> QED
          BY <1>1, <1>2, <1>3, <3>2, <4>1, <4>2, EraseUnique
      <3> QED
        BY <3>1, <3>2
    <2>5. CASE pc'[t] # "missed"
      <3>1. CASE l # NoLayer
        BY <1>3, <2>2, <2>3, <2>4, <2>5, <3>1, AloneMiss
      <3>2. CASE l = NoLayer
        <4>1. Calm(t)
          BY <1>1, <1>2, <1>3, <2>2, <2>3, <2>5, <3>2 DEF Calm
        <4> QED
          BY <4>1, CalmStep
      <3> QED
        BY <2>4, <3>1, <3>2
    <2>6. CASE pc'[t] = "missed"
      <3>1. NoOtherLookup(t) /\ call' = call
        BY <1>0, <1>3, <2>6 DEF TypeOK, ReturnNull, Goto, Finish
      <3>2. ASSUME call[t].path # NoPath
            PROVE  registry'.byRealPath[call[t].path] = NoLayer
        <4>1. call[t].path \in Path /\ registry \in Registry
          BY <1>0, <3>2 DEF TypeOK, Call
        <4>2. CASE l = NoLayer
          BY <1>3, <4>1, <4>2, NothingAtPath DEF Found
        <4>3. CASE l # NoLayer
          <5>1. info[l].resolvedPath = call[t].path /\ registry.byRealPath[call[t].path] = l
            BY <1>3, <3>2, <4>3, FoundAtPath
          <5> QED
            BY <1>3, <4>1, <4>3, <5>1 DEF Erase, RemoveRealPath
        <4> QED
          BY <4>2, <4>3
      <3>3. MissInv'
        BY <2>2, <2>6, <3>1, <3>2 DEF MissInv, NoOtherLookup, OthersStay
      <3> QED
        BY <2>4, <3>3
    <2> QED
      BY <2>5, <2>6
  <1>4. CASE LookupMiss(t)
    <2>1. PICK l \in Found(t) :
            /\ l = NoLayer \/ ~Referenced(l)
            /\ IF ~hasWriteLock[t] /\ (l # NoLayer \/ RetryAsWriter(t))
               THEN /\ candidate' = [candidate EXCEPT ![t] = l]
                    /\ Goto(t, "wantUpgrade")
                    /\ UNCHANGED <<registry, lockVars, call, hasWriteLock>>
               ELSE /\ registry' = IF l = NoLayer THEN registry
                                   ELSE Erase(registry, l, info[l])
                    /\ hasWriteLock' = [hasWriteLock EXCEPT ![t] = FALSE]
                    /\ ReturnNull(t)
                    /\ UNCHANGED candidate
      BY <1>4 DEF LookupMiss
    <2>2. CASE ~hasWriteLock[t] /\ (l # NoLayer \/ RetryAsWriter(t))
      <3>1. /\ candidate' = [candidate EXCEPT ![t] = l]
            /\ pc' = [pc EXCEPT ![t] = "wantUpgrade"]
            /\ UNCHANGED <<registry, call>>
        BY <2>1, <2>2 DEF Goto
      <3>2. InfoInv' /\ WholeInv' /\ CompleteInv'
        BY <1>1, <1>2, <3>1
           DEF UniqueInvariant, InfoInv, WholeInv, CompleteInv, ComputeFilePath
      <3>3. MissInv'
        <4> SUFFICES ASSUME NEW u \in Thread
                     PROVE  /\ pc'[u] = "missed" /\ call'[u].path # NoPath =>
                                  registry'.byRealPath[call'[u].path] = NoLayer
                            /\ pc'[u] = "wantUpgrade" =>
                                  /\ (candidate[u] \in Found(u))'
                                  /\ (candidate[u] = NoLayer \/ ~Referenced(candidate[u]))'
          BY DEF MissInv
        <4>1. Found(u)' = Found(u)
          BY <1>1, <3>1 DEF Found, ComputeFilePath
        <4>2. Referenced(candidate[u])' =
              (\E v \in Thread : candidate'[u] \in held[v] \/ cur[v] = candidate'[u])
          BY <1>1 DEF Referenced
        <4>3. CASE u = t
          BY <1>0, <2>1, <3>1, <4>1, <4>2, <4>3 DEF TypeOK, Referenced
        <4>4. CASE u # t
          BY <1>0, <3>1, <4>1, <4>2, <4>4 DEF TypeOK, UniqueInvariant, MissInv, Referenced
        <4> QED
          BY <4>3, <4>4
      <3> QED
        BY <3>2, <3>3
    <2>3. CASE ~(~hasWriteLock[t] /\ (l # NoLayer \/ RetryAsWriter(t)))
      <3>1. l # NoLayer \/ RetryAsWriter(t) => NoOtherLookup(t)
        <4>1. pc[t] = "lookup"
          BY <1>4 DEF LookupMiss
        <4>2. hasWriteLock[t] => writer = t
          BY <4>1 DEF UniqueInvariant, MutexInv
        <4> QED
          BY <2>3, <4>2, AloneUnderMutex
      <3> QED
        BY <1>3, <2>1, <2>3, <3>1
    <2> QED
      BY <2>2, <2>3
  <1>5. CASE UpgradeAtomic(t)
    <2> DEFINE l == candidate[t]
    <2>1. l \in Found(t) /\ (l = NoLayer \/ ~Referenced(l))
      BY <1>5 DEF UpgradeAtomic, UniqueInvariant, MissInv
    <2>2. NoOtherLookup(t)
      BY <1>5, AloneUnderMutex DEF UpgradeAtomic
    <2>3. /\ registry' = (IF l = NoLayer THEN registry ELSE Erase(registry, l, info[l]))
          /\ candidate' = [candidate EXCEPT ![t] = NoLayer]
          /\ ReturnNull(t)
      BY <1>5 DEF UpgradeAtomic
    <2> HIDE DEF l
    <2> QED
      BY <1>3, <2>1, <2>2, <2>3
  <1> QED
    BY <1>4, <1>5

\* A call constructs a layer only where none is.
LEMMA OpenUnique ==
    ASSUME LayerInvariant, UniqueInvariant, NEW t \in Thread,
           \/ OpenLayer(t) \/ CreateAnonymous(t) \/ OpenAnonymous(t)
           \/ CreateNew(t) \/ CreateFails(t)
    PROVE  InfoInv' /\ WholeInv' /\ CompleteInv' /\ MissInv'
  <1>0. TypeOK
    BY DEF LayerInvariant
  <1>1. writer = t
    BY DEF OpenLayer, CreateAnonymous, OpenAnonymous, CreateNew, CreateFails,
       UniqueInvariant, MutexInv
  <1>2. /\ UNCHANGED <<location, candidate>>
        /\ call' = call \/ call' = [call EXCEPT ![t] = NoCall]
        /\ pc' = [pc EXCEPT ![t] = pc'[t]]
        /\ pc'[t] \in {"reading", "idle", "createFailed"}
    BY <1>0, ZenonT(30) DEF OpenLayer, CreateAnonymous, OpenAnonymous, CreateNew, CreateFails, Finish,
       Goto, findVars, resolverVars, TypeOK
  <1>3. MissInv'
    <2>1. NoOtherLookup(t)
      BY <1>1, AloneUnderMutex
    <2>2. OthersStay(t)
      BY <1>0, <1>2 DEF OthersStay, TypeOK
    <2> QED
      BY <1>2, <2>1, <2>2, AloneMiss
  <1>4. \E l \in Layer, id \in Identifier \cup Layer :
            /\ Construct(t, l, ComputeAssetInfo(id, ComputeFilePath(id)))
            /\ id \in Identifier => registry.byRealPath[location[id]] = NoLayer
            /\ held' = held \/ held' = [held EXCEPT ![t] = @ \cup {l}]
            /\ cur' = cur \/ cur' = [cur EXCEPT ![t] = l]
    <2>1. CASE OpenLayer(t)
      <3>1. /\ call[t].ident \in Identifier
            /\ call[t].path = ComputeFilePath(call[t].ident)
            /\ registry.byRealPath[location[call[t].ident]] = NoLayer
        BY <2>1 DEF OpenLayer, UniqueInvariant, CallsInv, MissInv, ComputeFilePath
      <3> QED
        BY <2>1, <3>1 DEF OpenLayer
    <2>2. CASE CreateAnonymous(t) \/ OpenAnonymous(t)
      <3>1. \A l \in Layer : ComputeFilePath(l) = NoPath /\ l \notin Identifier
        BY DEF ComputeFilePath
      <3> QED
        BY <2>2, <3>1 DEF CreateAnonymous, OpenAnonymous
    <2>3. CASE CreateNew(t) \/ CreateFails(t)
      <3>1. call[t].ident \in Identifier /\ ~AlreadyExists(call[t].ident)
        BY <2>3 DEF CreateNew, CreateFails, LayerInvariant, ControlOK
      <3>2. registry.byRealPath[location[call[t].ident]] = NoLayer
        BY <1>0, <3>1, NothingAtPath DEF AlreadyExists, ComputeFilePath, TypeOK
      <3> QED
        BY <2>3, <3>1, <3>2 DEF CreateNew, CreateFails
    <2> QED
      BY <2>1, <2>2, <2>3
  <1>5. PICK l \in Layer, id \in Identifier \cup Layer :
            /\ Construct(t, l, ComputeAssetInfo(id, ComputeFilePath(id)))
            /\ id \in Identifier => registry.byRealPath[location[id]] = NoLayer
            /\ held' = held \/ held' = [held EXCEPT ![t] = @ \cup {l}]
            /\ cur' = cur \/ cur' = [cur EXCEPT ![t] = l]
    BY <1>4
  <1>6. \A m \in Layer \ {l} : Referenced(m)' => Referenced(m)
    BY <1>0, <1>5 DEF TypeOK, Referenced
  <1>7. location' = location
    BY <1>2
  <1>8. InfoInv' /\ WholeInv' /\ CompleteInv'
    BY <1>5, <1>6, <1>7, ConstructUnique
  <1> QED
    BY <1>3, <1>8

\* A layer that is destroyed was referenced by no one.
LEMMA DestroyUnique ==
    ASSUME LayerInvariant, UniqueInvariant, NEW t \in Thread, Destroy(t)
    PROVE  InfoInv' /\ WholeInv' /\ CompleteInv' /\ MissInv'
  <1>0. TypeOK
    BY DEF LayerInvariant
  <1> DEFINE l == dying[t]
  <1>1. l \in alive /\ ~Referenced(l)
    BY DEF Destroy, LayerInvariant, ControlOK, ReferencesKeepAlive
  <1>2. MissInv'
    <2>1. NoOtherLookup(t)
      BY AloneUnderMutex DEF Destroy, UniqueInvariant, MutexInv
    <2>2. OthersStay(t) /\ pc'[t] \in {"idle", "updating"}
      BY <1>0 DEF OthersStay, TypeOK, Destroy, Goto, findVars
    <2> QED
      BY <2>1, <2>2, AloneMiss
  <1>3. /\ registry' = Erase(registry, l, info[l])
        /\ alive' = alive \ {l}
        /\ info' = [info EXCEPT ![l] = NoAssetInfo]
        /\ UNCHANGED <<held, cur, location>>
    BY DEF Destroy, resolverVars
  <1>4. /\ \A m \in Layer \ {l} : info'[m] = info[m]
        /\ \A m \in alive' : info'[m] = info[m]
        /\ \A m \in Layer : Referenced(m)' => Referenced(m)
        /\ alive' \subseteq alive
    BY <1>0, <1>3 DEF TypeOK, Referenced
  <1> HIDE DEF l
  <1> QED
    BY <1>1, <1>2, <1>3, <1>4, EraseUnique

\* Every step keeps the registry complete and the lookups current.
LEMMA UniqueStep ==
    ASSUME SettledNames, LayerInvariant, UniqueInvariant, [Next]_vars
    PROVE  UniqueInvariant'
  <1>1. CallsInv' /\ ResolverInv' /\ MutexInv'
    BY CallsStep, MutexStep
  <1>2. InfoInv' /\ WholeInv' /\ CompleteInv' /\ MissInv'
    <2>1. ASSUME NEW id \in Identifier, NEW p \in Path, Relocate(id, p)
          PROVE  FALSE
      BY <2>1 DEF SettledNames, Relocate, UniqueInvariant, ResolverInv
    <2>2. ASSUME NEW p \in Path, ToggleAsset(p)
          PROVE  FALSE
      BY <2>2 DEF SettledNames, ToggleAsset, UniqueInvariant, ResolverInv
    <2>3. ASSUME NEW t \in Thread, Request(t)
          PROVE  InfoInv' /\ WholeInv' /\ CompleteInv' /\ MissInv'
      BY <2>3, CalmRequest, CalmStep
    <2>4. ASSUME NEW t \in Thread, Acquire(t)
          PROVE  InfoInv' /\ WholeInv' /\ CompleteInv' /\ MissInv'
      BY <2>4, CalmAcquire, CalmStep, LookupUnique
    <2>5. ASSUME NEW t \in Thread, Proceed(t)
          PROVE  InfoInv' /\ WholeInv' /\ CompleteInv' /\ MissInv'
      <3>1. CASE LookupMiss(t)
        BY <3>1, LookupUnique
      <3>2. CASE \/ OpenLayer(t) \/ CreateAnonymous(t) \/ OpenAnonymous(t)
                 \/ CreateNew(t) \/ CreateFails(t)
        BY <3>2, OpenUnique
      <3>3. CASE UpdateRegistry(t)
        BY <3>3, CalmUpdate, CalmStep
      <3>4. CASE Destroy(t)
        BY <3>4, DestroyUnique
      <3>5. CASE \/ LookupHit(t) \/ OpenNothing(t) \/ CreateRefused(t)
                 \/ ReadSucceeds(t) \/ ReadFails(t) \/ ReadThrows(t)
                 \/ WaitFindOrOpen(t) \/ WaitFind(t) \/ WaitSetIdentifier(t)
                 \/ DropFailed(t)
        BY <3>5, CalmProceed, CalmStep
      <3> QED
        BY <2>5, <3>1, <3>2, <3>3, <3>4, <3>5 DEF Proceed
    <2>6. CASE UNCHANGED vars
      <3>1. UNCHANGED <<registry, alive, info, location, pc, call, candidate, held, cur>>
        BY <2>6 DEF vars, layerVars, refVars, findVars, resolverVars
      <3>2. InfoInv' = InfoInv /\ WholeInv' = WholeInv
        BY <3>1 DEF InfoInv, WholeInv, ComputeFilePath
      <3>3. CompleteInv' = CompleteInv
        BY <3>1 DEF CompleteInv, Referenced
      <3>4. MissInv' = MissInv
        BY <3>1 DEF MissInv, Found, ComputeFilePath, Referenced
      <3> QED
        BY <3>2, <3>3, <3>4 DEF UniqueInvariant
    <2> QED
      BY <2>1, <2>2, <2>3, <2>4, <2>5, <2>6 DEF Next
  <1> QED
    BY <1>1, <1>2 DEF UniqueInvariant

\* An asset is open once: however the calls that open, create, find and drop
\* layers interleave and fail, two layers that threads keep are not of one path.
THEOREM OneLayer ==
    ASSUME SettledNames
    PROVE  Spec => []OneLayerPerPath
  <1>1. Init => UniqueInvariant
    BY DEF Init, UniqueInvariant, CallsInv, ResolverInv, MutexInv, InfoInv, WholeInv,
       CompleteInv, MissInv, Referenced, NoCall, EmptyRegistry
  <1>2. LayerInvariant /\ UniqueInvariant /\ [Next]_vars => UniqueInvariant'
    BY UniqueStep
  <1>3. LayerInvariant /\ UniqueInvariant => OneLayerPerPath
    <2> SUFFICES ASSUME LayerInvariant, UniqueInvariant,
                        NEW t \in Thread, NEW u \in Thread, NEW l \in held[t], NEW m \in held[u],
                        l # m, info[l].resolvedPath # NoPath,
                        info[l].resolvedPath = info[m].resolvedPath
                 PROVE  FALSE
      BY DEF OneLayerPerPath
    <2>1. l \in Layer /\ m \in Layer /\ Referenced(l) /\ Referenced(m)
      BY DEF LayerInvariant, TypeOK, Referenced
    <2> QED
      BY <2>1 DEF UniqueInvariant, CompleteInv
  <1> QED
    BY LayerSafety, <1>1, <1>2, <1>3, PTL DEF Spec

=============================================================================
