---------------------------- MODULE LayerRegistry ----------------------------
(***************************************************************************)
(* The layer registry of src/pxr/sdf/layerRegistry.cpp as operators on a   *)
(* registry value: the three indices of Sdf_LayerRegistry::_Layers and the *)
(* operations Insert, Update, Erase and Find.  Module LayerLifecycle holds *)
(* a registry in a variable and applies these operators under the registry *)
(* mutex of layer.cpp.                                                     *)
(*                                                                         *)
(* Strings are abstracted: an identifier (with the file format arguments   *)
(* it embeds) is an element of Identifier, a resolved path (again with the *)
(* arguments that _AssetInfoToAliases appends) an element of Path.  The    *)
(* identifier of an anonymous layer contains the address of the layer; it  *)
(* is represented by the layer itself.                                     *)
(***************************************************************************)
CONSTANTS
    Layer,             \* the layer objects
    Identifier,        \* identifiers that name an asset
    Path,              \* resolved paths
    ContextDependent,  \* identifiers for which IsContextDependentPath holds
    RepoPath,          \* ArAssetInfo::repoPath of the asset at a path
    NoLayer, NoPath, NoIdentifier

ASSUME RegistryConstants ==
    /\ NoLayer \notin Layer
    /\ NoPath \notin Path
    /\ NoIdentifier \notin Identifier \cup Layer
    /\ Identifier \cap Layer = {}
    /\ ContextDependent \subseteq Identifier
    /\ RepoPath \in [Path -> Identifier \cup {NoIdentifier}]

\* Sdf_IsAnonLayerIdentifier
IsAnonymous(id) == id \in Layer

\* Sdf_AssetInfo: the identifier of a layer, where it resolves to, and the
\* repository path of that asset.
AssetInfo == [ identifier   : Identifier \cup Layer \cup {NoIdentifier},
               resolvedPath : Path \cup {NoPath},
               repoPath     : Identifier \cup {NoIdentifier} ]

\* The asset info of a default constructed Sdf_AssetInfo.
NoAssetInfo == [ identifier   |-> NoIdentifier,
                 resolvedPath |-> NoPath,
                 repoPath     |-> NoIdentifier ]

\* Sdf_ComputeAssetInfoFromIdentifier: an anonymous layer has neither a
\* resolved path nor a repository path.
ComputeAssetInfo(id, path) ==
    [ identifier   |-> id,
      resolvedPath |-> IF IsAnonymous(id) THEN NoPath ELSE path,
      repoPath     |-> IF IsAnonymous(id) \/ path = NoPath
                       THEN NoIdentifier ELSE RepoPath[path] ]

-----------------------------------------------------------------------------
(* The indices: byRealPath maps a path to at most one layer, the other two *)
(* are multimaps, represented by their sets of entries.                    *)

Registry ==
    [ byRealPath       : [Path -> Layer \cup {NoLayer}],
      byIdentifier     : SUBSET ((Identifier \cup Layer) \X Layer),
      byRepositoryPath : SUBSET (Identifier \X Layer) ]

EmptyRegistry ==
    [ byRealPath       |-> [p \in Path |-> NoLayer],
      byIdentifier     |-> {},
      byRepositoryPath |-> {} ]

\* Mutant: the empty key is indexed like any other.
EntryEmptyToo(key, l) == {<<key, l>>}

\* An entry is added under a key unless the key is empty.
Entry(key, l) == IF key = NoIdentifier THEN {} ELSE {<<key, l>>}

\* _TryToRemove on the map: only if the entry is this layer's.
RemoveRealPath(map, path, l) ==
    [p \in Path |-> IF p = path /\ map[p] = l THEN NoLayer ELSE map[p]]

\* emplace on the map: an existing entry is kept.
EmplaceRealPath(map, path, l) ==
    [p \in Path |-> IF p = path /\ map[p] = NoLayer THEN l ELSE map[p]]

\* Some layer occupies the real path, so emplace does not insert.
RealPathTaken(map, path) == path \in Path /\ map[path] # NoLayer

\* _Layers::Insert: nothing is inserted if the real path is taken.
Insert(reg, l, info) ==
    IF RealPathTaken(reg.byRealPath, info.resolvedPath)
    THEN reg
    ELSE [ byRealPath |->
               EmplaceRealPath(reg.byRealPath, info.resolvedPath, l),
           byIdentifier |->
               reg.byIdentifier \cup Entry(info.identifier, l),
           byRepositoryPath |->
               reg.byRepositoryPath \cup Entry(info.repoPath, l) ]

\* Mutant: the entry under the old key stays.
MoveEntryKeepOld(entries, old, new, l) == entries \cup Entry(new, l)

\* _Layers::Update of a multimap: the entry moves if the key changed.
MoveEntry(entries, old, new, l) ==
    IF old = new THEN entries
    ELSE (entries \ Entry(old, l)) \cup Entry(new, l)

\* _Layers::Update: if the new real path is taken the layer is left
\* dangling: the other two keys are treated as empty and removed.
Update(reg, l, old, new) ==
    LET moved    == old.resolvedPath # new.resolvedPath
        without  == IF moved
                    THEN RemoveRealPath(reg.byRealPath, old.resolvedPath, l)
                    ELSE reg.byRealPath
        dangling == moved /\ RealPathTaken(without, new.resolvedPath)
        Key(k)   == IF dangling THEN NoIdentifier ELSE k
    IN  [ byRealPath |->
              IF moved
              THEN EmplaceRealPath(without, new.resolvedPath, l)
              ELSE without,
          byIdentifier |->
              MoveEntry(reg.byIdentifier, old.identifier,
                        Key(new.identifier), l),
          byRepositoryPath |->
              MoveEntry(reg.byRepositoryPath, old.repoPath,
                        Key(new.repoPath), l) ]

\* _Layers::Erase: every alias of the layer that is still there.
Erase(reg, l, info) ==
    [ byRealPath |->
          RemoveRealPath(reg.byRealPath, info.resolvedPath, l),
      byIdentifier |->
          reg.byIdentifier \ Entry(info.identifier, l),
      byRepositoryPath |->
          reg.byRepositoryPath \ Entry(info.repoPath, l) ]

\* The layers stored under a key of a multimap.
StoredUnder(entries, key) == { l \in Layer : <<key, l>> \in entries }

\* _FindByRealPath
FindByRealPath(reg, path) ==
    IF path \in Path THEN {reg.byRealPath[path]} ELSE {NoLayer}

\* Sdf_LayerRegistry::Find: the layers the lookup may return (find on a
\* multimap returns any of the entries of the key), {NoLayer} if none.
\* path is the resolved path, or where Sdf_ComputeFilePath puts it.  Only the
\* first index knows anonymous identifiers, and they have no path.
Find(reg, id, path) ==
    LET byId   == IF id \in ContextDependent THEN {}
                  ELSE StoredUnder(reg.byIdentifier, id)
        byRepo == StoredUnder(reg.byRepositoryPath, id)
    IN  IF byId # {} THEN byId
        ELSE IF byRepo # {} THEN byRepo
        ELSE FindByRealPath(reg, path)

\* The entries of reg are of the layers in live, each under aliases that the
\* asset info inf of its layer has.
Matches(reg, live, inf) ==
    /\ \A p \in Path : reg.byRealPath[p] # NoLayer =>
          /\ reg.byRealPath[p] \in live
          /\ inf[reg.byRealPath[p]].resolvedPath = p
    /\ \A e \in reg.byIdentifier :
          e[2] \in live /\ inf[e[2]].identifier = e[1]
    /\ \A e \in reg.byRepositoryPath :
          e[2] \in live /\ inf[e[2]].repoPath = e[1]

=============================================================================
