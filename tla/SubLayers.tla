------------------------------ MODULE SubLayers ------------------------------
(***************************************************************************)
(* What a layer names of other layers: its sublayer paths, edited through  *)
(* the editor of a vector field (vectorListEditor.h), which keeps the      *)
(* offsets of the sublayers beside them (subLayerListEditor.cpp), and the  *)
(* references and payloads of its prims, renamed together with the         *)
(* sublayers by UpdateCompositionAssetDependency (layer.cpp).              *)
(*                                                                         *)
(* Each call makes its own editor: the copy the editor holds is the field. *)
(* References and payloads are list ops of asset paths, by prim.           *)
(***************************************************************************)
EXTENDS ListOps

CONSTANTS Assets,     \* asset paths
          Prims,      \* prims and prims of variants
          Offsets,    \* values of offsets; 0 is the identity
          PathLists,  \* the lists the sublayer paths are set to, or merged with
          MaxSubLayers    \* bound

VARIABLES paths,      \* the field SubLayers
          offsets,    \* the field SubLayerOffsets
          references, \* by prim, the list op of references or of payloads
          call        \* the last call

vars == <<paths, offsets, references, call>>

Init == paths = <<>> /\ offsets = <<>> /\ references = [p \in Prims |-> NewListOp] /\ call = <<>>

Identity == 0

\* Sdf_SubLayerListEditor::_OnEdit: a path keeps its offset.
\* Mutant: an offset stays at its index.
OffsetsByIndex(old, new, before) ==
    [i \in DOMAIN new |-> IF i \in DOMAIN before THEN before[i] ELSE Identity]

OffsetsAfter(old, new, before) ==
    IF Len(old) # Len(before) THEN before
    ELSE [i \in DOMAIN new |-> IF new[i] \in ToSet(old)
                               THEN before[SelectInSeq(old, LAMBDA x : x = new[i])] ELSE Identity]

\* _UpdateFieldData: lists with an item twice are refused.
UpdateFieldData(r, new) ==
    IF ~IsInjective(new) THEN r
    ELSE [paths |-> new, offsets |-> OffsetsAfter(r.paths, new, r.offsets)]

\* ReplaceEdits, of which every call of the proxy is one.
ReplaceEdits(r, index, n, elems) ==
    LET new == ReplaceOperations(SetItems(NewListOp, r.paths, "ordered"), "ordered", index, n, elems)
    IN  IF new = NoListOp THEN r ELSE UpdateFieldData(r, new.items["ordered"])

Insert(r, path, index) == ReplaceEdits(r, IF index = -1 THEN Len(r.paths) ELSE index, 0, <<path>>)
EraseAt(r, index) == ReplaceEdits(r, index, 1, <<>>)

Fields == [paths |-> paths, offsets |-> offsets]
Written(r) ==
    /\ Len(r.paths) <= MaxSubLayers
    /\ paths' = r.paths /\ offsets' = r.offsets

SetSubLayerPaths(new) ==
    /\ Written(ReplaceEdits(Fields, 0, Len(paths), new))
    /\ call' = <<"set">> /\ UNCHANGED references

InsertSubLayerPath(path, index) ==
    /\ Written(Insert(Fields, path, index))
    /\ call' = <<"insert">> /\ UNCHANGED references

RemoveSubLayerPath(index) ==
    /\ Written(EraseAt(Fields, index))
    /\ call' = <<"remove">> /\ UNCHANGED references

ModifySubLayers(callback) ==
    /\ paths # <<>>
    /\ Written(UpdateFieldData(Fields, MakeUnique(Mapped(paths, callback))))
    /\ call' = <<"modify">> /\ UNCHANGED references

ApplySubLayers(stronger) ==
    /\ Written(UpdateFieldData(Fields,
           ComposeOperations(SetItems(NewListOp, paths, "ordered"),
                             SetItems(NewListOp, stronger, "ordered"), "ordered").items["ordered"]))
    /\ call' = <<"apply">> /\ UNCHANGED references

SetSubLayerOffset(offset, index) ==
    /\ index \in 0..Len(offsets) - 1
    /\ offsets' = [offsets EXCEPT ![index + 1] = offset]
    /\ call' = <<"offset", index>> /\ UNCHANGED <<paths, references>>

SetReferences(prim, op) ==
    /\ references' = [references EXCEPT ![prim] = op]
    /\ call' = <<"references">> /\ UNCHANGED <<paths, offsets>>

\* Nothing more is done when a sublayer is found.  No new path: NoItem.
UpdateCompositionAssetDependency(old, new) ==
    LET index == SelectInSeq(paths, LAMBDA x : x = old) - 1
        removed == EraseAt(Fields, index)
        callback == [x \in Assets |-> IF x = old THEN new ELSE x]
    IN  /\ IF index # -1
           THEN /\ Written(IF new = NoItem THEN removed ELSE Insert(removed, new, index))
                /\ UNCHANGED references
           ELSE /\ references' = [p \in Prims |-> ModifyOperations(references[p], callback)]
                /\ UNCHANGED <<paths, offsets>>
        /\ call' = <<"update", old, new>>

\* GetCompositionAssetDependencies.
CompositionAssetDependencies ==
    ToSet(paths) \cup UNION {ToSet(Applied(references[p], <<>>)) : p \in Prims}

Next ==
    \/ \E new \in PathLists : SetSubLayerPaths(new) \/ ApplySubLayers(new)
    \/ \E path \in Assets, index \in -1..MaxSubLayers : InsertSubLayerPath(path, index)
    \/ \E index \in 0..MaxSubLayers : RemoveSubLayerPath(index)
    \/ \E callback \in [Assets -> Assets \cup {NoItem}] : ModifySubLayers(callback)
    \/ \E offset \in Offsets, index \in 0..MaxSubLayers : SetSubLayerOffset(offset, index)
    \/ \E prim \in Prims, path \in Assets, kind \in {"explicit", "prepended", "deleted"} :
          SetReferences(prim, SetItems(NewListOp, <<path>>, kind))
    \/ \E old \in Assets, new \in Assets \cup {NoItem} : UpdateCompositionAssetDependency(old, new)

Spec == Init /\ [][Next]_vars

-----------------------------------------------------------------------------
OffsetOf(path) == offsets[SelectInSeq(paths, LAMBDA x : x = path)]

\* There is an offset for each sublayer path, and a call keeps the offset of each path that
\* stays, but for the path whose offset it sets and the one it renames to itself
\* (subLayerListEditor.cpp:35).
OffsetsStep ==
    /\ Len(paths') = Len(offsets') /\ IsInjective(paths')
    /\ \A path \in ToSet(paths) \cap ToSet(paths') :
          \/ call' = <<"update", path, path>>
          \/ call'[1] = "offset" /\ paths[call'[2] + 1] = path
          \/ OffsetOf(path)' = OffsetOf(path)

OffsetsFollow == [][OffsetsStep]_vars

\* After a rename nothing names the old path (layer.h:425).
EveryOccurrenceUpdated ==
    (call # <<>> /\ call[1] = "update" /\ call[2] # call[3]) =>
        /\ call[2] \notin ToSet(paths)
        /\ \A p \in Prims : ~HasItem(references[p], call[2])

=============================================================================
