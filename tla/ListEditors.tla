----------------------------- MODULE ListEditors -----------------------------
(***************************************************************************)
(* The editors of the list op in a field of a spec (listEditor.h,          *)
(* listOpListEditor.h), the proxies a client edits through                 *)
(* (listEditorProxy.h, listProxy.h), and the specs of targets that the     *)
(* editors of relationship targets and attribute connections keep          *)
(* (connectionListEditor.cpp, relationshipSpec.cpp).                       *)
(*                                                                         *)
(* An editor reads the field once, when it is made, and works on its copy. *)
(* A call of the proxy is one action: it threads a record of the copy, the *)
(* field and the specs of targets through the edits the call makes.        *)
(***************************************************************************)
EXTENDS ListOps, FiniteSets

CONSTANTS Editors,
          Items,      \* targets
          Vectors,    \* the vectors a whole list is replaced by
          Loose,      \* what clients do beyond what the property speaks of:
                      \*   "shared"    one target in two lists
                      \*   "switching" an insertion turns an explicit list into list ops
                      \*   "moving"    CopyItems from an op with a target in another list
                      \*   "unlisted"  ReplaceTargetPath of a path that has no spec
                      \*   "stale"     editors used after someone else's edit
          MaxItems    \* bound: items in all lists

VARIABLES field,      \* the list op stored in the field; NewListOp when there is none
          copies,     \* the list ops the editors hold; NoListOp before they are made
          targets     \* the target paths that have specs

vars == <<field, copies, targets>>

Init == field = NewListOp /\ copies = [e \in Editors |-> NoListOp] /\ targets = {}

Made(e) == copies[e] # NoListOp

-----------------------------------------------------------------------------
\* _ValidateEdit: no item twice, what the lists share at the front left aside.
ValidateEdit(old, new) ==
    \A i \in DOMAIN new : (\E j \in 1..i - 1 : new[j] = new[i]) =>
        i <= Len(old) /\ \A j \in 1..i : new[j] = old[j]

\* _OnEditShared.  Mutant: the specs of all old items are removed and not made again.
OnEditRemovesAll(specs, kind, old, new) ==
    IF kind \in {"ordered", "deleted"} THEN specs
    ELSE (specs \ ToSet(old)) \cup (ToSet(new) \ ToSet(old))

OnEdit(specs, kind, old, new) ==
    IF kind \in {"ordered", "deleted"} THEN specs
    ELSE (specs \ (ToSet(old) \ ToSet(new))) \cup (ToSet(new) \ ToSet(old))

\* The order in which _UpdateListOp goes through the kinds.
OpTypes == <<"explicit", "added", "deleted", "ordered", "prepended", "appended">>

Additions == {"added", "prepended", "appended"}
\* What the lists name that has a spec: neither orders nor deletions do.
Listed(op) == UNION {ToSet(op.items[kind]) : kind \in {"explicit"} \cup Additions}

\* The edits of the kinds that have changed are told in turn.
Told(specs, old, new, changed) ==
    FoldLeft(LAMBDA known, kind : IF kind \notin changed THEN known
                                  ELSE OnEdit(known, kind, old.items[kind], new.items[kind]),
             specs, OpTypes)

\* What an edit does that the property does not speak of.
LooseEdit(old, new, only) ==
    {which \in {"shared", "switching", "moving"} :
        CASE which = "shared" ->
                \E k, l \in Additions : k # l /\ ToSet(new.items[k]) \cap ToSet(new.items[l]) # {}
          [] which = "switching" ->
                only # Kinds /\ old.explicit # new.explicit /\ Listed(old) # {}
          [] which = "moving" ->
                only = Kinds /\ \E k, l \in Additions :
                    k # l /\ ToSet(old.items[k]) \cap ToSet(new.items[l]) # {}}

\* _UpdateListOp: r.op is the editor's copy.  only: the kinds the caller says have changed.
UpdateListOp(r, new, only) ==
    LET changed == {kind \in only : new.items[kind] # r.op.items[kind]}
    IN  IF \/ \E kind \in changed : ~ValidateEdit(r.op.items[kind], new.items[kind])
           \/ changed = {} /\ new.explicit = r.op.explicit
        THEN r
        ELSE [op |-> new, loose |-> r.loose \cup LooseEdit(r.op, new, only),
              field |-> IF HasKeys(new) THEN new ELSE NewListOp,
              targets |-> Told(r.targets, r.op, new, changed)]

\* SdfListProxy::_Edit, by ReplaceEdits of the editor.
Edit(r, kind, index, n, elems) ==
    LET new == ReplaceOperations(r.op, kind, index, n, elems)
    IN  IF (n = 0 /\ elems = <<>>) \/ new = NoListOp THEN r ELSE UpdateListOp(r, new, {kind})

Find(r, kind, item) == SelectInSeq(r.op.items[kind], LAMBDA x : x = item)
Size(r, kind) == Len(r.op.items[kind])

RemoveFrom(r, kind, item) ==
    IF Find(r, kind, item) = 0 THEN r ELSE Edit(r, kind, Find(r, kind, item) - 1, 1, <<>>)
ReplaceIn(r, kind, old, new) ==
    IF Find(r, kind, old) = 0 THEN r ELSE Edit(r, kind, Find(r, kind, old) - 1, 1, <<new>>)
AddIfMissing(r, kind, item) ==
    IF Find(r, kind, item) # 0 THEN r ELSE Edit(r, kind, Size(r, kind), 0, <<item>>)
PrependTo(r, kind, item) ==
    IF Find(r, kind, item) = 1 THEN r ELSE Edit(RemoveFrom(r, kind, item), kind, 0, 0, <<item>>)
AppendTo(r, kind, item) ==
    IF Size(r, kind) # 0 /\ Find(r, kind, item) = Size(r, kind) THEN r
    ELSE LET removed == RemoveFrom(r, kind, item)
         IN  Edit(removed, kind, Size(removed, kind), 0, <<item>>)

RemoveFromAll(r, kinds, item) ==
    FoldLeft(LAMBDA done, kind : IF kind \in kinds THEN RemoveFrom(done, kind, item) ELSE done, r,
             <<"explicit", "added", "prepended", "appended", "deleted", "ordered">>)
ReplaceInAll(r, old, new) ==
    FoldLeft(LAMBDA done, kind : ReplaceIn(done, kind, old, new), r,
             <<"explicit", "added", "prepended", "appended", "deleted", "ordered">>)

-----------------------------------------------------------------------------
\* The calls of SdfListEditorProxy and SdfListProxy.
Add(r, item) ==
    IF r.op.explicit THEN AddIfMissing(r, "explicit", item)
    ELSE AddIfMissing(RemoveFrom(r, "deleted", item), "added", item)
Prepend(r, item) ==
    IF r.op.explicit THEN PrependTo(r, "explicit", item)
    ELSE PrependTo(RemoveFrom(r, "deleted", item), "prepended", item)
AppendItem(r, item) ==
    IF r.op.explicit THEN AppendTo(r, "explicit", item)
    ELSE AppendTo(RemoveFrom(r, "deleted", item), "appended", item)
Erase(r, item) ==
    RemoveFromAll(r, IF r.op.explicit THEN {"explicit"} ELSE Additions, item)
RemoveItem(r, item) ==
    IF r.op.explicit THEN RemoveFrom(r, "explicit", item)
    ELSE AddIfMissing(RemoveFromAll(r, Additions, item), "deleted", item)
SetList(r, kind, items) == Edit(r, kind, 0, Size(r, kind), items)
ApplyList(r, stronger, kind) == UpdateListOp(r, ComposeOperations(r.op, stronger, kind), {kind})
ModifyItemEdits(r, callback) == UpdateListOp(r, ModifyOperations(r.op, callback), Kinds)

\* An editor e is fresh while its copy is what the field says.
Fresh(e) == Made(e) /\ copies[e] = field

Open(e) == copies' = [copies EXCEPT ![e] = field] /\ UNCHANGED <<field, targets>>

\* The editor e makes an edit.
Edited(e, Call(_)) ==
    LET r == Call([op |-> copies[e], loose |-> {}, field |-> field, targets |-> targets])
    IN  /\ Made(e) /\ (Fresh(e) \/ "stale" \in Loose)
        /\ r.loose \subseteq Loose
        /\ FoldLeft(LAMBDA n, kind : n + Len(r.op.items[kind]), 0, OpTypes) <= MaxItems
        /\ copies' = [copies EXCEPT ![e] = r.op]
        /\ field' = r.field /\ targets' = r.targets

EditItem(e) == \E item \in Items :
    \/ Edited(e, LAMBDA r : Add(r, item))
    \/ Edited(e, LAMBDA r : Prepend(r, item))
    \/ Edited(e, LAMBDA r : AppendItem(r, item))
    \/ Edited(e, LAMBDA r : Erase(r, item))
    \/ Edited(e, LAMBDA r : RemoveItem(r, item))
    \/ Edited(e, LAMBDA r : RemoveFromAll(r, Kinds, item))
    \/ \E new \in Items : Edited(e, LAMBDA r : ReplaceInAll(r, item, new))

EditWhole(e) ==
    \/ Edited(e, LAMBDA r : UpdateListOp(r, NewListOp, Kinds))
    \/ Edited(e, LAMBDA r : UpdateListOp(r, ClearAndMakeExplicit, Kinds))
    \/ \E kind \in Kinds, items \in Vectors : Edited(e, LAMBDA r : SetList(r, kind, items))
    \/ \E callback \in [Items -> Items \cup {NoItem}] :
          Edited(e, LAMBDA r : ModifyItemEdits(r, callback))

\* CopyItems and ApplyList from the editor of another field with the list op.
EditFrom(e) == \E kind \in Additions, items \in Vectors :
    LET other == SetItems(NewListOp, items, kind)
    IN  \/ Edited(e, LAMBDA r : UpdateListOp(r, other, Kinds))
        \/ Edited(e, LAMBDA r : ApplyList(r, other, kind))

\* SdfRelationshipSpec::ReplaceTargetPath edits the field and the specs itself: existing
\* entries of the new path are dropped.
ReplaceTargetPath(old, new) ==
    LET callback == [x \in Items |-> IF x = old THEN new ELSE IF x = new THEN NoItem ELSE x]
    IN  /\ old # new
        /\ (old \notin targets) => "unlisted" \in Loose
        /\ targets' = IF old \in targets THEN (targets \ {old}) \cup {new} ELSE targets
        /\ field' = IF HasItem(field, old) THEN ModifyOperations(field, callback) ELSE field
        /\ UNCHANGED copies

Next ==
    \/ \E e \in Editors : Open(e) \/ EditItem(e) \/ EditWhole(e) \/ EditFrom(e)
    \/ \E old, new \in Items : ReplaceTargetPath(old, new)

Spec == Init /\ [][Next]_vars

-----------------------------------------------------------------------------
\* There is a spec for each target that the list op lists and for no other, and no list
\* names a target twice (connectionListEditor.cpp:28, listEditor.h:195).
TargetsFollow ==
    /\ targets = Listed(field)
    /\ \A kind \in Kinds : IsInjective(field.items[kind])

=============================================================================
