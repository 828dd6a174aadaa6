----------------------------- MODULE ChangeList -----------------------------
(***************************************************************************)
(* SdfChangeList of changeList.cpp and changeList.h: the changes of a      *)
(* layer in one round, as a sequence of entries, one for each path unless  *)
(* the order of a removal and of an addition has to be kept apart.         *)
(*                                                                         *)
(* An entry has the flags that are set, the path an object was renamed or  *)
(* moved from, and for each field of infoChanged the value before and      *)
(* after.  Of the flags only those for additions, removals and renamings   *)
(* matter to the list; each of the others is set in the last entry of its  *)
(* path and never read.  The accelerator, _entriesAccel, finds the last    *)
(* entry of a path, as the search does.                                    *)
(***************************************************************************)
EXTENDS Naturals, Sequences, FiniteSets, Functions

CONSTANT NoPath

AddFlags == {"didAddInertPrim", "didAddNonInertPrim",
             "didAddPropertyWithOnlyRequiredFields", "didAddProperty"}

RemoveFlags == {"didRemoveInertPrim", "didRemoveNonInertPrim",
                "didRemovePropertyWithOnlyRequiredFields", "didRemoveProperty"}

NewEntry(path) == [path |-> path, flags |-> {}, oldPath |-> NoPath, info |-> <<>>]

IsAdded(e) == e.flags \cap AddFlags # {}

IsRemoved(e) == e.flags \cap RemoveFlags # {}

\* FindEntry: the last entry of the path, 0 if there is none.
FindEntry(list, path) ==
    LET found == {i \in DOMAIN list : list[i].path = path} IN
    IF found = {} THEN 0 ELSE CHOOSE i \in found : \A j \in found : j <= i

AddNewEntry(list, path) == Append(list, NewEntry(path))

\* The list that _GetEntry leaves, and the entry it returns.
WithEntry(list, path) ==
    IF FindEntry(list, path) = 0 THEN AddNewEntry(list, path) ELSE list

GetEntry(list, path) == LET l == WithEntry(list, path) IN l[FindEntry(l, path)]

\* The last entry of the path becomes e.
SetEntry(list, path, e) == [list EXCEPT ![FindEntry(list, path)] = e]

SetFlag(list, path, flag) ==
    LET l == WithEntry(list, path)
        e == GetEntry(l, path)
    IN SetEntry(l, path, [e EXCEPT !.flags = @ \cup {flag}])

EraseAt(list, i) == SubSeq(list, 1, i - 1) \o SubSeq(list, i + 1, Len(list))

-----------------------------------------------------------------------------
\* _MoveEntry: what is known of oldPath is moved over what is known of newPath.
\* An object that was created in this round, and not renamed yet, leaves an
\* empty entry behind.
MoveEntry(list, oldPath, newPath) ==
    LET i     == FindEntry(list, oldPath)
        moved == IF i = 0 THEN NewEntry(newPath) ELSE list[i]
        left  == IF i = 0 THEN list
                 ELSE IF IsAdded(moved) /\ moved.oldPath = NoPath
                 THEN [list EXCEPT ![i] = NewEntry(oldPath)]
                 ELSE EraseAt(list, i)
    IN SetEntry(WithEntry(left, newPath), newPath,
           [ moved EXCEPT !.path = newPath, !.flags = @ \cup {"didRename"},
                          !.oldPath = IF @ = NoPath THEN oldPath ELSE @ ])

\* Mutant: the record of a removal at the new path is overwritten.
DidChangeNameOver(list, oldPath, newPath) ==
    MoveEntry(WithEntry(list, newPath), oldPath, newPath)

\* DidChangePrimName, DidChangePropertyName
DidChangeName(list, oldPath, newPath) ==
    LET l == WithEntry(list, newPath) IN
    MoveEntry(IF IsRemoved(GetEntry(l, newPath)) THEN AddNewEntry(l, newPath) ELSE l,
              oldPath, newPath)

\* DidAddPrim, DidAddProperty
DidAdd(list, path, flag) ==
    LET l == WithEntry(list, path) IN
    SetFlag(IF IsRemoved(GetEntry(l, path)) THEN AddNewEntry(l, path) ELSE l, path, flag)

\* DidRemovePrim, DidRemoveProperty
DidRemove(list, path, flag) ==
    LET l == WithEntry(list, path) IN
    SetFlag(IF IsAdded(GetEntry(l, path)) THEN AddNewEntry(l, path) ELSE l, path, flag)

\* DidMovePrim
DidMovePrim(list, oldPath, newPath) ==
    LET l == DidAdd(DidRemove(list, oldPath, "didRemoveNonInertPrim"),
                    newPath, "didAddNonInertPrim")
    IN SetEntry(l, newPath, [GetEntry(l, newPath) EXCEPT !.oldPath = oldPath])

\* DidChangeInfo: the old value stays that of the first change.
DidChangeInfo(list, path, key, oldVal, newVal) ==
    LET l == WithEntry(list, path)
        e == GetEntry(l, path)
        info == [k \in DOMAIN e.info \cup {key} |->
                    IF k # key THEN e.info[k]
                    ELSE <<IF key \in DOMAIN e.info THEN e.info[key][1] ELSE oldVal, newVal>>]
    IN SetEntry(l, path, [e EXCEPT !.info = info])

-----------------------------------------------------------------------------
(* The record that Sdf_ChangeManager keeps of the edits of one layer in a  *)
(* change block (DidAddSpec, DidRemoveSpec, DidMoveSpec and                *)
(* DidChangeField of changeManager.cpp, on the change list of module       *)
(* ChangeList), beside the specs themselves, so that it can be compared    *)
(* with what became of them.                                               *)
(*                                                                         *)
(* The specs are the children of a few prims that stay: all prims, or all  *)
(* properties.  A spec has one field, and remembers which spec it was when *)
(* the block was opened.  A path is a parent and a name.                   *)

CONSTANTS
    Parent,
    Name,
    Value,        \* of the field, NoValue apart
    NoValue,
    InitialPath,  \* the specs there are when the block is opened
    MaxEdits      \* bound on the edits in the block

Path == Parent \X Name

Key == "field"

VARIABLES
    properties, \* whether the specs are properties, or prims
    specs,    \* the specs, in the order of the children
    list,     \* the change list
    edits     \* how many edits were made

vars == <<properties, specs, list, edits>>

Paths == {specs[i].path : i \in DOMAIN specs}

At(path) == CHOOSE i \in DOMAIN specs : specs[i].path = path

Edit == edits < MaxEdits /\ edits' = edits + 1 /\ UNCHANGED properties

\* DidAddSpec, when a spec is created after its siblings.
CreateSpec(path, inert) ==
    LET flag == IF properties
                THEN IF inert THEN "didAddPropertyWithOnlyRequiredFields" ELSE "didAddProperty"
                ELSE IF inert THEN "didAddInertPrim" ELSE "didAddNonInertPrim"
    IN
    /\ Edit
    /\ path \notin Paths
    /\ specs' = Append(specs, [path |-> path, origin |-> NoPath, value |-> NoValue])
    /\ list' = DidAdd(list, path, flag)

\* DidRemoveSpec
DeleteSpec(path, inert) ==
    LET flag == IF properties
                THEN IF inert THEN "didRemovePropertyWithOnlyRequiredFields"
                     ELSE "didRemoveProperty"
                ELSE IF inert THEN "didRemoveInertPrim" ELSE "didRemoveNonInertPrim"
    IN
    /\ Edit
    /\ path \in Paths
    /\ specs' = EraseAt(specs, At(path))
    /\ list' = DidRemove(list, path, flag)

\* DidMoveSpec under the same parent: the place among the siblings stays.
Rename(path, newPath) ==
    /\ Edit
    /\ path \in Paths /\ newPath \notin Paths
    /\ newPath[1] = path[1]
    /\ specs' = [specs EXCEPT ![At(path)].path = newPath]
    /\ list' = DidChangeName(list, path, newPath)

\* DidMoveSpec to another parent, after the children there: a removal and an
\* addition.
Reparent(path, newPath) ==
    /\ Edit
    /\ path \in Paths /\ newPath \notin Paths
    /\ newPath[1] # path[1]
    /\ specs' = Append(EraseAt(specs, At(path)),
                    [specs[At(path)] EXCEPT !.path = newPath, !.origin = NoPath])
    /\ list' = IF properties
               THEN DidAdd(DidRemove(list, path, "didRemoveProperty"),
                           newPath, "didAddProperty")
               ELSE DidMovePrim(list, path, newPath)

\* DidChangeField
SetField(path, value) ==
    /\ Edit
    /\ path \in Paths
    /\ specs[At(path)].value # value
    /\ specs' = [specs EXCEPT ![At(path)].value = value]
    /\ list' = DidChangeInfo(list, path, Key, specs[At(path)].value, value)

Init ==
    /\ properties \in BOOLEAN
    /\ \E order \in [1..Cardinality(InitialPath) -> InitialPath] :
          /\ Range(order) = InitialPath
          /\ specs = [i \in DOMAIN order |->
                         [path |-> order[i], origin |-> order[i], value |-> NoValue]]
    /\ list = <<>>
    /\ edits = 0

Next ==
    \E path \in Path :
        \/ \E inert \in BOOLEAN : CreateSpec(path, inert) \/ DeleteSpec(path, inert)
        \/ \E newPath \in Path : Rename(path, newPath) \/ Reparent(path, newPath)
        \/ \E value \in Value \cup {NoValue} : SetField(path, value)

Spec == Init /\ [][Next]_vars

-----------------------------------------------------------------------------
(* Properties                                                              *)

\* Every variable has its type.
TypeOK ==
    /\ properties \in BOOLEAN
    /\ \A i \in DOMAIN specs : specs[i] \in
          [path : Path, origin : Path \cup {NoPath}, value : Value \cup {NoValue}]
    /\ \A i \in DOMAIN list :
          /\ list[i].path \in Path
          /\ list[i].flags \subseteq AddFlags \cup RemoveFlags \cup {"didRename"}
          /\ list[i].oldPath \in Path \cup {NoPath}
          /\ DOMAIN list[i].info \subseteq {Key}
    /\ edits \in 0..MaxEdits

\* What an entry is about: an object created in the round (NoPath), or the one
\* at that path when the round began.
About(e) == IF IsAdded(e) THEN NoPath ELSE IF e.oldPath # NoPath THEN e.oldPath ELSE e.path

\* A listener finds out from the last entry of a path what is there now: a new
\* object, one that was there, or one that was somewhere else.
OriginsTold ==
    \A i \in DOMAIN specs :
        specs[i].origin =
            IF FindEntry(list, specs[i].path) = 0 THEN specs[i].path
            ELSE About(GetEntry(list, specs[i].path))

\* An object that was there when the round began and is gone has an entry that
\* tells of its removal, whatever came to its path afterwards.
RemovalsTold ==
    \A path \in InitialPath :
        \/ \E i \in DOMAIN specs : specs[i].origin = path
        \/ \E i \in DOMAIN list : IsRemoved(list[i]) /\ About(list[i]) = path

\* No entry leaves open whether an addition or a removal came first.
NoAmbiguity == \A i \in DOMAIN list : ~(IsAdded(list[i]) /\ IsRemoved(list[i]))

\* The entry of an object that was there before tells both values of its field,
\* the one it had when the round began and the one it has, however often both
\* the field and the path were changed.
ValuesTold ==
    \A i \in DOMAIN specs : specs[i].origin # NoPath =>
        LET n == FindEntry(list, specs[i].path) IN
        IF n # 0 /\ list[n].info # <<>>
        THEN list[n].info[Key] = <<NoValue, specs[i].value>>
        ELSE specs[i].value = NoValue

\* Where a replay of the list creates an object: at the empty entry that it left
\* behind when it was renamed, or at its own entry.
CreatedAt(path) ==
    LET n == FindEntry(list, path)
        m == FindEntry(list, list[n].oldPath)
    IN IF "didRename" \in list[n].flags /\ m # 0 /\ list[m].flags = {} THEN m ELSE n

\* "This is needed when replaying changes to create the prim at the right time":
\* a replay of the list creates siblings in the order in which they come.  It
\* does not hold: see the README.
CreationOrderTold ==
    \A i, j \in DOMAIN specs :
        /\ i < j
        /\ specs[i].path[1] = specs[j].path[1]
        /\ specs[i].origin = NoPath /\ specs[j].origin = NoPath
        => CreatedAt(specs[i].path) < CreatedAt(specs[j].path)

\* "Empty if didRename is not set": a path that an object had before is told
\* only of one that was renamed.  It does not hold: see the README.
OldPathIfRenamed ==
    \A i \in DOMAIN list : list[i].oldPath # NoPath => "didRename" \in list[i].flags

=============================================================================
