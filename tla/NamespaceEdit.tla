--------------------------- MODULE NamespaceEdit ---------------------------
(***************************************************************************)
(* Batch namespace edits: SdfBatchNamespaceEdit::Process checks each edit  *)
(* of a batch on a virtual namespace (namespaceEdit.cpp), and              *)
(* SdfLayer::Apply then does the edits of an accepted batch one after the  *)
(* other without looking again (layer.cpp, childrenUtils.cpp).             *)
(*                                                                         *)
(* A step takes the next edit through Process and, when it is accepted,    *)
(* does it in the layer too: Process asks about the layer as it was before *)
(* the batch, so the two may alternate.                                    *)
(*                                                                         *)
(* A path is the sequence of its names.  Names are numbers, in the order   *)
(* of paths; 0 is the name of a property, which sorts before child prims.  *)
(***************************************************************************)
EXTENDS Integers, Sequences, SequencesExt

CONSTANTS
    PrimName,       \* names of prims, numbers from 1
    MaxDepth,       \* bound on the length of paths
    MaxEdits,       \* bound on the edits of a batch
    EditIndex,      \* the indices edits ask for: Same, AtEnd or numbers from 0
    FirstChildren,  \* the layer to begin with: prim path -> names of its prims
    FirstProperties, \* and the properties it has
    NestedRemovals  \* whether a prim is removed that others were taken out of

Property == 0
AtEnd == -1
Same == -2
Removed == <<-1>>   \* the empty path: no place

Root == <<>>
PrimPath == UNION {[1 .. n -> PrimName] : n \in 1 .. MaxDepth}
PropertyPath == {Append(path, Property) : path \in {p \in PrimPath : Len(p) < MaxDepth}}
IsProperty(path) == path # Root /\ Last(path) = Property
HasPrefix(path, prefix) == IsPrefix(prefix, path)
ReplacePrefix(path, from, to) == to \o SubSeq(path, Len(from) + 1, Len(path))
AncestorsOf(path) == {SubSeq(path, 1, i) : i \in 0 .. Len(path)}

\* The order of SdfPath: ancestors first, then by the first name that differs.
AtMost(p, q) ==
    \/ HasPrefix(q, p)
    \/ \E i \in DOMAIN p \cap DOMAIN q :
          SubSeq(p, 1, i - 1) = SubSeq(q, 1, i - 1) /\ p[i] < q[i]

VARIABLES
    before,     \* the layer before the batch: prim path -> names of its prims
    properties, \* the properties the layer had then
    nodes,      \* the nodes of the virtual namespace: path -> original path
    deadspace,  \* _deadspace
    children,   \* the layer now: prim path -> names of its child prims
    origin,     \* the objects of the layer now: path -> path before the batch
    edits,      \* how many edits were processed
    refused     \* whether the batch was refused

vars == <<before, properties, nodes, deadspace, children, origin, edits, refused>>

-----------------------------------------------------------------------------
\* A map from paths of which a subtree moves, or goes.
Below(f, path) == {p \in DOMAIN f : HasPrefix(p, path)}
Cut(f, path) == [p \in DOMAIN f \ Below(f, path) |-> f[p]]
Graft(f, from, to) ==
    LET moved == {ReplacePrefix(p, from, to) : p \in Below(f, from)}
    IN  [p \in (DOMAIN f \ Below(f, from)) \cup moved |->
            IF p \in moved THEN f[ReplacePrefix(p, to, from)] ELSE f[p]]

\* The virtual namespace (SdfNamespaceEdit_Namespace).

\* _IsDeadspace: the last dead path that is not after this one is looked at alone.
IsDeadspace(path) ==
    \E dead \in deadspace :
       /\ AtMost(dead, path)
       /\ \A other \in deadspace : AtMost(other, path) => AtMost(other, dead)
       /\ HasPrefix(path, dead)

\* _UneditPath: down the nodes as far as they go.
Unedit(path) ==
    LET known == {prefix \in AncestorsOf(path) : AncestorsOf(prefix) \subseteq DOMAIN nodes}
        deepest == CHOOSE prefix \in known : \A other \in known : Len(other) <= Len(prefix)
    IN  ReplacePrefix(path, deepest, nodes[deepest])

\* GetOriginalPath.
OriginalPath(path) == IF IsDeadspace(path) THEN Removed ELSE Unedit(path)

\* _FindOrCreateNodeAtPath, for several paths.
WithNodes(paths) ==
    [p \in DOMAIN nodes \cup UNION {AncestorsOf(path) : path \in paths} |->
        IF p \in DOMAIN nodes THEN nodes[p] ELSE Unedit(p)]

\* Mutant: what is dead below a prim that moves stays where it is.
MoveDeadAlone(from, to) == (deadspace \cup {from}) \ {to}

\* _MoveDeadspaceDescendants, _AddDeadspace and _RemoveDeadspace, for a move.
MoveDead(from, to) ==
    LET below == {dead \in deadspace : HasPrefix(dead, from)}
    IN  (((deadspace \ below) \cup {ReplacePrefix(dead, from, to) : dead \in below})
            \cup {from}) \ {to}

-----------------------------------------------------------------------------
\* The layer before the batch, as _HasObjectAtPath and _CanEdit see it.
HasObject(path) == path \in DOMAIN before \cup properties

\* CanMoveChildForBatchNamespaceEdit, of the object now at from.
CanMove(from, to, index) ==
    \/ Front(from) = Front(to)
    \/ /\ ~HasPrefix(to, from)
       /\ IsProperty(from) \/ index <= Len(before[Front(to)])

\* The outcome of an edit in Process: it is passed over, refused, or done.
Passed(current, new, index) ==
    \/ IsDeadspace(current) /\ new = Removed
    \/ ~IsDeadspace(current) /\ HasObject(Unedit(current)) /\ new = current /\ index = Same

MayRemove(current) ==
    /\ ~IsDeadspace(current)
    /\ HasObject(Unedit(current))

MayMove(current, new, index) ==
    LET from == Unedit(current)
        parent == Front(new)
        there == OriginalPath(new)
    IN  /\ ~IsDeadspace(current) /\ HasObject(from)
        /\ ~IsDeadspace(parent) /\ HasObject(Unedit(parent))
        /\ IsProperty(current) = IsProperty(new)
        /\ new # current =>
              /\ ~HasPrefix(current, new) /\ ~HasPrefix(new, current)
              /\ there = Removed \/ ~HasObject(there)
              /\ new \notin DOMAIN nodes
        /\ CanMove(from, ReplacePrefix(new, parent, Unedit(parent)), index)

-----------------------------------------------------------------------------
\* _DoEdit, in the layer.

\* RemoveChildForBatchNamespaceEdit.
DoRemove(path) ==
    /\ origin' = Cut(origin, path)
    /\ children' = IF IsProperty(path) THEN children
                   ELSE Cut([children EXCEPT ![Front(path)] = RemoveFirst(@, Last(path))],
                            path)

\* MoveChildForBatchNamespaceEdit: where the name goes, counted from 0, given the
\* place it had in the same list, or 0.
InsertionIndex(names, place, index) ==
    LET wanted == IF index = Same /\ place # 0 THEN place - 1
                  ELSE IF index < 0 \/ index > Len(names) THEN Len(names)
                  ELSE index
    IN  IF place # 0 /\ place - 1 < wanted THEN wanted - 1 ELSE wanted

DoMove(from, to, index) ==
    LET names == children[Front(to)]
        place == IF Front(from) = Front(to) THEN SelectInSeq(names, LAMBDA n : n = Last(from))
                 ELSE 0
        left == [children EXCEPT ![Front(from)] = RemoveFirst(@, Last(from))]
        listed == [left EXCEPT ![Front(to)] =
                      InsertAt(@, InsertionIndex(names, place, index) + 1, Last(to))]
    IN  /\ origin' = Graft(origin, from, to)
        /\ children' = IF IsProperty(from) THEN children
                       ELSE IF from = to THEN listed
                       ELSE Graft(listed, from, to)

\* What the layer is asked for without looking: it must be there, and its place free.
Doable(current, new) ==
    /\ current \in DOMAIN origin
    /\ new # Removed => Front(new) \in DOMAIN children
    /\ new \notin {Removed, current} => new \notin DOMAIN origin

-----------------------------------------------------------------------------
Init ==
    /\ before = FirstChildren
    /\ properties = FirstProperties
    /\ nodes = [path \in {Root} |-> Root]
    /\ deadspace = {}
    /\ children = before
    /\ origin = [path \in DOMAIN before \cup properties |-> path]
    /\ edits = 0
    /\ refused = FALSE

EditPath == PrimPath \cup PropertyPath

Skip ==
    /\ ~\A current \in EditPath, new \in EditPath \cup {Removed}, index \in EditIndex :
           ~Passed(current, new, index)
    /\ UNCHANGED <<before, properties, nodes, deadspace, children, origin, refused>>

\* A batch with an edit that is not accepted is refused as a whole.
Refuse ==
    /\ ~\A current \in EditPath, new \in EditPath \cup {Removed}, index \in EditIndex :
           \/ Passed(current, new, index)
           \/ IF new = Removed THEN MayRemove(current) ELSE MayMove(current, new, index)
    /\ refused' = TRUE
    /\ UNCHANGED <<before, properties, nodes, deadspace, children, origin>>

RemoveObject(current) ==
    /\ MayRemove(current)
    /\ NestedRemovals \/ \A dead \in deadspace : ~HasPrefix(dead, current)
    /\ nodes' = Cut(WithNodes({current}), current)
    /\ deadspace' = deadspace \cup {current}
    /\ IF Doable(current, Removed) THEN DoRemove(current) ELSE UNCHANGED <<children, origin>>
    /\ UNCHANGED <<before, properties, refused>>

MoveObject(current, new, index) ==
    /\ ~Passed(current, new, index)
    /\ MayMove(current, new, index)
    /\ IF new = current
       THEN /\ nodes' = WithNodes({current})
            /\ UNCHANGED deadspace
       ELSE /\ nodes' = Graft(WithNodes({current, Front(new)}), current, new)
            /\ deadspace' = MoveDead(current, new)
    /\ IF Doable(current, new) THEN DoMove(current, new, index)
       ELSE UNCHANGED <<children, origin>>
    /\ UNCHANGED <<before, properties, refused>>

Next ==
    /\ ~refused
    /\ edits < MaxEdits
    /\ edits' = edits + 1
    /\ \/ Skip
       \/ Refuse
       \/ \E current \in EditPath : RemoveObject(current)
       \/ \E current \in {path \in EditPath : MayRemove(path)} :
          \E new \in EditPath, index \in EditIndex : MoveObject(current, new, index)

Spec == Init /\ [][Next]_vars

-----------------------------------------------------------------------------
\* The virtual namespace, on which edits are accepted, is the namespace the layer
\* has when it is their turn: at every path both have the same object, or none, so
\* that no accepted edit finds its object missing or its place taken (Process and
\* Apply).
NamespaceAgrees ==
    \A path \in PrimPath \cup PropertyPath \cup DOMAIN origin :
       LET known == OriginalPath(path)
       IN  IF path \in DOMAIN origin THEN known = origin[path] ELSE ~HasObject(known)

\* The children fields list every prim of the layer once, and nothing else
\* (MoveChildForBatchNamespaceEdit, RemoveChildForBatchNamespaceEdit).
ChildrenListed ==
    /\ DOMAIN children = {path \in DOMAIN origin : ~IsProperty(path)}
    /\ \A path \in DOMAIN children :
          /\ IsInjective(children[path])
          /\ {Append(path, name) : name \in ToSet(children[path])} =
                 {p \in DOMAIN children : Len(p) = Len(path) + 1 /\ HasPrefix(p, path)}

=============================================================================
