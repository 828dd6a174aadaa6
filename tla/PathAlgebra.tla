---------------------------- MODULE PathAlgebra ----------------------------
(***************************************************************************)
(* The operations of SdfPath (path.cpp, path.h) on paths as values.        *)
(*                                                                         *)
(* A path has the nodes of its prim part below a root, absolute or         *)
(* relative, and those of its property part.  A node is <<type, what>>     *)
(* with the types of Sdf_PathNode; names are numbers in the order of their *)
(* text, ".." is 0.  The empty path has no root.                           *)
(*                                                                         *)
(* KnownProperties are the names for which a property node exists already: *)
(* property nodes are shared by all prims, and when there is one the       *)
(* validity of the path is not looked at.                                  *)
(***************************************************************************)
EXTENDS Integers, Sequences, FiniteSets, SequencesExt

CONSTANT KnownProperties

Prim == 1
Variant == 2
PrimProperty == 3
Target == 4
RelationalAttribute == 5
Mapper == 6
MapperArg == 7
Expression == 8
DotDot == 0

PathOf(root, prim, prop) == [root |-> root, prim |-> prim, prop |-> prop]
Empty == PathOf("none", <<>>, <<>>)
AbsoluteRoot == PathOf("/", <<>>, <<>>)
ReflexiveRelative == PathOf(".", <<>>, <<>>)

NodeType(nodes) == IF nodes = <<>> THEN 0 ELSE Last(nodes)[1]
ElementCount(p) == Len(p.prim) + Len(p.prop)

IsAbsolutePath(p) == p.root = "/"
IsPrimPath(p) == p.prop = <<>> /\ (NodeType(p.prim) = Prim \/ p = ReflexiveRelative)
IsPrimVariantSelectionPath(p) == p.prop = <<>> /\ NodeType(p.prim) = Variant
IsAnchor(p) ==
    /\ IsAbsolutePath(p)
    /\ p = AbsoluteRoot \/ IsPrimPath(p) \/ IsPrimVariantSelectionPath(p)
IsPropertyPath(p) == NodeType(p.prop) \in {PrimProperty, RelationalAttribute}
ContainsTargetPath(p) == \E i \in DOMAIN p.prop : p.prop[i][1] \in {Target, Mapper}

\* What the parser accepts: a property is one of a prim, and a relative path that
\* is not empty has no selection before its first name.
WellFormed(p) ==
    /\ p.root = "none" => p = Empty
    /\ p.prop # <<>> => p.prim # <<>> \/ p.root = "."

-----------------------------------------------------------------------------
\* Going up.
GetParentPath(p) ==
    CASE p = Empty -> p
      [] p.prop # <<>> -> [p EXCEPT !.prop = Front(@)]
      [] p = AbsoluteRoot -> Empty
      [] p = ReflexiveRelative \/ (p.root = "." /\ Last(p.prim) = <<Prim, DotDot>>) ->
            [p EXCEPT !.prim = Append(@, <<Prim, DotDot>>)]
      [] OTHER -> [p EXCEPT !.prim = Front(@)]

\* Up to the last node of one of the types; the empty path when there is none.
UpTo(p, types) ==
    LET last == SelectLastInSeq(p.prim, LAMBDA node : node[1] \in types)
    IN  IF last = 0 THEN Empty ELSE PathOf(p.root, SubSeq(p.prim, 1, last), <<>>)
GetPrimPath(p) == UpTo(p, {Prim})
GetPrimOrPrimVariantSelectionPath(p) == UpTo(p, {Prim, Variant})

\* Down to the path itself; neither root is among the prefixes.
GetPrefixes(p) ==
    [i \in 1 .. ElementCount(p) |->
        IF i <= Len(p.prim) THEN PathOf(p.root, SubSeq(p.prim, 1, i), <<>>)
        ELSE [p EXCEPT !.prop = SubSeq(@, 1, i - Len(p.prim))]]

HasPrefix(p, prefix) ==
    /\ p # Empty /\ prefix # Empty
    /\ IF prefix.prop # <<>>
       THEN p.root = prefix.root /\ p.prim = prefix.prim /\ IsPrefix(prefix.prop, p.prop)
       ELSE p.root = prefix.root /\ IsPrefix(prefix.prim, p.prim)

-----------------------------------------------------------------------------
\* Going down.
AppendChild(p, name) ==
    CASE p.prop # <<>> \/ p = Empty -> Empty
      [] name = DotDot -> GetParentPath(p)
      [] OTHER -> [p EXCEPT !.prim = Append(@, <<Prim, name>>)]

AppendProperty(p, name) ==
    IF p.prop = <<>> /\ (name \in KnownProperties \/ IsPrimPath(p) \/ IsPrimVariantSelectionPath(p))
    THEN [p EXCEPT !.prop = <<<<PrimProperty, name>>>>]
    ELSE Empty

AppendVariantSelection(p, selection) ==
    IF IsPrimPath(p) \/ IsPrimVariantSelectionPath(p)
    THEN [p EXCEPT !.prim = Append(@, <<Variant, selection>>)]
    ELSE Empty

\* The nodes of the property part after the first.
AppendPropNode(p, node) ==
    LET allowed == CASE node[1] \in {Target, Mapper} -> IsPropertyPath(p) /\ node[2] # Empty
                     [] node[1] = RelationalAttribute -> NodeType(p.prop) = Target
                     [] node[1] = MapperArg -> NodeType(p.prop) = Mapper
                     [] OTHER -> IsPropertyPath(p)
    IN  IF allowed THEN [p EXCEPT !.prop = Append(@, node)] ELSE Empty

AppendNode(p, node) ==
    CASE node[1] = Prim -> AppendChild(p, node[2])
      [] node[1] = PrimProperty -> AppendProperty(p, node[2])
      [] node[1] = Variant -> AppendVariantSelection(p, node[2])
      [] OTHER -> AppendPropNode(p, node)
AppendNodes(p, nodes) == FoldLeft(AppendNode, p, nodes)

AppendPath(p, suffix) ==
    IF \/ p = Empty \/ suffix = Empty \/ IsAbsolutePath(suffix)
       \/ suffix # ReflexiveRelative /\ (p.prop # <<>>)
       \/ suffix # ReflexiveRelative /\ p = AbsoluteRoot /\ suffix.prim = <<>>
    THEN Empty
    ELSE AppendNodes(p, suffix.prim \o suffix.prop)

StripAllVariantSelections(p) ==
    [p EXCEPT !.prim = SelectSeq(@, LAMBDA node : node[1] # Variant)]

-----------------------------------------------------------------------------
\* Replacing prefixes.  The names below the prefix are put below the new one as they
\* are, ".." too, and then the property part, whatever came of the prim part.
PutNode(p, node) ==
    IF node[1] = Prim THEN [p EXCEPT !.prim = Append(@, node)] ELSE AppendNode(p, node)

PutBelow(p, old, new) ==
    [FoldLeft(PutNode, new, SubSeq(p.prim, Len(old.prim) + 1, Len(p.prim)))
        EXCEPT !.prop = p.prop]

\* Mutant: only the depth of the prefix is compared.
ReplacePrimPrefixByDepth(p, old, new) ==
    IF Len(p.prim) < Len(old.prim) THEN p ELSE PutBelow(p, old, new)

ReplacePrimPrefix(p, old, new) ==
    IF HasPrefix([p EXCEPT !.prop = <<>>], old) THEN PutBelow(p, old, new) ELSE p

RECURSIVE ReplacePrefix(_, _, _, _)

\* A node of which the path inside, when it is to be fixed, has its prefix replaced.
Fixed(node, old, new, fix) ==
    IF fix /\ node[1] \in {Target, Mapper}
    THEN <<node[1], ReplacePrefix(node[2], old, new, fix)>> ELSE node

ReplaceTargetPathPrefixes(p, old, new) ==
    IF ~ContainsTargetPath(p) THEN p
    ELSE AppendNodes([p EXCEPT !.prop = <<Head(@)>>],
                     [i \in 1 .. Len(p.prop) - 1 |-> Fixed(p.prop[i + 1], old, new, TRUE)])

ReplacePropPrefix(p, old, new, fix) ==
    LET tail == SubSeq(p.prop, Len(old.prop) + 1, Len(p.prop))
    IN  IF IsPrefix(old.prop, p.prop)
        THEN AppendNodes(new, [i \in DOMAIN tail |-> Fixed(tail[i], old, new, fix)])
        ELSE IF fix THEN ReplaceTargetPathPrefixes(p, old, new) ELSE p

ReplacePrefix(p, old, new, fix) ==
    CASE p = Empty \/ old = new -> p
      [] old = Empty \/ new = Empty -> Empty
      [] p = old -> new
      [] old.prop = <<>> ->
            LET replaced == ReplacePrimPrefix(p, old, new)
            IN  IF fix THEN ReplaceTargetPathPrefixes(replaced, old, new) ELSE replaced
      [] p.root = old.root /\ p.prim = old.prim /\ p.prop # <<>> ->
            ReplacePropPrefix(p, old, new, fix)
      [] OTHER -> IF fix THEN ReplaceTargetPathPrefixes(p, old, new) ELSE p

-----------------------------------------------------------------------------
\* What two paths share.
SharedLength(s, t) ==
    LET agree == {n \in 0 .. Len(s) : n <= Len(t) /\ SubSeq(s, 1, n) = SubSeq(t, 1, n)}
    IN  CHOOSE n \in agree : \A m \in agree : m <= n

GetCommonPrefix(p, q) ==
    CASE q = Empty \/ p.root # q.root -> Empty
      [] p.prop # <<>> /\ q.prop # <<>> /\ p.prim = q.prim ->
            [p EXCEPT !.prop = SubSeq(@, 1, SharedLength(p.prop, q.prop))]
      [] OTHER -> PathOf(p.root, SubSeq(p.prim, 1, SharedLength(p.prim, q.prim)), <<>>)

\* How many nodes to take off both ends, leaving at least so many.
SharedTail(s, t, keep) ==
    LET fits == {n \in 0 .. Len(s) :
                    /\ n = 0 \/ (Len(s) - n >= keep /\ Len(t) - n >= keep)
                    /\ \A i \in 0 .. n - 1 : s[Len(s) - i] = t[Len(t) - i]}
    IN  CHOOSE n \in fits : \A m \in fits : m <= n
Shorter(s, n) == SubSeq(s, 1, Len(s) - n)

RemoveCommonSuffix(p, q, stopAtRootPrim) ==
    LET n == SharedTail(p.prop, q.prop, 0)
        m == SharedTail(p.prim, q.prim, IF stopAtRootPrim THEN 1 ELSE 0)
    IN  IF p = Empty \/ q = Empty \/ (p.prop = <<>>) # (q.prop = <<>>) THEN <<p, q>>
        ELSE IF n < Len(p.prop) \/ n < Len(q.prop)
        THEN <<[p EXCEPT !.prop = Shorter(@, n)], [q EXCEPT !.prop = Shorter(@, n)]>>
        ELSE <<PathOf(p.root, Shorter(p.prim, m), <<>>), PathOf(q.root, Shorter(q.prim, m), <<>>)>>

-----------------------------------------------------------------------------
\* Absolute and relative forms.
RECURSIVE MakeAbsolutePath(_, _), ReplaceTargetPath(_, _)

ReplaceTargetPath(p, target) ==
    CASE p = Empty \/ target = Empty -> Empty
      [] NodeType(p.prop) \in {Target, Mapper} ->
            AppendPropNode(GetParentPath(p), <<NodeType(p.prop), target>>)
      [] NodeType(p.prop) \in {RelationalAttribute, MapperArg, Expression} ->
            AppendPropNode(ReplaceTargetPath(GetParentPath(p), target), Last(p.prop))
      [] OTHER -> p

GetTargetPath(p) ==
    LET last == SelectLastInSeq(p.prop, LAMBDA node : node[1] \in {Target, Mapper})
    IN  IF last = 0 THEN Empty ELSE p.prop[last][2]

MakeAbsolutePath(p, anchor) ==
    LET prim == IF IsAbsolutePath(p) THEN p ELSE AppendNodes(anchor, p.prim)
        whole == [prim EXCEPT !.prop = p.prop]
    IN  IF ~IsAnchor(anchor) \/ p = Empty \/ prim = Empty THEN Empty
        ELSE IF GetTargetPath(whole) = Empty THEN whole
        ELSE ReplaceTargetPath(whole, MakeAbsolutePath(GetTargetPath(whole), GetPrimPath(whole)))

MakeRelativePath(p, anchor) ==
    LET whole == IF IsAbsolutePath(p) THEN p ELSE MakeAbsolutePath(p, anchor)
        shared == SharedLength(whole.prim, anchor.prim)
        up == [i \in 1 .. Len(anchor.prim) - shared |-> <<Prim, DotDot>>]
        down == SubSeq(whole.prim, shared + 1, Len(whole.prim))
    IN  IF ~IsAnchor(anchor) \/ whole = Empty THEN Empty
        ELSE [AppendNodes(PathOf(".", up, <<>>), down) EXCEPT !.prop = whole.prop]

-----------------------------------------------------------------------------
\* The order of paths.  Mutant: of two paths the one with fewer nodes comes first.
RECURSIVE LessThan(_, _)

NodeLess(node, other) ==
    IF node[1] # other[1] THEN node[1] < other[1]
    ELSE CASE node[1] = Expression -> FALSE
           [] node[1] \in {Target, Mapper} -> LessThan(node[2], other[2])
           [] OTHER -> node[2] < other[2]

NodesLessByCount(s, t) ==
    \/ Len(s) < Len(t)
    \/ Len(s) = Len(t) /\ \E i \in DOMAIN s :
          SubSeq(s, 1, i - 1) = SubSeq(t, 1, i - 1) /\ NodeLess(s[i], t[i])

NodesLess(s, t) ==
    LET n == SharedLength(s, t)
    IN  IF n = Len(s) \/ n = Len(t) THEN Len(s) < Len(t)
        ELSE NodeLess(s[n + 1], t[n + 1])

LessThan(p, q) ==
    CASE p = Empty \/ q = Empty -> p = Empty /\ q # Empty
      [] p.root # q.root -> IsAbsolutePath(p)
      [] p.prim # q.prim -> NodesLess(p.prim, q.prim)
      [] OTHER -> NodesLess(p.prop, q.prop)

Sorted(paths) ==
    [i \in 1 .. Cardinality(paths) |->
        CHOOSE p \in paths : Cardinality({q \in paths : LessThan(q, p)}) = i - 1]

\* std::unique keeps a path unless the last one kept is a prefix of it, or, from the
\* other end, it is one of the last one kept.
RemoveDescendentPaths(paths) ==
    FoldLeft(LAMBDA kept, p : IF kept # <<>> /\ HasPrefix(p, Last(kept)) THEN kept
                              ELSE Append(kept, p),
             <<>>, Sorted(paths))
RemoveAncestorPaths(paths) ==
    FoldRight(LAMBDA p, kept : IF kept # <<>> /\ HasPrefix(Head(kept), p) THEN kept
                               ELSE <<p>> \o kept,
              Sorted(paths), <<>>)

\* The index of the first path of a range that is not before p.
LowerBound(range, p) ==
    LET at == SelectInSeq(range, LAMBDA q : ~LessThan(q, p))
    IN  IF at = 0 THEN Len(range) + 1 ELSE at

\* Indices of the first path with the prefix and of the first after them without.
SdfPathFindPrefixedRange(range, prefix) ==
    LET first == LowerBound(range, prefix)
        rest == SubSeq(range, first, Len(range))
        end == SelectInSeq(rest, LAMBDA q : ~HasPrefix(q, prefix))
    IN  <<first, IF end = 0 THEN Len(range) + 1 ELSE first + end - 1>>

\* The index of the longest prefix of p in the range, 0 when there is none.
RECURSIVE FindLongestPrefix(_, _, _)
FindLongestPrefix(range, p, strict) ==
    LET at == LowerBound(range, p)
    IN  CASE range = <<>> -> 0
          [] ~strict /\ at <= Len(range) /\ range[at] = p -> at
          [] at = 1 -> 0
          [] HasPrefix(p, range[at - 1]) -> at - 1
          [] OTHER -> FindLongestPrefix(SubSeq(range, 1, at - 1),
                                        GetCommonPrefix(p, range[at - 1]), FALSE)

-----------------------------------------------------------------------------
\* GetConciseRelativePaths: every prim is told by its path from the nearest ancestor
\* that tells it from the others.
Label(prim, anchor) == IF anchor = AbsoluteRoot THEN prim ELSE MakeRelativePath(prim, anchor)

Raised(prims, anchors, labels) ==
    [i \in DOMAIN prims |->
        IF \E j \in DOMAIN prims : labels[i] = labels[j] /\ prims[i] # prims[j]
        THEN GetParentPath(anchors[i]) ELSE anchors[i]]

RECURSIVE RaiseUntil(_, _, _)
RaiseUntil(prims, anchors, raised) ==
    IF raised = anchors THEN anchors
    ELSE RaiseUntil(prims, raised,
                    Raised(prims, raised, [i \in DOMAIN prims |-> Label(prims[i], raised[i])]))

Concise(paths, anchors) ==
    [i \in DOMAIN paths |-> IF anchors[i] = AbsoluteRoot THEN paths[i]
                            ELSE MakeRelativePath(paths[i], anchors[i])]

RaiseAnchors(prims) == RaiseUntil(prims, <<>>, [i \in DOMAIN prims |-> GetParentPath(prims[i])])

GetConciseRelativePaths(paths) ==
    IF \E i \in DOMAIN paths : ~IsAbsolutePath(paths[i]) THEN paths
    ELSE Concise(paths, RaiseAnchors([i \in DOMAIN paths |-> GetPrimPath(paths[i])]))

-----------------------------------------------------------------------------
\* What is under an anchor is found again from its relative form, which goes up no
\* more than any other path to it (MakeRelativePath, MakeAbsolutePath, path.h:804).
Ups(p) == Len(SelectSeq(p.prim, LAMBDA node : node = <<Prim, DotDot>>))
AnchoredBack(p, anchor) ==
    LET relative == MakeRelativePath(p, anchor)
        whole == MakeAbsolutePath(p, anchor)
    IN  IsAnchor(anchor) /\ whole # Empty /\ WellFormed(whole) =>
           /\ MakeAbsolutePath(relative, anchor) = MakeAbsolutePath(whole, anchor)
           /\ ~IsAbsolutePath(p) => Ups(relative) <= Ups(p)

\* A path whose prefix is replaced has the new one instead, and only that: replacing
\* back gives the path again (ReplacePrefix).
ReplacedBack(p, old, new) ==
    LET replaced == ReplacePrefix(p, old, new, FALSE)
    IN  /\ HasPrefix(p, old) /\ new # Empty /\ WellFormed(replaced) /\ replaced # Empty =>
              HasPrefix(replaced, new) /\ ReplacePrefix(replaced, new, old, FALSE) = p
        /\ ~HasPrefix(p, old) /\ old # Empty /\ new # Empty => replaced = p

\* The common prefix is a prefix of both, and every other such is one of it; what is
\* left of two paths without their common suffix gets them back with one tail
\* (GetCommonPrefix, RemoveCommonSuffix).
CommonParts(p, q, paths) ==
    LET common == GetCommonPrefix(p, q)
        left == RemoveCommonSuffix(p, q, FALSE)
    IN  /\ \A r \in paths : HasPrefix(p, r) /\ HasPrefix(q, r) => HasPrefix(common, r)
        /\ common # Empty => HasPrefix(p, common) /\ HasPrefix(q, common)
        /\ HasPrefix(p, left[1]) /\ HasPrefix(q, left[2])
        /\ SubSeq(p.prim \o p.prop, ElementCount(left[1]) + 1, ElementCount(p)) =
           SubSeq(q.prim \o q.prop, ElementCount(left[2]) + 1, ElementCount(q))

LongestRight(above, range, at) ==
    IF at = 0 THEN above = {}
    ELSE range[at] \in above /\ \A q \in above : HasPrefix(range[at], q)

SortedRight(paths, range, p) ==
    /\ LET bounds == SdfPathFindPrefixedRange(range, p) IN
       ToSet(SubSeq(range, bounds[1], bounds[2] - 1)) = {q \in paths : HasPrefix(q, p)}
    /\ \A strict \in BOOLEAN :
          LongestRight({q \in paths : HasPrefix(p, q) /\ (strict => q # p)}, range,
                       FindLongestPrefix(range, p, strict))

\* The searches in sorted ranges find what a search of all paths would, and pruning a
\* set leaves its topmost, or its deepest, paths (path.h:1145, RemoveDescendentPaths,
\* RemoveAncestorPaths).
SearchesRight(paths, range, asked) ==
    /\ \A p \in asked : SortedRight(paths, range, p)
    /\ ToSet(RemoveDescendentPaths(paths)) =
          {q \in paths : \A r \in paths \ {q} : ~HasPrefix(q, r)}
    /\ ToSet(RemoveAncestorPaths(paths)) =
          {q \in paths : \A r \in paths \ {q} : ~HasPrefix(r, q)}

\* Concise paths tell the paths apart, and lead to them (path.h:978).
TellsApart(concise, paths) ==
    \A i, j \in DOMAIN paths : paths[i] # paths[j] => concise[i] # concise[j]
ConciseUnique(paths) == TellsApart(GetConciseRelativePaths(paths), paths)

=============================================================================
