----------------------------- MODULE CopySpecs -----------------------------
(***************************************************************************)
(* Copying a spec with what is below it, in a layer or to another          *)
(* (SdfCopySpec, copyUtils.cpp).                                           *)
(*                                                                         *)
(* The worklist of the code reads the source and writes the destination    *)
(* spec by spec: the layers are a function, and when the source is the     *)
(* destination each entry reads what the entries before it wrote.  A third *)
(* layer is the temporary one that is made when the two overlap.           *)
(*                                                                         *)
(* Paths are those of LayerData, with targets below properties; a spec has *)
(* a type and fields; of a list op there are the items of one operation.   *)
(***************************************************************************)
EXTENDS LayerData

Temporary == 3
Nothing == <<>>                         \* the empty VtValue; others are <<value>>

Target(path) == <<"target", path>>
PathLists == {"targetPaths", "connectionPaths", "inheritPaths", "specializes"}
ArcLists == {"references", "payload"}
TargetKeys == {"targetChildren", "connectionChildren"}
ChildrenKeys == <<"primChildren", "properties", "variantSetChildren", "variantChildren",
                  "targetChildren", "connectionChildren">>

IsTarget(p) == p # Root /\ Last(p)[1] = "target"
ChildAt(p, key, name) == IF key \in TargetKeys THEN Append(p, Target(name)) ELSE ChildPath(p, key, name)
ChildrenKey(type) ==
    CASE type = "prim" -> "primChildren"
      [] type \in {"attribute", "relationship"} -> "properties"
      [] type = "variantSet" -> "variantSetChildren"
      [] type = "variant" -> "variantChildren"
      [] type = "target" -> "targetChildren"
      [] type = "connection" -> "connectionChildren"

\* Required fields show their fallbacks in every spec of the type.
Fallbacks(type) ==
    CASE type \in {"prim", "variant"} -> "specifier" :> "over"
      [] type \in {"attribute", "relationship"} -> "custom" :> FALSE
      [] OTHER -> <<>>
Fields(d, p) == IF p \in DOMAIN d THEN d[p].fields @@ Fallbacks(d[p].type) ELSE <<>>
Children(d, p, key) ==
    IF p \in DOMAIN d /\ key \in DOMAIN d[p].fields THEN d[p].fields[key] ELSE <<>>
ValueFields(d, p) == DOMAIN Fields(d, p) \ ToSet(ChildrenKeys)
FieldOf(d, p, field) == IF field \in DOMAIN Fields(d, p) THEN <<Fields(d, p)[field]>> ELSE Nothing

\* The path of the last prim on the way to p, and the prefix for which paths are fixed.
GetPrimPath(p) ==
    LET last == SelectLastInSeq(p, LAMBDA element : element[1] = "prim")
    IN  IF last = 0 THEN NoPath ELSE SubSeq(p, 1, last)
Prefix(p) == SelectSeq(GetPrimPath(p), LAMBDA element : element[1] # "sel")

\* SdfPath::ReplacePrefix, from and to being roots of the copy.
Moved(p, from, to) ==
    IF HasPrefix(p, Prefix(from)) THEN ReplacePrefix(p, Prefix(from), Prefix(to)) ELSE p

-----------------------------------------------------------------------------
(* Layers are changed by the calls that Sdf_ChildrenUtils and SdfLayer      *)
(* offer.                                                                   *)

\* All that a traversal from p meets, the variants of a set being beside it.
Below(p, q) ==
    \/ HasPrefix(q, p)
    \/ /\ Type(p) = "variantSet" /\ Len(q) >= Len(p) /\ HasPrefix(q, Front(p))
       /\ q[Len(p)][1] = "sel" /\ q[Len(p)][2] = Last(p)[2]

Without(fields, field) == Restrict(fields, DOMAIN fields \ {field})
WithFields(d, p, fields) == (p :> [type |-> d[p].type, fields |-> fields]) @@ d
SetChildren(d, p, key, names) ==
    WithFields(d, p, IF names = <<>> THEN Without(d[p].fields, key) ELSE (key :> names) @@ d[p].fields)

CreateSpec(d, p, type) ==
    (p :> [type |-> type, fields |-> <<>>])
    @@ SetChildren(d, ListedBy(p), ChildrenKey(type),
                   Append(Children(d, ListedBy(p), ChildrenKey(type)), NameToken(p)))
AddNewSpec(d, p, type) == IF p \in DOMAIN d THEN d ELSE CreateSpec(d, p, type)

RemoveSpec(d, p) ==
    LET key == ChildrenKey(d[p].type)
        names == SelectSeq(Children(d, ListedBy(p), key), LAMBDA name : name # NameToken(p))
    IN  IF p \notin DOMAIN d THEN d
        ELSE SetChildren(Restrict(d, {q \in DOMAIN d : ~Below(p, q)}), ListedBy(p), key, names)

SetField(d, p, field, value) ==
    IF FieldOf(d, p, field) = value THEN d
    ELSE WithFields(d, p, IF value = Nothing THEN Without(d[p].fields, field)
                          ELSE (field :> value[1]) @@ d[p].fields)

\* Sdf_UncheckedCreatePrimInLayer: every prim and variant on the way, with the sets.
CreateAncestor(d, p) ==
    IF Type(p) = "prim" THEN AddNewSpec(d, p, "prim")
    ELSE AddNewSpec(AddNewSpec(d, ListedBy(p), "variantSet"), p, "variant")
CreatePrimInLayer(d, p) == FoldLeft(CreateAncestor, d, [i \in DOMAIN p |-> SubSeq(p, 1, i)])

-----------------------------------------------------------------------------
(* What is copied of one spec (SdfShouldCopyValue, SdfShouldCopyChildren).  *)

\* SdfListOp::ModifyOperations drops the items that became equal to one before.
Distinct(items) ==
    FoldLeft(LAMBDA kept, item : IF Contains(kept, item) THEN kept ELSE Append(kept, item), <<>>, items)

\* References inside the layer follow, unless it is to a root prim they lead.
FixInternalSubrootPath(ref, from, to) ==
    IF ref.asset # "" \/ ref.prim = NoPath \/ Len(ref.prim) = 1 THEN ref
    ELSE [ref EXCEPT !.prim = Moved(@, from, to)]

CopiedValue(field, value, from, to) ==
    CASE field \in PathLists -> Distinct([i \in DOMAIN value |-> Moved(value[i], from, to)])
      [] field \in ArcLists ->
            Distinct([i \in DOMAIN value |-> FixInternalSubrootPath(value[i], from, to)])
      [] field = "relocates" -> {<<Moved(r[1], from, to), Moved(r[2], from, to)>> : r \in value}
      [] OTHER -> value

\* A field that only the destination has is erased.  e is an entry of the worklist, with
\* the path to copy and that to copy to; root is the first.
Copied(src, dst, e, fields, root) ==
    [f \in fields |-> LET value == FieldOf(src, e.from, f)
                      IN  IF value = Nothing THEN value
                          ELSE <<CopiedValue(f, value[1], root.from, root.to)>>]

\* What the specifier and the type name of the destination come from: a variant becomes
\* "over", a prim made from a variant is one like the prim that has the variant.
Special(src, dst, e, root) ==
    CASE src[e.from].type = "prim" /\ Type(e.to) = "variant" -> "specifier" :> <<"over">>
      [] src[e.from].type = "variant" /\ Type(e.to) = "prim" ->
            LET owner == [e EXCEPT !.from = GetPrimPath(@)]
            IN  Copied(src, dst, owner,
                       {"specifier", "typeName"}
                          \cap (ValueFields(src, owner.from) \cup ValueFields(dst, e.to)), root)
      [] OTHER -> <<>>
TypeToCopy(src, e) ==
    CASE src[e.from].type = "prim" /\ Type(e.to) = "variant" -> "variant"
      [] src[e.from].type = "variant" /\ Type(e.to) = "prim" -> "prim"
      [] OTHER -> src[e.from].type
DataToCopy(src, dst, e, root) ==
    LET all == ValueFields(src, e.from) \cup ValueFields(dst, e.to)
    IN  IF TypeToCopy(src, e) = src[e.from].type THEN Copied(src, dst, e, all, root)
        ELSE Special(src, dst, e, root) @@ Copied(src, dst, e, all \ {"specifier", "typeName"}, root)

CopyFields(dst, p, data) == FoldSet(LAMBDA f, d : SetField(d, p, f, data[f]), dst, DOMAIN data)

ChildrenToCopy(key, names, root) ==
    IF key \in TargetKeys THEN [i \in DOMAIN names |-> Moved(names[i], root.from, root.to)] ELSE names

\* Children to copy, and those of the destination that are not among them, to remove.
ProcessChildField(src, dst, e, key, root) ==
    LET names == Children(src, e.from, key)
        new == ChildrenToCopy(key, names, root)
        old == SelectSeq(Children(dst, e.to, key), LAMBDA name : ~Contains(new, name))
    IN  [i \in DOMAIN names |-> [from |-> ChildAt(e.from, key, names[i]), to |-> ChildAt(e.to, key, new[i])]]
        \o [i \in DOMAIN old |-> [from |-> NoPath, to |-> ChildAt(e.to, key, old[i])]]
ProcessChildren(src, dst, e, root) ==
    FoldLeft(LAMBDA queue, key : queue \o ProcessChildField(src, dst, e, key, root), <<>>, ChildrenKeys)

-----------------------------------------------------------------------------
(* The worklist, first in first out.                                        *)

CopyOne(layers, s, t, e, root) ==
    [layers EXCEPT ![t] = CopyFields(AddNewSpec(@, e.to, TypeToCopy(layers[s], e)), e.to,
                                     DataToCopy(layers[s], @, e, root))]

\* A step takes the first entry, and puts those for the children behind the others.
Removed(work, e) == [work EXCEPT !.layers[work.t] = RemoveSpec(@, e.to), !.queue = Tail(@)]
WithChildren(work, layers, e) ==
    [work EXCEPT !.layers = layers,
                 !.queue = Tail(@) \o ProcessChildren(layers[work.s], layers[work.t], e, work.root)]
Step(work, e) ==
    CASE e.from = NoPath -> Removed(work, e)
      [] e.from # NoPath /\ e.from \notin DOMAIN work.layers[work.s] ->
            [work EXCEPT !.done = FALSE, !.queue = <<>>]
      [] OTHER -> WithChildren(work, CopyOne(work.layers, work.s, work.t, e, work.root), e)

RECURSIVE RunCopies(_)
RunCopies(work) == IF work.queue = <<>> THEN work ELSE RunCopies(Step(work, Head(work.queue)))

\* A copy from s to t, unless one before it failed.
StartCopy(result, copy) ==
    IF ~result.done THEN result
    ELSE LET work == RunCopies([done |-> TRUE, layers |-> result.layers, s |-> copy.s, t |-> copy.t,
                                root |-> copy.root, queue |-> <<copy.root>>])
         IN  [done |-> work.done, layers |-> work.layers]
CopyAll(layers, copies) == FoldLeft(StartCopy, [done |-> TRUE, layers |-> layers], copies)

Kind(p) ==
    CASE Type(p) = "property" -> "property"
      [] IsTarget(p) -> "target"
      [] OTHER -> "prim"
Refused(layers, t, root) ==
    \/ Kind(root.from) # Kind(root.to)
    \/ IsTarget(root.to) /\ root.to \notin DOMAIN layers[t]

\* The source and the destination overlap: the prim of the source is copied aside before.
Overlap(s, t, root) == s = t /\ (HasPrefix(root.from, root.to) \/ HasPrefix(root.to, root.from))
SetAside(layers, prim) ==
    [layers EXCEPT ![Temporary] =
        CreatePrimInLayer(Root :> [type |-> "pseudoRoot", fields |-> <<>>], prim)]
FromTo(s, t, root) == [s |-> s, t |-> t, root |-> root]
Copies(s, t, root, prim) ==
    IF ~Overlap(s, t, root) THEN <<FromTo(s, t, root)>>
    ELSE <<FromTo(s, Temporary, [from |-> prim, to |-> prim]), FromTo(Temporary, t, root)>>

SdfCopySpec(layers, s, t, root) ==
    LET prim == GetPrimPath(root.from)
    IN  IF Refused(layers, t, root) \/ (Overlap(s, t, root) /\ prim = NoPath)
        THEN [done |-> FALSE, layers |-> layers]
        ELSE CopyAll(IF Overlap(s, t, root) THEN SetAside(layers, prim) ELSE layers,
                     Copies(s, t, root, prim))

-----------------------------------------------------------------------------
(* What copying promises (copyUtils.h:28-66).                               *)

\* The place of a spec in the copy: below the new root as it was below the old one, with
\* the targets in its path moved.
Image(q, root) ==
    LET n == Len(root.from)
        last == IF Type(root.from) = "variantSet" /\ q[n] # root.from[n]
                THEN Append(Front(root.to), Selection(Last(root.to)[2], q[n][3])) ELSE root.to
    IN  last \o [i \in 1 .. Len(q) - n |->
                    IF q[n + i][1] = "target" THEN Target(Moved(q[n + i][2], root.from, root.to))
                    ELSE q[n + i]]

\* A variant has no type name and is an "over"; a prim that was a variant is like the prim
\* that has the variant (copyUtils.h:47).
SpecialFields(src, root) ==
    LET owners == {p \in DOMAIN src : Type(p) = "prim" /\ HasPrefix(root.from, p)}
        owner == CHOOSE p \in owners : \A q \in owners : HasPrefix(p, q)
    IN  IF TypeToCopy(src, root) = "variant" THEN "specifier" :> "over"
        ELSE Restrict(Fields(src, owner), {"specifier", "typeName"} \cap DOMAIN Fields(src, owner))

ImageFields(src, q, root) ==
    LET d == src[q].fields
        special == IF q # root.from \/ TypeToCopy(src, root) = src[q].type THEN <<>> ELSE SpecialFields(src, root)
        kept == (DOMAIN d \ ToSet(ChildrenKeys)) \ (IF special = <<>> THEN {} ELSE {"specifier", "typeName"})
    IN  special @@ [f \in kept |-> CopiedValue(f, d[f], root.from, root.to)]

\* Paths in the copy to what was copied lead into the copy (copyUtils.h:50).
LinksFollow(src, after, q, root) ==
    \A f \in PathLists \cap DOMAIN src[q].fields : \A path \in ToSet(src[q].fields[f]) :
        Type(root.from) = "prim" /\ Prefix(root.from) = root.from /\ Prefix(root.to) = root.to
        /\ path \in DOMAIN src /\ HasPrefix(path, root.from)
        => Contains(after[Image(q, root)].fields[f], Image(path, root))

\* Children that were there stay in their places, the others follow as in the source.
ImageChildren(src, dst, q, key, root) ==
    LET new == ChildrenToCopy(key, Children(src, q, key), root)
        old == SelectSeq(Children(dst, Image(q, root), key), LAMBDA name : Contains(new, name))
    IN  old \o SelectSeq(new, LAMBDA name : ~Contains(old, name))

SameFields(d, p, fields) ==
    LET shown == Fields(d, p)
        wanted == fields @@ Fallbacks(d[p].type)
    IN  Restrict(shown, ValueFields(d, p)) = wanted

\* Of the types that a spec can be copied to: what is at the destination, or would be there.
Fits(src, dst, root) ==
    /\ root.from \in DOMAIN src /\ Kind(root.from) = Kind(root.to)
    /\ (Type(root.from) = "variantSet") = (Type(root.to) = "variantSet")
    /\ (root.from = Root) = (root.to = Root)
    /\ root.to # Root => ListedBy(root.to) \in DOMAIN dst
    /\ \A q \in DOMAIN src : Below(root.from, q) /\ Image(q, root) \in DOMAIN dst =>
          q = root.from \/ dst[Image(q, root)].type = src[q].type
    /\ root.to \in DOMAIN dst => dst[root.to].type = TypeToCopy(src, root)
\* No two targets of a property become one.
TargetsStayApart(src, root) ==
    \A p, q \in {q \in DOMAIN src : Below(root.from, q)} : Image(p, root) = Image(q, root) => p = q

\* The destination is as the source was before the copy, overlapping or not, with paths
\* that lead into it, and nothing else changed but that its parent lists it.
CopyDone(src, dst, after, root) ==
    LET copied == {q \in DOMAIN src : Below(root.from, q)}
        rest == {q \in DOMAIN dst : ~Below(root.to, q)}
    IN  /\ DOMAIN after = rest \cup {Image(q, root) : q \in copied}
        /\ \A q \in copied :
              LET p == Image(q, root)
              IN  /\ after[p].type = IF q = root.from THEN TypeToCopy(src, root) ELSE src[q].type
                  /\ SameFields(after, p, ImageFields(src, q, root)) /\ LinksFollow(src, after, q, root)
                  /\ \A i \in DOMAIN ChildrenKeys :
                        Children(after, p, ChildrenKeys[i]) = ImageChildren(src, dst, q, ChildrenKeys[i], root)
        /\ \A p \in rest :
              after[p] = IF root.to # Root /\ p = ListedBy(root.to) /\ root.to \notin DOMAIN dst
                         THEN AddNewSpec(dst, root.to, TypeToCopy(src, root))[p] ELSE dst[p]

CopiedRight(layers, s, t, root) ==
    LET r == SdfCopySpec(layers, s, t, root)
    IN  Fits(layers[s], layers[t], root) /\ TargetsStayApart(layers[s], root) =>
           IF Refused(layers, t, root) \/ (s = t /\ root.from = Root)
           THEN ~r.done /\ r.layers = layers
           ELSE /\ r.done /\ CopyDone(layers[s], layers[t], r.layers[t], root)
                /\ \A other \in DOMAIN layers \ {t, Temporary} : r.layers[other] = layers[other]

=============================================================================
