---------------------------- MODULE MCAlgorithms ----------------------------
(***************************************************************************)
(* What the pure parts of the library compute, over bounded inputs: a      *)
(* state holds an input, chosen in one step or two, and the invariants     *)
(* apply the laws of each part to its inputs.                              *)
(***************************************************************************)
EXTENDS Integers, Sequences, FiniteSets, SequencesExt

VARIABLE in

Lists == INSTANCE ListOps
Paths == INSTANCE PathText WITH KnownProperties <- {1}
KnownTypes == {"prim", "attribute"}
KnownFields == {"specifier", "custom", "typeName", "properties", "info", "timeSamples"}
Fields == INSTANCE LayerFields
File == INSTANCE TextFile
Splines == INSTANCE TextSplines
Value == INSTANCE TextValues
Crate == INSTANCE CrateFile
Match == INSTANCE PathMatching WITH KnownProperties <- {1}
Copy == INSTANCE CopySpecs
Variable == INSTANCE VariableExpressions
Arrays == INSTANCE CrateArrays WITH SmallBits <- 2, MediumBits <- 3, LargeBits <- 4,
    MinCompressedArraySize <- 4, LutShare <- 2

-----------------------------------------------------------------------------
(* Paths: two names of prims, variants, parents, and each kind of property  *)
(* path below a few prim paths.                                             *)

PrimNode(n) == <<Paths!Prim, n>>
VariantNode == <<Paths!Variant, 1>>
Up == PrimNode(0)
AbsolutePrims ==
    LET last == {PrimNode(1), PrimNode(2), VariantNode}
    IN  {<<>>} \cup {<<PrimNode(n)>> : n \in 1..2}
        \cup {<<PrimNode(n), node>> : n \in 1..2, node \in last}
        \cup {<<PrimNode(1), VariantNode, PrimNode(1)>>,
              <<PrimNode(1), PrimNode(1), PrimNode(2)>>}
RelativePrims ==
    {<<>>, <<Up>>, <<Up, Up>>, <<PrimNode(1)>>, <<Up, PrimNode(1)>>, <<Up, Up, PrimNode(1)>>,
     <<PrimNode(1), VariantNode>>}
AbsolutePaths == {Paths!PathOf("/", nodes, <<>>) : nodes \in AbsolutePrims}
RelativePaths == {Paths!PathOf(".", nodes, <<>>) : nodes \in RelativePrims}
PropertyNode == <<Paths!PrimProperty, 1>>
First == Paths!PathOf("/", <<PrimNode(1)>>, <<>>)
TargetPaths ==
    {First, [First EXCEPT !.prop = <<PropertyNode>>], Paths!PathOf(".", <<Up>>, <<>>),
     [First EXCEPT !.prop = <<PropertyNode,
                              <<Paths!Mapper, Paths!PathOf(".", <<PrimNode(1)>>, <<>>)>>>>]}
PropertyParts ==
    {<<PropertyNode>>, <<PropertyNode, <<Paths!Expression, 0>>>>}
    \cup {<<PropertyNode, <<kind, t>>>> : kind \in {Paths!Target, Paths!Mapper}, t \in TargetPaths}
    \cup {<<PropertyNode, <<Paths!Target, t>>, <<Paths!RelationalAttribute, 1>>>> : t \in TargetPaths}
PropertyOwners ==
    {Paths!PathOf("/", nodes, <<>>) : nodes \in
        {<<PrimNode(1)>>, <<PrimNode(1), PrimNode(1)>>, <<PrimNode(1), VariantNode>>}}
    \cup {Paths!PathOf(".", nodes, <<>>) : nodes \in {<<>>, <<Up>>, <<PrimNode(1)>>}}
AllPaths == AbsolutePaths \cup RelativePaths
            \cup {[p EXCEPT !.prop = part] : p \in PropertyOwners, part \in PropertyParts}
\* Where ranges are looked for.
Ranged ==
    {Paths!AbsoluteRoot, First, [First EXCEPT !.prop = <<PropertyNode>>],
     [First EXCEPT !.prop = <<PropertyNode, <<Paths!Target, First>>>>],
     Paths!PathOf("/", <<PrimNode(1), PrimNode(1)>>, <<>>),
     Paths!PathOf("/", <<PrimNode(1), PrimNode(2)>>, <<PropertyNode>>),
     Paths!PathOf("/", <<PrimNode(1), VariantNode>>, <<>>),
     Paths!PathOf("/", <<PrimNode(2), PrimNode(1)>>, <<>>),
     Paths!PathOf(".", <<PrimNode(1)>>, <<>>)}

PathInputs ==
    \/ in.k = "start" /\ \E p \in AllPaths : in' = [k |-> "path", p |-> p]
    \/ in.k = "path" /\ \E q \in AllPaths : in' = [k |-> "paths", p |-> in.p, q |-> q]
    \/ in.k = "start" /\ \E s \in SUBSET Ranged : in' = [k |-> "range", s |-> s]

\* Relative paths are anchored back, replaced prefixes are put back, common prefixes and
\* suffixes are those of both paths (path.cpp).
PathPairs == in.k = "paths" =>
    /\ Paths!AnchoredBack(in.p, in.q)
    /\ \A r \in AbsolutePaths \cup RelativePaths : Paths!ReplacedBack(in.p, in.q, r)
    /\ Paths!CommonParts(in.p, in.q, AbsolutePaths \cup RelativePaths)
PathRanges == in.k = "range" =>
    /\ Paths!SearchesRight(in.s, Paths!Sorted(in.s), AllPaths)
    /\ in.s # {} => Paths!ConciseUnique(Paths!Sorted(in.s))

-----------------------------------------------------------------------------
(* Names of up to five characters, of which 0 is the namespace delimiter    *)
(* and 3 cannot start a name.                                               *)

Namespaces == {<<>>, <<1>>, <<1, 0>>, <<1, 1>>, <<1, 0, 1>>, <<1, 2>>}
Words3 == UNION {[1..n -> 0..3] : n \in 0..3}
Words2 == UNION {[1..n -> 0..3] : n \in 0..2}
NameInputs ==
    \/ in.k = "start" /\ \E word \in Words3 : in' = [k |-> "word", w |-> word]
    \/ in.k = "word" /\ Len(in.w) = 3 /\ \E rest \in Words2 \ {<<>>} :
          in' = [k |-> "word", w |-> in.w \o rest]

\* What the path operations make of two paths fits together, the searches in sorted ranges
\* find what a look at every path finds, a path that the writer can write is read back from
\* its text, and names are taken apart and joined again (path.cpp, pathParser).
PathsRight ==
    /\ PathPairs /\ PathRanges
    /\ in.k = "path" => Paths!TextComesBack(in.p)
    /\ in.k = "word" => \A namespace \in Namespaces : Paths!NamesComeBack(in.w, namespace)

-----------------------------------------------------------------------------
(* List ops over three items.                                               *)

NoOp == Lists!NewListOp
ItemLists(items, n) == {s \in UNION {[1..k -> items] : k \in 0..n} : IsInjective(s)}
Simple == {Lists!SetItems(NoOp, s, "explicit") : s \in ItemLists({1, 2, 3}, 2)}
          \cup {Lists!Create(a, b, c) : a \in ItemLists({1, 2}, 2), b \in ItemLists({2, 3}, 2),
                    c \in ItemLists({1, 3}, 1)}
Ops == Simple \cup {[op EXCEPT !.items["added"] = a, !.items["ordered"] = b] :
                       op \in {op \in Simple : ~op.explicit}, a \in {<<>>, <<3>>},
                       b \in {<<3, 1>>, <<2, 1>>}}
Edited == {<<>>, <<1>>, <<3, 2>>, <<2, 1, 3>>, <<4, 3, 1, 2>>}
Orders == ItemLists(1..4, 4)

ListInputs ==
    \/ in.k = "start" /\ \E op \in Ops : in' = [k |-> "listOp", op |-> op]
    \/ in.k = "listOp" /\ in.op \in Simple /\ \E op \in Simple : in' = [k |-> "listOps", op |-> in.op, inner |-> op]
    \/ in.k = "start" /\ \E s \in Orders : in' = [k |-> "order", s |-> s]

\* A composed list op does what its two parts do, an order keeps together what follows the
\* items it names, and renamed items are renamed in the result (listOp.cpp).
ListsRight ==
    /\ in.k = "listOps" => \A s \in Edited : Lists!ComposedRight(in.op, in.inner, s)
    /\ in.k = "order" => \A order \in Orders : Lists!ReorderedRight(in.s, order)
    /\ in.k = "listOp" => \A s \in {<<3, 2>>, <<4, 3, 1, 2>>}, f \in {<<2, 3, 1, 4>>, <<5, 4, 3, 1>>} :
          Lists!RenamedRight(in.op, s, f)

-----------------------------------------------------------------------------
(* Layer data with a prim, perhaps a property, and a few fields each.       *)

One(f, values) == {<<>>} \cup {f :> value : value \in values}
Merged(fs, gs) == {f @@ g : f \in fs, g \in gs}
Dict == 1 :> 1
SpecOf(type, fields) == [type |-> type, fields |-> fields]
PrimFields == Merged(One("specifier", {Fields!Plain(0), Fields!Plain(1)}),
                     One("info", {Dict, Fields!Plain(5)}))
PropertySpecs ==
    {SpecOf("attribute", f) : f \in Merged(One("custom", {Fields!Plain(0), Fields!Plain(1)}),
                                           One("timeSamples", {2 :> 1}))}
    \cup {SpecOf("relationship", f) : f \in One("custom", {Fields!Plain(1)})}
Listing == Fields!Children :> Fields!Plain(1)
LayerDatas ==
    {<<>>} \cup {Fields!Prim :> SpecOf("prim", f) : f \in PrimFields}
    \cup {(Fields!Prim :> SpecOf("prim", Listing @@ f)) @@ (Fields!Property :> property) :
              f \in PrimFields, property \in PropertySpecs}
Alien(d) == IF Fields!Prim \in DOMAIN d
            THEN [d EXCEPT ![Fields!Prim].fields = ("alien" :> Fields!Plain(1)) @@ @] ELSE d

FieldInputs ==
    \/ in.k = "start" /\ \E d \in LayerDatas : in' = [k |-> "data", d |-> d]
    \/ in.k = "data" /\ \E n \in LayerDatas : in' = [k |-> "datas", d |-> in.d, n |-> n]
    \/ in.k = "start" /\ \E ts \in SUBSET {2, 4, 6, 8} : in' = [k |-> "times", ts |-> ts]

EditsTold == in.k = "data" =>
    \A p \in {Fields!Prim, Fields!Property}, asValue \in BOOLEAN :
        /\ \A f \in {"specifier", "custom", "info", "timeSamples"},
              value \in {Fields!NoValue, Fields!Plain(0), Fields!Plain(1), Dict} :
              Fields!ToldRight(in.d, Fields!SetField(in.d, p, f, value, asValue))
        /\ \A key \in 1..2, value \in {Fields!NoValue, Fields!Plain(1), Fields!Plain(2)} :
              Fields!ToldRight(in.d, Fields!SetFieldDictValueByKey(in.d, p, "info", key, value))
        /\ \A t \in {2, 4} :
              /\ Fields!ToldRight(in.d, Fields!SetTimeSample(in.d, p, t, Fields!Plain(2), asValue))
              /\ Fields!ToldRight(in.d, Fields!EraseTimeSample(in.d, p, t))
DatasTransferred == in.k = "datas" =>
    /\ Fields!TransferRight(in.d, in.n, FALSE)
    /\ (\A p \in DOMAIN in.d : in.d[p].type \in KnownTypes) =>
          Fields!TransferRight(in.d, Alien(in.n), TRUE)
    /\ (\A p \in DOMAIN in.d \cap DOMAIN in.n : in.d[p].type = in.n[p].type) =>
          Fields!DiffRight(in.d, in.n)

-----------------------------------------------------------------------------
(* Layers of two prims, one with a child, a relationship, an attribute and  *)
(* a variant set, or without, to copy from and to.                          *)

NamedPrim(n) == Copy!Prim(n)
PA == <<NamedPrim("A")>>
PC == <<NamedPrim("C")>>
PB == Append(PA, NamedPrim("B"))
VariantAt(p, name) == Append(p, Copy!Selection("s", name))
SV == VariantAt(PA, "v")
Inside(p, name) == Append(p, Copy!Prop(name))
RefTo(asset, prim) == [asset |-> asset, prim |-> prim]
Blocks ==
    [child |-> <<<<PB, "prim", [specifier |-> "def"]>>, <<Inside(PB, "x"), "attribute", [custom |-> TRUE]>>>>,
     rel |-> <<<<Inside(PA, "r"), "relationship", [custom |-> TRUE, targetPaths |-> <<PB, PC>>]>>,
               <<Append(Inside(PA, "r"), Copy!Target(PB)), "target", [info |-> 1]>>,
               <<Append(Inside(PA, "r"), Copy!Target(PC)), "target", <<>>>>>>,
     attr |-> <<<<Inside(PA, "x"), "attribute", [info |-> 2, connectionPaths |-> <<Inside(PB, "x")>>]>>,
                <<Append(Inside(PA, "x"), Copy!Target(Inside(PB, "x"))), "connection", <<>>>>>>,
     set |-> <<<<VariantAt(PA, ""), "variantSet", <<>>>>, <<SV, "variant", [info |-> 3]>>,
               <<VariantAt(PA, "w"), "variant", [kind |-> "w"]>>,
               <<Append(SV, NamedPrim("B")), "prim", [specializes |-> <<PB, PA>>]>>>>,
     other |-> <<<<PC, "prim", [specifier |-> "class", relocates |-> {<<PB, PC>>}]>>,
                 <<Inside(PC, "r"), "relationship", [targetPaths |-> <<PA>>]>>,
                 <<Append(Inside(PC, "r"), Copy!Target(PA)), "target", <<>>>>,
                 <<VariantAt(PC, ""), "variantSet", <<>>>>, <<VariantAt(PC, "w"), "variant", <<>>>>>>]
ThePrim ==
    <<PA, "prim", [specifier |-> "def", typeName |-> "X", inheritPaths |-> <<PB, PC>>,
                   references |-> <<RefTo("", PB), RefTo("a", PB), RefTo("", PC)>>]>>
WithSpec(d, spec) == [Copy!CreateSpec(d, spec[1], spec[2]) EXCEPT ![spec[1]].fields = spec[3]]
LayerOf(first, names) ==
    FoldLeft(WithSpec, Copy!Root :> [type |-> "pseudoRoot", fields |-> <<>>],
             <<first>> \o FlattenSeq([i \in DOMAIN names |-> Blocks[names[i]]]))
BlockNames == <<"child", "rel", "attr", "set", "other">>
AllLayers == {LayerOf(ThePrim, SelectSeq(BlockNames, LAMBDA name : name \in names)) : names \in SUBSET ToSet(BlockNames)}
OtherLayers ==
    {LayerOf(<<PA, "prim", [info |-> 4, kind |-> "k"]>>, names) :
         names \in {<<>>, <<"child">>, <<"set", "child">>, <<"rel", "attr">>, <<"other", "set">>,
                    <<"attr", "rel", "set", "other", "child">>}}
NewPlaces ==
    {<<NamedPrim("D")>>, Append(PB, NamedPrim("D")), VariantAt(PA, "n"), Append(SV, NamedPrim("D")),
     Inside(PA, "n"), Inside(PC, "x"), Append(PA, Copy!Selection("t", "")), <<>>}
CopyInputs ==
    \/ in.k = "start" /\ \E d \in AllLayers : in' = [k |-> "copy", layers |-> <<d, d, <<>>>>, t |-> 1]
    \/ in.k = "copy" /\ in.t = 1 /\ \E d \in OtherLayers : in' = [in EXCEPT !.layers[2] = d, !.t = 2]

SpecsCopied == in.k = "copy" =>
    \A from \in DOMAIN in.layers[1], to \in DOMAIN in.layers[in.t] \cup NewPlaces :
        Copy!CopiedRight(in.layers, 1, in.t, [from |-> from, to |-> to])

\* Listeners are told what an edit of a field, a transfer of content or a computed
\* difference changes, and no more; samples are found around a time; a copy of a spec is as
\* the source was, with paths that lead into it (layer.cpp, data.cpp, copyUtils.cpp).
FieldsRight ==
    /\ EditsTold /\ DatasTransferred /\ SpecsCopied
    /\ in.k = "times" => \A t \in 0..10 : Fields!SamplesRight(in.ts, t)

-----------------------------------------------------------------------------
(* Layers to write and to read: every kind of metadata twice, in prims, in  *)
(* variants and at the root, attributes, relationships, variant sets,       *)
(* sublayers and relocates.                                                 *)

P == File!Child(File!Root, 1)
V == File!Variant(P, 1, 1)
A == File!Property(P, 1)
R == File!Property(P, 2)
Q == File!Child(File!Root, 2)

Edits(items) == [explicit |-> FALSE, items |-> items @@ Lists!NoItems]
Explicit(items) == [explicit |-> TRUE, items |-> ("explicit" :> items) @@ Lists!NoItems]
OpsOf(x, y) ==
    {Explicit(<<>>), Explicit(<<x>>), Explicit(<<y, x>>), Edits("prepended" :> <<x>>),
     Edits("deleted" :> <<y, x>> @@ "added" :> <<x>>),
     Edits("deleted" :> <<x>> @@ "added" :> <<y>> @@ "prepended" :> <<x, y>>
              @@ "appended" :> <<y>> @@ "ordered" :> <<y, x>>)}
ReferenceTo(asset, prim, offset, data) ==
    [asset |-> asset, prim |-> prim, offset |-> offset, customData |-> data]
RefA == ReferenceTo("a", "/P", <<5, 2>>, "k" :> 1)
RefB == ReferenceTo("b", "", File!Identity, <<>>)
RefC == ReferenceTo("", "/P", <<0, 3>>, <<>>)
PayloadOf(r) == [asset |-> r.asset, prim |-> r.prim, offset |-> r.offset]

MetadataOf(p) ==
    {<<"comment", "c">>, <<"documentation", "d">>, <<"documentation", "">>, <<"kind", "k">>,
     <<"permission", "private">>, <<"symmetryFunction", "">>, <<"symmetryFunction", "s">>,
     <<"active", <<"plain", 1>>>>, <<"customData", <<"dict", "k" :> 1>>>>,
     <<"alien", <<"plain", 2>>>>, <<"alien", <<"dict", "k" :> 1>>>>,
     <<"alien", <<"listOp", Edits("prepended" :> <<<<7>>>>)>>>>,
     <<"alien", <<"listOp", Edits("deleted" :> <<<<7>>>> @@ "appended" :> <<<<8>>>>)>>>>,
     <<"prefixSubstitutions", "k" :> 1>>, <<"variantSelection", 1 :> 2>>,
     <<"relocates", {<<File!Child(p, 1), File!Child(p, 2)>>}>>}
    \cup {<<"apiSchemas", op>> : op \in OpsOf(1, 2)}
    \cup {<<"references", op>> : op \in OpsOf(RefA, RefB) \cup OpsOf(RefC, RefA)}
    \cup {<<"payload", op>> : op \in OpsOf(PayloadOf(RefA), PayloadOf(RefC))}
    \cup {<<field, op>> : field \in {"inheritPaths", "specializes"}, op \in OpsOf("/P", "/Q")}
OfRoot == {"comment", "documentation", "customData", "alien", "apiSchemas"}
OfProperties == OfRoot \cup {"permission", "symmetryFunction", "active"}

PrimOf(fields) == SpecOf("prim", fields)
RootOf(fields) == File!Root :> SpecOf("pseudoRoot", fields)
APrim == [specifier |-> "def", typeName |-> "X"]
OnePrim == RootOf([primChildren |-> <<1>>])
Two(c, d) == (c[1] :> c[2]) @@ (d[1] :> d[2])

PrimWith(c, d) == (P :> PrimOf(APrim @@ Two(c, d))) @@ OnePrim
VariantWith(c, d) ==
    (P :> PrimOf(APrim @@ [variantSetChildren |-> <<1>>]))
    @@ (File!Variant(P, 1, File!None) :> SpecOf("variantSet", [variantChildren |-> <<2, 1>>]))
    @@ (V :> SpecOf("variant", Two(c, d) @@ [primChildren |-> <<1>>]))
    @@ (File!Child(V, 1) :> PrimOf([specifier |-> "over"]))
    @@ (File!Variant(P, 1, 2) :> SpecOf("variant", <<>>)) @@ OnePrim
RootWith(c, d) == RootOf(Two(c, d) @@ [primChildren |-> <<1>>]) @@ (P :> PrimOf(APrim))

\* The items that have target specs in the layers below: the explicit and the added ones.
\* The editors make specs for prepended and appended items too (connectionListEditor.cpp:42),
\* which a text does not bring back.
Made(op) == IF op.explicit THEN op.items["explicit"] ELSE op.items["added"]
Linked(field, children, op) == IF op = NoOp THEN <<>> ELSE (field :> op) @@ (children :> Made(op))
TargetsOf(p, op, type) == [q \in {File!Target(p, t) : t \in ToSet(Made(op))} |-> SpecOf(type, <<>>)]
Attr(custom, variability, rest, op) ==
    (A :> SpecOf("attribute", [custom |-> custom, variability |-> variability, typeName |-> "t"]
                     @@ Linked("connectionPaths", "connectionChildren", op) @@ rest))
    @@ TargetsOf(A, op, "connection")
Rel(custom, variability, rest, op) ==
    (R :> SpecOf("relationship", (IF custom THEN "custom" :> TRUE ELSE <<>>)
                     @@ [variability |-> variability]
                     @@ Linked("targetPaths", "targetChildren", op) @@ rest))
    @@ TargetsOf(R, op, "target")
PropertyOps == {NoOp} \cup OpsOf(1, 2)
Metas == {<<>>} \cup {c[1] :> c[2] : c \in {c \in MetadataOf(P) : c[1] \in OfProperties}}
Values == {f @@ g @@ h :
              f \in {<<>>} \cup {"default" :> value :
                                 value \in {<<"plain", 1>>, <<"block", 0>>, <<"animationBlock", 0>>}},
              g \in {<<>>, "timeSamples" :> <<>>,
                     "timeSamples" :> (1 :> <<"plain", 3>> @@ 0 :> <<"block", 0>>)},
              h \in {<<>>, "spline" :> 9}}
Attrs == {Attr(c, "varying", f, op) : c \in BOOLEAN, f \in Values, op \in PropertyOps}
         \cup {Attr(FALSE, "uniform", ("comment" :> "c") @@ f, op) :
                   f \in Values, op \in {NoOp, Explicit(<<1>>)}}
         \cup {Attr(TRUE, "uniform", m, NoOp) : m \in Metas \cup {"displayUnit" :> "m"}}
Rels == {Rel(c, w, m, op) : c \in BOOLEAN, w \in {"varying", "uniform"},
             m \in {<<>>, "comment" :> "c", "default" :> 3, [comment |-> "c", default |-> 3]},
             op \in PropertyOps}
        \cup {Rel(FALSE, "varying", m, op) : m \in Metas, op \in {NoOp, Explicit(<<1, 2>>)}}
FewAttrs == {Attr(TRUE, "uniform", [comment |-> "c", default |-> <<"plain", 1>>],
                  Edits("deleted" :> <<1>>)),
             Attr(FALSE, "varying", <<>>, Explicit(<<1, 2>>))}
FewRels == {Rel(TRUE, "uniform", <<>>, Edits("deleted" :> <<1>>)),
            Rel(FALSE, "varying", [comment |-> "c", default |-> 3], Explicit(<<1>>))}
Children == (File!Child(P, 1) :> PrimOf([specifier |-> "class"]))
            @@ (File!Child(P, 2) :> PrimOf([specifier |-> "over", typeName |-> "Y"]))
PropertiesWith(attr, rel, meta, children) ==
    (P :> PrimOf(APrim @@ [propertyChildren |-> <<2, 1>>] @@ meta
                     @@ (IF children THEN [primChildren |-> <<2, 1>>] ELSE <<>>)))
    @@ (IF children THEN Children ELSE <<>>) @@ attr @@ rel @@ OnePrim

\* Variant sets, the names of which a list op may list, with variants in variants.
InVariant ==
    (File!Child(V, 1) :> PrimOf([specifier |-> "def"]))
    @@ (File!Property(V, 3) :> SpecOf("relationship", [variability |-> "uniform"]))
    @@ (File!Variant(V, 4, File!None) :> SpecOf("variantSet", [variantChildren |-> <<1>>]))
    @@ (File!Variant(V, 4, 1) :> SpecOf("variant", [comment |-> "x"]))
VariantSets(names, filled) ==
    LET made == IF names = NoOp THEN <<>> ELSE Made(names)
        sets == IF 1 \in ToSet(made) THEN made ELSE Append(made, 1)
    IN  (P :> PrimOf(APrim @@ [variantSetChildren |-> sets, propertyOrder |-> <<2, 1>>,
                               primOrder |-> <<2, 1>>]
                         @@ (IF names = NoOp THEN <<>> ELSE "variantSetNames" :> names)))
        @@ [q \in {File!Variant(P, s, File!None) : s \in ToSet(sets)} |->
               SpecOf("variantSet", IF Last(q)[2] = 1 THEN [variantChildren |-> <<2, 1>>] ELSE <<>>)]
        @@ (V :> SpecOf("variant", IF filled THEN [primChildren |-> <<1>>, propertyChildren |-> <<3>>,
                                                   variantSetChildren |-> <<4>>] ELSE <<>>))
        @@ (File!Variant(P, 1, 2) :> SpecOf("variant", <<>>))
        @@ (IF filled THEN InVariant ELSE <<>>) @@ OnePrim

Layers(subs, relocates, ordered) ==
    RootOf((IF subs = <<>> THEN <<>>
            ELSE [subLayers |-> [i \in DOMAIN subs |-> subs[i][1]],
                  subLayerOffsets |-> [i \in DOMAIN subs |-> subs[i][2]]])
           @@ (IF relocates = <<>> THEN <<>> ELSE [layerRelocates |-> relocates])
           @@ (IF ordered THEN [primOrder |-> <<2, 1>>] ELSE <<>>)
           @@ [primChildren |-> <<1, 2>>])
    @@ (P :> PrimOf([specifier |-> "class"])) @@ (Q :> PrimOf([specifier |-> "over"]))
SubLayerLists ==
    {<<>>, <<<<"a", File!Identity>>>>, <<<<"a", <<5, 3>>>>, <<"a", File!Identity>>>>,
     <<<<"a", <<5, 1>>>>, <<"b", <<0, 2>>>>, <<"c", File!Identity>>>>}
RelocateLists == {<<>>, <<<<P, Q>>, <<File!Child(File!Root, 3), File!Child(P, 2)>>>>}

LayerIn(d) == in' = [k |-> "layer", d |-> d]
\* No relocates in variants, and no empty documentation at the root: see the README.
LayerInputs ==
    \/ in.k = "start" /\ \E c \in MetadataOf(P) : in' = [k |-> "metadata", c |-> c]
    \/ in.k = "metadata" /\ \E d \in MetadataOf(P) : LayerIn(PrimWith(in.c, d))
    \/ /\ in.k = "metadata" /\ in.c[1] # "relocates"
       /\ \E d \in MetadataOf(V) : d[1] # "relocates" /\ LayerIn(VariantWith(in.c, d))
    \/ /\ in.k = "metadata" /\ in.c[1] \in OfRoot /\ in.c # <<"documentation", "">>
       /\ \E d \in MetadataOf(P) :
             d[1] \in OfRoot /\ d # <<"documentation", "">> /\ LayerIn(RootWith(in.c, d))
    \/ in.k = "start" /\ \E r \in FewRels : in' = [k |-> "rel", r |-> r]
    \/ in.k = "start" /\ \E a \in FewAttrs : in' = [k |-> "attr", a |-> a]
    \/ /\ in.k = "rel"
       /\ \E a \in Attrs : LayerIn(PropertiesWith(a, in.r, "comment" :> "c", FALSE))
    \/ in.k = "attr" /\ \E r \in Rels : LayerIn(PropertiesWith(in.a, r, <<>>, TRUE))
    \/ /\ in.k = "start"
       /\ \E op \in {NoOp} \cup (OpsOf(1, 3) \ {Explicit(<<>>)}), filled \in BOOLEAN :
             LayerIn(VariantSets(op, filled))
    \/ /\ in.k = "start"
       /\ \E subs \in SubLayerLists, relocates \in RelocateLists, ordered \in BOOLEAN :
             LayerIn(Layers(subs, relocates, ordered))

-----------------------------------------------------------------------------
(* Splines of one knot of every kind, of two, or of none.                   *)

Extrapolations == {<<"sloped", 7>>} \cup
    {<<mode, 0>> : mode \in {"none", "held", "linear", "repeat", "reset", "oscillate"}}
Interpolations == {"none", "held", "linear", "curve"}
Tangent == [width |-> 2, slope |-> 3, algorithm |-> "none"]
Tangents == {Splines!NoTangent, Tangent, [Tangent EXCEPT !.algorithm = "custom"],
             [width |-> 4, slope |-> 5, algorithm |-> "autoEase"]}
Knot(time, pre, interp, preTan, postTan, data) ==
    [time |-> time, value |-> 6, preValue |-> pre, interp |-> interp,
     preTan |-> preTan, postTan |-> postTan, data |-> data]
Knots == {Knot(1, pre, interp, t, u, data) : pre \in {<<>>, <<8>>}, interp \in Interpolations,
              t \in Tangents, u \in Tangents, data \in {<<>>, "k" :> 1}}
LastKnots == {Knot(2, <<>>, interp, t, Tangent, <<>>) : interp \in {"held", "curve"},
                  t \in {Tangent, [Tangent EXCEPT !.algorithm = "custom"]}}
SplineIn(curve, pre, post, loop, knots) ==
    in' = [k |-> "spline", s |-> [curve |-> curve, pre |-> pre, post |-> post, loop |-> loop,
                                  knots |-> knots]]
SplineInputs ==
    \/ in.k = "start" /\ \E curve \in {"bezier", "hermite"}, pre, post \in Extrapolations,
                             loop \in {Splines!NoLoop, <<1, 2, 3, 4, 5>>} :
          SplineIn(curve, pre, post, loop, <<>>)
    \/ in.k = "start" /\ \E knot \in Knots : in' = [k |-> "knot", knot |-> knot]
    \/ in.k = "knot" /\ \E curve \in {"bezier", "hermite"},
                            last \in {<<>>} \cup {<<knot>> : knot \in LastKnots} :
          SplineIn(curve, <<"reset", 0>>, Splines!Held, Splines!NoLoop, <<in.knot>> \o last)

\* What the writer makes of a layer or of a spline is text of the grammar, and the reader
\* makes the same layer or spline of it (fileIO_Common, textFileFormatParser.cpp).
LayersReadBack ==
    /\ in.k = "layer" => File!ReadsBack(in.d)
    /\ in.k = "spline" => Splines!SplineReadsBack(in.s)

-----------------------------------------------------------------------------
(* Values of every kind of part, alone, in tuples, in matrices and in       *)
(* arrays; trees of brackets that are values or are not; strings of quotes, *)
(* backslashes and bytes; dictionaries in dictionaries.                     *)

PartsOf ==
    [uchar |-> {<<"int", n>> : n \in 0..3}, int |-> {<<"int", n>> : n \in {-2, 0, 1}},
     int64 |-> {<<"int", n>> : n \in {-4, 3}}, uint64 |-> {<<"int", n>> : n \in {0, 7}},
     float |-> {<<"finite", h>> : h \in {-9, 0, 1, 2, 16, -10}}
               \cup {<<"special", w>> : w \in {"-0", "inf", "-inf", "nan"}},
     bool |-> {<<"bool", b>> : b \in BOOLEAN}, string |-> {<<"string", "inf">>, <<"string", "">>},
     token |-> {<<"token", "a">>}, asset |-> {<<"asset", "a">>, <<"asset", "">>}]
Dims == {<<>>, <<2>>, <<2, 2>>}
ManyParts(kind, n) == {[i \in 1..n |-> IF i % 2 = 1 THEN a ELSE b] : a, b \in PartsOf[kind]}
\* Literals that make parts of some kinds and not of others.
Literals == {<<"digits", n>> : n \in {-5, -3, 1, 4, 9}} \cup {<<"decimal", h>> : h \in {-3, 1, 7}}
            \cup {<<"word", w>> : w \in {"-0", "inf", "nan"}}
            \cup {<<k, w>> : k \in {"quoted", "identifier"}, w \in {"-inf", "yes", "a"}}
            \cup {<<"asset", "a">>}
Leaf == Value!Atom(<<"digits", 1>>)
Rows(trees, n) == UNION {[1..k -> trees] : k \in 1..n}
Tuples(trees, n) == {Value!Tuple(t) : t \in Rows(trees, n)}
Lists1(trees, n) == {Value!List(t) : t \in Rows(trees, n)}
\* No atoms between the rows of a matrix: see the README.
InTuples == Tuples({Leaf}, 3)
Trees == {Leaf, Value!EmptyList} \cup InTuples \cup Tuples(InTuples, 2)
         \cup Lists1({Leaf} \cup InTuples, 3)
Trees2 == Lists1({Leaf, Value!Tuple(<<Leaf, Leaf>>), Value!Tuple(<<Value!Tuple(<<Leaf, Leaf>>)>>)}
                 \cup Lists1({Leaf, Value!Tuple(<<Leaf, Leaf>>)}, 3), 2)
          \cup Lists1(Lists1(Lists1({Leaf}, 2), 2), 2) \cup Lists1(Tuples(InTuples, 2), 1)
SomeTypes == {Value!TypeOf("int", dims, shaped) : dims \in Dims, shaped \in BOOLEAN}
Entries == {<<"value", Value!TypeOf("int", <<>>, FALSE), <<<<"int", 1>>>>>>,
            <<"value", Value!TypeOf("float", <<2>>, TRUE), <<<<"finite", 1>>, <<"finite", 2>>>>>>,
            <<"value", Value!TypeOf("token", <<>>, TRUE), <<>>>>}
SomeDictionaries(entries) == {<<>>} \cup {1 :> e : e \in entries} \cup {1 :> e @@ 2 :> f : e, f \in entries}
Dictionaries2 == SomeDictionaries(Entries \cup {<<"dictionary", d>> : d \in SomeDictionaries(Entries)})
Characters == {"'", "\"", "\\", "NL", "n", "C3", "A9", "01"}
ValueInputs ==
    \/ in.k = "start" /\ \E kind \in DOMAIN PartsOf, dims \in Dims, n \in 0..2 :
          \E parts \in ManyParts(kind, n * Value!Size(Value!TypeOf(kind, dims, TRUE))) :
             in' = [k |-> "value", type |-> Value!TypeOf(kind, dims, TRUE), parts |-> parts]
    \/ in.k = "start" /\ \E kind \in DOMAIN PartsOf, dims \in Dims :
          \E parts \in ManyParts(kind, Value!Size(Value!TypeOf(kind, dims, FALSE))) :
             in' = [k |-> "value", type |-> Value!TypeOf(kind, dims, FALSE), parts |-> parts]
    \/ in.k = "start" /\ \E tree \in Trees \cup Trees2 : in' = [k |-> "tree", tree |-> tree]
    \/ in.k = "start" /\ \E literal \in Literals : in' = [k |-> "literal", literal |-> literal]
    \/ in.k = "start" /\ \E d \in Dictionaries2 : in' = [k |-> "dictionary", d |-> d]
    \/ in.k = "start" /\ \E s \in UNION {[1..n -> Characters] : n \in 0..2} : in' = [k |-> "string", s |-> s]
    \/ in.k = "string" /\ Len(in.s) = 2 /\ \E rest \in UNION {[1..n -> Characters] : n \in 1..2} :
          in' = [k |-> "string", s |-> in.s \o rest]
    \/ in.k = "start" /\ \E s \in UNION {[1..n -> {"@", "\\", "n"}] : n \in 0..5} : in' = [k |-> "asset", s |-> s]

\* A value, a string, an asset path and a dictionary are read back as they were written; a text
\* that has not the shape or the parts of the type is refused; the text of a value of unknown
\* type is kept (parserValueContext.cpp, parserHelpers.cpp, fileIO_Common.cpp).
ValuesReadBack ==
    /\ in.k = "value" => Value!ValueReadsBack(in.type, in.parts)
    /\ in.k = "tree" => \A type \in SomeTypes :
          /\ Value!ReadRight(type, in.tree, Value!ReadValue(type, in.tree))
          /\ Value!RecordedRight(type, in.tree)
    /\ in.k = "literal" => \A kind \in DOMAIN PartsOf :
          Value!ReadRight(Value!TypeOf(kind, <<>>, FALSE), Value!Atom(in.literal),
                          Value!ReadValue(Value!TypeOf(kind, <<>>, FALSE), Value!Atom(in.literal)))
    /\ in.k = "dictionary" =>
          Value!DictionaryReadsBack(in.d, Value!ReadDictionary(Value!Reader, Value!WriteDictionary(in.d)))
    /\ in.k = "string" => \A rest \in {<<>>, <<"NL">>} : Value!QuoteReadsBack(in.s, rest)
    /\ in.k = "asset" => \A rest \in {<<>>, <<"NL">>} : Value!AssetReadsBack(in.s, rest)

-----------------------------------------------------------------------------
(* Crate files: arrays of integers at the limits of their widths and of     *)
(* floats; paths to store; files of three versions, in which two prims have *)
(* the same fields, and up to two calls on the data of each.                *)

SomeFloats == {<<0, "exact">>, <<0, "-0">>, <<7, "exact">>, <<9, "exact">>, <<1, "real">>, <<0, "nan">>}
IntArrays == UNION {[1..n -> {-8, -3, -1, 0, 5, 7}] : n \in 0..4}
FloatArrays == UNION {[1..n -> SomeFloats] : n \in {0, 3, 4}}

C1 == First
C2 == Paths!PathOf("/", <<PrimNode(2)>>, <<>>)
C3 == Paths!PathOf("/", <<PrimNode(3)>>, <<>>)
Below == Paths!PathOf("/", <<PrimNode(1), VariantNode, PrimNode(1)>>, <<>>)
With(p, nodes) == [p EXCEPT !.prop = nodes]
PropertyNamed(n) == <<<<Paths!PrimProperty, n>>>>
Attribute == With(C1, PropertyNamed(1))
Relation == With(C1, PropertyNamed(2))
StoredPaths ==
    {Paths!AbsoluteRoot, C1, Below, Attribute, Relation, With(Below, PropertyNamed(1)),
     With(C2, PropertyNamed(1)), Paths!PathOf("/", <<PrimNode(1), VariantNode>>, <<>>)}
    \cup {Paths!PathOf("/", <<PrimNode(1), PrimNode(n)>>, <<>>) : n \in 1..2}
    \cup {With(C1, PropertyNamed(2) \o <<<<kind, t>>>>) :
              kind \in {Paths!Target, Paths!Mapper}, t \in {Attribute, C2, Below}}
    \cup {With(C1, PropertyNamed(1) \o nodes) :
              nodes \in {<<<<Paths!Target, C2>>, <<Paths!RelationalAttribute, 1>>>>,
                         <<<<Paths!Expression, 0>>>>}}

PlainValue(n) == <<"plain", n>>
Sixteen == <<"array", [i \in 1..16 |-> <<i % 4, "exact">>]>>
TimeCode == <<"timecode", 3>>
OpValue(type, items, kind) == <<type, Lists!SetItems(NoOp, items, kind)>>
PayloadValues ==
    {OpValue("payloads", items, "explicit") : items \in {<<>>, <<<<1, 0>>>>, <<<<1, 2>>>>, <<<<0, 0>>>>}}
    \cup {OpValue("payloads", <<<<1, 2>>>>, "prepended")}
TargetValues ==
    {OpValue("paths", <<C1, C2>>, "explicit"), OpValue("paths", <<Below>>, "prepended"),
     OpValue("paths", <<Attribute>>, "deleted")}
\* No arrays in old files, which a time code makes new ones: see the README.
ArraysIn(version) == IF version < 7 THEN {} ELSE {Sixteen, <<"array", <<>>>>}
Calls(version) ==
    {<<"set", p, "info", PlainValue(1)>> : p \in {C1, C2, Attribute}}
    \cup {<<"set", p, "payload", v>> : p \in {C1, C2}, v \in PayloadValues}
    \cup {<<"set", Attribute, "default", v>> : v \in {TimeCode} \cup ArraysIn(version)}
    \cup {<<"set", Relation, "targetPaths", v>> : v \in TargetValues}
    \cup {<<"erase", p, "info">> : p \in {C1, C2}} \cup {<<"erase", C1, "payload">>}
    \cup {<<"create", p, "prim">> : p \in {C2, Below}}
    \cup {<<"eraseSpec", p>> : p \in {C2, Relation, Attribute}}
    \cup {<<"move", C2, C3>>, <<"move", Attribute, With(C2, PropertyNamed(1))>>}
    \cup {<<"setSample", p, t, v>> : p \in {Attribute, C2}, t \in {1, 3}, v \in {PlainValue(5), TimeCode}}
    \cup {<<"eraseSample", Attribute, t>> : t \in 1..2}
    \cup {<<"save">>}
Legal(d, c) ==
    /\ c[1] \in {"eraseSpec", "move", "setSample"} => c[2] \in DOMAIN d.data
    /\ c[1] = "move" => c[3] \notin DOMAIN d.data
    /\ c[1] = "eraseSample" => Crate!HasSample(d, c[2], c[3])
Called(d, c) ==
    CASE c[1] = "set" -> Crate!SetField(d, c[2], c[3], c[4])
      [] c[1] = "erase" -> Crate!EraseField(d, c[2], c[3])
      [] c[1] = "create" -> Crate!CreateSpec(d, c[2], c[3])
      [] c[1] = "eraseSpec" -> Crate!EraseSpec(d, c[2])
      [] c[1] = "move" -> Crate!MoveSpec(d, c[2], c[3])
      [] c[1] = "setSample" -> Crate!SetTimeSample(d, c[2], c[3], c[4])
      [] c[1] = "eraseSample" -> Crate!EraseTimeSample(d, c[2], c[3])
      [] c[1] = "save" -> Crate!Save(d)
PlainCalled(plain, c) ==
    CASE c[1] = "set" -> Crate!PlainSet(plain, c[2], c[3], c[4])
      [] c[1] = "erase" -> Crate!PlainEraseField(plain, c[2], c[3])
      [] c[1] = "create" -> Crate!PlainCreate(plain, c[2], c[3])
      [] c[1] = "eraseSpec" -> Crate!PlainErase(plain, c[2])
      [] c[1] = "move" -> Crate!PlainMove(plain, c[2], c[3])
      [] c[1] = "setSample" -> Crate!PlainSetSample(plain, c[2], c[3], c[4])
      [] c[1] = "eraseSample" -> Crate!PlainEraseSample(plain, c[2], c[3])
      [] c[1] = "save" -> plain
FirstCalls(version) ==
    <<<<"create", Paths!AbsoluteRoot, "pseudoRoot">>, <<"create", C1, "prim">>,
      <<"create", C2, "prim">>, <<"create", Attribute, "attribute">>,
      <<"create", Relation, "relationship">>, <<"set", Paths!AbsoluteRoot, "info", PlainValue(3)>>>>
    \o [i \in 1..2 |-> <<"set", <<C1, C2>>[i], "info", PlainValue(2)>>]
    \o [i \in 1..2 |-> <<"set", <<C1, C2>>[i], "payload", OpValue("payloads", <<<<2, 0>>>>, "explicit")>>]
    \o [i \in 1..2 |-> <<"setSample", Attribute, <<2, 1>>[i], PlainValue(4 + i)>>]
    \o <<<<"set", Relation, "targetPaths", OpValue("paths", <<Attribute, C1>>, "prepended")>>>>
    \o (IF version < 7 THEN <<>> ELSE <<<<"set", Attribute, "default", Sixteen>>>>)
    \o <<<<"save">>>>

CrateInputs ==
    \/ in.k = "start" /\ \E s \in IntArrays : in' = [k |-> "ints", s |-> s]
    \/ in.k = "start" /\ \E s \in FloatArrays : in' = [k |-> "floats", s |-> s]
    \/ in.k = "start" /\ \E p \in StoredPaths : in' = [k |-> "stored", s |-> <<p>>]
    \/ /\ in.k = "stored" /\ Len(in.s) < 3
       /\ \E p \in StoredPaths : in' = [in EXCEPT !.s = Append(@, p)]
    \/ /\ in.k = "start"
       /\ \E version \in {3, 7, 8} :
             in' = [k |-> "crate", calls |-> 0, version |-> version,
                    d |-> FoldLeft(Called, Crate!NewData(version), FirstCalls(version)),
                    plain |-> FoldLeft(PlainCalled, <<>>, FirstCalls(version))]
    \/ /\ in.k = "crate" /\ in.calls < 2
       /\ \E c \in Calls(in.version) :
             /\ Legal(in.d, c)
             /\ in' = [in EXCEPT !.calls = @ + 1, !.d = Called(@, c), !.plain = PlainCalled(@, c)]

\* Arrays, paths and the data of a layer come back from a crate file, of whatever version and
\* however often it was saved, as the same calls leave plain data (crateFile.cpp,
\* integerCoding.cpp, crateData.cpp).
CrateRight ==
    /\ in.k = "ints" => Arrays!IntegersComeBack(in.s)
    /\ in.k = "floats" => Arrays!FloatsComeBack(in.s)
    /\ in.k = "stored" => Crate!PathsComeBack(in.s)
    /\ in.k = "crate" => Crate!CrateRight(in.d, in.plain)

-----------------------------------------------------------------------------
(* Path expressions: patterns of up to four appended elements, matched over *)
(* a tree of paths in depth-first order; expressions of patterns, of        *)
(* references and of calls; and sequences of tokens.                        *)

Nested(names) == Paths!PathOf("/", [i \in DOMAIN names |-> PrimNode(names[i])], <<>>)
Searched ==
    <<Paths!AbsoluteRoot, Nested(<<1>>), With(Nested(<<1>>), PropertyNamed(1)), Nested(<<1, 1>>),
      Nested(<<1, 1, 2>>), With(Nested(<<1, 1, 2>>), PropertyNamed(1)), Nested(<<1, 2>>),
      With(Nested(<<1, 2>>), PropertyNamed(2)), Nested(<<1, 2, 1>>), Nested(<<2>>),
      With(Nested(<<2>>), PropertyNamed(1)), Nested(<<2, 1>>), Nested(<<2, 2>>),
      Nested(<<2, 2, 1>>), With(Nested(<<2, 2, 1>>), PropertyNamed(2))>>
SearchedSet == {Searched[i] : i \in DOMAIN Searched}

CallOf(name, kind, args) == <<"call", [name |-> name, kind |-> kind, args |-> args]>>
Bare(name) == CallOf(name, "bare", <<>>)
PredicateTrees ==
    {Bare("one"), Bare("prim"), <<"not", Bare("below")>>, <<"or", Bare("one"), Bare("clear")>>}
ElementsAfter(n) ==
    {<<Match!Named(1), Match!Nothing>>, <<Match!NoText, Match!Nothing>>,
     <<Match!NoText, Match!Built(Bare("one"))>>}
    \cup IF n = 3 THEN {}
         ELSE {<<Match!Named(2), Match!Nothing>>, <<Match!AnyName, Match!Nothing>>,
               <<Match!Named(1), Match!Built(Bare("below"))>>}
              \cup {<<Match!NoText, Match!Built(tree)>> : tree \in PredicateTrees}
PropertyElements ==
    {<<Match!Named(1), Match!Nothing>>, <<Match!AnyName, Match!Nothing>>,
     <<Match!NoText, Match!Built(Bare("one"))>>}
EmptyPatterns ==
    {Match!PatternOf(prefix, <<>>, FALSE) :
         prefix \in {Paths!AbsoluteRoot, Paths!ReflexiveRelative, Paths!PathOf(".", <<Up>>, <<>>)}}
PatternIn(n, p) == in' = [k |-> "pattern", n |-> n, p |-> p]

RECURSIVE PatternFrom(_, _)
PatternFrom(p, elements) ==
    IF elements = <<>> THEN p
    ELSE PatternFrom(Match!AppendElement(p, Head(elements), Match!Nothing), Tail(elements))
PatternLike(elements) == <<"pattern", PatternFrom(Match!PatternOf(Paths!AbsoluteRoot, <<>>, FALSE), elements)>>
N1 == Match!Named(1)
FewPatterns ==
    {PatternLike(<<N1>>), PatternLike(<<Match!NoText, N1>>), PatternLike(<<N1, Match!NoText>>),
     PatternLike(<<Match!NoText>>)}
Trees1(operators, trees, others) == {<<op, l, r>> : op \in operators, l \in trees, r \in others}
WithUnary(op, trees) == trees \cup {<<op, tree>> : tree \in trees}
SetOps == {"+", "&", "-", " "}
SmallTrees == WithUnary("~", FewPatterns) \cup Trees1(SetOps, WithUnary("~", FewPatterns), FewPatterns)
References ==
    {<<"ref", [path |-> p, name |-> "a"]>> :
         p \in {Paths!Empty, C1, Paths!PathOf(".", <<Up>>, <<>>), Paths!PathOf(".", <<Up, PrimNode(1)>>, <<>>)}}
    \cup {<<"ref", Match!WeakerRef>>}
ReferenceTrees == WithUnary("~", References \cup {PatternLike(<<N1>>)})
Resolved == {Match!Nothing, Match!All, Match!Built(PatternLike(<<N1>>)),
             Match!Built(<<"~", PatternLike(<<Match!NoText, N1>>)>>)}
Arguments == {<<"", <<"int", 3>>>>, <<"", <<"bool", TRUE>>>>, <<"", <<"halves", 3>>>>,
              <<"", <<"halves", 4>>>>, <<"", <<"string", "s">>>>}
CallTrees ==
    {Bare("one")} \cup {CallOf("one", kind, args) : kind \in {"colon", "paren"},
                            args \in {<<a>> : a \in Arguments} \cup {<<a, b>> : a, b \in Arguments}}
    \cup {CallOf("one", "paren", <<<<"", <<"int", 1>>>>, <<"size", <<"halves", 1>>>>>>),
          CallOf("one", "paren", <<<<"size", <<"bool", FALSE>>>>>>)}
FewCalls == WithUnary("not", WithUnary("not", {Bare("one"), CallOf("two", "colon", <<<<"", <<"int", 1>>>>>>)}))
Tokens(kind) ==
    {<<what, 0>> : what \in {"blank", "(", ")", ":"}}
    \cup IF kind = "path"
         THEN {<<what, 0>> : what \in {"/", ".", "..", "~", "+", "%", "_", "{", "}"}}
              \cup {N1, <<"call", "one">>}
         ELSE {<<what, 0>> : what \in {"not", "and", ","}}
              \cup {<<"call", "one">>, <<"digits", 1>>, <<"keyword", "size">>}
\* Of four tokens are predicates, and path expressions that may have operators.
Extended(kind, tokens) ==
    \/ Len(tokens) < 3
    \/ Len(tokens) = 3 /\ (kind = "path" => tokens[1][1] \in {"/", "~", "(", "%"})
ExpressionInputs ==
    \/ in.k = "start" /\ \E p \in EmptyPatterns : PatternIn(0, p)
    \/ in.k = "pattern" /\ in.n < 4 /\ \E e \in ElementsAfter(in.n) :
          PatternIn(in.n + 1, Match!AppendElement(in.p, e[1], e[2]))
    \/ in.k = "pattern" /\ in.n < 4 /\ \E e \in PropertyElements :
          PatternIn(4, Match!AppendPropertyElement(in.p, e[1], e[2]))
    \/ in.k = "start" /\ \E tree \in SmallTrees : in' = [k |-> "expression", n |-> 1, tree |-> tree]
    \/ in.k = "expression" /\ in.n = 1 /\ \E op \in SetOps \ {" "}, other \in FewPatterns, left \in BOOLEAN :
          in' = [in EXCEPT !.n = 2, !.tree = IF left THEN <<op, other, @>> ELSE <<op, @, other>>]
    \/ in.k = "start" /\ \E tree \in ReferenceTrees : in' = [k |-> "references", n |-> 1, tree |-> tree]
    \/ in.k = "references" /\ in.n < 3 /\ \E op \in {"+", "-"}, other \in ReferenceTrees :
          in' = [in EXCEPT !.n = IF in.n = 1 /\ other[1] = "ref" THEN 2 ELSE 3, !.tree = <<op, other, @>>]
    \/ in.k = "start" /\ \E tree \in CallTrees : in' = [k |-> "calls", n |-> 3, tree |-> tree]
    \/ in.k = "start" /\ \E tree \in FewCalls : in' = [k |-> "calls", n |-> 1, tree |-> tree]
    \/ in.k = "calls" /\ in.n < 3 /\ \E op \in {"and", "or", "implied"}, other \in FewCalls, left \in BOOLEAN :
          in' = [in EXCEPT !.n = @ + 1, !.tree = IF left THEN <<op, other, @>> ELSE <<op, @, other>>]
    \/ in.k = "start" /\ \E kind \in {"path", "predicate"} :
          in' = [k |-> "tokens", kind |-> kind, tokens |-> <<>>]
    \/ in.k = "tokens" /\ Extended(in.kind, in.tokens) /\ \E token \in Tokens(in.kind) :
          in' = [in EXCEPT !.tokens = Append(@, token)]

PatternsRight(e, impl) ==
    /\ Match!PatternRight(impl, SearchedSet)
    /\ Match!SearchRight(Match!Eval(e), Searched)
    /\ Match!MovesRight(in.p, SearchedSet, C1, Nested(<<2, 1>>))
    /\ in.p.prefix.prop = <<>> => Match!AnchoredRight(in.p, Nested(<<1, 2>>))
\* The text of an expression is read as the expression, and what the parser makes of other
\* tokens has a text that is read as the same.
Readable(e) == in.k \in {"calls", "tokens"} \/ Match!AllReadable(e)
KindOfText == CASE in.k = "tokens" -> in.kind [] in.k = "calls" -> "predicate" [] OTHER -> "path"
ToWrite ==
    IF in.k = "tokens" THEN Match!Parse(in.kind, in.tokens)
    ELSE [is |-> "ok", out |-> Match!Built(IF in.k = "pattern" THEN <<"pattern", in.p>> ELSE in.tree)]
Reading(e) ==
    CASE in.k = "tokens" -> e
      [] in.k = "calls" -> Match!ReadPredicate(e)
      [] OTHER -> Match!ReadPathExpression(e)
TextRight(kind, parsed) ==
    parsed.is = "ok" /\ Readable(parsed.out) =>
        Match!ReadsAs(kind, Match!GetText(parsed.out), Reading(parsed.out))

-----------------------------------------------------------------------------
(* Expressions of variables: three variables, of every type and some        *)
(* expressions, and trees of two levels; and sequences of tokens.           *)

Var(v) == <<"variable", v>>
Const(value) == <<"constant", value>>
Zero == Const(<<"int", 0>>)
One1 == Const(<<"int", 1>>)
True == Const(<<"bool", TRUE>>)
Quoted(parts) == <<"string", parts>>
CallTo(function, args) == <<"call", function, args>>
Text(c) == Quoted(<<<<"text", <<c>>>>>>)
A1 == Text(1)
Substituted == Quoted(<<Var(7), <<"text", <<1>>>>, Var(8)>>)
ValuesOfVariables ==
    {<<"string", <<1>>>>, <<"string", <<1, 2>>>>, <<"int", -1>>, <<"int32", 0>>, <<"bool", TRUE>>,
     <<"list", "int", <<>>>>, <<"list", "int32", <<0, 1>>>>, Variable!None, <<"unsupported">>, <<"broken">>}
ExpressionsOfVariables(v, w) ==
    {<<"expression", tree>> : tree \in
        {Var(w), Quoted(<<Var(w), Var(9)>>), CallTo("if", <<Var(9), Const(<<"int", 1>>), Var(w)>>),
         CallTo("if", <<True, A1, Var(v)>>), <<"list", <<>>>>, CallTo("defined", <<Text(8)>>)}}
FunctionMaps(v, values) == {[w \in {v} |-> value] : value \in values} \cup {<<>>}
VariableMaps ==
    {a @@ b @@ c :
        a \in FunctionMaps(7, ValuesOfVariables \cup ExpressionsOfVariables(7, 8)),
        b \in FunctionMaps(8, ValuesOfVariables \cup ExpressionsOfVariables(8, 7)),
        c \in FunctionMaps(9, {<<"bool", FALSE>>, <<"expression", Var(7)>>})}
Arguments2 == {<<Var(7), Var(8)>>, <<Var(7), Zero>>, <<A1, Var(8)>>}
VariableTrees ==
    {Var(7), Substituted, <<"list", <<Var(7), Var(8), Zero>>>>, <<"list", <<>>>>,
     CallTo("if", <<Var(9), Var(7), Var(8)>>), CallTo("if", <<Var(9), Var(7)>>),
     CallTo("not", <<Var(7)>>), CallTo("len", <<Var(7)>>), CallTo("defined", <<Var(7), Text(8)>>),
     CallTo("if", <<CallTo("eq", <<Var(7), Var(9)>>), Substituted, <<"list", <<Var(8)>>>>>>)}
    \cup {CallTo(f, args) : f \in Variable!OfTwo, args \in Arguments2}
    \cup {CallTo(f, <<Var(7), True, Var(8)>>) : f \in {"and", "or"}}
TreesOfTrees ==
    VariableTrees \cup {CallTo("if", <<True, x, y>>) : x, y \in VariableTrees}
VariableTokens ==
    {Variable!Token(what) : what \in {"backquote", "blank", "(", ")", "[", "]", ","}}
    \cup {<<"name", "len">>, <<"name", "or">>, One1, A1}
Closings == {<<>>} \cup {close \o <<Variable!Token("backquote")>> :
                             close \in {<<>>, <<Variable!Token(")")>>, <<Variable!Token("]")>>}}
VariableInputs ==
    \/ in.k = "start" /\ \E vars \in VariableMaps : in' = [k |-> "variables", vars |-> vars]
    \/ in.k = "start" /\ \E tree \in TreesOfTrees : in' = [k |-> "written", tree |-> tree]
    \/ in.k = "start" /\ \E opened \in {<<>>, <<<<"name", "or">>, Variable!Token("(")>>, <<Variable!Token("[")>>} :
          in' = [k |-> "variable tokens", n |-> 0, tokens |-> <<Variable!Token("backquote")>> \o opened]
    \/ in.k = "variable tokens" /\ in.n < 4 /\ \E token \in VariableTokens :
          in' = [in EXCEPT !.n = @ + 1, !.tokens = Append(@, token)]

\* What evaluation promises, for every tree, and what is written is read.
VariablesRight ==
    /\ in.k = "variables" => \A tree \in VariableTrees :
          Variable!EvaluatesRight(tree, in.vars, Variable!Evaluate(tree, in.vars, <<>>),
                                  {<<"int", 1>>, <<"string", <<1>>>>, <<"expression", Var(8)>>})
    /\ in.k = "written" => Variable!ReadRight(in.tree)
    /\ in.k = "variable tokens" => \A closing \in Closings : Variable!ParsedRight(in.tokens \o closing)

\* A path matches an expression of patterns if it is in the set the expression means, alone and
\* in a search; expressions move with their prefixes, take what stands for their references,
\* and are read as they were written (pathPattern.cpp, pathExpression.cpp,
\* pathExpressionEval.cpp, pathPatternParser.h, predicateExpression.cpp, predicateProgram.h).
\* An expression of variables has the value its parts have, and only what it used can change
\* it (variableExpression.cpp).
ExpressionsRight ==
    /\ VariablesRight
    /\ in.k = "pattern" /\ Paths!IsAbsolutePath(in.p.prefix) =>
          PatternsRight(Match!MakeAtom("pattern", in.p), Match!PatternImpl(in.p))
    /\ in.k = "expression" =>
          Match!ExpressionRight(in.tree, Match!MakePathExpressionEval(Match!Built(in.tree)), Searched)
    /\ in.k = "references" => \A r, s \in Resolved :
          Match!ResolvesRight(in.tree, [ref \in {ref[2] : ref \in References} |->
                                           IF ref = Match!WeakerRef THEN s ELSE r])
    /\ in.k \in {"pattern", "expression", "references", "calls", "tokens"} =>
          TextRight(KindOfText, ToWrite)

-----------------------------------------------------------------------------
Init == in = [k |-> "start"]

Next == PathInputs \/ NameInputs \/ ListInputs \/ FieldInputs \/ LayerInputs \/ SplineInputs
        \/ ValueInputs \/ CrateInputs \/ ExpressionInputs
        \/ CopyInputs \/ VariableInputs

Spec == Init /\ [][Next]_in

=============================================================================
