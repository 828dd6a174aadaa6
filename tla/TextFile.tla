------------------------------ MODULE TextFile ------------------------------
(***************************************************************************)
(* The parser of text layers and the writer of them, and what a text that  *)
(* is written has to say when it is read: the layer it was written from.   *)
(* A text is the sequence of the rules of the grammar it matches, in the   *)
(* order their actions are called: an action is <<rule, what it matched>>. *)
(* The grammar tries alternatives and the actions of one that fails are    *)
(* not undone; what they leave is set again by the one that matches, and   *)
(* is left out.                                                            *)
(*                                                                         *)
(* The actions share a context: a stack of what is parsed (ctx) decides    *)
(* what a string, a name or a path means where it is met, and each action  *)
(* has to leave the stack as its statement found it.                       *)
(*                                                                         *)
(* Values come evaluated (TextValues), splines too (TextSplines):          *)
(* <<"plain", x>>, <<"list", items>> or <<"dict", f>>.                     *)
(* White space, line breaks and the choice of brackets are left out: they  *)
(* do not change the rules a text matches.                                 *)
(***************************************************************************)
EXTENDS Integers, SequencesExt

L == INSTANCE ListOps
G == INSTANCE TextGrammar

NoValue == <<"none", 0>>
NoTargets == <<0>>                  \* relParsingTargetPaths not set
Identity == <<0, 1>>              \* a layer offset: offset and scale

\* What the schema says of the fields metadata names.
ListMetadata == {"apiSchemas"}
PlainMetadata == {"active", "customData", "hasOwnedSubLayers"}
NonMetadata == {"specifier"}

-----------------------------------------------------------------------------
(* Paths are sequences of <<"prim", name>>, <<"variant", set, variant>>,   *)
(* <<"property", name>> and <<"target", path>>; names are numbers, None is *)
(* the variant in the path of a variant set, a target is a name too.       *)

None == 0
Root == <<>>
Child(p, name) == Append(p, <<"prim", name>>)
Variant(p, set, name) == Append(p, <<"variant", set, name>>)
Property(p, name) == Append(p, <<"property", name>>)
Target(p, path) == Append(p, <<"target", path>>)
Relative(p, anchor) == SubSeq(p, Len(anchor) + 1, Len(p))

HasSpec(d, p) == p \in DOMAIN d
Has(d, p, field) == HasSpec(d, p) /\ field \in DOMAIN d[p].fields
GetAs(d, p, field, default) == IF Has(d, p, field) THEN d[p].fields[field] ELSE default
SetIn(d, p, field, value) == [d EXCEPT ![p].fields = (field :> value) @@ @]
CreateSpec(d, p, type) ==
    (p :> [type |-> type, fields |-> IF HasSpec(d, p) THEN d[p].fields ELSE <<>>]) @@ d

-----------------------------------------------------------------------------
Start ==
    [ctx |-> <<>>, path |-> Root, data |-> <<>>, error |-> FALSE,
     listOp |-> "explicit", custom |-> FALSE, variability |-> "", typeName |-> "",
     specifier |-> "", primTypeName |-> "", children |-> <<>>, properties |-> <<>>,
     names |-> <<>>, sets |-> <<>>, variants |-> <<>>,
     targets |-> NoTargets, newTargets |-> <<>>, connections |-> <<>>,
     asset |-> "", prim |-> "", offset |-> Identity, refs |-> <<>>, arcs |-> <<>>,
     subLayers |-> <<>>, offsets |-> <<>>, relocates |-> <<>>, source |-> <<>>,
     dictionary |-> <<>>, key |-> "", value |-> NoValue,
     symmetry |-> "", samples |-> <<>>, time |-> 0]

Ctx(c) == Last(c.ctx)
Above(c, n) == c.ctx[Len(c.ctx) - n]       \* parsingContext.rbegin()[n]
Push(c, context) == [c EXCEPT !.ctx = Append(@, context)]
Pop(c) == [c EXCEPT !.ctx = Front(@)]
Swap(c, from, to) == Push(IF Ctx(c) = from THEN Pop(c) ELSE c, to)
Error(c) == [c EXCEPT !.error = TRUE]
Set(c, field, value) == [c EXCEPT !.data = SetIn(@, c.path, field, value)]

\* A statement is over: the next one is an attribute until it says otherwise.
ExpectAttribute(c) == Push([c EXCEPT !.custom = FALSE, !.variability = ""], "AttributeSpec")

SetListOpItems(c, field, items) ==
    IF ~IsInjective(items) THEN Error(c)
    ELSE Set(c, field, L!SetItems(GetAs(c.data, c.path, field, L!NewListOp), items, c.listOp))

\* Only an explicit list may be empty.
SetArcs(c, field, items) ==
    IF items = <<>> /\ c.listOp # "explicit" THEN Error(c)
    ELSE Pop([SetListOpItems(c, field, items) EXCEPT !.listOp = "explicit"])

-----------------------------------------------------------------------------
(* Metadata.                                                               *)

MetadataOpen(c) == [Push(c, "Metadata") EXCEPT !.listOp = "explicit"]

\* KeywordPermission, KeywordSymmetryFunction, KeywordDisplayUnit.
MetadataKeyword(c, context) == IF Ctx(c) = "Metadata" THEN Push(c, context) ELSE c

\* KeywordAdd, KeywordDelete, KeywordAppend, KeywordPrepend, KeywordReorder.
ListOpKeyword(c, kind) ==
    CASE Ctx(c) = "Metadata" -> Push([c EXCEPT !.listOp = kind], "ListOpMetadata")
      [] Ctx(c) = "AttributeSpec" -> [c EXCEPT !.listOp = kind]
      [] OTHER -> c

KeyValueMetadataStart(c, key) ==
    LET named == [c EXCEPT !.key = key]
    IN  IF Ctx(c) = "Metadata" THEN Push(named, "KeyValueMetadata") ELSE named

\* The items of a list op of values the schema does not know: the text in brackets is one.
UnregisteredItems(value) == IF value = NoValue THEN <<>> ELSE <<value[2]>>

SetUnregistered(c) ==
    LET old == GetAs(c.data, c.path, c.key, <<"listOp", L!NewListOp>>)
    IN  CASE c.value[1] = "dict" -> Set(c, c.key, c.value)
          [] c.value[1] # "dict" /\ c.listOp = "explicit" -> Set(c, c.key, c.value)
          [] c.value[1] # "dict" /\ c.listOp # "explicit" /\ old[1] = "listOp" ->
                Set(c, c.key, <<"listOp", L!SetItems(old[2], UnregisteredItems(c.value), c.listOp)>>)
          [] OTHER -> c                \* another value was read before: it stays

KeyValueMetadataEnd(c) ==
    LET set == CASE c.key \in ListMetadata ->
                       SetListOpItems(c, c.key, IF c.value = NoValue THEN <<>> ELSE c.value[2])
                 [] c.key \in PlainMetadata ->
                       IF c.value = NoValue THEN Error(c) ELSE Set(c, c.key, c.value)
                 [] c.key \in NonMetadata -> Error(c)
                 [] OTHER -> SetUnregistered(c)
    IN  [set EXCEPT !.value = NoValue, !.listOp = "explicit"]

KeywordNone(c) ==
    CASE Ctx(c) \in {"KeyValueMetadata", "ListOpMetadata"} -> Pop([c EXCEPT !.value = NoValue])
      [] Ctx(c) = "AttributeSpec" -> Set(c, "default", <<"block", 0>>)
      [] Ctx(c) \in {"RelationshipSpec", "RelationshipAssignment"} -> [c EXCEPT !.targets = <<>>]
      [] Ctx(c) = "TimeSamples" -> [c EXCEPT !.samples = (c.time :> <<"block", 0>>) @@ @]
      [] OTHER -> c

TypedValue(c, value) ==
    CASE Ctx(c) \in {"KeyValueMetadata", "ListOpMetadata"} -> Pop([c EXCEPT !.value = value])
      [] Ctx(c) = "AttributeSpec" -> Set(c, "default", value)
      [] Ctx(c) = "TimeSamples" -> [c EXCEPT !.samples = (c.time :> value) @@ @]

DictionaryValue(c, dictionary) ==
    IF Ctx(c) = "KeyValueMetadata" THEN Pop([c EXCEPT !.value = <<"dict", dictionary>>])
    ELSE [c EXCEPT !.dictionary = dictionary]

KeywordAnimationBlock(c) ==
    IF Ctx(c) = "AttributeSpec" THEN Set(c, "default", <<"animationBlock", 0>>) ELSE c

\* The variants of several statements are merged.
VariantsMetadata(c) ==
    Pop([Set(c, "variantSelection", c.dictionary @@ GetAs(c.data, c.path, "variantSelection", <<>>))
         EXCEPT !.dictionary = <<>>])

SubstitutionsMetadata(c) ==
    Pop([Set(c, Ctx(c), c.dictionary) EXCEPT !.dictionary = <<>>])

SymmetryFunctionMetadata(c) == Pop(Set(c, "symmetryFunction", c.symmetry))

-----------------------------------------------------------------------------
(* References, payloads, inherits and specializes; sublayers; relocates.   *)

\* KeywordReferences, KeywordPayload: ListOpMetadata gives way to them.
KeywordReferences(c, field) ==
    [Swap(c, "ListOpMetadata", field) EXCEPT !.asset = "", !.prim = "", !.offset = Identity, !.refs = <<>>]
KeywordInherits(c, field) == [Swap(c, "ListOpMetadata", field) EXCEPT !.arcs = <<>>]

AssetRef(c, asset) ==
    CASE Ctx(c) \in {"references", "payload"} ->
            IF asset = "" THEN Error(c)
            ELSE [c EXCEPT !.asset = asset, !.offset = Identity, !.prim = ""]
      [] Ctx(c) = "subLayers" -> [c EXCEPT !.asset = asset, !.offset = Identity]

\* Mutant: the custom data of a reference stays for the next one.
ReferenceListItemSticky(c) ==
    [c EXCEPT !.refs = Append(@, [asset |-> c.asset, prim |-> c.prim, offset |-> c.offset,
                                  customData |-> c.dictionary]),
              !.asset = "", !.prim = "", !.offset = Identity]
ReferenceListItem(c) ==
    [c EXCEPT !.refs = Append(@, [asset |-> c.asset, prim |-> c.prim, offset |-> c.offset,
                                  customData |-> c.dictionary]),
              !.asset = "", !.prim = "", !.offset = Identity, !.dictionary = <<>>]
PayloadListItem(c) ==
    [c EXCEPT !.refs = Append(@, [asset |-> c.asset, prim |-> c.prim, offset |-> c.offset]),
              !.asset = "", !.prim = "", !.offset = Identity]

ReferenceList(c) == SetArcs(c, Ctx(c), c.refs)
InheritsOrSpecializesList(c) == SetArcs(c, Ctx(c), c.arcs)

Number(c, x) ==
    CASE Ctx(c) = "TimeSamples" -> [c EXCEPT !.time = x]
      [] Ctx(c) = "LayerOffset" -> Pop([c EXCEPT !.offset[1] = x])
      [] Ctx(c) = "LayerScale" -> Pop([c EXCEPT !.offset[2] = x])

KeywordSubLayers(c) == [Push(c, "subLayers") EXCEPT !.subLayers = <<>>, !.offsets = <<>>]
SublayerItem(c) == [c EXCEPT !.subLayers = Append(@, c.asset), !.offsets = Append(@, c.offset)]
SublayerListClose(c) ==
    Pop(IF c.subLayers = <<>> THEN c
        ELSE [Set(Set(c, "subLayers", c.subLayers), "subLayerOffsets", c.offsets)
              EXCEPT !.subLayers = <<>>, !.offsets = <<>>])

KeywordRelocates(c) == [Push(c, "RelocatesMetadata") EXCEPT !.source = <<>>]
RelocatesPath(c, path) ==
    IF c.source = <<>> THEN [c EXCEPT !.source = <<path>>]
    ELSE [c EXCEPT !.relocates = Append(@, <<c.path \o c.source[1], c.path \o path>>), !.source = <<>>]
RelocatesMapClose(c) ==
    LET set == CASE Above(c, 2) = "PrimSpec" -> Set(c, "relocates", ToSet(c.relocates))
                 [] Above(c, 2) = "LayerSpec" -> Set(c, "layerRelocates", c.relocates)
                 [] OTHER -> Error(c)
    IN  Pop([set EXCEPT !.relocates = <<>>])

-----------------------------------------------------------------------------
(* Prims and variants.                                                     *)

\* KeywordDef, KeywordClass, KeywordOver.
KeywordSpecifier(c, specifier) ==
    Swap([c EXCEPT !.specifier = specifier], "AttributeSpec", "PrimSpec")

CreatePrimSpec(c, name) ==
    LET path == Child(c.path, name)
        made == [c EXCEPT !.path = path, !.data = CreateSpec(@, path, "prim"),
                          !.children = Append(Append(Front(@), Append(Last(@), name)), <<>>),
                          !.properties = Append(@, <<>>), !.primTypeName = ""]
        typed == IF c.primTypeName = "" THEN made ELSE Set(made, "typeName", c.primTypeName)
    IN  IF HasSpec(c.data, path) THEN Error(c) ELSE Set(typed, "specifier", c.specifier)

SetChildren(c) ==
    LET withPrims == IF Last(c.children) = <<>> THEN c ELSE Set(c, "primChildren", Last(c.children))
        withAll == IF Last(c.properties) = <<>> THEN withPrims
                   ELSE Set(withPrims, "propertyChildren", Last(c.properties))
    IN  [withAll EXCEPT !.children = Front(@), !.properties = Front(@)]

PrimSpec(c) ==
    LET done == Pop(Pop([SetChildren(c) EXCEPT !.path = Front(@)]))
    IN  IF Ctx(done) = "LayerSpec" THEN done ELSE ExpectAttribute(done)

KeywordVariantSet(c) == Swap(c, "AttributeSpec", "VariantSetStatement")
OpenVariantSet(c, name) ==
    [c EXCEPT !.sets = Append(@, name), !.variants = Append(@, <<>>), !.path = Variant(@, name, None)]
OpenVariant(c, name) ==
    LET path == Variant(Front(c.path), Last(c.sets), name)
    IN  [c EXCEPT !.variants = Append(Front(@), Append(Last(@), name)), !.path = path,
                  !.children = Append(@, <<>>), !.properties = Append(@, <<>>),
                  !.data = CreateSpec(@, path, "variant")]
VariantStatement(c) ==
    [SetChildren(c) EXCEPT !.path = Variant(Front(@), Last(@)[2], None)]
VariantSetStatement(c) ==
    LET set == c.path
        prim == Front(c.path)
        listed == IF HasSpec(c.data, set) THEN c.data
                  ELSE CreateSpec(SetIn(c.data, prim, "variantSetChildren",
                                        Append(GetAs(c.data, prim, "variantSetChildren", <<>>), Last(c.sets))),
                                  set, "variantSet")
    IN  ExpectAttribute(Pop([c EXCEPT !.path = prim, !.sets = Front(@), !.variants = Front(@),
                                !.data = SetIn(listed, set, "variantChildren", Last(c.variants))]))

\* The variant sets metadata lists are made only by explicit and added lists.
VariantSetsMetadata(c) ==
    LET Made(d, name) == CreateSpec(d, Variant(c.path, name, None), "variantSet")
        set == SetListOpItems(c, "variantSetNames", c.names)
        made == IF c.listOp \notin {"explicit", "added"} THEN set
                ELSE [set EXCEPT !.data = SetIn(FoldLeft(Made, @, c.names), c.path, "variantSetChildren", c.names)]
        popped == Pop([made EXCEPT !.names = <<>>, !.listOp = "explicit"])
    IN  CASE c.names = <<>> -> Error(c)      \* a list of names matches nothing
          [] c.names # <<>> /\ Ctx(popped) = "ListOpMetadata" -> Pop(popped)
          [] OTHER -> popped

\* reorder nameChildren, properties or rootPrims.
OrderStatement(c) ==
    Pop([Set(c, Ctx(c), c.names) EXCEPT !.listOp = "explicit", !.names = <<>>])

-----------------------------------------------------------------------------
(* Attributes and relationships.                                           *)

\* KeywordUniform, KeywordConfig, KeywordVarying.
KeywordVariability(c, variability) == [c EXCEPT !.variability = variability]

CreateAttributeSpec(c, name) ==
    LET path == Property(c.path, name)
        isNew == ~HasSpec(c.data, path)
        made == IF isNew
                THEN SetIn(CreateSpec(c.data, path, "attribute"), path, "custom", FALSE) ELSE c.data
        variability == IF c.variability = "" THEN "varying" ELSE c.variability
    IN  IF \/ GetAs(c.data, path, "typeName", c.typeName) # c.typeName
           \/ GetAs(c.data, path, "variability", variability) # variability
        THEN Error(c)
        ELSE [c EXCEPT !.path = path,
                       !.properties = IF isNew THEN Append(Front(@), Append(Last(@), name)) ELSE @,
                       !.data = SetIn(SetIn(IF c.custom THEN SetIn(made, path, "custom", TRUE) ELSE made,
                                            path, "typeName", c.typeName),
                                      path, "variability", variability)]

CreateRelationshipSpec(c, name) ==
    LET path == Property(c.path, name)
        isNew == ~HasSpec(c.data, path)
        made == SetIn(IF isNew THEN CreateSpec(c.data, path, "relationship") ELSE c.data,
                      path, "variability", c.variability)
    IN  [c EXCEPT !.path = path, !.targets = NoTargets, !.newTargets = <<>>,
                  !.properties = IF isNew THEN Append(Front(@), Append(Last(@), name)) ELSE @,
                  !.data = IF c.custom THEN SetIn(made, path, "custom", TRUE) ELSE made]

AttributeSpec(c) == [c EXCEPT !.custom = FALSE, !.variability = "", !.typeName = ""]

KeywordTimeSamples(c) == [Push(c, "TimeSamples") EXCEPT !.samples = <<>>]
TimeSampleMap(c) == Pop(Set(c, "timeSamples", c.samples))

KeywordSpline(c) == Push(c, "SplineValues")
SplineValue(c, spline) == Pop(Set(c, "spline", spline))

KeywordConnect(c) == [Push(c, "ConnectAttribute") EXCEPT !.connections = <<>>]
\* Children are made only by explicit and added connections.
ConnectValue(c) ==
    LET Made(d, path) == CreateSpec(d, Target(c.path, path), "connection")
        made == IF c.listOp \notin {"explicit", "added"} THEN c
                ELSE [c EXCEPT !.data = SetIn(FoldLeft(Made, @, c.connections), c.path, "connectionChildren", c.connections)]
    IN  AttributeSpec(SetArcs(made, "connectionPaths", c.connections))

KeywordRel(c) ==
    Swap([c EXCEPT !.variability = IF @ = "" THEN "uniform" ELSE @], "AttributeSpec", "RelationshipSpec")
RelationshipSpec(c) == ExpectAttribute(Pop(c))

KeywordDefault(c) == IF Ctx(c) = "RelationshipSpec" THEN Push(c, "RelationshipDefault") ELSE c
Assignment(c) == IF Ctx(c) = "RelationshipSpec" THEN Push(c, "RelationshipAssignment") ELSE c

AddTargets(c) ==
    IF c.newTargets = <<>> THEN c
    ELSE Set(c, "targetChildren", GetAs(c.data, c.path, "targetChildren", <<>>) \o c.newTargets)
MakeTarget(c, path) ==
    IF HasSpec(c.data, Target(c.path, path)) THEN c
    ELSE [c EXCEPT !.data = CreateSpec(@, Target(c.path, path), "target"),
                   !.newTargets = Append(@, path)]
RelationshipDefault(c, path) == Pop(AddTargets(Set(c, "default", path)))

\* The end of the targets.  The statement of a list op ends here, RelationshipSpec is not called.
RelationshipAssignmentOptional(c) ==
    LET made == IF c.listOp \notin {"explicit", "added"} THEN c ELSE FoldLeft(MakeTarget, c, c.targets)
        set == IF c.targets = NoTargets THEN c
               ELSE AddTargets(SetListOpItems(made, "targetPaths", c.targets))
        assigned == IF Ctx(set) = "RelationshipAssignment" THEN Pop(set) ELSE set
        ended == IF c.listOp = "explicit" THEN assigned ELSE ExpectAttribute(Pop(assigned))
    IN  IF c.targets = <<>> /\ c.listOp # "explicit" THEN Error(c)
        ELSE [ended EXCEPT !.listOp = "explicit"]

PropertySpec(c) == [c EXCEPT !.path = Front(@)]

-----------------------------------------------------------------------------
(* What a string, a name or a path means depends on where it is met.       *)

String(c, x) ==
    CASE Ctx(c) = "DocMetadata" -> Set(c, "documentation", x)
      [] Ctx(c) = "Metadata" -> Set(c, "comment", x)
      [] Ctx(c) = "PrimSpec" -> CreatePrimSpec(c, x)
      [] Ctx(c) \in {"primOrder", "propertyOrder", "VariantSetsMetadata"} -> [c EXCEPT !.names = Append(@, x)]
      [] Ctx(c) = "VariantSetStatement" -> OpenVariantSet(c, x)
      [] Ctx(c) = "VariantStatementList" -> OpenVariant(c, x)
      [] Ctx(c) = "KindMetadata" -> Set(c, "kind", x)

Identifier(c, x) ==
    CASE Ctx(c) \in {"Metadata", "ListOpMetadata"} -> KeyValueMetadataStart(c, x)
      [] Ctx(c) = "PermissionMetadata" -> Pop(Set(c, "permission", x))
      [] Ctx(c) = "SymmetryFunctionMetadata" -> [c EXCEPT !.symmetry = x]
      [] Ctx(c) = "DisplayUnitMetadata" -> Pop(Set(c, "displayUnit", x))
      [] Ctx(c) = "AttributeSpec" -> [c EXCEPT !.typeName = x]
      [] Ctx(c) = "PrimSpec" -> [c EXCEPT !.primTypeName = x]

NamespacedName(c, name) ==
    CASE Ctx(c) = "AttributeSpec" -> CreateAttributeSpec(c, name)
      [] Ctx(c) = "RelationshipSpec" -> CreateRelationshipSpec(c, name)

PathRef(c, path) ==
    CASE Ctx(c) = "ConnectAttribute" -> [c EXCEPT !.connections = Append(@, path)]
      [] Ctx(c) \in {"inheritPaths", "specializes"} -> [c EXCEPT !.arcs = Append(@, path)]
      [] Ctx(c) \in {"RelationshipAssignment", "RelationshipTarget", "RelationshipSpec"} ->
            [c EXCEPT !.targets = Append(IF @ = NoTargets THEN <<>> ELSE @, path)]
      [] Ctx(c) = "RelationshipDefault" -> RelationshipDefault(c, path)
      [] Ctx(c) = "RelocatesMetadata" -> RelocatesPath(c, path)
      [] Ctx(c) \in {"references", "payload"} -> [c EXCEPT !.prim = path]

LayerHeader(c) ==
    Push([c EXCEPT !.children = Append(@, <<>>), !.data = CreateSpec(@, Root, "pseudoRoot")], "LayerSpec")
LayerSpec(c) == [Set(c, "primChildren", Last(c.children)) EXCEPT !.children = Front(@)]

-----------------------------------------------------------------------------
\* Keywords that open something, and the rules whose end closes it.
Opens == [KeywordDoc |-> "DocMetadata", KeywordKind |-> "KindMetadata",
          KeywordVariants |-> "VariantsMetadata", KeywordVariantSets |-> "VariantSetsMetadata",
          KeywordPrefixSubstitutions |-> "prefixSubstitutions",
          KeywordSuffixSubstitutions |-> "suffixSubstitutions",
          KeywordNameChildren |-> "primOrder", KeywordProperties |-> "propertyOrder",
          KeywordRootPrims |-> "primOrder", KeywordOffset |-> "LayerOffset",
          KeywordScale |-> "LayerScale", ReferenceParametersOpen |-> "ReferenceParameters",
          VariantStatementListOpen |-> "VariantStatementList"]
Closes == {"MetadataClose", "DocMetadata", "KindMetadata", "ReferenceParametersClose",
           "VariantStatementClose", "VariantStatementListClose"}
MetadataKeywords == [KeywordPermission |-> "PermissionMetadata", KeywordDisplayUnit |-> "DisplayUnitMetadata",
                     KeywordSymmetryFunction |-> "SymmetryFunctionMetadata"]
ListOpKeywords == [KeywordAdd |-> "added", KeywordDelete |-> "deleted", KeywordAppend |-> "appended",
                   KeywordPrepend |-> "prepended", KeywordReorder |-> "ordered"]

Apply(c, token) ==
    LET rule == token[1]
        x == token[2]
    IN  CASE rule \in DOMAIN Opens -> Push(c, Opens[rule])
          [] rule \in Closes -> Pop(c)
          [] rule \in DOMAIN MetadataKeywords -> MetadataKeyword(c, MetadataKeywords[rule])
          [] rule \in DOMAIN ListOpKeywords -> ListOpKeyword(c, ListOpKeywords[rule])
          [] rule = "LayerHeader" -> LayerHeader(c)
          [] rule = "LayerSpec" -> LayerSpec(c)
          [] rule = "MetadataOpen" -> MetadataOpen(c)
          [] rule = "KeyValueMetadata" -> KeyValueMetadataEnd(c)
          [] rule = "KeywordNone" -> KeywordNone(c)
          [] rule = "KeywordAnimationBlock" -> KeywordAnimationBlock(c)
          [] rule = "TypedValue" -> TypedValue(c, x)
          [] rule = "DictionaryValue" -> DictionaryValue(c, x)
          [] rule = "VariantsMetadata" -> VariantsMetadata(c)
          [] rule = "SubstitutionsMetadata" -> SubstitutionsMetadata(c)
          [] rule = "SymmetryFunctionMetadata" -> SymmetryFunctionMetadata(c)
          [] rule = "KeywordReferences" -> KeywordReferences(c, x)
          [] rule = "KeywordInherits" -> KeywordInherits(c, x)
          [] rule = "AssetRef" -> AssetRef(c, x)
          [] rule = "ReferenceListItem" -> ReferenceListItem(c)
          [] rule = "PayloadListItem" -> PayloadListItem(c)
          [] rule = "ReferenceList" -> ReferenceList(c)
          [] rule = "InheritsOrSpecializesList" -> InheritsOrSpecializesList(c)
          [] rule = "Number" -> Number(c, x)
          [] rule = "KeywordSubLayers" -> KeywordSubLayers(c)
          [] rule = "SublayerItem" -> SublayerItem(c)
          [] rule = "SublayerListClose" -> SublayerListClose(c)
          [] rule = "KeywordRelocates" -> KeywordRelocates(c)
          [] rule = "RelocatesMapClose" -> RelocatesMapClose(c)
          [] rule = "KeywordSpecifier" -> KeywordSpecifier(c, x)
          [] rule \in {"PrimMetadataOptional", "VariantStatementOpen"} -> ExpectAttribute(c)
          [] rule = "PrimSpec" -> PrimSpec(c)
          [] rule = "KeywordVariantSet" -> KeywordVariantSet(c)
          [] rule = "VariantStatement" -> VariantStatement(c)
          [] rule = "VariantSetStatement" -> VariantSetStatement(c)
          [] rule = "VariantSetsMetadata" -> VariantSetsMetadata(c)
          [] rule = "OrderStatement" -> OrderStatement(c)
          [] rule = "KeywordCustom" -> [c EXCEPT !.custom = TRUE]
          [] rule = "KeywordVariability" -> KeywordVariability(c, x)
          [] rule = "AttributeSpec" -> AttributeSpec(c)
          [] rule = "KeywordTimeSamples" -> KeywordTimeSamples(c)
          [] rule = "TimeSampleMap" -> TimeSampleMap(c)
          [] rule = "KeywordSpline" -> KeywordSpline(c)
          [] rule = "SplineValue" -> SplineValue(c, x)
          [] rule = "KeywordConnect" -> KeywordConnect(c)
          [] rule = "ConnectValue" -> ConnectValue(c)
          [] rule = "KeywordRel" -> KeywordRel(c)
          [] rule = "RelationshipSpec" -> RelationshipSpec(c)
          [] rule = "KeywordDefault" -> KeywordDefault(c)
          [] rule = "Assignment" -> Assignment(c)
          [] rule = "RelationshipAssignmentOptional" -> RelationshipAssignmentOptional(c)
          [] rule = "PropertySpec" -> PropertySpec(c)
          [] rule = "String" -> String(c, x)
          [] rule = "Identifier" -> Identifier(c, x)
          [] rule = "NamespacedName" -> NamespacedName(c, x)
          [] rule = "PathRef" -> PathRef(c, x)

RECURSIVE ParseFrom(_, _, _)
ParseFrom(c, text, i) ==
    IF c.error \/ i > Len(text) THEN c ELSE ParseFrom(Apply(c, text[i]), text, i + 1)

\* Sdf_ParseLayer: an action that throws ends the parse.
ParseLayer(text) == ParseFrom(Start, text, 1)

-----------------------------------------------------------------------------
(* The writer.                                                             *)

Tok(rule) == <<<<rule, 0>>>>
TokOf(rule, x) == <<<<rule, x>>>>
If(condition, text) == IF condition THEN text ELSE <<>>
Each(Write(_), seq) == FlattenSeq([i \in DOMAIN seq |-> Write(seq[i])])
Sorted(names) == SortSeq(names, LAMBDA m, n : m < n)

\* The lists of a list op in the order they are written: <<kind, items>>.
Lists(op) ==
    IF op.explicit THEN <<<<"explicit", op.items["explicit"]>>>>
    ELSE SelectSeq([i \in 1..5 |-> LET kind == <<"deleted", "added", "prepended", "appended", "ordered">>[i]
                                   IN  <<kind, op.items[kind]>>],
                   LAMBDA list : list[2] # <<>>)
ListOpKeywordOf(kind) ==
    IF kind = "explicit" THEN <<>>
    ELSE Tok(CHOOSE keyword \in DOMAIN ListOpKeywords : ListOpKeywords[keyword] = kind)

WriteItems(Write(_), items) == IF items = <<>> THEN Tok("KeywordNone") ELSE Each(Write, items)
WritePath(path) == TokOf("PathRef", path)
WriteName(name) == TokOf("String", name)

WriteLayerOffset(offset) ==
    If(offset[1] # 0, Tok("KeywordOffset") \o TokOf("Number", offset[1]))
    \o If(offset[2] # 1, Tok("KeywordScale") \o TokOf("Number", offset[2]))

WriteReference(r) ==
    If(r.asset # "", TokOf("AssetRef", r.asset))
    \o If(r.asset = "" \/ r.prim # "", TokOf("PathRef", r.prim))
    \o If(r.offset # Identity \/ r.customData # <<>>,
          Tok("ReferenceParametersOpen") \o WriteLayerOffset(r.offset)
          \o If(r.customData # <<>>, TokOf("DictionaryValue", r.customData))
          \o Tok("ReferenceParametersClose"))
    \o Tok("ReferenceListItem")
WritePayload(r) ==
    If(r.asset # "", TokOf("AssetRef", r.asset))
    \o If(r.asset = "" \/ r.prim # "", TokOf("PathRef", r.prim))
    \o WriteLayerOffset(r.offset) \o Tok("PayloadListItem")

\* references, payload, inherits and specializes.
WriteArcs(op, keyword, field, Write(_), end) ==
    LET List(list) == ListOpKeywordOf(list[1]) \o TokOf(keyword, field)
                      \o WriteItems(Write, list[2]) \o Tok(end)
    IN  Each(List, Lists(op))

WriteRelocates(relocates) ==
    LET Relocate(r) == TokOf("PathRef", r[1]) \o TokOf("PathRef", r[2])
    IN  Tok("KeywordRelocates") \o Each(Relocate, relocates) \o Tok("RelocatesMapClose")

WriteValue(value) ==
    CASE value[1] = "block" -> Tok("KeywordNone")
      [] value[1] = "animationBlock" -> Tok("KeywordAnimationBlock")
      [] value[1] = "dict" -> TokOf("DictionaryValue", value[2])
      [] OTHER -> TokOf("TypedValue", value)

\* Sdf_WriteSimpleField: list ops, of values the schema does not know too, and other values.
WriteListOp(field, op, Text(_)) ==
    LET List(list) == ListOpKeywordOf(list[1]) \o TokOf("Identifier", field)
                      \o (IF list[2] = <<>> THEN Tok("KeywordNone") ELSE TokOf("TypedValue", Text(list[2])))
                      \o Tok("KeyValueMetadata")
    IN  Each(List, Lists(op))
WriteSimpleField(field, value) ==
    LET Registered(items) == <<"list", items>>
        Unregistered(items) == <<"list", FlattenSeq(items)>>
    IN  CASE field \in ListMetadata -> WriteListOp(field, value, Registered)
          [] field \notin ListMetadata /\ value[1] = "listOp" -> WriteListOp(field, value[2], Unregistered)
          [] OTHER -> TokOf("Identifier", field) \o WriteValue(value) \o Tok("KeyValueMetadata")

WriteVariantSetNames(op) ==
    LET List(list) == ListOpKeywordOf(list[1]) \o Tok("KeywordVariantSets")
                      \o Each(WriteName, list[2]) \o Tok("VariantSetsMetadata")
    IN  Each(List, Lists(op))

WriteField(p, field, value) ==
    CASE field = "documentation" -> Tok("KeywordDoc") \o WriteName(value) \o Tok("DocMetadata")
      [] field = "kind" -> Tok("KeywordKind") \o WriteName(value) \o Tok("KindMetadata")
      [] field = "permission" -> Tok("KeywordPermission") \o TokOf("Identifier", value)
      [] field = "displayUnit" -> Tok("KeywordDisplayUnit") \o TokOf("Identifier", value)
      [] field = "symmetryFunction" -> Tok("KeywordSymmetryFunction")
             \o If(value # "", TokOf("Identifier", value)) \o Tok("SymmetryFunctionMetadata")
      [] field = "payload" -> WriteArcs(value, "KeywordReferences", field, WritePayload, "ReferenceList")
      [] field = "references" -> WriteArcs(value, "KeywordReferences", field, WriteReference, "ReferenceList")
      [] field \in {"inheritPaths", "specializes"} ->
             WriteArcs(value, "KeywordInherits", field, WritePath, "InheritsOrSpecializesList")
      [] field = "variantSetNames" -> WriteVariantSetNames(value)
      [] field = "variantSelection" -> If(value # <<>>,
             Tok("KeywordVariants") \o TokOf("DictionaryValue", value) \o Tok("VariantsMetadata"))
      [] field = "relocates" -> WriteRelocates([i \in DOMAIN SetToSeq(value) |->
             [n \in 1..2 |-> Relative(SetToSeq(value)[i][n], p)]])
      [] field = "prefixSubstitutions" -> Tok("KeywordPrefixSubstitutions")
             \o TokOf("DictionaryValue", value) \o Tok("SubstitutionsMetadata")
      [] OTHER -> WriteSimpleField(field, value)

\* The fields written as metadata, in the order of a dictionary; the comment comes first.
MetadataFields == <<"active", "alien", "apiSchemas", "customData", "displayUnit", "documentation",
                    "hasOwnedSubLayers", "inheritPaths", "kind", "payload", "permission",
                    "prefixSubstitutions", "references", "relocates", "specializes",
                    "symmetryFunction", "variantSelection", "variantSetNames">>
HasInfo(fields) ==
    ("comment" \in DOMAIN fields /\ fields["comment"] # "")
    \/ \E i \in DOMAIN MetadataFields : MetadataFields[i] \in DOMAIN fields
WriteMetadata(p, fields) ==
    LET Field(field) == If(field \in DOMAIN fields, WriteField(p, field, fields[field]))
    IN  If(HasInfo(fields),
           Tok("MetadataOpen")
           \o If("comment" \in DOMAIN fields /\ fields["comment"] # "", WriteName(fields["comment"]))
           \o Each(Field, MetadataFields) \o Tok("MetadataClose"))

-----------------------------------------------------------------------------
WriteConnections(op, declaration) ==
    LET List(list) == ListOpKeywordOf(list[1]) \o declaration \o Tok("KeywordConnect")
                      \o WriteItems(WritePath, list[2]) \o Tok("ConnectValue")
                      \o If(list[1] = "explicit", Tok("AttributeSpec")) \o Tok("PropertySpec")
    IN  Each(List, Lists(op))

WriteTimeSamples(samples) ==
    LET Sample(time) == If(time \in DOMAIN samples, TokOf("Number", time) \o WriteValue(samples[time]))
    IN  Each(Sample, Sorted(SetToSeq(DOMAIN samples)))

WriteAttribute(p, fields) ==
    LET declaration == If(fields["variability"] # "varying", TokOf("KeywordVariability", fields["variability"]))
                       \o TokOf("Identifier", fields["typeName"]) \o TokOf("NamespacedName", Last(p)[2])
        end == Tok("AttributeSpec") \o Tok("PropertySpec")
        has == DOMAIN fields
        basic == \/ HasInfo(fields) \/ "default" \in has \/ fields["custom"]
                 \/ has \cap {"connectionPaths", "timeSamples", "spline"} = {}
    IN  If(basic, If(fields["custom"], Tok("KeywordCustom")) \o declaration
                  \o If("default" \in has, WriteValue(fields["default"]))
                  \o WriteMetadata(p, fields) \o end)
        \o If("timeSamples" \in has, declaration \o Tok("KeywordTimeSamples")
                  \o WriteTimeSamples(fields["timeSamples"]) \o Tok("TimeSampleMap") \o end)
        \o If("spline" \in has, declaration \o Tok("KeywordSpline")
                  \o TokOf("SplineValue", fields["spline"]) \o end)
        \o If("connectionPaths" \in has, WriteConnections(fields["connectionPaths"], declaration))

WriteTargets(items) == Tok("Assignment") \o WriteItems(WritePath, items) \o Tok("RelationshipAssignmentOptional")

WriteRelationship(p, fields) ==
    LET custom == "custom" \in DOMAIN fields /\ fields["custom"]
        declaration == If(fields["variability"] = "varying", TokOf("KeywordVariability", "varying"))
                       \o Tok("KeywordRel") \o TokOf("NamespacedName", Last(p)[2])
        op == IF "targetPaths" \in DOMAIN fields THEN fields["targetPaths"] ELSE L!NewListOp
        end == Tok("RelationshipSpec") \o Tok("PropertySpec")
        edited == ~op.explicit /\ L!HasKeys(op)
        basic == HasInfo(fields) \/ op.explicit \/ (~edited /\ ~custom)
        List(list) == ListOpKeywordOf(list[1]) \o declaration \o WriteTargets(list[2]) \o Tok("PropertySpec")
    IN  If(basic \/ custom, If(custom, Tok("KeywordCustom")) \o declaration
               \o (IF op.explicit THEN WriteTargets(op.items["explicit"]) ELSE Tok("RelationshipAssignmentOptional"))
               \o WriteMetadata(p, fields) \o end)
        \o If(edited, Each(List, Lists(op)))
        \o If("default" \in DOMAIN fields,
              declaration \o Tok("KeywordDefault") \o Tok("Assignment") \o TokOf("PathRef", fields["default"]) \o end)

-----------------------------------------------------------------------------
Names(d, p, children) == GetAs(d, p, children, <<>>)

WriteProperties(d, p) ==
    LET One(name) == LET q == Property(p, name)
                     IN  IF d[q].type = "attribute" THEN WriteAttribute(q, d[q].fields)
                         ELSE WriteRelationship(q, d[q].fields)
    IN  Each(One, Sorted(Names(d, p, "propertyChildren")))

WriteOrders(d, p) ==
    LET Order(keyword, field) == If(Len(Names(d, p, field)) > 1,
            Tok("KeywordReorder") \o Tok(keyword) \o Each(WriteName, Names(d, p, field)) \o Tok("OrderStatement"))
    IN  Order("KeywordProperties", "propertyOrder") \o Order("KeywordNameChildren", "primOrder")

RECURSIVE WriteBody(_, _)

WritePrim(d, p) ==
    TokOf("KeywordSpecifier", d[p].fields["specifier"])
    \o If("typeName" \in DOMAIN d[p].fields, TokOf("Identifier", d[p].fields["typeName"]))
    \o WriteName(Last(p)[2]) \o WriteMetadata(p, d[p].fields)
    \o Tok("PrimMetadataOptional") \o WriteBody(d, p) \o Tok("PrimSpec")

WriteVariant(d, p) ==
    WriteName(Last(p)[3]) \o WriteMetadata(p, d[p].fields)
    \o Tok("VariantStatementOpen") \o WriteBody(d, p) \o Tok("VariantStatementClose") \o Tok("VariantStatement")

\* A set without variants is not written.
WriteVariantSet(d, p) ==
    LET prim == Front(p)
        name == Last(p)[2]
        variants == Names(d, p, "variantChildren")
        One(variant) == WriteVariant(d, Variant(prim, name, variant))
    IN  If(variants # <<>>, Tok("KeywordVariantSet") \o WriteName(name) \o Tok("VariantStatementListOpen")
           \o Each(One, Sorted(variants)) \o Tok("VariantStatementListClose") \o Tok("VariantSetStatement"))

WriteBody(d, p) ==
    LET One(name) == WritePrim(d, Child(p, name))
        Set1(name) == WriteVariantSet(d, Variant(p, name, None))
    IN  WriteOrders(d, p) \o WriteProperties(d, p) \o Each(One, Names(d, p, "primChildren"))
        \o Each(Set1, Names(d, p, "variantSetChildren"))

WriteSublayers(fields) ==
    LET One(i) == TokOf("AssetRef", fields["subLayers"][i])
                  \o WriteLayerOffset(fields["subLayerOffsets"][i]) \o Tok("SublayerItem")
    IN  If("subLayers" \in DOMAIN fields,
           Tok("KeywordSubLayers") \o Each(One, [i \in DOMAIN fields["subLayers"] |-> i]) \o Tok("SublayerListClose"))

WriteLayer(d) ==
    LET fields == d[Root].fields
        \* What is empty or false is not written here.
        Unsaid == {<<"documentation", "">>, <<"hasOwnedSubLayers", <<"plain", 0>>>>}
        Field(field) == If(field \in DOMAIN fields /\ \A u \in Unsaid : u[1] = field => u[2] # fields[field],
                           WriteField(Root, field, fields[field]))
        header == If("comment" \in DOMAIN fields /\ fields["comment"] # "", WriteName(fields["comment"]))
                  \o Each(Field, MetadataFields) \o WriteSublayers(fields)
                  \o If("layerRelocates" \in DOMAIN fields, WriteRelocates(fields["layerRelocates"]))
        order == Names(d, Root, "primOrder")
        One(name) == WritePrim(d, Child(Root, name))
    IN  Tok("LayerHeader") \o If(header # <<>>, Tok("MetadataOpen") \o header \o Tok("MetadataClose"))
        \o If(Len(order) > 1, Tok("KeywordReorder") \o Tok("KeywordRootPrims") \o Each(WriteName, order) \o Tok("OrderStatement"))
        \o Each(One, Names(d, Root, "primChildren")) \o Tok("LayerSpec")

-----------------------------------------------------------------------------
\* The order of properties and of variants is not kept: they are written by name.
Unordered == {"propertyChildren", "variantChildren"}
ChildrenFields == Unordered \cup {"primChildren", "variantSetChildren", "connectionChildren", "targetChildren"}
Kept(fields) == {field \in DOMAIN fields : field \in ChildrenFields => fields[field] # <<>>}
SameData(d, e) ==
    /\ DOMAIN d = DOMAIN e
    /\ \A p \in DOMAIN d :
          /\ d[p].type = e[p].type
          /\ Kept(d[p].fields) = Kept(e[p].fields)
          /\ \A field \in Kept(d[p].fields) :
                IF field \in Unordered THEN ToSet(d[p].fields[field]) = ToSet(e[p].fields[field])
                ELSE d[p].fields[field] = e[p].fields[field]

\* The parser ends where it began, with the data.
EndsWith(c, d) ==
    /\ ~c.error /\ c.ctx = <<"LayerSpec">>
    /\ c.children = <<>> /\ c.properties = <<>> /\ c.sets = <<>> /\ c.variants = <<>>
    /\ SameData(d, c.data)

IsTextOf(text, d) == G!IsLayer(text) /\ EndsWith(ParseLayer(text), d)

\* A layer that is written is a text of the grammar, and it is read back.
ReadsBack(d) == IsTextOf(WriteLayer(d), d)

=============================================================================
