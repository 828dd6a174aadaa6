----------------------------- MODULE TextGrammar -----------------------------
(***************************************************************************)
(* The grammar of text layers: which rules may follow which.  Like the     *)
(* grammar it is ordered and greedy: an alternative is tried when those    *)
(* before it fail, and a repetition takes all it can.                      *)
(*                                                                         *)
(* Only rules with an action are seen: white space, separators, brackets   *)
(* and "=" are left out, and what is in a value, a spline or a dictionary  *)
(* is in TextValues and TextSplines.  A rule with an action is seen where  *)
(* it ends.                                                                *)
(***************************************************************************)
EXTENDS Integers, Sequences

One(rules) == <<"one", rules>>
Tok(rule) == One({rule})
Seq1(parts) == <<"seq", parts>>
Or(alternatives) == <<"or", alternatives>>
Opt(part) == Or(<<part, Seq1(<<>>)>>)
Star(part) == <<"star", part>>
PrimContents == <<"contents", 0>>          \* PrimItems, which hold prims that hold PrimContents

ListOpKeyword == One({"KeywordAdd", "KeywordDelete", "KeywordAppend", "KeywordPrepend", "KeywordReorder"})
NameList == Star(Tok("String"))
Value == One({"KeywordNone", "DictionaryValue", "TypedValue"})

KeyValueMetadata == Seq1(<<Tok("Identifier"), Value, Tok("KeyValueMetadata")>>)
DocMetadata == Seq1(<<Tok("KeywordDoc"), Tok("String"), Tok("DocMetadata")>>)
SharedMetadata == Or(<<Tok("String"), KeyValueMetadata, DocMetadata>>)
ListOpKeyValueMetadata ==
    Seq1(<<Tok("Identifier"), One({"KeywordNone", "TypedValue"}), Tok("KeyValueMetadata")>>)
SharedWithListOpMetadata == Or(<<SharedMetadata, Seq1(<<ListOpKeyword, ListOpKeyValueMetadata>>)>>)
PermissionMetadata == Seq1(<<Tok("KeywordPermission"), Tok("Identifier")>>)
DisplayUnitMetadata == Seq1(<<Tok("KeywordDisplayUnit"), Tok("Identifier")>>)
SymmetryFunctionMetadata ==
    Seq1(<<Tok("KeywordSymmetryFunction"), Opt(Tok("Identifier")), Tok("SymmetryFunctionMetadata")>>)
MetadataBlock(item) == Opt(Seq1(<<Tok("MetadataOpen"), Star(item), Tok("MetadataClose")>>))

TimeSampleMap ==
    Seq1(<<Star(Seq1(<<Tok("Number"), One({"KeywordNone", "TypedValue"})>>)), Tok("TimeSampleMap")>>)
PathList == Or(<<Tok("KeywordNone"), Star(Tok("PathRef"))>>)

AttributeMetadata == MetadataBlock(
    Or(<<SharedWithListOpMetadata, DisplayUnitMetadata, PermissionMetadata, SymmetryFunctionMetadata>>))
AttributeDeclaration ==
    Seq1(<<Opt(Tok("KeywordCustom")), Opt(Tok("KeywordVariability")), Tok("Identifier"), Tok("NamespacedName")>>)
ConnectValue == Seq1(<<PathList, Tok("ConnectValue")>>)
AttributeAssignment == One({"KeywordNone", "KeywordAnimationBlock", "TypedValue"})
AttributeSpec ==
    Seq1(<<AttributeDeclaration,
           Or(<<Seq1(<<Tok("KeywordTimeSamples"), TimeSampleMap>>),
                Seq1(<<Tok("KeywordConnect"), ConnectValue>>),
                Seq1(<<Tok("KeywordSpline"), Tok("SplineValue")>>),
                Seq1(<<Opt(AttributeAssignment), AttributeMetadata>>)>>),
           Tok("AttributeSpec")>>)

RelationshipMetadata == MetadataBlock(
    Or(<<SharedWithListOpMetadata, PermissionMetadata, SymmetryFunctionMetadata>>))
RelationshipAssignmentOptional ==
    Seq1(<<Opt(Seq1(<<Tok("Assignment"), PathList>>)), Tok("RelationshipAssignmentOptional")>>)
RelationshipType ==
    Seq1(<<Opt(Tok("KeywordCustom")), Opt(Tok("KeywordVariability")), Tok("KeywordRel")>>)
RelationshipSpec ==
    Seq1(<<RelationshipType, Tok("NamespacedName"),
           Or(<<Seq1(<<Tok("KeywordDefault"), Tok("Assignment"), Tok("PathRef")>>),
                Seq1(<<RelationshipAssignmentOptional, RelationshipMetadata>>)>>),
           Tok("RelationshipSpec")>>)

InheritsOrSpecializesList == Seq1(<<PathList, Tok("InheritsOrSpecializesList")>>)
LayerOffset == Seq1(<<One({"KeywordOffset", "KeywordScale"}), Tok("Number")>>)
ReferenceTarget == Or(<<Tok("PathRef"), Seq1(<<Tok("AssetRef"), Opt(Tok("PathRef"))>>)>>)
ReferenceListItem ==
    Seq1(<<ReferenceTarget,
           Opt(Seq1(<<Tok("ReferenceParametersOpen"), Star(Or(<<Tok("DictionaryValue"), LayerOffset>>)),
                      Tok("ReferenceParametersClose")>>)),
           Tok("ReferenceListItem")>>)
PayloadListItem == Seq1(<<ReferenceTarget, Star(LayerOffset), Tok("PayloadListItem")>>)
ReferenceList ==
    Seq1(<<Or(<<Tok("KeywordNone"), Seq1(<<ReferenceListItem, Star(ReferenceListItem)>>), Star(PayloadListItem)>>),
           Tok("ReferenceList")>>)
RelocatesMetadata ==
    Seq1(<<Tok("KeywordRelocates"), Star(Seq1(<<Tok("PathRef"), Tok("PathRef")>>)), Tok("RelocatesMapClose")>>)
VariantsMetadata == Seq1(<<Tok("KeywordVariants"), Tok("DictionaryValue"), Tok("VariantsMetadata")>>)
VariantSetsMetadata == Seq1(<<Tok("KeywordVariantSets"), NameList, Tok("VariantSetsMetadata")>>)
KindMetadata == Seq1(<<Tok("KeywordKind"), Tok("String"), Tok("KindMetadata")>>)
SubstitutionsMetadata ==
    Seq1(<<One({"KeywordPrefixSubstitutions", "KeywordSuffixSubstitutions"}), Tok("DictionaryValue"),
           Tok("SubstitutionsMetadata")>>)
Arcs == Or(<<Seq1(<<Tok("KeywordReferences"), ReferenceList>>),
             Seq1(<<Tok("KeywordInherits"), InheritsOrSpecializesList>>), VariantSetsMetadata>>)
PrimMetadata == MetadataBlock(
    Or(<<SharedMetadata, KindMetadata, VariantsMetadata, Arcs, RelocatesMetadata,
         Seq1(<<ListOpKeyword, Or(<<Arcs, ListOpKeyValueMetadata>>)>>),
         SubstitutionsMetadata, PermissionMetadata, SymmetryFunctionMetadata>>))

PropertySpec ==
    Seq1(<<Or(<<AttributeSpec, RelationshipSpec,
                Seq1(<<ListOpKeyword, RelationshipType, Tok("NamespacedName"), RelationshipAssignmentOptional>>),
                Seq1(<<ListOpKeyword, AttributeDeclaration, Tok("KeywordConnect"), ConnectValue>>)>>),
           Tok("PropertySpec")>>)
OrderStatement ==
    Seq1(<<Tok("KeywordReorder"), One({"KeywordNameChildren", "KeywordProperties"}), NameList,
           Tok("OrderStatement")>>)
VariantStatement ==
    Seq1(<<Tok("String"), PrimMetadata, Tok("VariantStatementOpen"), PrimContents,
           Tok("VariantStatementClose"), Tok("VariantStatement")>>)
VariantSetStatement ==
    Seq1(<<Tok("KeywordVariantSet"), Tok("String"), Tok("VariantStatementListOpen"), Star(VariantStatement),
           Tok("VariantStatementListClose"), Tok("VariantSetStatement")>>)
PrimSpec ==
    Seq1(<<Tok("KeywordSpecifier"), Opt(Tok("Identifier")), Tok("String"), PrimMetadata,
           Tok("PrimMetadataOptional"), PrimContents, Tok("PrimSpec")>>)
PrimItem == Or(<<OrderStatement, PropertySpec, PrimSpec, VariantSetStatement>>)

SublayerMetadata ==
    Seq1(<<Tok("KeywordSubLayers"), Star(Seq1(<<Tok("AssetRef"), Star(LayerOffset), Tok("SublayerItem")>>)),
           Tok("SublayerListClose")>>)
LayerMetadata == MetadataBlock(Or(<<SharedWithListOpMetadata, RelocatesMetadata, SublayerMetadata>>))
LayerSpec ==
    Seq1(<<Tok("LayerHeader"), LayerMetadata,
           Star(Or(<<Seq1(<<Tok("KeywordReorder"), Tok("KeywordRootPrims"), NameList, Tok("OrderStatement")>>),
                     PrimSpec>>)),
           Tok("LayerSpec")>>)

-----------------------------------------------------------------------------
Fails == 0

RECURSIVE After(_, _, _)
\* Where the text goes on after the rule, Fails when it does not match at i.
After(rule, text, i) ==
    LET kind == rule[1]
        part == rule[2]
    IN  CASE kind = "one" -> IF i <= Len(text) /\ text[i][1] \in part THEN i + 1 ELSE Fails
          [] kind = "seq" -> IF part = <<>> THEN i
                             ELSE LET next == After(Head(part), text, i)
                                  IN  IF next = Fails THEN Fails ELSE After(Seq1(Tail(part)), text, next)
          [] kind = "or" -> IF part = <<>> THEN Fails
                            ELSE LET next == After(Head(part), text, i)
                                 IN  IF next # Fails THEN next ELSE After(Or(Tail(part)), text, i)
          [] kind = "star" -> LET next == After(part, text, i)
                              IN  IF next \in {Fails, i} THEN i ELSE After(rule, text, next)
          [] kind = "contents" -> After(Star(PrimItem), text, i)

IsLayer(text) == After(LayerSpec, text, 1) = Len(text) + 1
=============================================================================
