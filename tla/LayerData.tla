----------------------------- MODULE LayerData -----------------------------
(***************************************************************************)
(* The specs of a layer as its data holds them (SdfAbstractData, SdfData): *)
(* a function from paths to specs.  The namespace is not a tree of         *)
(* pointers.  A spec exists because its path has an entry, and it is found *)
(* from above only because a children field of its parent lists its name:  *)
(* every operation on children has to keep the two in step.                *)
(*                                                                         *)
(* A path is a sequence of elements, <<"prim", name>>, <<"prop", name>> or *)
(* <<"sel", set, variant>>.  As in SdfPath, a variant set is a selection   *)
(* with the empty variant, and the parent path of a variant is the prim,   *)
(* while the children policies make it a child of its variant set.         *)
(***************************************************************************)
EXTENDS Integers, SequencesExt

None == ""                              \* the empty variant selection
Root == <<>>                            \* the pseudo-root, "/"
NoPath == << <<"none", None>> >>        \* the empty path of a dead identity

Keys == {"primChildren", "properties", "variantSetChildren", "variantChildren"}

Prim(name) == <<"prim", name>>
Prop(name) == <<"prop", name>>
Selection(set, variant) == <<"sel", set, variant>>

Type(p) ==
  CASE p = Root                -> "pseudoRoot"
    [] p # Root /\ Last(p)[1] = "prim" -> "prim"
    [] p # Root /\ Last(p)[1] = "prop" -> "property"
    [] p # Root /\ Last(p)[1] = "sel"  ->
         IF Last(p)[3] = None THEN "variantSet" ELSE "variant"
    [] OTHER -> "none"

\* The specs a prim spec handle can hold.
IsPrimSpec(p) == Type(p) \in {"pseudoRoot", "prim", "variant"}

\* The name of a spec: of a selection the variant, or the set if it is empty.
NameToken(p) == IF Type(p) = "variant" THEN Last(p)[3] ELSE Last(p)[2]

ChildPath(p, key, name) ==
  CASE key = "primChildren"       -> Append(p, Prim(name))
    [] key = "properties"         -> Append(p, Prop(name))
    [] key = "variantSetChildren" -> Append(p, Selection(name, None))
    [] key = "variantChildren"    -> Append(Front(p), Selection(Last(p)[2], name))

\* The parent whose children field lists p, and the field that does.
ListedBy(p) ==
  IF Type(p) = "variant" THEN Append(Front(p), Selection(Last(p)[2], None))
                         ELSE Front(p)
KeyOf(p) ==
  CASE Type(p) = "prim"       -> "primChildren"
    [] Type(p) = "property"   -> "properties"
    [] Type(p) = "variantSet" -> "variantSetChildren"
    [] Type(p) = "variant"    -> "variantChildren"

HasPrefix(p, q) == IsPrefix(q, p)
ReplacePrefix(p, old, new) == new \o SubSeq(p, Len(old) + 1, Len(p))

\* The specs on the way to p from above, p among them: its prefixes and, of
\* each variant, its variant set.
Above(p) ==
  LET prefixes == {SubSeq(p, 1, i) : i \in 0..Len(p)}
  IN  prefixes \cup {ListedBy(q) : q \in prefixes \ {Root}}

----------------------------------------------------------------------------

NoChildren == [key \in Keys |-> <<>>]
NewSpec(own) == [own |-> own, children |-> NoChildren]
EmptyLayer == Root :> NewSpec("inert")

ListFieldsIsEmpty(d, p) ==
  \/ p \notin DOMAIN d
  \/ /\ Type(p) \in {"pseudoRoot", "variantSet"}
     /\ d[p].children = NoChildren

Listed(d, p) ==
  /\ ListedBy(p) \in DOMAIN d
  /\ Contains(d[ListedBy(p)].children[KeyOf(p)], NameToken(p))

\* The specs a traversal from p meets: it goes down by the children fields.
Traverse(d, p) ==
  {q \in DOMAIN d : /\ p \in Above(q)
                    /\ \A r \in Above(q) : (p \in Above(r) /\ r # p) => Listed(d, r)}

(***************************************************************************)
(* Does the spec itself say nothing?  own is "inert" when the spec has no  *)
(* field but the required ones, "opinion" when it has another, "class"     *)
(* when it is a prim with a defining specifier.                            *)
(***************************************************************************)
IsInert(d, p, ignoreChildren, requiredOnlyIsInert) ==
  \/ ListFieldsIsEmpty(d, p)
  \/ /\ Type(p) # "pseudoRoot"
     /\ d[p].own = "inert"
     /\ Type(p) = "property" => requiredOnlyIsInert
     /\ (ignoreChildren /\ Type(p) # "variant") \/ d[p].children = NoChildren

\* Mutant: children are not looked at.
InertAlone(d, p) == IsInert(d, p, TRUE, TRUE)

\* SdfSpec::IsInert, with its default argument.
Inert(d, p) == IsInert(d, p, FALSE, FALSE)

\* The check looks for a variant set's spec at the path of a prim of its name,
\* where there is none: what is below a variant set of p is not examined.
IsInertSubtree(d, p) ==
  \A q \in Traverse(d, p) :
    (\A r \in Above(q) : (p \in Above(r) /\ r # p) => Type(r) # "variantSet")
      => IsInert(d, q, Type(q) # "property", TRUE)

\* What the check is for: nothing at or below p says anything.
SaysNothing(d, p) == \A q \in Traverse(d, p) : d[q].own = "inert"

\* A prim below which there are only prims, none of which says anything.
Hollow(d, p) ==
  /\ Type(p) = "prim"
  /\ \A q \in Traverse(d, p) : Type(q) = "prim" /\ d[q].own = "inert"

SetChildrenField(d, p, key, names) == [d EXCEPT ![p].children[key] = names]

(***************************************************************************)
(* Every spec but the pseudo-root is listed by its parent, once, and every *)
(* name that is listed is that of a spec.                                  *)
(***************************************************************************)
Consistent(d) ==
  /\ \A p \in DOMAIN d \ {Root} : Listed(d, p)
  /\ \A p \in DOMAIN d : \A key \in Keys :
       LET names == d[p].children[key]
       IN  /\ \A i \in DOMAIN names : ChildPath(p, key, names[i]) \in DOMAIN d
           /\ \A i, j \in DOMAIN names : names[i] = names[j] => i = j
=============================================================================
