--------------------------- MODULE LayerContent ---------------------------
(***************************************************************************)
(* Editing the namespace of a layer: Sdf_ChildrenUtils, which keeps specs  *)
(* and children fields in step, the removal of what says nothing           *)
(* (SdfLayer::RemovePrimIfInert and its kin), and the cleanup of what      *)
(* edits made inert in the scope of an SdfCleanupEnabler.                  *)
(*                                                                         *)
(* A call of the API is one action: a layer is edited by one thread.  The  *)
(* operators thread a record through the code of a call: the data, the     *)
(* changes told to the change manager, the specs the cleanup tracker       *)
(* holds, the handles the call was given, and how the call fares.          *)
(***************************************************************************)
EXTENDS LayerData

CONSTANTS PrimNames, PropNames, SetNames, VariantNames,
          Specifiers,   \* specifiers given to new prims: "inert" (over), "class"
          Ops,          \* the calls that are made
          Indices,      \* the indices given to InsertChild; -1 is the end
          Careful,      \* SetChildren gets no value below a spec it replaces
          MaxSpecs, MaxDepth, MaxValues, MaxTracked    \* bounds

ASSUME NamesAssumption ==
  /\ None \notin PrimNames \cup PropNames \cup SetNames \cup VariantNames
  /\ Specifiers \subseteq {"inert", "class"}
  /\ Careful \in BOOLEAN
  /\ {MaxSpecs, MaxDepth, MaxValues, MaxTracked} \subseteq Nat

VARIABLES data,       \* SdfLayer::_data
          enabled,    \* an SdfCleanupEnabler exists
          tracked,    \* Sdf_CleanupTracker::_specs
          call,       \* the last call: what it was given, returned and told
          owed        \* (history) what calls made inert since the enabler exists

vars == <<data, enabled, tracked, call, owed>>

----------------------------------------------------------------------------
(* The change manager is told of added, removed and renamed specs.         *)

Added(p, inert)   == [what |-> "added", path |-> p, inert |-> inert, to |-> p]
Removed(p, inert) == [what |-> "removed", path |-> p, inert |-> inert, to |-> p]
Renamed(p, q)     == [what |-> "renamed", path |-> p, inert |-> FALSE, to |-> q]

Tell(r, changes) == [r EXCEPT !.changes = @ \cup changes]
Fail(r) == [r EXCEPT !.status = "error"]
Done(r) == r.status # "ok"

SetField(r, p, key, names) == [r EXCEPT !.data = SetChildrenField(@, p, key, names)]

----------------------------------------------------------------------------
(* Specs are created, deleted and moved.                                   *)

CreateSpec(r, p, own, inert) ==
  IF p \in DOMAIN r.data THEN Fail(r)
  ELSE LET parent == ListedBy(p)
           pushed == SetField(r, parent, KeyOf(p),
                              Append(r.data[parent].children[KeyOf(p)], NameToken(p)))
       IN  Tell([pushed EXCEPT !.data = (p :> NewSpec(own)) @@ @], {Added(p, inert)})

\* Mutant: the removal of an inert subtree is told of its root only.
DeleteSpecToldOnce(r, p) ==
  IF p \notin DOMAIN r.data THEN r
  ELSE LET gone == Traverse(r.data, p)
       IN  Tell([r EXCEPT !.data = Restrict(@, DOMAIN @ \ gone)],
                {Removed(p, IsInertSubtree(r.data, p))})

DeleteSpec(r, p) ==
  IF p \notin DOMAIN r.data THEN r
  ELSE LET gone == Traverse(r.data, p)
       IN  Tell([r EXCEPT !.data = Restrict(@, DOMAIN @ \ gone)],
                IF IsInertSubtree(r.data, p)
                THEN {Removed(q, TRUE) : q \in gone}
                ELSE {Removed(p, FALSE)})

\* Where the handle h leads after the specs of moved went from old to new:
\* identities move with their specs, those that were there lead nowhere.
Follow(h, moved, old, new) ==
  CASE h \in moved -> ReplacePrefix(h, old, new)
    [] h \notin moved /\ h \in {ReplacePrefix(q, old, new) : q \in moved} -> NoPath
    [] OTHER -> h

\* Mutant: identities do not move with their specs.
MoveSpecOnly(r, old, new) ==
  IF \/ HasPrefix(old, new) \/ HasPrefix(new, old)
     \/ old \notin DOMAIN r.data \/ new \in DOMAIN r.data
  THEN r
  ELSE LET moved == Traverse(r.data, old)
           there == {ReplacePrefix(q, old, new) : q \in moved}
       IN  Tell([r EXCEPT
             !.data = [q \in (DOMAIN @ \ moved) \cup there |->
                         IF q \in there THEN @[ReplacePrefix(q, new, old)] ELSE @[q]]],
             {Removed(old, FALSE), Added(new, FALSE)})

\* Mutant: the spec moves without what is below it.
MoveSpecAlone(r, old, new) ==
  IF \/ HasPrefix(old, new) \/ HasPrefix(new, old)
     \/ old \notin DOMAIN r.data \/ new \in DOMAIN r.data
  THEN r
  ELSE Tell([r EXCEPT !.data = (new :> @[old]) @@ Restrict(@, DOMAIN @ \ {old})],
            {Removed(old, FALSE), Added(new, FALSE)})

MoveSpec(r, old, new) ==
  IF \/ HasPrefix(old, new) \/ HasPrefix(new, old)
     \/ old \notin DOMAIN r.data \/ new \in DOMAIN r.data
  THEN r
  ELSE LET moved == Traverse(r.data, old)
           there == {ReplacePrefix(q, old, new) : q \in moved}
           Led(h) == Follow(h, moved, old, new)
       IN  Tell([r EXCEPT
             !.data = [q \in (DOMAIN @ \ moved) \cup there |->
                         IF q \in there THEN @[ReplacePrefix(q, new, old)] ELSE @[q]],
             !.tracked = [i \in DOMAIN @ |-> Led(@[i])],
             !.values = [i \in DOMAIN @ |-> Led(@[i])],
             !.owed = {Led(h) : h \in @}],
             IF Front(old) = Front(new) THEN {Renamed(old, new)}
                                        ELSE {Removed(old, FALSE), Added(new, FALSE)})

\* Mutant: nothing is added after a spec that lives.
AddSpecIfLastIsDead(r, p) ==
  IF /\ enabled
     /\ p \in DOMAIN r.data
     /\ r.tracked = <<>> \/ Last(r.tracked) \notin DOMAIN r.data
  THEN [r EXCEPT !.tracked = Append(@, p)] ELSE r

\* Sdf_CleanupTracker::AddSpecIfTracking, of the spec at p if there is one.
AddSpecIfTracking(r, p) ==
  IF /\ enabled
     /\ p \in DOMAIN r.data
     /\ r.tracked = <<>> \/ Last(r.tracked) \notin DOMAIN r.data \/ Last(r.tracked) # p
  THEN [r EXCEPT !.tracked = Append(@, p)] ELSE r

----------------------------------------------------------------------------
(* Sdf_ChildrenUtils, for the policies of prims and of properties.         *)

RemoveChild(r, p, key, name) ==
  LET names == r.data[p].children[key]
  IN  IF ~Contains(names, name) THEN Fail(r)
      ELSE LET deleted == DeleteSpec(r, ChildPath(p, key, name))
           IN  AddSpecIfTracking(SetField(deleted, p, key, RemoveFirst(names, name)), p)

\* Mutant: the old parent lets the child go before the index is checked.
InsertChildEarly(r, p, key, value, index) ==
  LET name    == NameToken(value)
      new     == ChildPath(p, key, name)
      names   == r.data[p].children[key]
      at      == IF index = -1 THEN Len(names) ELSE index
      parent  == Front(value)
      left    == SetField(r, parent, key, RemoveFirst(r.data[parent].children[key], name))
  IN  IF parent = p THEN r
      ELSE IF HasPrefix(new, value) \/ Contains(names, name) THEN Fail(r)
      ELSE IF at \notin 0..Len(names) THEN Fail(left)
      ELSE SetField(MoveSpec(left, value, new), p, key, InsertAt(names, at + 1, name))

InsertChild(r, p, key, value, index) ==
  LET name    == NameToken(value)
      new     == ChildPath(p, key, name)
      names   == r.data[p].children[key]
      at      == IF index = -1 THEN Len(names) ELSE index
      parent  == Front(value)
      siblings == r.data[parent].children[key]
  IN  IF parent = p THEN r
      ELSE IF \/ HasPrefix(new, value)
              \/ at \notin 0..Len(names)
              \/ Contains(names, name)
              \/ ~Contains(siblings, name)
      THEN Fail(r)
      ELSE LET left  == SetField(r, parent, key, RemoveFirst(siblings, name))
               moved == MoveSpec(left, value, new)
           IN  AddSpecIfTracking(SetField(moved, p, key, InsertAt(names, at + 1, name)),
                                 parent)

Rename(r, p, name) ==
  LET parent == Front(p)
      key    == KeyOf(p)
      names  == r.data[parent].children[key]
      old    == NameToken(p)
  IN  IF name = old THEN r
      ELSE IF Contains(names, name) THEN Fail(r)
      ELSE SetField(MoveSpec(r, p, ChildPath(parent, key, name)), parent, key,
                    [i \in DOMAIN names |-> IF names[i] = old THEN name ELSE names[i]])

\* Values that are children of p already are dropped when their name occurred.
FilterDuplicates(p, values) ==
  LET Add(kept, value) ==
        IF /\ \E v \in ToSet(kept) : NameToken(v) = NameToken(value)
           /\ Front(value) = p
        THEN kept ELSE Append(kept, value)
  IN  FoldLeft(Add, <<>>, values)

\* Mutant: the value stays listed by its old parent.
PlaceValueListed(r, p, key, oldNames, i) ==
  LET value == r.values[i]
      name  == NameToken(value)
      new   == ChildPath(p, key, name)
  IN  IF Done(r) THEN r
      ELSE IF value \notin DOMAIN r.data THEN [r EXCEPT !.status = "fatal"]
      ELSE IF Front(value) = p THEN r
      ELSE MoveSpec(IF Contains(oldNames, name) THEN DeleteSpec(r, new) ELSE r, value, new)

\* Mutant: the spec that was there is not deleted.
PlaceValueKeeps(r, p, key, oldNames, i) ==
  LET value  == r.values[i]
      parent == Front(value)
      name   == NameToken(value)
  IN  IF Done(r) THEN r
      ELSE IF value \notin DOMAIN r.data THEN [r EXCEPT !.status = "fatal"]
      ELSE IF parent = p THEN r
      ELSE MoveSpec(SetField(r, parent, key, RemoveFirst(r.data[parent].children[key], name)),
                    value, ChildPath(p, key, name))

\* One turn of the loop that moves the values to p.  A handle whose spec was
\* deleted in the meantime is dereferenced all the same, which is fatal.
PlaceValue(r, p, key, oldNames, i) ==
  LET value    == r.values[i]
      parent   == Front(value)
      name     == NameToken(value)
      new      == ChildPath(p, key, name)
      cleared  == IF Contains(oldNames, name) THEN DeleteSpec(r, new) ELSE r
      siblings == IF parent \in DOMAIN cleared.data
                  THEN cleared.data[parent].children[key] ELSE <<>>
  IN  IF Done(r) THEN r
      ELSE IF value \notin DOMAIN r.data THEN [r EXCEPT !.status = "fatal"]
      ELSE IF parent = p THEN r
      ELSE IF ~Contains(siblings, name) THEN Fail(cleared)
      ELSE MoveSpec(SetField(cleared, parent, key, RemoveFirst(siblings, name)),
                    value, new)

SetChildren(r, p, key, given) ==
  LET values   == FilterDuplicates(p, given)
      newNames == [i \in DOMAIN values |-> NameToken(values[i])]
      oldNames == r.data[p].children[key]
      Delete(s, name) == IF Contains(newNames, name) THEN s
                         ELSE DeleteSpec(s, ChildPath(p, key, name))
      deleted  == FoldLeft(Delete, [r EXCEPT !.values = values], oldNames)
      Place(s, i) == PlaceValue(s, p, key, oldNames, i)
      placed   == FoldLeft(Place, deleted, [i \in DOMAIN values |-> i])
  IN  IF \/ \E i, j \in DOMAIN newNames : i # j /\ newNames[i] = newNames[j]
         \/ \E v \in ToSet(values) : Front(v) # p /\ HasPrefix(p, v)
      THEN Fail(r)
      ELSE IF Done(placed) THEN placed
      ELSE SetField(placed, p, key, newNames)

----------------------------------------------------------------------------
(* The removal of what says nothing.                                       *)

\* Mutant: the name of the parent is looked for.
RemoveNameParent(r, parent, child) ==
  IF Front(child) # parent \/ parent = Root THEN r
  ELSE [RemoveChild(r, parent, "primChildren", NameToken(parent)) EXCEPT !.status = "ok"]

RemoveNameChild(r, parent, child) ==
  IF Front(child) # parent THEN r
  ELSE [RemoveChild(r, parent, "primChildren", NameToken(child)) EXCEPT !.status = "ok"]

\* Below p, children first, prims that say nothing go; is p inert then?
RECURSIVE RemoveInertDFS(_, _)
RemoveInertDFS(r, p) ==
  LET Visit(s, name) ==
        LET child   == ChildPath(p, "primChildren", name)
            visited == RemoveInertDFS(s.r, child)
        IN  [r |-> visited.r,
             removed |-> IF visited.inert THEN Append(s.removed, child) ELSE s.removed]
      VisitVariant(s, variant) == RemoveInertDFS(s, variant).r
      VisitSet(s, name) ==
        LET set == ChildPath(p, "variantSetChildren", name)
            names == s.data[set].children["variantChildren"]
        IN  FoldLeft(VisitVariant, s,
                     [i \in DOMAIN names |-> ChildPath(set, "variantChildren", names[i])])
      RemoveOne(s, child) == RemoveNameChild(s, p, child)
      children == FoldLeft(Visit, [r |-> r, removed |-> <<>>],
                           r.data[p].children["primChildren"])
      swept == FoldLeft(RemoveOne, children.r, children.removed)
      all == FoldLeft(VisitSet, swept, swept.data[p].children["variantSetChildren"])
  IN  IF Inert(r.data, p) THEN [r |-> r, inert |-> TRUE]
      ELSE [r |-> all, inert |-> Inert(all.data, p)]

\* p and then its parents, as long as they say nothing.
RECURSIVE RemoveInertToRootmost(_, _)
RemoveInertToRootmost(r, p) ==
  IF p \in DOMAIN r.data /\ p # Root /\ r.data[p].own # "class" /\ Inert(r.data, p)
  THEN RemoveInertToRootmost(RemoveNameChild(r, Front(p), p), Front(p))
  ELSE r

RemovePrimIfInert(r, p) ==
  LET swept == RemoveInertDFS(r, p)
  IN  IF swept.inert THEN RemoveInertToRootmost(swept.r, p) ELSE swept.r

RemovePropertyIfHasOnlyRequiredFields(r, p) ==
  IF r.data[p].own # "inert" THEN r
  ELSE RemoveInertToRootmost(RemoveChild(r, Front(p), "properties", NameToken(p)), Front(p))

\* SdfLayer::_RemoveIfInert, which ScheduleRemoveIfInert comes to outside of
\* change blocks.
RemoveIfInert(r, p) ==
  CASE p \in DOMAIN r.data /\ IsPrimSpec(p) /\ Inert(r.data, p) -> RemovePrimIfInert(r, p)
    [] p \in DOMAIN r.data /\ Type(p) = "property" ->
         RemovePropertyIfHasOnlyRequiredFields(r, p)
    [] OTHER -> r

\* Sdf_CleanupTracker::CleanupSpecs: from the back, and what that adds.
RECURSIVE CleanupSpecs(_)
CleanupSpecs(r) ==
  IF r.tracked = <<>> THEN r
  ELSE CleanupSpecs(RemoveIfInert([r EXCEPT !.tracked = Front(@)], Last(r.tracked)))

----------------------------------------------------------------------------
(* The calls.                                                              *)

Begin == [data |-> data, changes |-> {}, tracked |-> tracked, values |-> <<>>,
          owed |-> owed, status |-> "ok"]

\* What a call that went from d to e made inert, and what it left so.
Owed(d, r) ==
  {p \in r.owed \cup (DOMAIN d \cap DOMAIN r.data) :
     /\ p \in DOMAIN r.data
     /\ Type(p) \in {"prim", "property"}
     /\ IsInert(r.data, p, FALSE, TRUE)
     /\ p \in r.owed \/ ~IsInert(d, p, FALSE, TRUE)}

\* The call named op, of the spec at p, given args, that the code takes to r.
Return(op, p, args, r) ==
  /\ op \in Ops
  /\ call.status # "fatal"
  /\ Cardinality(DOMAIN r.data) <= MaxSpecs
  /\ \A q \in DOMAIN r.data : Len(q) <= MaxDepth
  /\ Len(r.tracked) <= MaxTracked
  /\ data' = r.data
  /\ tracked' = r.tracked
  /\ owed' = IF enabled THEN Owed(data, r) ELSE {}
  /\ call' = [op |-> op, path |-> p, args |-> args, status |-> r.status,
              told |-> r.changes]
  /\ UNCHANGED enabled

Specs(types) == {p \in DOMAIN data : Type(p) \in types}
Prims == Specs({"prim"})
Parents == {p \in DOMAIN data : IsPrimSpec(p) /\ Len(p) < MaxDepth}

Init ==
  /\ data = EmptyLayer
  /\ enabled = FALSE
  /\ tracked = <<>>
  /\ call = [op |-> "none", path |-> Root, args |-> <<>>, status |-> "ok", told |-> {}]
  /\ owed = {}

CreatePrim == \E p \in Parents, name \in PrimNames, own \in Specifiers :
  Return("CreatePrim", p, <<>>,
         CreateSpec(Begin, Append(p, Prim(name)), own, own = "inert"))

CreateProperty == \E p \in Parents \ {Root}, name \in PropNames :
  Return("CreateProperty", p, <<>>, CreateSpec(Begin, Append(p, Prop(name)), "inert", TRUE))

CreateVariantSet == \E p \in Parents \ {Root}, name \in SetNames :
  Return("CreateVariantSet", p, <<>>,
         CreateSpec(Begin, Append(p, Selection(name, None)), "inert", TRUE))

CreateVariant == \E p \in Specs({"variantSet"}), name \in VariantNames :
  Return("CreateVariant", p, <<>>,
         CreateSpec(Begin, ChildPath(p, "variantChildren", name), "inert", TRUE))

\* A field that is not required is set, and cleared with SdfSpec::ClearInfo.
SetInfo == \E p \in Specs({"prim", "property", "variant"}) :
  /\ data[p].own = "inert"
  /\ Return("SetInfo", p, <<>>, [Begin EXCEPT !.data[p].own = "opinion"])

ClearInfo == \E p \in Specs({"prim", "property", "variant"}) :
  /\ data[p].own = "opinion"
  /\ Return("ClearInfo", p, <<>>,
            AddSpecIfTracking([Begin EXCEPT !.data[p].own = "inert"], p))

RemoveSpec == \E p \in Specs({"prim", "property"}) :
  Return("RemoveSpec", Front(p), <<p>>, RemoveChild(Begin, Front(p), KeyOf(p), NameToken(p)))

Insert == \E p \in Parents, value \in Specs({"prim", "property"}), index \in Indices :
  /\ Type(value) = "property" => p # Root
  /\ Return("Insert", p, <<value>>, InsertChild(Begin, p, KeyOf(value), value, index))

SetName == \E p \in Specs({"prim", "property"}), name \in PrimNames \cup PropNames :
  /\ name \in IF Type(p) = "prim" THEN PrimNames ELSE PropNames
  /\ Return("SetName", p, <<ChildPath(Front(p), KeyOf(p), name)>>, Rename(Begin, p, name))

\* Is v below a child of p that the call deletes or replaces?
BelowReplaced(p, values, v) ==
  /\ IsStrictPrefix(p, Front(v))
  /\ \/ \E w \in ToSet(values) : Front(w) # p /\ NameToken(w) = v[Len(p) + 1][2]
     \/ \A w \in ToSet(values) : NameToken(w) # v[Len(p) + 1][2]

SetNameChildren == \E p \in Parents, values \in SeqOf(Prims, MaxValues) :
  /\ Careful => \A v \in ToSet(values) : ~BelowReplaced(p, values, v)
  /\ Return("SetNameChildren", p, values, SetChildren(Begin, p, "primChildren", values))

RemoveInert == \E p \in Specs({"prim", "property", "variant"}) :
  Return("RemoveInert", p, <<>>, RemoveIfInert(Begin, p))

RemovePrim == \E p \in Specs({"prim", "variant"}) :
  Return("RemovePrim", p, <<>>, RemovePrimIfInert(Begin, p))

RemoveInertSceneDescription ==
  Return("RemoveInertSceneDescription", Root, <<>>, RemoveInertDFS(Begin, Root).r)

\* The first SdfCleanupEnabler is made; the last one goes.
Enable ==
  /\ "Enable" \in Ops
  /\ ~enabled
  /\ call.status # "fatal"
  /\ enabled' = TRUE
  /\ call' = [op |-> "Enable", path |-> Root, args |-> <<>>, status |-> "ok", told |-> {}]
  /\ UNCHANGED <<data, tracked, owed>>

Disable ==
  /\ enabled
  /\ call.status # "fatal"
  /\ LET r == CleanupSpecs(Begin)
     IN  /\ data' = r.data
         /\ call' = [op |-> "Disable", path |-> Root, args |-> <<>>, status |-> r.status,
                     told |-> r.changes]
         /\ owed' = Owed(data, r)
  /\ tracked' = <<>>
  /\ enabled' = FALSE

Next ==
  \/ CreatePrim \/ CreateProperty \/ CreateVariantSet \/ CreateVariant
  \/ SetInfo \/ ClearInfo \/ RemoveSpec \/ Insert \/ SetName \/ SetNameChildren
  \/ RemoveInert \/ RemovePrim \/ RemoveInertSceneDescription
  \/ Enable \/ Disable

Spec == Init /\ [][Next]_vars

----------------------------------------------------------------------------
(* Properties.                                                             *)

\* The types of the variables.
TypeOK ==
  /\ Root \in DOMAIN data
  /\ \A p \in DOMAIN data :
       /\ data[p].own \in {"inert", "opinion", "class"}
       /\ DOMAIN data[p].children = Keys
  /\ enabled \in BOOLEAN
  /\ call.op \in Ops \cup {"none", "Disable"}
  /\ call.status \in {"ok", "error", "fatal"}
  /\ owed \subseteq DOMAIN data

\* The children fields and the specs agree: after every call, every spec can
\* be found from the pseudo-root, and every name that is listed is a spec's.
TreeConsistent == Consistent(data)

\* "Use a change block to ensure all layer data manipulations below are treated
\* atomically": a call that reports an error left the layer as it was.
RefusalsChangeNothing ==
  [][call'.status = "error" => data' = data /\ call'.told = {}]_vars

\* No call dereferences a handle whose spec it deleted itself.
\* It does not hold if callers are not Careful: see the README.
NoDeadHandle == [][call'.status # "fatal"]_vars

\* What becomes of the spec at q when the specs of values become children of p
\* that keep their names: it goes with the nearest of them above it.
Taken(p, values, q) ==
  LET above == {v \in ToSet(values) : HasPrefix(q, v)}
      nearest == CHOOSE v \in above : \A w \in above : HasPrefix(v, w)
  IN  IF above = {} THEN q
      ELSE Append(p, Last(nearest)) \o SubSeq(q, Len(nearest) + 1, Len(q))

\* SetNameChildren gives the prim the children it is told, in their order.  What
\* is in them, and all that is elsewhere, is still there, and nothing is made up.
ChildrenAsAsked ==
  [][(call'.op = "SetNameChildren" /\ call'.status = "ok" /\ call' # call) =>
       LET p == call'.path
           values == FilterDuplicates(p, call'.args)
           kept == {q \in DOMAIN data :
                      \/ \E v \in ToSet(values) : HasPrefix(q, v)
                      \/ ~\E n \in PrimNames : HasPrefix(q, Append(p, Prim(n)))}
       IN  /\ data'[p].children["primChildren"]
                = [i \in DOMAIN values |-> NameToken(values[i])]
           /\ DOMAIN data' = {Taken(p, values, q) : q \in kept}
           /\ \A q \in kept : data'[Taken(p, values, q)].own = data[q].own]_vars

\* Inserting and renaming lose nothing and keep what a spec says with it.
MovesLoseNothing ==
  [][(call'.op \in {"Insert", "SetName"} /\ call'.status = "ok" /\ call' # call) =>
       LET old == IF call'.op = "Insert" THEN call'.args[1] ELSE call'.path
           new == IF call'.op = "Insert" THEN Append(call'.path, Last(old))
                  ELSE call'.args[1]
           Moved(q) == IF HasPrefix(q, old) THEN ReplacePrefix(q, old, new) ELSE q
       IN  /\ DOMAIN data' = {Moved(q) : q \in DOMAIN data}
           /\ \A q \in DOMAIN data : data'[Moved(q)].own = data[q].own]_vars

\* Is a spec that came or went at q told by the changes of the call?  Notices
\* of inert specs imply nothing of the specs below, the others do.
ToldOf(changes, what, q) ==
  \E c \in changes :
    \/ c.what = what /\ c.path = q
    \/ c.what = what /\ ~c.inert /\ HasPrefix(q, c.path)
    \/ c.what = "renamed" /\ HasPrefix(q, IF what = "added" THEN c.to ELSE c.path)

\* Listeners are told of every spec that came and of every one that went.
ChangesTold ==
  [][/\ \A q \in DOMAIN data \ DOMAIN data' : ToldOf(call'.told, "removed", q)
     /\ \A q \in DOMAIN data' \ DOMAIN data : ToldOf(call'.told, "added", q)]_vars

\* A removal is told as inert only if neither the spec nor what was below it,
\* its variants among it, said anything.  It does not hold of prims with variants:
\* see the README.
InertRemovalsSayNothing ==
  [][\A c \in call'.told :
       c.what = "removed" /\ c.inert /\ c.path \in DOMAIN data => SaysNothing(data, c.path)]_vars

\* The calls that remove what is inert, and the cleanup, remove nothing else.
OnlyInertRemoved ==
  [][call'.op \in {"RemoveInert", "RemovePrim", "RemoveInertSceneDescription", "Disable"} =>
       \A q \in DOMAIN data \ DOMAIN data' : SaysNothing(data, q)]_vars

\* RemoveInertSceneDescription removes exactly the prims that say nothing and
\* have only such prims below, in variants as well.
SweepExact ==
  [][call'.op = "RemoveInertSceneDescription" /\ call' # call =>
       DOMAIN data' = {q \in DOMAIN data : ~Hollow(data, q)}]_vars

\* "Any affected specs which no longer contribute to the scene will be removed
\* when the last SdfCleanupEnabler instance goes out of scope."
CleanedUp == ~enabled => owed = {}
=============================================================================
