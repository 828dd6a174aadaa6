------------------------------- MODULE ListOps -------------------------------
(***************************************************************************)
(* List operations (listOp.h and .cpp): a list op says how a list of       *)
(* distinct items is edited, or, when it is explicit, what the list is.    *)
(*                                                                         *)
(* The lists of list nodes and the maps from items to nodes that make the  *)
(* operations fast are sequences here: an item is in a list at most once,  *)
(* which the maps of the code assume of the list that is edited.  An item  *)
(* callback is a function from items to items or NoItem.                     *)
(***************************************************************************)
EXTENDS Integers, SequencesExt

NoItem == -1

Kinds == {"explicit", "added", "prepended", "appended", "deleted", "ordered"}
NoItems == [kind \in Kinds |-> <<>>]
NewListOp == [explicit |-> FALSE, items |-> NoItems]
NoListOp == [none |-> TRUE]

HasKeys(op) == op.explicit \/ op.items # NoItems
HasItem(op, item) ==
    \E kind \in (IF op.explicit THEN {"explicit"} ELSE Kinds \ {"explicit"}) :
        item \in ToSet(op.items[kind])

AddKeys(list, keys) ==
    FoldLeft(LAMBDA l, x : IF x \in ToSet(l) THEN l ELSE Append(l, x), list, keys)

\* _MakeUnique: the first of equal items is kept.
MakeUnique(items) == AddKeys(<<>>, items)

SetExplicit(op, isExplicit) ==
    IF op.explicit = isExplicit THEN op ELSE [explicit |-> isExplicit, items |-> NoItems]

ClearAndMakeExplicit == [NewListOp EXCEPT !.explicit = TRUE]

SetItems(op, items, kind) ==
    LET unique == CASE kind \in {"added", "ordered"} -> items
                    [] kind = "appended" -> Reverse(MakeUnique(Reverse(items)))
                    [] OTHER -> MakeUnique(items)
    IN  [SetExplicit(op, kind = "explicit") EXCEPT !.items[kind] = unique]

Create(prepended, appended, deleted) ==
    SetItems(SetItems(SetItems(NewListOp, prepended, "prepended"), appended, "appended"),
             deleted, "deleted")

-----------------------------------------------------------------------------
\* The items a callback returns, without those it drops.
Mapped(items, callback) ==
    FoldLeft(LAMBDA kept, x : IF callback[x] = NoItem THEN kept ELSE Append(kept, callback[x]),
             <<>>, items)
Without(list, items) ==
    Mapped(list, [x \in ToSet(list) |-> IF x \in items THEN NoItem ELSE x])

\* Mutant: the items are put in front one by one from the first.
PrependKeysFromFirst(list, keys) ==
    FoldLeft(LAMBDA l, x : <<x>> \o Without(l, {x}), list, keys)
PrependKeys(list, keys) ==
    FoldLeft(LAMBDA l, x : <<x>> \o Without(l, {x}), list, Reverse(keys))
AppendKeys(list, keys) ==
    FoldLeft(LAMBDA l, x : Append(Without(l, {x}), x), list, keys)
DeleteKeys(list, keys) ==
    FoldLeft(LAMBDA l, x : Without(l, {x}), list, keys)

\* _ReorderKeysHelper: each item of the order takes along what follows it up to the
\* next item of the order.
TakeAlong(r, x, order) ==
    LET at == SelectInSeq(r.scratch, LAMBDA y : y = x)
        ends == {j \in at + 1..Len(r.scratch) : r.scratch[j] \in ToSet(order)}
                    \cup {Len(r.scratch) + 1}
        end == CHOOSE j \in ends : \A k \in ends : j <= k
    IN  IF at = 0 THEN r
        ELSE [result |-> r.result \o SubSeq(r.scratch, at, end - 1),
              scratch |-> SubSeq(r.scratch, 1, at - 1) \o SubSeq(r.scratch, end, Len(r.scratch))]
TakenAlong(list, order) ==
    FoldLeft(LAMBDA r, x : TakeAlong(r, x, order), [result |-> <<>>, scratch |-> list],
             MakeUnique(order))
ReorderKeys(list, order) ==
    LET done == TakenAlong(list, order)
    IN  IF order = <<>> THEN list ELSE done.scratch \o done.result

SdfApplyListOrdering(list, order) ==
    IF order = <<>> \/ list = <<>> THEN list ELSE ReorderKeys(list, order)

\* ApplyOperations on a list.
ApplyOperations(op, list, callback) ==
    LET keys == [kind \in Kinds |-> Mapped(op.items[kind], callback)]
        deleted == DeleteKeys(list, keys["deleted"])
        added == AddKeys(deleted, keys["added"])
        prepended == PrependKeys(added, keys["prepended"])
        appended == AppendKeys(prepended, keys["appended"])
    IN  IF op.explicit THEN AddKeys(<<>>, keys["explicit"])
        ELSE ReorderKeys(appended, keys["ordered"])

Itself(items) == [x \in items |-> x]
Applied(op, list) ==
    ApplyOperations(op, list, Itself(UNION {ToSet(op.items[kind]) : kind \in Kinds}))

\* ApplyOperations on a weaker list op: one list op, or NoListOp.
Composed(op, inner) ==
    LET deleted == ToSet(op.items["deleted"])
        appended == ToSet(op.items["appended"])
        named == ToSet(op.items["prepended"]) \cup appended
        Added(list) == Without(Without(list, deleted), named)
    IN  IF op.explicit THEN op
        ELSE IF op.items["added"] # <<>> \/ op.items["ordered"] # <<>> THEN NoListOp
        ELSE IF inner.explicit
        THEN SetItems(NewListOp, Applied(op, inner.items["explicit"]), "explicit")
        ELSE IF inner.items["added"] # <<>> \/ inner.items["ordered"] # <<>> THEN NoListOp
        ELSE Create(Without(op.items["prepended"], appended) \o Added(inner.items["prepended"]),
                    Added(inner.items["appended"]) \o op.items["appended"],
                    Without(AddKeys(inner.items["deleted"], op.items["deleted"]), named))

\* ComposeOperations: one list of the stronger op over that of the weaker one.
ComposeOperations(op, stronger, kind) ==
    LET items == stronger.items[kind]
        added == AddKeys(op.items[kind], items)
        composed == CASE kind = "explicit" -> items
                      [] kind = "ordered" -> ReorderKeys(added, items)
                      [] kind = "prepended" -> PrependKeys(op.items[kind], items)
                      [] kind = "appended" -> AppendKeys(op.items[kind], items)
                      [] OTHER -> added
    IN  SetItems(op, composed, kind)

ModifyOperations(op, callback) ==
    [op EXCEPT !.items = [kind \in Kinds |-> MakeUnique(Mapped(@[kind], callback))]]

\* ReplaceOperations: NoListOp when the list is left alone.
ReplaceOperations(op, kind, index, n, newItems) ==
    LET items == op.items[kind]
        switches == op.explicit # (kind = "explicit")
    IN  IF (switches /\ (n > 0 \/ newItems = <<>>)) \/ index + n > Len(items) THEN NoListOp
        ELSE SetItems(op, SubSeq(items, 1, index) \o newItems
                              \o SubSeq(items, index + n + 1, Len(items)), kind)

-----------------------------------------------------------------------------
\* A composed list op does what the two do one after the other (listOp.cpp:405).
ComposedRight(op, inner, list) ==
    Composed(op, inner) # NoListOp =>
        Applied(Composed(op, inner), list) = Applied(op, Applied(inner, list))

\* What an order makes of a list, said of the result: what comes before every item of the
\* order stays first, the items of the order come as in the order, and each is followed by
\* what followed it (listOp.cpp:601).
ReorderedRight(list, order) ==
    LET result == ReorderKeys(list, order)
        ordered == ToSet(order) \cap ToSet(list)
        At(s, x) == CHOOSE i \in DOMAIN s : s[i] = x
        \* the item of the order that x goes with
        Leader(s, x) == LET before == {i \in 1..At(s, x) : s[i] \in ordered}
                        IN  IF before = {} THEN NoItem ELSE s[CHOOSE i \in before : \A j \in before : j <= i]
        Rank(x) == IF Leader(list, x) = NoItem THEN 0 ELSE At(order, Leader(list, x))
    IN  /\ ToSet(result) = ToSet(list) /\ Len(result) = Len(list)
        /\ \A x, y \in ToSet(list) :
              At(result, x) < At(result, y) <=>
                  \/ Rank(x) < Rank(y)
                  \/ Rank(x) = Rank(y) /\ At(list, x) < At(list, y)

\* Items renamed one to one in a list op and in a list are renamed in the result, whether
\* the op is modified or its items are mapped as it is applied.
RenamedRight(op, list, renaming) ==
    LET Renamed(s) == [i \in DOMAIN s |-> renaming[s[i]]]
    IN  /\ Applied(ModifyOperations(op, renaming), Renamed(list)) = Renamed(Applied(op, list))
        /\ ApplyOperations(op, Renamed(list), renaming) = Renamed(Applied(op, list))

=============================================================================
