------------------------------ MODULE PathTable ------------------------------
(***************************************************************************)
(* SdfPathTable (pathTable.h): a hash table from paths to values whose     *)
(* entries also form the tree of the paths.  Inserting a path inserts its  *)
(* ancestors, erasing a path erases its descendants.                       *)
(*                                                                         *)
(* An entry is known by its path.  first is the first child; next is the   *)
(* next sibling, or, when sibling is FALSE, the parent.                    *)
(***************************************************************************)
EXTENDS Integers, FiniteSets, SequencesExt

CONSTANTS Names, MaxDepth,      \* paths: sequences of at most MaxDepth positive numbers
          Values, Default,      \* mapped values; the value of entries made for ancestors
          Hash(_),              \* the hash of a path
          FirstMask             \* the mask of the first buckets: 7 in the code

VARIABLES nodes,     \* the entries
          buckets,   \* _buckets: entries of a bucket, the first of the chain first
          content    \* (history) what the table should hold

vars == <<nodes, buckets, content>>

Root == <<>>
Nobody == <<0>>
TablePaths == UNION {[1..n -> Names] : n \in 0..MaxDepth}
Parent(p) == Front(p)

Init == nodes = <<>> /\ buckets = <<>> /\ content = <<>>

-----------------------------------------------------------------------------
(* The hash table.  t is a record of the entries and the buckets.          *)

BucketOf(t, p) == (Hash(p) % Len(t.buckets)) + 1
Find(t, p) == t.buckets # <<>> /\ p \in ToSet(t.buckets[BucketOf(t, p)])

Push(chains, i, p) == [chains EXCEPT ![i] = <<p>> \o @]

\* Mutant: entries stay in the buckets they were in.
GrowInPlace(t) ==
    LET size == IF t.buckets = <<>> THEN FirstMask + 1 ELSE 2 * Len(t.buckets)
    IN  [t EXCEPT !.buckets = [i \in 1..size |-> IF i \in DOMAIN @ THEN @[i] ELSE <<>>]]

Rehashed(paths, size) ==
    FoldLeft(LAMBDA chains, p : Push(chains, (Hash(p) % size) + 1, p),
             [i \in 1..size |-> <<>>], paths)

Grow(t) ==
    LET size == IF t.buckets = <<>> THEN FirstMask + 1 ELSE 2 * Len(t.buckets)
    IN  [t EXCEPT !.buckets = Rehashed(FlattenSeq(t.buckets), size)]

Entry(value) == [value |-> value, first |-> Nobody, next |-> Nobody, sibling |-> FALSE]
MakeRoom(t) == IF Cardinality(DOMAIN t.nodes) > Len(t.buckets) THEN Grow(t) ELSE t
PutEntry(t, p, value) ==
    [nodes |-> [q \in DOMAIN t.nodes \cup {p} |-> IF q = p THEN Entry(value) ELSE t.nodes[q]],
     buckets |-> Push(t.buckets, BucketOf(t, p), p)]

InsertInTable(t, p, value) ==
    LET there == IF t.buckets = <<>> THEN Grow(t) ELSE t
    IN  IF Find(there, p) THEN there ELSE PutEntry(MakeRoom(there), p, value)

Remaining(chain, erased) ==
    FoldLeft(LAMBDA kept, q : IF q \in erased THEN kept ELSE Append(kept, q), <<>>, chain)

EraseFromTable(t, erased) ==
    [nodes |-> [q \in DOMAIN t.nodes \ erased |-> t.nodes[q]],
     buckets |-> [i \in DOMAIN t.buckets |-> Remaining(t.buckets[i], erased)]]

-----------------------------------------------------------------------------
(* The tree.                                                               *)

NextSibling(t, p) == IF t.nodes[p].sibling THEN t.nodes[p].next ELSE Nobody
ParentLink(t, p) == IF t.nodes[p].sibling THEN Nobody ELSE t.nodes[p].next

AddChild(t, p, child) ==
    LET first == t.nodes[p].first
    IN  [t EXCEPT !.nodes[p].first = child,
                  !.nodes[child].sibling = first # Nobody,
                  !.nodes[child].next = IF first # Nobody THEN first ELSE p]

RemoveChild(t, p, child) ==
    IF t.nodes[p].first = child THEN [t EXCEPT !.nodes[p].first = NextSibling(t, child)]
    ELSE LET prev == CHOOSE q \in DOMAIN t.nodes : NextSibling(t, q) = child
         IN  [t EXCEPT !.nodes[prev].next = t.nodes[child].next,
                       !.nodes[prev].sibling = t.nodes[child].sibling]

\* The path and its ancestors up to the first that is there, the deepest first.
Missing(t, p) ==
    LET Prefix(n) == SubSeq(p, 1, Len(p) - n)
        found == {n \in 0..Len(p) : Find(t, Prefix(n))}
    IN  [i \in 1..(IF found = {} THEN Len(p) + 1 ELSE Min(found)) |-> Prefix(i - 1)]

MakeEntries(t, paths, p, value) ==
    FoldLeft(LAMBDA u, q : InsertInTable(u, q, IF q = p THEN value ELSE Default), t, paths)
JoinEntries(t, paths) ==
    FoldLeft(LAMBDA u, q : IF q = Root THEN u ELSE AddChild(u, Parent(q), q), t, paths)

\* The entries are made from the path up and joined from its ancestors down.
Insert(t, p, value) ==
    LET missing == Missing(t, p)
    IN  JoinEntries(MakeEntries(t, missing, p, value), Reverse(missing))

\* _EraseSubtree: the entries below p, by the links.
Subtree(t, p) ==
    LET Below[q \in DOMAIN t.nodes] ==
            {q} \cup (IF t.nodes[q].first = Nobody THEN {} ELSE Below[t.nodes[q].first])
                \cup (IF NextSibling(t, q) = Nobody THEN {} ELSE Below[NextSibling(t, q)])
    IN  IF t.nodes[p].first = Nobody THEN {} ELSE Below[t.nodes[p].first]

Erase(t, p) ==
    LET emptied == EraseFromTable(t, Subtree(t, p))
    IN  EraseFromTable(IF p = Root THEN emptied ELSE RemoveChild(emptied, Parent(p), p), {p})

\* GetNextSubtree: from p to the next sibling, of p or of an ancestor.
NextSubtree(t, p) ==
    LET Up[q \in DOMAIN t.nodes] ==
            IF NextSibling(t, q) # Nobody THEN NextSibling(t, q)
            ELSE IF ParentLink(t, q) = Nobody THEN Nobody ELSE Up[ParentLink(t, q)]
    IN  Up[p]

Increment(t, p) == IF t.nodes[p].first # Nobody THEN t.nodes[p].first ELSE NextSubtree(t, p)
Iterated(t, from, to) ==
    LET From[q \in DOMAIN t.nodes \cup {Nobody}] ==
            IF q \in {to, Nobody} THEN <<>> ELSE <<q>> \o From[Increment(t, q)]
    IN  From[from]

SubtreeRange(t, p) == IF Find(t, p) THEN Iterated(t, p, NextSubtree(t, p)) ELSE <<>>
Begin(t) == IF DOMAIN t.nodes = {} THEN Nobody ELSE Root

ReplacePrefix(p, old, new) == new \o SubSeq(p, Len(old) + 1, Len(p))
InsertRenamed(t, paths, old, new) ==
    FoldLeft(LAMBDA u, p : Insert(u, ReplacePrefix(p, old, new), u.nodes[p].value), t, paths)

UpdateForRename(t, old, new) ==
    LET range == SubtreeRange(t, old)
    IN  IF range = <<>> THEN t ELSE Erase(InsertRenamed(t, range, old, new), old)

\* The copy constructor: the links are made as the entries they lead to are inserted.
CopyFirst(t, u, p) ==
    LET child == t.nodes[p].first
    IN  IF child = Nobody \/ u.nodes[p].first # Nobody THEN u
        ELSE [InsertInTable(u, child, t.nodes[child].value) EXCEPT
                 !.nodes[p] = [@ EXCEPT !.first = child]]
CopyNext(t, u, p) ==
    LET next == t.nodes[p].next
    IN  IF next = Nobody \/ u.nodes[p].next # Nobody THEN u
        ELSE [InsertInTable(u, next, t.nodes[next].value) EXCEPT
                 !.nodes[p] = [@ EXCEPT !.next = next, !.sibling = t.nodes[p].sibling]]
CopyEntry(t, u, p) == CopyNext(t, CopyFirst(t, InsertInTable(u, p, t.nodes[p].value), p), p)
CopyEntries(t, empty, paths) == FoldLeft(LAMBDA u, p : CopyEntry(t, u, p), empty, paths)

Copied(t) ==
    CopyEntries(t, [nodes |-> <<>>, buckets |-> [i \in DOMAIN t.buckets |-> <<>>]],
                Iterated(t, Begin(t), Nobody))

-----------------------------------------------------------------------------
Table == [nodes |-> nodes, buckets |-> buckets]
Written(t) == nodes' = t.nodes /\ buckets' = t.buckets

InsertPath == \E p \in TablePaths, value \in Values :
    /\ Written(Insert(Table, p, value))
    /\ content' = [q \in DOMAIN content \cup {SubSeq(p, 1, n) : n \in 0..Len(p)} |->
                      IF q \in DOMAIN content THEN content[q] ELSE IF q = p THEN value ELSE Default]

ErasePath == \E p \in DOMAIN nodes :
    /\ Written(Erase(Table, p))
    /\ content' = [q \in {q \in DOMAIN content : ~IsPrefix(p, q)} |-> content[q]]

Clear ==
    /\ nodes # <<>>
    /\ Written([nodes |-> <<>>, buckets |-> [i \in DOMAIN buckets |-> <<>>]])
    /\ content' = <<>>

\* A path is renamed to a sibling that is not there.
Rename == \E old \in DOMAIN nodes \ {Root}, new \in TablePaths \ DOMAIN nodes :
    /\ new # Root /\ Parent(new) = Parent(old)
    /\ Written(UpdateForRename(Table, old, new))
    /\ LET Original(q) == IF IsPrefix(new, q) THEN ReplacePrefix(q, new, old) ELSE q
       IN  content' = [q \in {q \in TablePaths : Original(q) \in DOMAIN content /\ ~IsPrefix(old, q)}
                          |-> content[Original(q)]]

\* A copy takes the place of the table.
Assign == Written(Copied(Table)) /\ UNCHANGED content

Next == InsertPath \/ ErasePath \/ Clear \/ Rename \/ Assign

Spec == Init /\ [][Next]_vars

-----------------------------------------------------------------------------
\* The table holds what was inserted and not erased, with all ancestors; the iteration goes
\* once over every entry, that of the range of a path over what is below it, and every entry
\* is once in the bucket of its hash (pathTable.h:32-60).
TableConsistent ==
    /\ \A p \in DOMAIN content : p \in DOMAIN nodes /\ nodes[p].value = content[p]
    /\ DOMAIN nodes = DOMAIN content
    /\ LET all == Iterated(Table, Begin(Table), Nobody)
       IN  IsInjective(all) /\ ToSet(all) = DOMAIN content
    /\ \A p \in DOMAIN content : LET range == SubtreeRange(Table, p) IN
          IsInjective(range) /\ ToSet(range) = {q \in DOMAIN content : IsPrefix(p, q)}
    /\ LET chains == FlattenSeq(buckets) IN IsInjective(chains) /\ ToSet(chains) = DOMAIN content
    /\ \A i \in DOMAIN buckets : \A p \in ToSet(buckets[i]) : BucketOf(Table, p) = i

=============================================================================
