--------------------------- MODULE EditingProofs ---------------------------
(***************************************************************************)
(* The components through which a layer is edited, with what is proved of  *)
(* each for every value of the constants: its content while it is muted,   *)
(* saved and reloaded (LayerState), a batch of namespace edits             *)
(* (NamespaceEdit), the list editors with the specs of targets             *)
(* (ListEditors) and the sublayers with their offsets (SubLayers).         *)
(*                                                                         *)
(* A layer that is muted, edited, saved, renamed and reloaded shows what   *)
(* was authored in it: the data put aside for the open layer while it is   *)
(* muted are what was authored, and are there if it is dirty.  And whoever *)
(* asks whether it is muted is told what was so during the call: the cache *)
(* of IsMuted, once its revision is current and no one is between the two  *)
(* stores, holds the current answer; what it holds for an older revision   *)
(* is true of the time an asker read that revision.                        *)
(*                                                                         *)
(* Of a batch, with paths of any length: the nodes of the virtual          *)
(* namespace and its dead places say of every path what the layer has      *)
(* there, and the lists of children are those of its prims.                *)
(*                                                                         *)
(* Of the list editors and the sublayers: what a fold over a list makes is *)
(* proved place by place, and in these terms no target is in two of the    *)
(* lists that add it, so that what one list drops no other still names;    *)
(* and the offsets are as many as the sublayers, each of which is there    *)
(* once.                                                                   *)
(***************************************************************************)
EXTENDS Integers, Sequences, NaturalsInduction, WellFoundedInduction, SequenceTheorems, TLAPS

CONSTANTS
    None,
    Identifier, Content, Empty, Asker, MaxTime, MaxRevision, \* those of LayerState
    PrimName, MaxDepth, MaxEdits, EditIndex,                \* those of NamespaceEdit
    FirstChildren, FirstProperties,
    Editors, Items, Vectors, MaxItems,                      \* those of ListEditors
    Assets, Prims, Offsets, PathLists, MaxSubLayers         \* those of SubLayers

VARIABLES
    streams, now, file, layer, mutedLayers, revision, mutedData, cache, mutex, asker, authored,
    synced,
    edits, properties, before, nodes, deadspace, children, origin, refused,
    field, copies, targets,
    paths, offsets, references, call

-----------------------------------------------------------------------------
(* A batch of namespace edits                                              *)

ASSUME BatchConstants ==
    /\ PrimName \subseteq Nat \ {0}
    /\ MaxDepth \in Nat
    /\ EditIndex \subseteq Int

\* The layer a batch is processed on, with its prims and properties, and the bounds are constants.
Namespace == INSTANCE NamespaceEdit WITH NestedRemovals <- FALSE

\* Every object of the layer is below a prim of it, and the children fields list the prims.
ASSUME FirstLayer ==
    /\ <<>> \in DOMAIN FirstChildren
    /\ \A p \in DOMAIN FirstChildren : p \in Seq(Nat) /\ ~Namespace!IsProperty(p)
    /\ \A p \in FirstProperties : p \in Seq(Nat) /\ Namespace!IsProperty(p)
    /\ \A p \in (DOMAIN FirstChildren \cup FirstProperties) \ {<<>>} :
          Namespace!Front(p) \in DOMAIN FirstChildren
    /\ \A p \in DOMAIN FirstChildren :
          /\ FirstChildren[p] \in Seq(Nat) /\ Namespace!IsInjective(FirstChildren[p])
          /\ Namespace!ToSet(FirstChildren[p]) =
                 {Namespace!Last(q) : q \in {r \in DOMAIN FirstChildren \ {<<>>} :
                                                   Namespace!Front(r) = p}}

\* The operators of the instance, under their names.
HasPrefix(path, prefix) == Namespace!HasPrefix(path, prefix)
ReplacePrefix(path, from, to) == Namespace!ReplacePrefix(path, from, to)
AncestorsOf(path) == Namespace!AncestorsOf(path)
AtMost(p, q) == Namespace!AtMost(p, q)
Root == Namespace!Root
Front(path) == Namespace!Front(path)
Last(path) == Namespace!Last(path)
IsProperty(path) == Namespace!IsProperty(path)
Below(f, path) == Namespace!Below(f, path)
Cut(f, path) == Namespace!Cut(f, path)
Graft(f, from, to) == Namespace!Graft(f, from, to)
RemoveAt(l, n) == Namespace!RemoveAt(l, n)
InsertAt(l, n, e) == Namespace!InsertAt(l, n, e)
RemoveFirst(l, e) == Namespace!RemoveFirst(l, e)
ToSet(l) == Namespace!ToSet(l)
InsertionIndex(names, place, index) == Namespace!InsertionIndex(names, place, index)

USE DEF HasPrefix, ReplacePrefix, AncestorsOf, AtMost, Root, Front, Last, IsProperty,
        Below, Cut, Graft, RemoveAt, InsertAt, RemoveFirst, ToSet, InsertionIndex

AnyPath == Seq(Nat)

(* Paths and their prefixes.                                               *)

\* A path has a prefix when its names begin with those of the prefix.
LEMMA PrefixNames ==
    ASSUME NEW p \in AnyPath, NEW q \in AnyPath
    PROVE  HasPrefix(q, p) <=> /\ Len(p) <= Len(q)
                               /\ \A i \in 1 .. Len(p) : q[i] = p[i]
  <1>1. SubSeq(p, 1, Len(p)) = p
    BY DEF AnyPath
  <1>2. ASSUME Len(p) <= Len(q)
        PROVE  /\ SubSeq(q, 1, Len(p)) \in AnyPath /\ Len(SubSeq(q, 1, Len(p))) = Len(p)
               /\ \A i \in 1 .. Len(p) : SubSeq(q, 1, Len(p))[i] = q[i]
    BY <1>2 DEF AnyPath
  <1>3. ASSUME Len(p) <= Len(q), \A i \in 1 .. Len(p) : q[i] = p[i]
        PROVE  SubSeq(q, 1, Len(p)) = p
    BY <1>2, <1>3, SeqEqual DEF AnyPath
  <1> QED BY <1>1, <1>2, <1>3 DEF Namespace!HasPrefix, Namespace!IsPrefix

LEMMA PrefixSelf ==
    ASSUME NEW p \in AnyPath
    PROVE  HasPrefix(p, p) /\ HasPrefix(p, Root) /\ Root \in AnyPath
  <1>1. Root \in AnyPath /\ Len(Root) = 0
    BY DEF AnyPath, Namespace!Root
  <1>2. Len(p) \in Nat
    BY DEF AnyPath
  <1>3. HasPrefix(p, p)
    BY <1>2, PrefixNames
  <1>4. HasPrefix(p, Root)
    BY <1>1, <1>2, PrefixNames
  <1> QED BY <1>1, <1>3, <1>4

LEMMA PrefixTransitive ==
    ASSUME NEW p \in AnyPath, NEW q \in AnyPath, NEW r \in AnyPath,
           HasPrefix(r, q), HasPrefix(q, p)
    PROVE  HasPrefix(r, p)
  <1>1. Len(p) \in Nat /\ Len(q) \in Nat /\ Len(r) \in Nat
    BY DEF AnyPath
  <1> QED BY <1>1, PrefixNames

LEMMA PrefixBoth ==
    ASSUME NEW p \in AnyPath, NEW q \in AnyPath, HasPrefix(p, q), HasPrefix(q, p)
    PROVE  p = q
  <1>1. Len(p) \in Nat /\ Len(q) \in Nat
    BY DEF AnyPath
  <1>2. Len(p) = Len(q) /\ \A i \in 1 .. Len(p) : p[i] = q[i]
    BY <1>1, PrefixNames
  <1> QED BY <1>2, SeqEqual DEF AnyPath

\* Of two prefixes of a path one is a prefix of the other.
LEMMA PrefixCompare ==
    ASSUME NEW p \in AnyPath, NEW q \in AnyPath, NEW r \in AnyPath,
           HasPrefix(r, p), HasPrefix(r, q)
    PROVE  /\ HasPrefix(p, q) \/ HasPrefix(q, p)
           /\ Len(p) <= Len(q) => HasPrefix(q, p)
  <1>1. Len(p) \in Nat /\ Len(q) \in Nat
    BY DEF AnyPath
  <1> QED BY <1>1, PrefixNames

\* A path that goes on from another.
LEMMA Joined ==
    ASSUME NEW p \in AnyPath, NEW s \in AnyPath
    PROVE  /\ p \o s \in AnyPath /\ Len(p \o s) = Len(p) + Len(s)
           /\ HasPrefix(p \o s, p)
           /\ \A i \in 1 .. Len(p) : (p \o s)[i] = p[i]
           /\ \A i \in 1 .. Len(s) : (p \o s)[Len(p) + i] = s[i]
  <1>1. Len(p) \in Nat /\ Len(s) \in Nat
    BY DEF AnyPath
  <1>2. p \o s \in AnyPath /\ Len(p \o s) = Len(p) + Len(s)
    BY DEF AnyPath
  <1>3. \A i \in 1 .. Len(p) : (p \o s)[i] = p[i]
    BY DEF AnyPath
  <1>4. ASSUME NEW i \in 1 .. Len(s)
        PROVE  (p \o s)[Len(p) + i] = s[i]
    <2>1. Len(p) + i \in 1 .. Len(p) + Len(s) /\ ~ (Len(p) + i <= Len(p))
             /\ (Len(p) + i) - Len(p) = i
      BY <1>1
    <2>2. \A k \in 1 .. Len(p) + Len(s) :
             (p \o s)[k] = IF k <= Len(p) THEN p[k] ELSE s[k - Len(p)]
      <3>1. p \in Seq(Nat) /\ s \in Seq(Nat)
        BY DEF AnyPath
      <3> QED BY <3>1, ConcatProperties, Zenon
    <2>3. (p \o s)[Len(p) + i] = s[(Len(p) + i) - Len(p)]
      BY <2>1, <2>2, Zenon
    <2> QED BY <2>1, <2>3
  <1>5. HasPrefix(p \o s, p)
    <2>1. Len(p) <= Len(p \o s)
      BY <1>1, <1>2
    <2> QED BY <1>2, <1>3, <2>1, PrefixNames, Zenon
  <1> QED BY <1>2, <1>3, <1>4, <1>5

LEMMA JoinedInjective ==
    ASSUME NEW p \in AnyPath, NEW s \in AnyPath, NEW t \in AnyPath, p \o s = p \o t
    PROVE  s = t
  <1>1. Len(s) \in Nat /\ Len(t) \in Nat /\ Len(p) \in Nat
    BY DEF AnyPath
  <1>2. Len(s) = Len(t)
    <2>1. Len(p \o s) = Len(p) + Len(s) /\ Len(p \o t) = Len(p) + Len(t)
      BY Joined
    <2> QED BY <1>1, <2>1
  <1>3. ASSUME NEW i \in 1 .. Len(s)
        PROVE  s[i] = t[i]
    <2>1. (p \o s)[Len(p) + i] = s[i] /\ (p \o t)[Len(p) + i] = t[i]
      BY <1>2, Joined
    <2> QED BY <2>1
  <1> QED BY <1>2, <1>3, SeqEqual DEF AnyPath

LEMMA JoinedTwice ==
    \A a, b, c \in AnyPath : (a \o b) \o c = a \o (b \o c)
  <1>1. \A a, b, c \in Seq(Nat) : (a \o b) \o c = a \o (b \o c)
    BY ConcatAssociative, SMTT(60)
  <1> QED BY <1>1 DEF AnyPath

LEMMA JoinedRoot ==
    ASSUME NEW a \in Seq(Nat)
    PROVE  a \o Root = a
  BY ConcatEmptySeq DEF Namespace!Root

LEMMA Beginning ==
    ASSUME NEW q \in Seq(Nat), NEW n \in Nat, n <= Len(q)
    PROVE  /\ SubSeq(q, 1, n) \in Seq(Nat) /\ Len(SubSeq(q, 1, n)) = n
           /\ \A i \in 1 .. n : SubSeq(q, 1, n)[i] = q[i]
  OBVIOUS

\* What is left of a path after a prefix.
LEMMA Rest ==
    ASSUME NEW p \in AnyPath, NEW q \in AnyPath, HasPrefix(q, p)
    PROVE  \E s \in AnyPath : q = p \o s
  <1> DEFINE s == SubSeq(q, Len(p) + 1, Len(q))
  <1>1. Len(p) \in Nat /\ Len(q) \in Nat /\ Len(p) <= Len(q)
    BY PrefixNames DEF AnyPath
  <1>2. /\ s \in AnyPath /\ Len(s) = Len(q) - Len(p)
        /\ \A i \in 1 .. Len(s) : s[i] = q[Len(p) + i]
    BY <1>1 DEF AnyPath
  <1> HIDE DEF s
  <1>3. p \o s \in AnyPath /\ Len(p \o s) = Len(q)
    <2>1. p \o s \in AnyPath /\ Len(p \o s) = Len(p) + Len(s)
      BY <1>2, Joined
    <2> QED BY <1>1, <1>2, <2>1
  <1>4. ASSUME NEW i \in 1 .. Len(q)
        PROVE  (p \o s)[i] = q[i]
    <2>1. CASE i <= Len(p)
      <3>1. i \in 1 .. Len(p)
        BY <1>1, <2>1
      <3>2. (p \o s)[i] = p[i]
        BY <1>2, <3>1, Joined
      <3>3. q[i] = p[i]
        BY <3>1, PrefixNames
      <3> QED BY <3>2, <3>3
    <2>2. CASE i > Len(p)
      <3>1. PICK j \in 1 .. Len(s) : i = Len(p) + j
        <4>1. i - Len(p) \in 1 .. Len(s) /\ Len(p) + (i - Len(p)) = i
          BY <1>1, <1>2, <2>2
        <4> QED BY <4>1
      <3>2. (p \o s)[Len(p) + j] = s[j]
        BY <1>2, Joined, Zenon
      <3>3. s[j] = q[Len(p) + j]
        BY <1>2, Zenon
      <3> QED BY <3>1, <3>2, <3>3, Zenon
    <2>3. i <= Len(p) \/ i > Len(p)
      BY <1>1
    <2> QED BY <2>1, <2>2, <2>3, Zenon
  <1>5. p \o s = q
    BY <1>3, <1>4, SeqEqual DEF AnyPath
  <1> QED BY <1>2, <1>5

LEMMA Replaced ==
    ASSUME NEW p \in AnyPath, NEW s \in AnyPath, NEW t
    PROVE  ReplacePrefix(p \o s, p, t) = t \o s
  <1>1. Len(p) \in Nat /\ Len(s) \in Nat
    BY DEF AnyPath
  <1>2. p \o s \in AnyPath /\ Len(p \o s) = Len(p) + Len(s)
    BY Joined
  <1> DEFINE r == SubSeq(p \o s, Len(p) + 1, Len(p \o s))
  <1>3. /\ r \in AnyPath /\ Len(r) = Len(s)
        /\ \A i \in 1 .. Len(s) : r[i] = (p \o s)[Len(p) + i]
    BY <1>1, <1>2 DEF AnyPath
  <1> HIDE DEF r
  <1>4. \A i \in 1 .. Len(s) : r[i] = s[i]
    BY <1>3, Joined
  <1>5. r = s
    BY <1>3, <1>4, SeqEqual DEF AnyPath
  <1> QED BY <1>5 DEF Namespace!ReplacePrefix, r

\* A common beginning does not matter.
LEMMA PrefixJoined ==
    ASSUME NEW p \in AnyPath, NEW r \in AnyPath, NEW s \in AnyPath, NEW t \in AnyPath,
           HasPrefix(p \o s, p \o t)
    PROVE  HasPrefix(r \o s, r \o t)
  <1>1. p \o s \in AnyPath /\ p \o t \in AnyPath /\ r \o t \in AnyPath
    BY Joined
  <1>2. PICK u \in AnyPath : p \o s = (p \o t) \o u
    BY <1>1, Rest, Zenon
  <1>3. (p \o t) \o u = p \o (t \o u)
    BY JoinedTwice, ZenonT(60)
  <1>7. (r \o t) \o u = r \o (t \o u)
    BY JoinedTwice, ZenonT(60)
  <1>4. t \o u \in AnyPath
    BY Joined
  <1>5. s = t \o u
    BY <1>2, <1>3, <1>4, JoinedInjective, Zenon
  <1>6. HasPrefix((r \o t) \o u, r \o t)
    BY <1>1, Joined, Zenon
  <1> QED BY <1>5, <1>6, <1>7, Zenon

\* The parent of a path.
LEMMA Parents ==
    ASSUME NEW q \in AnyPath, q # Root
    PROVE  /\ Front(q) \in AnyPath /\ Len(Front(q)) = Len(q) - 1 /\ Last(q) \in Nat
           /\ q = Append(Front(q), Last(q)) /\ Len(q) \in Nat \ {0}
           /\ HasPrefix(q, Front(q))
           /\ \A p \in AnyPath : HasPrefix(q, p) => p = q \/ HasPrefix(Front(q), p)
  <1>1. Len(q) \in Nat \ {0} /\ Last(q) \in Nat
    <2>1. Len(q) \in Nat \ {0}
      BY EmptySeq DEF AnyPath, Namespace!Root
    <2>2. Len(q) \in 1 .. Len(q)
      BY <2>1
    <2> QED BY <2>1, <2>2, ElementOfSeq DEF AnyPath, Namespace!Last
  <1>2. /\ Front(q) \in AnyPath /\ Len(Front(q)) = Len(q) - 1
        /\ \A i \in 1 .. Len(q) - 1 : Front(q)[i] = q[i]
    <2>1. Len(q) - 1 \in Nat /\ Len(q) - 1 <= Len(q)
      BY <1>1
    <2> QED BY <2>1, Beginning DEF AnyPath, Namespace!Front
  <1>3. q = Append(Front(q), Last(q))
    <2>1. /\ Append(Front(q), Last(q)) \in AnyPath
          /\ Len(Append(Front(q), Last(q))) = Len(q)
          /\ \A i \in 1 .. Len(q) - 1 : Append(Front(q), Last(q))[i] = Front(q)[i]
          /\ Append(Front(q), Last(q))[Len(q)] = Last(q)
      BY <1>1, <1>2, AppendProperties DEF AnyPath
    <2>2. \A i \in 1 .. Len(q) : Append(Front(q), Last(q))[i] = q[i]
      BY <1>1, <1>2, <2>1 DEF Namespace!Last
    <2> QED BY <2>1, <2>2, SeqEqual DEF AnyPath
  <1>4. HasPrefix(q, Front(q))
    BY <1>1, <1>2, PrefixNames
  <1>5. ASSUME NEW p \in AnyPath, HasPrefix(q, p), p # q
        PROVE  HasPrefix(Front(q), p)
    <2>1. Len(p) \in Nat /\ Len(p) <= Len(q)
          /\ \A i \in 1 .. Len(p) : q[i] = p[i]
      BY <1>5, PrefixNames DEF AnyPath
    <2>2. Len(p) # Len(q)
      BY <1>5, <2>1, SeqEqual DEF AnyPath
    <2>3. Len(p) <= Len(Front(q)) /\ \A i \in 1 .. Len(p) : Front(q)[i] = p[i]
      BY <1>1, <1>2, <2>1, <2>2
    <2> QED BY <1>2, <2>3, PrefixNames
  <1> QED BY <1>1, <1>2, <1>3, <1>4, <1>5

\* A child of a path.
LEMMA Child ==
    ASSUME NEW p \in AnyPath, NEW n \in Nat
    PROVE  /\ Append(p, n) \in AnyPath /\ Append(p, n) # Root
           /\ Front(Append(p, n)) = p /\ Last(Append(p, n)) = n
           /\ Append(p, n) = p \o <<n>> /\ <<n>> \in AnyPath
           /\ Len(Append(p, n)) = Len(p) + 1
  <1>1. Len(p) \in Nat
    BY DEF AnyPath
  <1>2. /\ Append(p, n) \in AnyPath /\ Len(Append(p, n)) = Len(p) + 1
        /\ \A i \in 1 .. Len(p) : Append(p, n)[i] = p[i]
        /\ Append(p, n)[Len(p) + 1] = n
    BY AppendProperties DEF AnyPath
  <1>3. Append(p, n) # Root
    BY <1>1, <1>2 DEF Namespace!Root
  <1>4. Front(Append(p, n)) = p
    <2>1. /\ Front(Append(p, n)) \in AnyPath /\ Len(Front(Append(p, n))) = Len(p)
          /\ \A i \in 1 .. Len(p) : Front(Append(p, n))[i] = Append(p, n)[i]
      BY <1>1, <1>2 DEF AnyPath, Namespace!Front
    <2> QED BY <1>2, <2>1, SeqEqual DEF AnyPath
  <1>5. Last(Append(p, n)) = n
    BY <1>2 DEF Namespace!Last
  <1>6. <<n>> \in AnyPath /\ Len(<<n>>) = 1 /\ <<n>>[1] = n
    BY DEF AnyPath
  <1>7. Append(p, n) = p \o <<n>>
    <2>1. p \o <<n>> \in AnyPath /\ Len(p \o <<n>>) = Len(p) + 1
      BY <1>6, Joined
    <2>2. \A i \in 1 .. Len(p) + 1 : (p \o <<n>>)[i] = Append(p, n)[i]
      BY <1>1, <1>2, <1>6, Joined
    <2> QED BY <1>2, <2>1, <2>2, SeqEqual DEF AnyPath
  <1> QED BY <1>2, <1>3, <1>4, <1>5, <1>6, <1>7

LEMMA JoinedParent ==
    ASSUME NEW p \in AnyPath, NEW s \in AnyPath, s # Root
    PROVE  Front(p \o s) = p \o Front(s) /\ Front(s) \in AnyPath
  <1>1. Front(s) \in AnyPath /\ Last(s) \in Nat /\ s = Append(Front(s), Last(s))
    BY Parents
  <1>2. s = Front(s) \o <<Last(s)>> /\ <<Last(s)>> \in AnyPath
    <2>1. Append(Front(s), Last(s)) = Front(s) \o <<Last(s)>> /\ <<Last(s)>> \in AnyPath
      BY <1>1, Child, Zenon
    <2> QED BY <1>1, <2>1, Zenon
  <1>3. (p \o Front(s)) \o <<Last(s)>> = p \o (Front(s) \o <<Last(s)>>)
    BY <1>1, <1>2, JoinedTwice, ZenonT(60)
  <1>4. p \o Front(s) \in AnyPath
    BY <1>1, Joined, Zenon
  <1>5. Append(p \o Front(s), Last(s)) = (p \o Front(s)) \o <<Last(s)>>
        /\ Front(Append(p \o Front(s), Last(s))) = p \o Front(s)
    BY <1>1, <1>4, Child, Zenon
  <1>6. Append(p \o Front(s), Last(s)) = p \o s
    BY <1>2, <1>3, <1>5, Zenon
  <1> QED BY <1>1, <1>5, <1>6, Zenon

\* The ancestors of a path are its prefixes.
LEMMA Ancestors ==
    ASSUME NEW q \in AnyPath
    PROVE  AncestorsOf(q) = {p \in AnyPath : HasPrefix(q, p)}
  <1>1. Len(q) \in Nat /\ q \in Seq(Nat)
    BY DEF AnyPath
  <1>2. ASSUME NEW n \in 0 .. Len(q)
        PROVE  SubSeq(q, 1, n) \in AnyPath /\ HasPrefix(q, SubSeq(q, 1, n))
    <2>1. n \in Nat /\ n <= Len(q)
      BY <1>1
    <2>2. /\ SubSeq(q, 1, n) \in AnyPath /\ Len(SubSeq(q, 1, n)) = n
          /\ \A i \in 1 .. n : SubSeq(q, 1, n)[i] = q[i]
      BY <1>1, <2>1, Beginning, Zenon DEF AnyPath
    <2>3. \A i \in 1 .. n : q[i] = SubSeq(q, 1, n)[i]
      BY <2>2
    <2> QED BY <2>1, <2>2, <2>3, PrefixNames, Zenon
  <1>3. ASSUME NEW p \in AnyPath, HasPrefix(q, p)
        PROVE  \E n \in 0 .. Len(q) : p = SubSeq(q, 1, n)
    <2>1. Len(p) \in Nat /\ p \in Seq(Nat) /\ Len(p) <= Len(q)
          /\ \A i \in 1 .. Len(p) : q[i] = p[i]
      BY <1>3, PrefixNames DEF AnyPath
    <2>2. /\ SubSeq(q, 1, Len(p)) \in Seq(Nat) /\ Len(SubSeq(q, 1, Len(p))) = Len(p)
          /\ \A i \in 1 .. Len(p) : SubSeq(q, 1, Len(p))[i] = q[i]
      BY <1>1, <2>1, Beginning, Zenon
    <2>3. p = SubSeq(q, 1, Len(p))
      <3> DEFINE b == SubSeq(q, 1, Len(p))
      <3>1. b \in Seq(Nat) /\ Len(b) = Len(p) /\ \A i \in 1 .. Len(p) : b[i] = q[i]
        BY <2>2
      <3> HIDE DEF b
      <3>2. p = b
        BY <2>1, <3>1, SeqEqual
      <3> QED BY <3>2 DEF b
    <2>4. Len(p) \in 0 .. Len(q)
      BY <1>1, <2>1
    <2> QED BY <2>3, <2>4
  <1> QED BY <1>2, <1>3 DEF Namespace!AncestorsOf

-----------------------------------------------------------------------------
(* The virtual namespace.                                                  *)

\* A set of numbers that is not empty has a least one.
LEMMA LeastNumber ==
    ASSUME NEW T, T \subseteq Nat, T # {}
    PROVE  \E x \in T : \A y \in T : x <= y
  <1>1. IsWellFoundedOn({ss \in Nat \X Nat : ss[1] < ss[2]}, Nat)
    BY NatLessThanWellFounded DEF OpToRel
  <1>2. PICK x \in T : \A y \in T : ~ (<<y, x>> \in {ss \in Nat \X Nat : ss[1] < ss[2]})
    BY <1>1, WFMin
  <1>3. ASSUME NEW y \in T
        PROVE  x <= y
    <2>1. ~ (y < x)
      <3> SUFFICES ASSUME y < x
                   PROVE  <<y, x>> \in {ss \in Nat \X Nat : ss[1] < ss[2]}
        BY <1>2
      <3>1. <<y, x>> \in Nat \X Nat /\ <<y, x>>[1] < <<y, x>>[2]
        OBVIOUS
      <3> QED BY <3>1
    <2> QED BY <2>1
  <1> QED BY <1>3

\* A map of nodes: the ancestors of a node are nodes.
Closed(D) == D \subseteq AnyPath /\ \A p \in D, q \in AnyPath : HasPrefix(p, q) => q \in D
NodeMap(N) ==
    /\ Root \in DOMAIN N /\ N[Root] = Root
    /\ Closed(DOMAIN N)
    /\ \A p \in DOMAIN N : N[p] \in AnyPath

\* Unedit in the nodes N.
UneditIn(N, path) ==
    LET known == {prefix \in AncestorsOf(path) : AncestorsOf(prefix) \subseteq DOMAIN N}
        deepest == CHOOSE prefix \in known : \A other \in known : Len(other) <= Len(prefix)
    IN  ReplacePrefix(path, deepest, N[deepest])

\* d is the deepest node on the way to q.
Deepest(N, q, d) ==
    d \in DOMAIN N /\ HasPrefix(q, d) /\ \A e \in DOMAIN N : HasPrefix(q, e) => HasPrefix(d, e)

LEMMA DeepestExists ==
    ASSUME NEW N, NodeMap(N), NEW q \in AnyPath
    PROVE  \E d : Deepest(N, q, d)
  <1> DEFINE T == {k \in Nat : \E d \in DOMAIN N : HasPrefix(q, d) /\ k = Len(q) - Len(d)}
  <1>1. Len(q) \in T
    <2>1. Root \in DOMAIN N /\ HasPrefix(q, Root) /\ Len(q) \in Nat /\ Len(q) = Len(q) - Len(Root)
      BY PrefixSelf DEF NodeMap, Namespace!Root, AnyPath
    <2> QED BY <2>1
  <1>2. PICK k \in T : \A l \in T : k <= l
    <2>1. T \subseteq Nat /\ T # {}
      BY <1>1
    <2> HIDE DEF T
    <2> QED BY <2>1, LeastNumber
  <1>3. PICK d \in DOMAIN N : HasPrefix(q, d) /\ k = Len(q) - Len(d)
    BY <1>2
  <1>4. ASSUME NEW e \in DOMAIN N, HasPrefix(q, e)
        PROVE  HasPrefix(d, e)
    <2>1. d \in AnyPath /\ e \in AnyPath
      BY DEF NodeMap, Closed
    <2>2. Len(q) \in Nat /\ Len(d) \in Nat /\ Len(e) \in Nat /\ Len(e) <= Len(q)
      BY <1>4, <2>1, PrefixNames DEF AnyPath
    <2>3. Len(q) - Len(e) \in T
      BY <1>4, <2>2
    <2>4. k <= Len(q) - Len(e)
      BY <1>2, <2>3
    <2>5. Len(e) <= Len(d)
      BY <1>3, <2>2, <2>4
    <2> QED BY <1>3, <1>4, <2>1, <2>5, PrefixCompare
  <1> QED BY <1>3, <1>4 DEF Deepest

\* What Unedit returns.
LEMMA Unedited ==
    ASSUME NEW N, NodeMap(N), NEW d, NEW s \in AnyPath, d \in AnyPath, Deepest(N, d \o s, d)
    PROVE  UneditIn(N, d \o s) = N[d] \o s
  <1> DEFINE q == d \o s
             known == {prefix \in AncestorsOf(q) : AncestorsOf(prefix) \subseteq DOMAIN N}
             deepest == CHOOSE prefix \in known : \A other \in known : Len(other) <= Len(prefix)
  <1>1. q \in AnyPath
    BY Joined
  <1>2. known = {e \in DOMAIN N : HasPrefix(q, e)}
    <2>1. ASSUME NEW e \in AnyPath
          PROVE  AncestorsOf(e) \subseteq DOMAIN N <=> e \in DOMAIN N
      BY Ancestors, PrefixSelf DEF NodeMap, Closed
    <2>2. AncestorsOf(q) = {p \in AnyPath : HasPrefix(q, p)}
      BY <1>1, Ancestors
    <2> QED BY <2>1, <2>2 DEF NodeMap, Closed
  <1> HIDE DEF q, known
  <1>3. d \in known /\ \A e \in known : e \in AnyPath /\ HasPrefix(q, e) /\ HasPrefix(d, e)
    BY <1>2 DEF Deepest, NodeMap, Closed, q
  <1>4. \A e \in known : Len(e) <= Len(d) /\ Len(e) \in Nat
    BY <1>3, PrefixNames DEF AnyPath
  <1>5. ASSUME NEW e \in known, \A other \in known : Len(other) <= Len(e)
        PROVE  e = d
    <2>1. Len(e) = Len(d) /\ e \in AnyPath /\ HasPrefix(d, e)
      BY <1>3, <1>4, <1>5
    <2>2. HasPrefix(e, d)
      BY <1>1, <1>3, <2>1, PrefixCompare, PrefixNames
    <2> QED BY <2>1, <2>2, PrefixBoth
  <1>6. deepest = d
    BY <1>3, <1>4, <1>5
  <1>7. UneditIn(N, q) = ReplacePrefix(q, deepest, N[deepest])
    BY DEF UneditIn, known
  <1>8. ReplacePrefix(q, d, N[d]) = N[d] \o s
    BY Replaced DEF q
  <1> QED BY <1>6, <1>7, <1>8 DEF q

\* The two together: a path is a node and what follows it.
LEMMA UneditIs ==
    ASSUME NEW N, NodeMap(N), NEW q \in AnyPath
    PROVE  \E d \in DOMAIN N, s \in AnyPath :
              /\ d \in AnyPath /\ q = d \o s /\ Deepest(N, q, d)
              /\ UneditIn(N, q) = N[d] \o s /\ N[d] \in AnyPath /\ UneditIn(N, q) \in AnyPath
  <1>1. PICK d : Deepest(N, q, d)
    BY DeepestExists
  <1>2. d \in DOMAIN N /\ d \in AnyPath /\ N[d] \in AnyPath
    BY <1>1 DEF Deepest, NodeMap, Closed
  <1>3. PICK s \in AnyPath : q = d \o s
    BY <1>1, <1>2, Rest DEF Deepest
  <1>4. UneditIn(N, q) = N[d] \o s
    BY <1>1, <1>2, <1>3, Unedited
  <1>5. N[d] \o s \in AnyPath
    BY <1>2, Joined
  <1> QED BY <1>1, <1>2, <1>3, <1>4, <1>5

\* What Unedit returns at a node.
LEMMA UneditNode ==
    ASSUME NEW N, NodeMap(N), NEW d \in DOMAIN N
    PROVE  UneditIn(N, d) = N[d]
  <1>1. d \in AnyPath /\ N[d] \in AnyPath /\ Root \in AnyPath
    BY PrefixSelf DEF NodeMap, Closed
  <1>2. d \o Root = d /\ N[d] \o Root = N[d]
    BY <1>1, JoinedRoot DEF AnyPath
  <1>3. Deepest(N, d \o Root, d)
    BY <1>1, <1>2, PrefixSelf DEF Deepest
  <1> QED BY <1>1, <1>2, <1>3, Unedited

\* Making nodes changes no answer.
WithNodesIn(N, those) ==
    [p \in DOMAIN N \cup UNION {AncestorsOf(path) : path \in those} |->
        IF p \in DOMAIN N THEN N[p] ELSE UneditIn(N, p)]

LEMMA NodesMade ==
    ASSUME NEW N, NodeMap(N), NEW those, those \subseteq AnyPath
    PROVE  /\ NodeMap(WithNodesIn(N, those))
           /\ \A q \in AnyPath : UneditIn(WithNodesIn(N, those), q) = UneditIn(N, q)
           /\ \A q \in AnyPath : q \in DOMAIN WithNodesIn(N, those) <=>
                 q \in DOMAIN N \/ \E path \in those : HasPrefix(path, q)
  <1> DEFINE W == WithNodesIn(N, those)
  <1>1. DOMAIN W = DOMAIN N \cup UNION {AncestorsOf(path) : path \in those}
    BY DEF WithNodesIn
  <1>2. \A q \in AnyPath : q \in DOMAIN W <=>
           q \in DOMAIN N \/ \E path \in those : HasPrefix(path, q)
    BY <1>1, Ancestors
  <1>3. \A q \in DOMAIN W : q \in AnyPath /\ W[q] = UneditIn(N, q)
    BY <1>1, Ancestors, UneditNode DEF WithNodesIn, NodeMap, Closed
  <1> HIDE DEF W
  <1>4. Root \in DOMAIN W /\ W[Root] = Root
    BY <1>1, <1>3, UneditNode DEF NodeMap
  <1>5. Closed(DOMAIN W)
    <2> SUFFICES ASSUME NEW p \in DOMAIN W, NEW q \in AnyPath, HasPrefix(p, q)
                 PROVE  q \in DOMAIN W
      BY <1>3 DEF Closed
    <2>1. CASE p \in DOMAIN N
      BY <1>2, <2>1 DEF NodeMap, Closed
    <2>2. CASE \E path \in those : HasPrefix(path, p)
      BY <1>2, <1>3, <2>2, PrefixTransitive
    <2> QED BY <1>2, <1>3, <2>1, <2>2
  <1>6. NodeMap(W)
    BY <1>3, <1>4, <1>5, UneditIs DEF NodeMap
  <1>7. ASSUME NEW q \in AnyPath
        PROVE  UneditIn(W, q) = UneditIn(N, q)
    <2>1. PICK d \in DOMAIN W, s \in AnyPath :
             d \in AnyPath /\ q = d \o s /\ Deepest(W, q, d) /\ UneditIn(W, q) = W[d] \o s
      BY <1>6, UneditIs
    <2>2. PICK e \in DOMAIN N, t \in AnyPath :
             e \in AnyPath /\ d = e \o t /\ Deepest(N, d, e) /\ UneditIn(N, d) = N[e] \o t
                /\ N[e] \in AnyPath
      BY <2>1, UneditIs
    <2>3. q = e \o (t \o s) /\ t \o s \in AnyPath
      <3>1. t \o s \in AnyPath
        BY <2>1, <2>2, Joined, Zenon
      <3>2. (e \o t) \o s = e \o (t \o s)
        <4>1. e \in AnyPath
          BY <2>2
        <4> QED BY <4>1, JoinedTwice, ZenonT(60)
      <3> QED BY <2>1, <2>2, <3>1, <3>2, Zenon
    <2>4. Deepest(N, q, e)
      <3>1. HasPrefix(q, e)
        BY <2>2, <2>3, Joined
      <3>2. ASSUME NEW f \in DOMAIN N, HasPrefix(q, f)
            PROVE  HasPrefix(e, f)
        <4>1. f \in DOMAIN W
          BY <1>1
        <4>2. HasPrefix(d, f)
          BY <2>1, <3>2, <4>1 DEF Deepest
        <4> QED BY <2>2, <4>2 DEF Deepest
      <3> QED BY <3>1, <3>2 DEF Deepest
    <2>5. UneditIn(N, q) = N[e] \o (t \o s)
      BY <2>2, <2>3, <2>4, Unedited
    <2>6. W[d] = N[e] \o t
      BY <1>3, <2>1, <2>2
    <2>7. (N[e] \o t) \o s = N[e] \o (t \o s)
      <3>1. N[e] \in AnyPath
        BY <2>2
      <3> QED BY <3>1, JoinedTwice, ZenonT(60)
    <2> QED BY <2>1, <2>5, <2>6, <2>7
  <1> QED BY <1>2, <1>6, <1>7 DEF W

\* What is not below a node that is cut off stays.
LEMMA NodeCut ==
    ASSUME NEW N, NodeMap(N), NEW c \in AnyPath, c # Root
    PROVE  /\ NodeMap(Cut(N, c))
           /\ \A q \in AnyPath : ~HasPrefix(q, c) => UneditIn(Cut(N, c), q) = UneditIn(N, q)
  <1> DEFINE W == Cut(N, c)
  <1>1. /\ DOMAIN W = {p \in DOMAIN N : ~HasPrefix(p, c)}
        /\ \A p \in DOMAIN W : W[p] = N[p]
    BY DEF Namespace!Cut, Namespace!Below
  <1> HIDE DEF W
  <1>2. ~HasPrefix(Root, c)
    <2>1. HasPrefix(c, Root) /\ Root \in AnyPath
      BY PrefixSelf
    <2> QED BY <2>1, PrefixBoth
  <1>3. Root \in DOMAIN W /\ W[Root] = Root
    BY <1>1, <1>2 DEF NodeMap
  <1>4. Closed(DOMAIN W)
    <2> SUFFICES ASSUME NEW p \in DOMAIN W, NEW q \in AnyPath, HasPrefix(p, q)
                 PROVE  q \in DOMAIN W
      BY <1>1 DEF Closed, NodeMap
    <2>1. p \in AnyPath /\ q \in DOMAIN N
      BY <1>1 DEF Closed, NodeMap
    <2>2. ~HasPrefix(q, c)
      BY <1>1, <2>1, PrefixTransitive
    <2> QED BY <1>1, <2>1, <2>2
  <1>5. NodeMap(W)
    BY <1>1, <1>3, <1>4 DEF NodeMap
  <1>6. ASSUME NEW q \in AnyPath, ~HasPrefix(q, c)
        PROVE  UneditIn(W, q) = UneditIn(N, q)
    <2>1. PICK d \in DOMAIN N, s \in AnyPath :
             d \in AnyPath /\ q = d \o s /\ Deepest(N, q, d) /\ UneditIn(N, q) = N[d] \o s
      BY UneditIs
    <2>2. d \in DOMAIN W
      BY <1>1, <1>6, <2>1, PrefixTransitive DEF Deepest
    <2>3. Deepest(W, q, d)
      BY <1>1, <2>1, <2>2 DEF Deepest
    <2>4. UneditIn(W, d \o s) = W[d] \o s
      BY <1>5, <2>1, <2>3, Unedited, Zenon
    <2> QED BY <1>1, <2>1, <2>2, <2>4, Zenon
  <1> QED BY <1>5, <1>6 DEF W

Apart(p, q) == p \in AnyPath /\ q \in AnyPath /\ ~HasPrefix(p, q) /\ ~HasPrefix(q, p)

\* Nothing is below both of two places that are apart.
LEMMA ApartBelow ==
    ASSUME NEW p, NEW q, Apart(p, q), NEW r \in AnyPath, HasPrefix(r, p)
    PROVE  ~HasPrefix(r, q)
  BY PrefixCompare DEF Apart

\* A subtree that moves to a place where nothing is.
LEMMA Grafted ==
    ASSUME NEW f, NEW c, NEW n, Apart(c, n),
           \A p \in DOMAIN f : p \in AnyPath /\ ~HasPrefix(p, n)
    PROVE  /\ DOMAIN Graft(f, c, n) \subseteq AnyPath
           /\ \A s \in AnyPath : /\ n \o s \in DOMAIN Graft(f, c, n) <=> c \o s \in DOMAIN f
                                 /\ c \o s \in DOMAIN f => Graft(f, c, n)[n \o s] = f[c \o s]
           /\ \A q \in AnyPath : ~HasPrefix(q, n) =>
                 /\ q \in DOMAIN Graft(f, c, n) <=> q \in DOMAIN f /\ ~HasPrefix(q, c)
                 /\ q \in DOMAIN Graft(f, c, n) => Graft(f, c, n)[q] = f[q]
  <1> DEFINE moved == {ReplacePrefix(p, c, n) : p \in Below(f, c)}
             G == [p \in (DOMAIN f \ Below(f, c)) \cup moved |->
                      IF p \in moved THEN f[ReplacePrefix(p, n, c)] ELSE f[p]]
  <1>0. c \in AnyPath /\ n \in AnyPath
    BY DEF Apart
  <1>1. Below(f, c) = {p \in DOMAIN f : HasPrefix(p, c)}
    BY DEF Namespace!Below
  <1>2. ASSUME NEW s \in AnyPath
        PROVE  c \o s \in Below(f, c) <=> c \o s \in DOMAIN f
    BY <1>0, <1>1, Joined
  <1>3. ASSUME NEW m \in moved
        PROVE  \E s \in AnyPath : m = n \o s /\ c \o s \in DOMAIN f
    <2>1. PICK p \in Below(f, c) : m = ReplacePrefix(p, c, n)
      OBVIOUS
    <2>2. p \in AnyPath /\ HasPrefix(p, c) /\ p \in DOMAIN f
      BY <1>1, <2>1
    <2>3. PICK s \in AnyPath : p = c \o s
      BY <1>0, <2>2, Rest
    <2>4. ReplacePrefix(c \o s, c, n) = n \o s
      BY <1>0, Replaced
    <2> QED BY <2>1, <2>2, <2>3, <2>4
  <1>4. ASSUME NEW s \in AnyPath, c \o s \in DOMAIN f
        PROVE  n \o s \in moved
    <2>1. ReplacePrefix(c \o s, c, n) = n \o s
      BY <1>0, Replaced
    <2> QED BY <1>2, <1>4, <2>1
  <1>5. ASSUME NEW s \in AnyPath, n \o s \in moved
        PROVE  c \o s \in DOMAIN f
    <2>1. PICK t \in AnyPath : n \o s = n \o t /\ c \o t \in DOMAIN f
      BY <1>3, <1>5
    <2>2. s = t
      BY <1>0, <2>1, JoinedInjective
    <2> QED BY <2>1, <2>2
  <1>6. ASSUME NEW s \in AnyPath
        PROVE  n \o s \in AnyPath /\ HasPrefix(n \o s, n) /\ n \o s \notin DOMAIN f
    BY <1>0, Joined
  <1>7. moved \subseteq AnyPath /\ \A m \in moved : HasPrefix(m, n)
    <2>1. ASSUME NEW m \in moved
          PROVE  m \in AnyPath /\ HasPrefix(m, n)
      <3>1. PICK s \in AnyPath : m = n \o s
        BY <1>3, <2>1
      <3> QED BY <1>6, <3>1
    <2> QED BY <2>1
  <1>8. G = Graft(f, c, n)
    BY DEF Namespace!Graft
  <1> HIDE DEF moved
  <1>9. DOMAIN G = (DOMAIN f \ Below(f, c)) \cup moved
    OBVIOUS
  <1>10. \A p \in DOMAIN G : G[p] = IF p \in moved THEN f[ReplacePrefix(p, n, c)] ELSE f[p]
    OBVIOUS
  <1> HIDE DEF G
  <1>11. ASSUME NEW s \in AnyPath
         PROVE  /\ n \o s \in DOMAIN G <=> c \o s \in DOMAIN f
                /\ c \o s \in DOMAIN f => G[n \o s] = f[c \o s]
    <2>1. n \o s \in DOMAIN G <=> n \o s \in moved
      BY <1>6, <1>9
    <2>2. n \o s \in moved <=> c \o s \in DOMAIN f
      BY <1>4, <1>5
    <2>3. ReplacePrefix(n \o s, n, c) = c \o s
      BY <1>0, Replaced
    <2> QED BY <1>10, <2>1, <2>2, <2>3
  <1>12. ASSUME NEW q \in AnyPath, ~HasPrefix(q, n)
         PROVE  /\ q \in DOMAIN G <=> q \in DOMAIN f /\ ~HasPrefix(q, c)
                /\ q \in DOMAIN G => G[q] = f[q]
    BY <1>1, <1>7, <1>9, <1>10, <1>12
  <1>13. DOMAIN G \subseteq AnyPath
    BY <1>7, <1>9
  <1>14. /\ \A s \in AnyPath : /\ n \o s \in DOMAIN G <=> c \o s \in DOMAIN f
                               /\ c \o s \in DOMAIN f => G[n \o s] = f[c \o s]
         /\ \A q \in AnyPath : ~HasPrefix(q, n) =>
               /\ q \in DOMAIN G <=> q \in DOMAIN f /\ ~HasPrefix(q, c)
               /\ q \in DOMAIN G => G[q] = f[q]
    BY <1>11, <1>12, Zenon
  <1> QED BY <1>8, <1>13, <1>14, Zenon

\* The ancestors of places stay places when a subtree moves below one of them.
LEMMA GraftedClosed ==
    ASSUME NEW f, NEW c, NEW n, Apart(c, n), Closed(DOMAIN f),
           c \in DOMAIN f, n \notin DOMAIN f, n # Root, Front(n) \in DOMAIN f
    PROVE  /\ Closed(DOMAIN Graft(f, c, n))
           /\ \A p \in DOMAIN f : p \in AnyPath /\ ~HasPrefix(p, n)
  <1> DEFINE G == Graft(f, c, n)
  <1>1. \A p \in DOMAIN f : p \in AnyPath /\ ~HasPrefix(p, n)
    BY DEF Closed, Apart
  <1>2. /\ DOMAIN G \subseteq AnyPath
        /\ \A s \in AnyPath : n \o s \in DOMAIN G <=> c \o s \in DOMAIN f
        /\ \A q \in AnyPath : ~HasPrefix(q, n) =>
              (q \in DOMAIN G <=> q \in DOMAIN f /\ ~HasPrefix(q, c))
    BY <1>1, Grafted, Zenon
  <1> HIDE DEF G
  <1>3. c \in AnyPath /\ n \in AnyPath
    BY DEF Apart
  <1>4. ASSUME NEW p \in DOMAIN G, NEW q \in AnyPath, HasPrefix(p, q)
        PROVE  q \in DOMAIN G
    <2>1. CASE ~HasPrefix(p, n)
      <3>1. p \in AnyPath /\ p \in DOMAIN f /\ ~HasPrefix(p, c)
        BY <1>2, <2>1
      <3>2. q \in DOMAIN f
        BY <1>4, <3>1 DEF Closed
      <3>3. ~HasPrefix(q, n) /\ ~HasPrefix(q, c)
        BY <1>3, <1>4, <2>1, <3>1, PrefixTransitive
      <3> QED BY <1>2, <3>2, <3>3
    <2>2. CASE HasPrefix(p, n) /\ HasPrefix(q, n)
      <3>1. PICK s \in AnyPath : p = n \o s
        BY <1>2, <1>3, <2>2, Rest
      <3>2. PICK t \in AnyPath : q = n \o t
        BY <1>3, <2>2, Rest
      <3>3. c \o s \in DOMAIN f
        BY <1>2, <3>1
      <3>4. HasPrefix(c \o s, c \o t)
        BY <1>3, <1>4, <3>1, <3>2, PrefixJoined
      <3>5. c \o t \in DOMAIN f
        BY <1>3, <3>3, <3>4, Joined DEF Closed
      <3> QED BY <1>2, <3>2, <3>5
    <2>3. CASE HasPrefix(p, n) /\ ~HasPrefix(q, n)
      <3>1. HasPrefix(n, q)
        BY <1>2, <1>3, <1>4, <2>3, PrefixCompare
      <3>2. q # n
        BY <1>3, <2>3, PrefixSelf
      <3>3. HasPrefix(Front(n), q) /\ Front(n) \in AnyPath
        BY <1>3, <3>1, <3>2, Parents
      <3>4. q \in DOMAIN f
        BY <3>3 DEF Closed
      <3>5. ~HasPrefix(q, c)
        BY <1>3, <3>1, PrefixTransitive DEF Apart
      <3> QED BY <1>2, <2>3, <3>4, <3>5
    <2> QED BY <2>1, <2>2, <2>3
  <1> QED BY <1>1, <1>2, <1>4 DEF Closed, G

\* A node that moves takes the answers below it along, and changes no others.
LEMMA NodeMoved ==
    ASSUME NEW N, NodeMap(N), NEW c, NEW n, Apart(c, n), c \in DOMAIN N,
           n \notin DOMAIN N, n # Root, Front(n) \in DOMAIN N
    PROVE  /\ NodeMap(Graft(N, c, n))
           /\ \A q \in AnyPath : ~HasPrefix(q, c) /\ ~HasPrefix(q, n) =>
                 UneditIn(Graft(N, c, n), q) = UneditIn(N, q)
           /\ \A s \in AnyPath : UneditIn(Graft(N, c, n), n \o s) = UneditIn(N, c \o s)
  <1> DEFINE G == Graft(N, c, n)
  <1>0. c \in AnyPath /\ n \in AnyPath
    BY DEF Apart
  <1>1. Closed(DOMAIN G) /\ \A p \in DOMAIN N : p \in AnyPath /\ ~HasPrefix(p, n)
    BY GraftedClosed DEF NodeMap
  <1>2. /\ DOMAIN G \subseteq AnyPath
        /\ \A s \in AnyPath : /\ n \o s \in DOMAIN G <=> c \o s \in DOMAIN N
                              /\ c \o s \in DOMAIN N => G[n \o s] = N[c \o s]
        /\ \A q \in AnyPath : ~HasPrefix(q, n) =>
              /\ q \in DOMAIN G <=> q \in DOMAIN N /\ ~HasPrefix(q, c)
              /\ q \in DOMAIN G => G[q] = N[q]
    BY <1>1, Grafted, Zenon
  <1> HIDE DEF G
  <1>3. Root \in DOMAIN G /\ G[Root] = Root
    <2>1. Root \in AnyPath /\ Root \in DOMAIN N /\ N[Root] = Root /\ HasPrefix(c, Root)
          /\ HasPrefix(n, Root)
      BY <1>0, PrefixSelf DEF NodeMap
    <2>2. ~HasPrefix(Root, n) /\ ~HasPrefix(Root, c)
      BY <1>0, <2>1, PrefixBoth DEF Apart
    <2> QED BY <1>2, <2>1, <2>2
  <1>4. \A p \in DOMAIN G : G[p] \in AnyPath
    <2> SUFFICES ASSUME NEW p \in DOMAIN G
                 PROVE  G[p] \in AnyPath
      OBVIOUS
    <2>1. CASE HasPrefix(p, n)
      <3>1. PICK s \in AnyPath : p = n \o s
        BY <1>0, <1>2, <2>1, Rest
      <3> QED BY <1>2, <3>1 DEF NodeMap
    <2>2. CASE ~HasPrefix(p, n)
      BY <1>2, <2>2 DEF NodeMap
    <2> QED BY <2>1, <2>2
  <1>5. NodeMap(G)
    BY <1>1, <1>3, <1>4 DEF NodeMap
  <1>6. ASSUME NEW q \in AnyPath, ~HasPrefix(q, c), ~HasPrefix(q, n)
        PROVE  UneditIn(G, q) = UneditIn(N, q)
    <2>1. PICK d \in DOMAIN N, s \in AnyPath :
             d \in AnyPath /\ q = d \o s /\ Deepest(N, q, d) /\ UneditIn(N, q) = N[d] \o s
      BY UneditIs
    <2>2. ASSUME NEW e \in AnyPath, HasPrefix(q, e)
          PROVE  ~HasPrefix(e, c) /\ ~HasPrefix(e, n)
      BY <1>0, <1>6, <2>2, PrefixTransitive
    <2>3. d \in DOMAIN G /\ G[d] = N[d]
      BY <1>2, <2>1, <2>2 DEF Deepest
    <2>4. Deepest(G, q, d)
      BY <1>2, <2>1, <2>2, <2>3 DEF Deepest
    <2>5. UneditIn(G, d \o s) = G[d] \o s
      BY <1>5, <2>1, <2>4, Unedited, Zenon
    <2> QED BY <2>1, <2>3, <2>5, Zenon
  <1>7. ASSUME NEW s \in AnyPath
        PROVE  UneditIn(G, n \o s) = UneditIn(N, c \o s)
    <2>0. c \o s \in AnyPath /\ n \o s \in AnyPath /\ HasPrefix(c \o s, c) /\ HasPrefix(n \o s, n)
      BY <1>0, Joined
    <2>1. PICK d \in DOMAIN N, u \in AnyPath :
             d \in AnyPath /\ c \o s = d \o u /\ Deepest(N, c \o s, d)
                /\ UneditIn(N, c \o s) = N[d] \o u
      BY <2>0, UneditIs
    <2>2. PICK t \in AnyPath : d = c \o t
      <3>1. HasPrefix(d, c)
        BY <2>0, <2>1 DEF Deepest
      <3> QED BY <1>0, <2>1, <3>1, Rest
    <2>3. s = t \o u
      <3>1. (c \o t) \o u = c \o (t \o u)
        BY <1>0, JoinedTwice, ZenonT(60)
      <3>2. t \o u \in AnyPath
        BY Joined
      <3>3. c \o s = c \o (t \o u)
        BY <2>1, <2>2, <3>1, Zenon
      <3> QED BY <1>0, <3>2, <3>3, JoinedInjective, Zenon
    <2>4. (n \o t) \o u = n \o s
      <3>1. (n \o t) \o u = n \o (t \o u)
        BY <1>0, JoinedTwice, ZenonT(60)
      <3> QED BY <2>3, <3>1, Zenon
    <2>5. n \o t \in DOMAIN G /\ G[n \o t] = N[d] /\ n \o t \in AnyPath /\ HasPrefix(n \o t, n)
      BY <1>0, <1>2, <2>2, Joined, Zenon
    <2>6. ASSUME NEW f \in DOMAIN G, HasPrefix(n \o s, f)
          PROVE  HasPrefix(n \o t, f)
      <3>1. CASE HasPrefix(f, n)
        <4>1. PICK x \in AnyPath : f = n \o x
          BY <1>0, <1>2, <3>1, Rest
        <4>2. c \o x \in DOMAIN N
          BY <1>2, <4>1
        <4>3. HasPrefix(c \o s, c \o x)
          BY <1>0, <2>6, <4>1, PrefixJoined
        <4>4. HasPrefix(c \o t, c \o x)
          BY <2>1, <2>2, <4>2, <4>3 DEF Deepest
        <4> QED BY <1>0, <4>1, <4>4, PrefixJoined
      <3>2. CASE ~HasPrefix(f, n)
        <4>1. HasPrefix(n, f)
          BY <1>0, <1>2, <2>0, <2>6, <3>2, PrefixCompare
        <4> QED BY <1>0, <1>2, <2>5, <4>1, PrefixTransitive
      <3> QED BY <3>1, <3>2
    <2>7. Deepest(G, n \o s, n \o t)
      <3>1. HasPrefix(n \o s, n \o t)
        <4>1. HasPrefix((n \o t) \o u, n \o t)
          BY <2>5, Joined, Zenon
        <4> QED BY <2>4, <4>1, Zenon
      <3> QED BY <2>5, <2>6, <3>1 DEF Deepest
    <2>8. UneditIn(G, (n \o t) \o u) = G[n \o t] \o u
      <3>1. Deepest(G, (n \o t) \o u, n \o t)
        BY <2>4, <2>7, Zenon
      <3> QED BY <1>5, <2>5, <3>1, Unedited, Zenon
    <2> QED BY <2>1, <2>4, <2>5, <2>8, Zenon
  <1> QED BY <1>5, <1>6, <1>7 DEF G

-----------------------------------------------------------------------------
(* Dead places.                                                            *)

\* IsDeadspace in the dead places D.
DeadIn(D, path) ==
    \E dead \in D :
       /\ AtMost(dead, path)
       /\ \A other \in D : AtMost(other, path) => AtMost(other, dead)
       /\ HasPrefix(path, dead)

\* Of the places of a set none is below another.
Antichain(D) == D \subseteq AnyPath /\ \A d, e \in D : HasPrefix(d, e) => d = e

\* A dead place is one that nothing is at, below something that is there.
DeadPlaces(D, O) == \A d \in D : d \in AnyPath /\ d # Root /\ Front(d) \in O /\ d \notin O

LEMMA DeadApart ==
    ASSUME NEW O, Closed(O), NEW D, DeadPlaces(D, O)
    PROVE  Antichain(D)
  <1> SUFFICES ASSUME NEW d \in D, NEW e \in D, HasPrefix(d, e), d # e
               PROVE  FALSE
    BY DEF Antichain, DeadPlaces
  <1>1. HasPrefix(Front(d), e) /\ e \in AnyPath /\ e \notin O /\ Front(d) \in O
    BY Parents DEF DeadPlaces
  <1> QED BY <1>1 DEF Closed

\* The beginnings of two paths.
LEMMA SameBeginning ==
    ASSUME NEW p \in AnyPath, NEW q \in AnyPath, NEW n \in Nat, n <= Len(p), n <= Len(q)
    PROVE  SubSeq(p, 1, n) = SubSeq(q, 1, n) <=> \A i \in 1 .. n : p[i] = q[i]
  <1> DEFINE b == SubSeq(p, 1, n)
             c == SubSeq(q, 1, n)
  <1>1. p \in Seq(Nat) /\ q \in Seq(Nat)
    BY DEF AnyPath
  <1>2. b \in Seq(Nat) /\ Len(b) = n /\ \A i \in 1 .. n : b[i] = p[i]
    BY <1>1, Beginning
  <1>3. c \in Seq(Nat) /\ Len(c) = n /\ \A i \in 1 .. n : c[i] = q[i]
    BY <1>1, Beginning
  <1> HIDE DEF b, c
  <1>4. b = c <=> \A i \in 1 .. n : b[i] = c[i]
    BY <1>2, <1>3, SeqEqual
  <1>5. b = c <=> \A i \in 1 .. n : p[i] = q[i]
    BY <1>2, <1>3, <1>4
  <1> QED BY <1>5 DEF b, c

\* To look at the last dead place that is not after a path is enough.
LEMMA DeadBelow ==
    ASSUME NEW D, Antichain(D), NEW q \in AnyPath
    PROVE  DeadIn(D, q) <=> \E d \in D : HasPrefix(q, d)
  <1> SUFFICES ASSUME NEW d \in D, HasPrefix(q, d)
               PROVE  /\ AtMost(d, q)
                      /\ \A other \in D : AtMost(other, q) => AtMost(other, d)
    BY DEF DeadIn
  <1>1. AtMost(d, q)
    BY DEF Namespace!AtMost
  <1>2. ASSUME NEW other \in D, AtMost(other, q)
        PROVE  AtMost(other, d)
    <2>0. d \in AnyPath /\ other \in AnyPath
      BY DEF Antichain
    <2>1. CASE HasPrefix(q, other)
      <3>1. other = d
        BY <2>0, <2>1, PrefixCompare DEF Antichain
      <3> QED BY <2>0, <3>1, PrefixSelf DEF Namespace!AtMost
    <2>2. ASSUME NEW i \in DOMAIN other \cap DOMAIN q,
                 SubSeq(other, 1, i - 1) = SubSeq(q, 1, i - 1), other[i] < q[i]
          PROVE  AtMost(other, d)
      <3>1. i \in 1 .. Len(other) /\ i \in 1 .. Len(q) /\ Len(d) \in Nat /\ Len(other) \in Nat
            /\ Len(q) \in Nat
        BY <2>0 DEF AnyPath
      <3>2. Len(d) <= Len(q) /\ \A j \in 1 .. Len(d) : q[j] = d[j]
        BY <2>0, PrefixNames
      <3>3. i - 1 \in Nat /\ i - 1 <= Len(other) /\ i - 1 <= Len(q)
        BY <3>1
      <3>4. \A j \in 1 .. i - 1 : other[j] = q[j]
        BY <2>0, <2>2, <3>3, SameBeginning
      <3>5. CASE i <= Len(d)
        <4>1. \A j \in 1 .. i - 1 : other[j] = d[j]
          BY <3>1, <3>2, <3>4, <3>5
        <4>2. i - 1 <= Len(d)
          BY <3>1, <3>5
        <4>3. SubSeq(other, 1, i - 1) = SubSeq(d, 1, i - 1)
          BY <2>0, <3>3, <4>1, <4>2, SameBeginning
        <4>4. i \in DOMAIN other \cap DOMAIN d /\ other[i] < d[i]
          <5>1. i \in 1 .. Len(d)
            BY <3>1, <3>5
          <5>2. DOMAIN d = 1 .. Len(d)
            BY <2>0 DEF AnyPath
          <5>3. d[i] = q[i]
            BY <3>2, <5>1
          <5> QED BY <2>2, <5>1, <5>2, <5>3
        <4> QED BY <4>3, <4>4 DEF Namespace!AtMost
      <3>6. CASE i > Len(d)
        <4>1. \A j \in 1 .. Len(d) : other[j] = d[j]
          BY <3>1, <3>2, <3>4, <3>6
        <4>2. Len(d) <= Len(other) /\ Len(d) # Len(other)
          BY <3>1, <3>6
        <4>3. HasPrefix(other, d)
          BY <2>0, <4>1, <4>2, PrefixNames
        <4> QED BY <4>2, <4>3 DEF Antichain
      <3> QED BY <3>1, <3>5, <3>6
    <2> QED BY <1>2, <2>1, <2>2 DEF Namespace!AtMost
  <1> QED BY <1>1, <1>2

\* The dead places after an object goes that has none below it.
LEMMA DeadAfterRemoval ==
    ASSUME NEW O, Closed(O), NEW D, DeadPlaces(D, O), NEW c \in O, c # Root,
           \A d \in D : ~HasPrefix(d, c)
    PROVE  LET left == {p \in O : ~HasPrefix(p, c)} IN
           Closed(left) /\ DeadPlaces(D \cup {c}, left)
  <1> DEFINE left == {p \in O : ~HasPrefix(p, c)}
  <1>1. c \in AnyPath
    BY DEF Closed
  <1>2. Closed(left)
    BY <1>1, PrefixTransitive DEF Closed
  <1>3. ASSUME NEW d \in D
        PROVE  Front(d) \in left /\ d \in AnyPath /\ d # Root /\ d \notin left
    <2>1. Front(d) \in O /\ d \in AnyPath /\ d # Root /\ d \notin O
      BY DEF DeadPlaces
    <2>2. HasPrefix(d, Front(d)) /\ Front(d) \in AnyPath
      BY <2>1, Parents
    <2>3. ~HasPrefix(Front(d), c)
      BY <1>1, <2>1, <2>2, PrefixTransitive
    <2> QED BY <2>1, <2>3
  <1>4. Front(c) \in left /\ c \notin left
    <2>1. HasPrefix(c, Front(c)) /\ Front(c) \in AnyPath /\ Len(Front(c)) = Len(c) - 1
          /\ Len(c) \in Nat
      BY <1>1, Parents
    <2>2. ~HasPrefix(Front(c), c)
      BY <1>1, <2>1, PrefixNames
    <2>3. HasPrefix(c, c)
      BY <1>1, PrefixSelf
    <2> QED BY <2>1, <2>2, <2>3 DEF Closed
  <1> QED BY <1>1, <1>2, <1>3, <1>4 DEF DeadPlaces

\* MoveDead of the dead places D.
MoveDeadIn(D, from, to) ==
    LET below == {dead \in D : HasPrefix(dead, from)}
    IN  (((D \ below) \cup {ReplacePrefix(dead, from, to) : dead \in below})
            \cup {from}) \ {to}

\* What the places are when those below c have moved to n.
MovedPlaces(O, moved, c, n) ==
    /\ moved \subseteq AnyPath
    /\ \A s \in AnyPath : n \o s \in moved <=> c \o s \in O
    /\ \A q \in AnyPath : ~HasPrefix(q, n) => (q \in moved <=> q \in O /\ ~HasPrefix(q, c))

\* The dead places after a move to a place where nothing is.
LEMMA DeadAfterMove ==
    ASSUME NEW O, Closed(O), NEW D, DeadPlaces(D, O), NEW c, NEW n, Apart(c, n),
           c \in O, n \notin O, n # Root, Front(n) \in O, NEW moved, MovedPlaces(O, moved, c, n)
    PROVE  /\ DeadPlaces(MoveDeadIn(D, c, n), moved)
           /\ c \in MoveDeadIn(D, c, n)
           /\ \A d \in D : HasPrefix(d, c) \/ d = n \/ d \in MoveDeadIn(D, c, n)
           /\ \A s \in AnyPath : c \o s \in D => n \o s \in MoveDeadIn(D, c, n)
  <1> DEFINE below == {dead \in D : HasPrefix(dead, c)}
             D2 == MoveDeadIn(D, c, n)
  <1>0. c \in AnyPath /\ n \in AnyPath /\ c # n
    BY PrefixSelf DEF Apart
  <1>1. D2 = (((D \ below) \cup {ReplacePrefix(dead, c, n) : dead \in below}) \cup {c}) \ {n}
    BY DEF MoveDeadIn
  <1>2. \A d \in D : d \in AnyPath
    BY DEF DeadPlaces
  <1>3. c \in D2
    BY <1>0, <1>1
  <1>4. \A d \in D : HasPrefix(d, c) \/ d = n \/ d \in D2
    BY <1>1
  <1>5. ASSUME NEW s \in AnyPath, c \o s \in D
        PROVE  n \o s \in D2 /\ s # Root
    <2>1. c \o s \in below
      BY <1>0, <1>5, Joined
    <2>2. ReplacePrefix(c \o s, c, n) = n \o s
      BY <1>0, Replaced
    <2>3. s # Root
      <3> SUFFICES ASSUME s = Root
                   PROVE  FALSE
        OBVIOUS
      <3>1. c \o Root = c
        BY <1>0, JoinedRoot DEF AnyPath
      <3> QED BY <1>5, <3>1 DEF DeadPlaces
    <2>4. n \o s # n
      <3> SUFFICES ASSUME n \o s = n
                   PROVE  FALSE
        OBVIOUS
      <3>1. n \o Root = n /\ Root \in AnyPath
        BY <1>0, JoinedRoot, PrefixSelf DEF AnyPath
      <3>2. n \o s = n \o Root
        BY <3>1, Zenon
      <3> QED BY <1>0, <2>3, <3>1, <3>2, JoinedInjective, Zenon
    <2>5. n \o s \in {ReplacePrefix(dead, c, n) : dead \in below}
      BY <2>1, <2>2
    <2> QED BY <1>1, <2>3, <2>4, <2>5
  <1>6. ASSUME NEW e \in D2
        PROVE  \/ e = c
               \/ e \in D /\ ~HasPrefix(e, c) /\ e # n
               \/ \E s \in AnyPath : e = n \o s /\ c \o s \in D
    <2>1. CASE e \in {ReplacePrefix(dead, c, n) : dead \in below}
      <3>1. PICK d \in below : e = ReplacePrefix(d, c, n)
        BY <2>1
      <3>2. PICK s \in AnyPath : d = c \o s
        BY <1>0, <1>2, <3>1, Rest
      <3>3. ReplacePrefix(c \o s, c, n) = n \o s
        BY <1>0, Replaced
      <3> QED BY <3>1, <3>2, <3>3
    <2> QED BY <1>1, <2>1
  <1> HIDE DEF D2
  <1>7. \A p \in O : p \in AnyPath /\ ~HasPrefix(p, n)
    BY <1>0 DEF Closed
  <1>8. ASSUME NEW p \in O, ~HasPrefix(p, c)
        PROVE  p \in moved
    BY <1>7, <1>8 DEF MovedPlaces
  <1>9. ASSUME NEW e \in D2
        PROVE  e \in AnyPath /\ e # Root /\ Front(e) \in moved /\ e \notin moved
    <2>1. CASE e = c
      <3>1. c # Root
        BY <1>0, PrefixSelf DEF Apart
      <3>2. HasPrefix(c, Front(c)) /\ Front(c) \in AnyPath /\ Len(Front(c)) = Len(c) - 1
            /\ Len(c) \in Nat
        BY <1>0, <3>1, Parents
      <3>3. Front(c) \in O
        BY <3>2 DEF Closed
      <3>4. ~HasPrefix(Front(c), c)
        BY <1>0, <3>2, PrefixNames
      <3>5. Front(c) \in moved
        BY <1>8, <3>3, <3>4
      <3>6. c \notin moved
        BY <1>0, PrefixSelf DEF MovedPlaces, Apart
      <3> QED BY <1>0, <2>1, <3>1, <3>5, <3>6
    <2>2. CASE e \in D /\ ~HasPrefix(e, c) /\ e # n
      <3>1. e \in AnyPath /\ e # Root /\ Front(e) \in O /\ e \notin O
        BY <2>2 DEF DeadPlaces
      <3>2. HasPrefix(e, Front(e)) /\ Front(e) \in AnyPath
            /\ (HasPrefix(e, n) => n = e \/ HasPrefix(Front(e), n))
        BY <1>0, <3>1, Parents
      <3>3. ~HasPrefix(e, n)
        BY <1>7, <2>2, <3>1, <3>2
      <3>4. ~HasPrefix(Front(e), c)
        BY <1>0, <2>2, <3>1, <3>2, PrefixTransitive
      <3>5. Front(e) \in moved
        BY <1>8, <3>1, <3>4
      <3>6. e \notin moved
        BY <3>1, <3>3 DEF MovedPlaces
      <3> QED BY <3>1, <3>5, <3>6
    <2>3. ASSUME NEW s \in AnyPath, e = n \o s, c \o s \in D
          PROVE  e \in AnyPath /\ e # Root /\ Front(e) \in moved /\ e \notin moved
      <3>1. e \in AnyPath /\ HasPrefix(e, n)
        BY <1>0, <2>3, Joined
      <3>2. e # Root
        <4>1. HasPrefix(n, Root) /\ Root \in AnyPath
          BY <1>0, PrefixSelf
        <4> QED BY <1>0, <3>1, <4>1, PrefixBoth
      <3>3. s # Root
        BY <1>5, <2>3
      <3>4. Front(c \o s) = c \o Front(s) /\ Front(n \o s) = n \o Front(s) /\ Front(s) \in AnyPath
        BY <1>0, <3>3, JoinedParent
      <3>5. Front(c \o s) \in O /\ c \o s \notin O
        BY <2>3 DEF DeadPlaces
      <3>6. n \o Front(s) \in moved
        BY <3>4, <3>5 DEF MovedPlaces
      <3>7. n \o s \notin moved
        BY <3>5 DEF MovedPlaces
      <3> QED BY <2>3, <3>1, <3>2, <3>4, <3>6, <3>7
    <2> QED BY <1>6, <2>1, <2>2, <2>3
  <1>10. DeadPlaces(D2, moved)
    BY <1>9 DEF DeadPlaces
  <1> QED BY <1>3, <1>4, <1>5, <1>10 DEF D2

-----------------------------------------------------------------------------
(* The virtual namespace and the layer.                                    *)

\* The nodes N and the dead places D say of every path what object of those of the
\* beginning, H, is there in the layer, where Or says it.
Agreed(H, N, D, Or) ==
    /\ NodeMap(N)
    /\ Closed(DOMAIN Or) /\ Root \in DOMAIN Or
    /\ DeadPlaces(D, DOMAIN Or)
    /\ \A q \in DOMAIN Or : Or[q] \in H /\ UneditIn(N, q) = Or[q]
    /\ \A q \in AnyPath : q \in DOMAIN Or \/ DeadIn(D, q) \/ UneditIn(N, q) \notin H

LEMMA AgreedDead ==
    ASSUME NEW H, NEW N, NEW D, NEW Or, Agreed(H, N, D, Or)
    PROVE  /\ \A q \in AnyPath : DeadIn(D, q) <=> \E d \in D : HasPrefix(q, d)
           /\ \A q \in DOMAIN Or : q \in AnyPath /\ ~DeadIn(D, q)
  <1>1. Antichain(D)
    BY DeadApart DEF Agreed
  <1>2. \A q \in AnyPath : DeadIn(D, q) <=> \E d \in D : HasPrefix(q, d)
    BY <1>1, DeadBelow
  <1>3. ASSUME NEW q \in DOMAIN Or, NEW d \in D
        PROVE  q \in AnyPath /\ ~HasPrefix(q, d)
    BY DEF Agreed, DeadPlaces, Closed
  <1>4. \A q \in DOMAIN Or : q \in AnyPath
    BY DEF Agreed, Closed
  <1> QED BY <1>2, <1>3, <1>4

\* Where an object of the beginning is said to be, it is.
LEMMA AgreedThere ==
    ASSUME NEW H, NEW N, NEW D, NEW Or, Agreed(H, N, D, Or), NEW q \in AnyPath,
           ~DeadIn(D, q), UneditIn(N, q) \in H
    PROVE  q \in DOMAIN Or
  BY DEF Agreed

\* More nodes change nothing.
LEMMA AgreedNodes ==
    ASSUME NEW H, NEW N, NEW D, NEW Or, Agreed(H, N, D, Or), NEW those, those \subseteq AnyPath
    PROVE  Agreed(H, WithNodesIn(N, those), D, Or)
  <1>1. NodeMap(WithNodesIn(N, those))
        /\ \A q \in AnyPath : UneditIn(WithNodesIn(N, those), q) = UneditIn(N, q)
    BY NodesMade DEF Agreed
  <1>2. DOMAIN Or \subseteq AnyPath
    BY DEF Agreed, Closed
  <1> QED BY <1>1, <1>2 DEF Agreed

\* An object is removed that no dead place is below.
LEMMA AgreedRemoval ==
    ASSUME NEW H, NEW N, NEW D, NEW Or, Agreed(H, N, D, Or), NEW c \in DOMAIN Or, c # Root,
           \A d \in D : ~HasPrefix(d, c)
    PROVE  Agreed(H, Cut(N, c), D \cup {c}, Cut(Or, c))
  <1> DEFINE E == D \cup {c}
             Left == Cut(Or, c)
             W == Cut(N, c)
  <1>0. c \in AnyPath
    BY DEF Agreed, Closed
  <1>1. DOMAIN Left = {q \in DOMAIN Or : ~HasPrefix(q, c)}
        /\ \A q \in DOMAIN Left : Left[q] = Or[q]
    BY DEF Namespace!Cut, Namespace!Below
  <1>2. Closed(DOMAIN Left) /\ DeadPlaces(E, DOMAIN Left)
    <2>1. LET left == {p \in DOMAIN Or : ~HasPrefix(p, c)} IN
          Closed(left) /\ DeadPlaces(D \cup {c}, left)
      BY DeadAfterRemoval, Zenon DEF Agreed
    <2> QED BY <1>1, <2>1
  <1>3. NodeMap(W) /\ \A q \in AnyPath : ~HasPrefix(q, c) => UneditIn(W, q) = UneditIn(N, q)
    BY <1>0, NodeCut DEF Agreed
  <1>4. Antichain(E)
    BY <1>2, DeadApart
  <1>5. \A q \in AnyPath : DeadIn(E, q) <=> \E d \in E : HasPrefix(q, d)
    BY <1>4, DeadBelow
  <1>6. \A q \in AnyPath : DeadIn(D, q) <=> \E d \in D : HasPrefix(q, d)
    BY AgreedDead
  <1> HIDE DEF Left, W
  <1>7. Root \in DOMAIN Left
    <2>1. HasPrefix(c, Root) /\ Root \in AnyPath
      BY <1>0, PrefixSelf
    <2>2. ~HasPrefix(Root, c)
      BY <1>0, <2>1, PrefixBoth
    <2> QED BY <1>1, <2>2 DEF Agreed
  <1>8. \A q \in DOMAIN Left : Left[q] \in H /\ UneditIn(W, q) = Left[q]
    BY <1>1, <1>3 DEF Agreed, Closed
  <1>9. ASSUME NEW q \in AnyPath, ~DeadIn(E, q), UneditIn(W, q) \in H
        PROVE  q \in DOMAIN Left
    <2>1. ~HasPrefix(q, c) /\ ~DeadIn(D, q)
      BY <1>5, <1>6, <1>9
    <2>2. UneditIn(N, q) \in H
      BY <1>3, <1>9, <2>1
    <2> QED BY <1>1, <2>1, <2>2 DEF Agreed
  <1> QED BY <1>2, <1>3, <1>7, <1>8, <1>9 DEF Agreed, Left, W

\* An object moves to a place where nothing is, below another one.
LEMMA AgreedMove ==
    ASSUME NEW H, NEW N, NEW D, NEW Or, Agreed(H, N, D, Or), NEW c \in DOMAIN Or, NEW n,
           Apart(c, n), n \notin DOMAIN Or, n # Root, Front(n) \in DOMAIN Or,
           c \in DOMAIN N, n \notin DOMAIN N, Front(n) \in DOMAIN N
    PROVE  Agreed(H, Graft(N, c, n), MoveDeadIn(D, c, n), Graft(Or, c, n))
  <1> DEFINE E == MoveDeadIn(D, c, n)
             Now == Graft(Or, c, n)
             W == Graft(N, c, n)
  <1>0. c \in AnyPath /\ n \in AnyPath
    BY DEF Apart
  <1>1. Closed(DOMAIN Now) /\ \A p \in DOMAIN Or : p \in AnyPath /\ ~HasPrefix(p, n)
    BY GraftedClosed DEF Agreed
  <1>2. /\ DOMAIN Now \subseteq AnyPath
        /\ \A s \in AnyPath : /\ n \o s \in DOMAIN Now <=> c \o s \in DOMAIN Or
                              /\ c \o s \in DOMAIN Or => Now[n \o s] = Or[c \o s]
        /\ \A q \in AnyPath : ~HasPrefix(q, n) =>
              /\ q \in DOMAIN Now <=> q \in DOMAIN Or /\ ~HasPrefix(q, c)
              /\ q \in DOMAIN Now => Now[q] = Or[q]
    BY <1>1, Grafted, Zenon
  <1>3. /\ NodeMap(W)
        /\ \A q \in AnyPath : ~HasPrefix(q, c) /\ ~HasPrefix(q, n) =>
              UneditIn(W, q) = UneditIn(N, q)
        /\ \A s \in AnyPath : UneditIn(W, n \o s) = UneditIn(N, c \o s)
    <2>1. NodeMap(N)
      BY DEF Agreed
    <2> QED BY <2>1, NodeMoved
  <1> HIDE DEF Now, W
  <1>4. MovedPlaces(DOMAIN Or, DOMAIN Now, c, n)
    BY <1>2 DEF MovedPlaces
  <1>5. /\ DeadPlaces(E, DOMAIN Now) /\ c \in E
        /\ \A d \in D : HasPrefix(d, c) \/ d = n \/ d \in E
        /\ \A s \in AnyPath : c \o s \in D => n \o s \in E
    BY <1>4, DeadAfterMove DEF Agreed
  <1> HIDE DEF E
  <1>6. \A q \in AnyPath : DeadIn(E, q) <=> \E d \in E : HasPrefix(q, d)
    BY <1>1, <1>5, DeadApart, DeadBelow
  <1>7. \A q \in AnyPath : DeadIn(D, q) <=> \E d \in D : HasPrefix(q, d)
    BY AgreedDead
  <1>8. Root \in DOMAIN Now
    <2>1. HasPrefix(c, Root) /\ HasPrefix(n, Root) /\ Root \in AnyPath
      BY <1>0, PrefixSelf
    <2>2. ~HasPrefix(Root, c) /\ ~HasPrefix(Root, n)
      BY <1>0, <2>1, PrefixBoth DEF Apart
    <2> QED BY <1>2, <2>1, <2>2 DEF Agreed
  <1>9. ASSUME NEW q \in DOMAIN Now
        PROVE  Now[q] \in H /\ UneditIn(W, q) = Now[q]
    <2>1. CASE HasPrefix(q, n)
      <3>1. PICK s \in AnyPath : q = n \o s
        BY <1>0, <1>2, <2>1, Rest
      <3>2. c \o s \in DOMAIN Or /\ Now[q] = Or[c \o s]
        BY <1>2, <3>1
      <3>3. UneditIn(W, n \o s) = UneditIn(N, c \o s)
        BY <1>3
      <3>4. Or[c \o s] \in H /\ UneditIn(N, c \o s) = Or[c \o s]
        BY <3>2 DEF Agreed
      <3> QED BY <3>1, <3>2, <3>3, <3>4
    <2>2. CASE ~HasPrefix(q, n)
      <3>1. q \in DOMAIN Or /\ ~HasPrefix(q, c) /\ Now[q] = Or[q] /\ q \in AnyPath
        BY <1>2, <2>2
      <3> QED BY <1>3, <2>2, <3>1 DEF Agreed
    <2> QED BY <2>1, <2>2
  <1>10. ASSUME NEW q \in AnyPath, ~DeadIn(E, q), UneditIn(W, q) \in H
         PROVE  q \in DOMAIN Now
    <2>1. CASE HasPrefix(q, n)
      <3>1. PICK s \in AnyPath : q = n \o s
        BY <1>0, <2>1, Rest
      <3>2. c \o s \in AnyPath /\ UneditIn(N, c \o s) \in H
        BY <1>0, <1>3, <1>10, <3>1, Joined
      <3>3. ~DeadIn(D, c \o s)
        <4> SUFFICES ASSUME NEW d \in D, HasPrefix(c \o s, d)
                     PROVE  FALSE
          BY <1>7, <3>2
        <4>1. d \in AnyPath /\ d \notin DOMAIN Or
          BY DEF Agreed, DeadPlaces
        <4>2. ~HasPrefix(c, d)
          BY <4>1 DEF Agreed, Closed
        <4>3. HasPrefix(d, c)
          BY <1>0, <3>2, <4>1, <4>2, Joined, PrefixCompare
        <4>4. PICK t \in AnyPath : d = c \o t
          BY <1>0, <4>1, <4>3, Rest
        <4>5. n \o t \in E
          BY <1>5, <4>4
        <4>6. HasPrefix(n \o s, n \o t)
          BY <1>0, <4>4, PrefixJoined
        <4> QED BY <1>6, <1>10, <3>1, <4>5, <4>6
      <3>4. c \o s \in DOMAIN Or
        BY <3>2, <3>3 DEF Agreed
      <3> QED BY <1>2, <3>1, <3>4
    <2>2. CASE ~HasPrefix(q, n)
      <3>1. ~HasPrefix(q, c)
        BY <1>5, <1>6, <1>10
      <3>2. UneditIn(N, q) \in H
        BY <1>3, <1>10, <2>2, <3>1
      <3>3. ~DeadIn(D, q)
        <4> SUFFICES ASSUME NEW d \in D, HasPrefix(q, d)
                     PROVE  FALSE
          BY <1>7
        <4>1. d \in AnyPath
          BY DEF Agreed, DeadPlaces
        <4>2. d # n /\ d \notin E
          BY <1>6, <1>10, <2>2
        <4>3. HasPrefix(d, c)
          BY <1>5, <4>2
        <4> QED BY <1>0, <3>1, <4>1, <4>3, PrefixTransitive
      <3>4. q \in DOMAIN Or
        BY <3>2, <3>3 DEF Agreed
      <3> QED BY <1>2, <2>2, <3>1, <3>4
    <2> QED BY <2>1, <2>2
  <1> QED BY <1>1, <1>3, <1>5, <1>8, <1>9, <1>10 DEF Agreed, E, Now, W

-----------------------------------------------------------------------------
(* The lists of children.                                                  *)

\* Two pieces of lists.
LEMMA Pieces ==
    ASSUME NEW a \in Seq(Nat), NEW b \in Seq(Nat)
    PROVE  /\ a \o b \in Seq(Nat) /\ Len(a \o b) = Len(a) + Len(b)
           /\ \A i \in 1 .. Len(a) + Len(b) :
                 (a \o b)[i] = IF i <= Len(a) THEN a[i] ELSE b[i - Len(a)]
  BY ConcatProperties

\* A name is taken out of a list.
LEMMA RemoveAtIs ==
    ASSUME NEW l \in Seq(Nat), NEW n \in 1 .. Len(l)
    PROVE  /\ RemoveAt(l, n) \in Seq(Nat)
           /\ Len(RemoveAt(l, n)) = Len(l) - 1
           /\ \A i \in 1 .. Len(l) - 1 : RemoveAt(l, n)[i] = IF i < n THEN l[i] ELSE l[i + 1]
  <1>1. SubSeq(l, 1, n - 1) \in Seq(Nat) /\ Len(SubSeq(l, 1, n - 1)) = n - 1
        /\ \A i \in 1 .. n - 1 : SubSeq(l, 1, n - 1)[i] = l[i]
    OBVIOUS
  <1>2. SubSeq(l, n + 1, Len(l)) \in Seq(Nat) /\ Len(SubSeq(l, n + 1, Len(l))) = Len(l) - n
        /\ \A i \in 1 .. Len(l) - n : SubSeq(l, n + 1, Len(l))[i] = l[i + n]
    OBVIOUS
  <1> DEFINE a == SubSeq(l, 1, n - 1)
             b == SubSeq(l, n + 1, Len(l))
  <1>3. a \in Seq(Nat) /\ b \in Seq(Nat) /\ Len(a) = n - 1 /\ Len(b) = Len(l) - n
        /\ (\A i \in 1 .. n - 1 : a[i] = l[i])
        /\ (\A i \in 1 .. Len(l) - n : b[i] = l[i + n])
    BY <1>1, <1>2
  <1> HIDE DEF a, b
  <1> DEFINE k == a \o b
  <1>6. /\ k \in Seq(Nat) /\ Len(k) = Len(a) + Len(b)
        /\ \A i \in 1 .. Len(a) + Len(b) : k[i] = IF i <= Len(a) THEN a[i] ELSE b[i - Len(a)]
    BY <1>3, Pieces
  <1> HIDE DEF k
  <1>4. k \in Seq(Nat) /\ Len(k) = Len(l) - 1
        /\ \A i \in 1 .. Len(l) - 1 : k[i] = IF i < n THEN a[i] ELSE b[i - (n - 1)]
    <2>1. Len(l) \in Nat /\ n \in Nat /\ n <= Len(l) /\ 1 <= n
      OBVIOUS
    <2>2. Len(a) + Len(b) = Len(l) - 1 /\ Len(a) = n - 1
      BY <1>3, <2>1
    <2>3. ASSUME NEW i \in 1 .. Len(l) - 1
          PROVE  k[i] = IF i < n THEN a[i] ELSE b[i - (n - 1)]
      <3>1. i <= n - 1 <=> i < n
        BY <2>1
      <3>2. k[i] = IF i <= n - 1 THEN a[i] ELSE b[i - (n - 1)]
        BY <1>6, <2>2
      <3> QED BY <3>1, <3>2
    <2> QED BY <1>6, <2>2, <2>3
  <1>5. \A i \in 1 .. Len(l) - 1 : k[i] = IF i < n THEN l[i] ELSE l[i + 1]
    <2> SUFFICES ASSUME NEW i \in 1 .. Len(l) - 1
                 PROVE  k[i] = IF i < n THEN l[i] ELSE l[i + 1]
      OBVIOUS
    <2>1. CASE i < n
      BY <1>3, <1>4, <2>1
    <2>2. CASE ~(i < n)
      <3>1. i - (n - 1) \in 1 .. Len(l) - n /\ (i - (n - 1)) + n = i + 1
        BY <2>2
      <3>2. b[i - (n - 1)] = l[(i - (n - 1)) + n]
        BY <1>3, <3>1
      <3> QED BY <1>4, <2>2, <3>1, <3>2
    <2> QED BY <2>1, <2>2
  <1> QED BY <1>4, <1>5 DEF k, a, b, Namespace!RemoveAt

\* A name is put into a list.
LEMMA InsertAtIs ==
    ASSUME NEW l \in Seq(Nat), NEW n \in 1 .. Len(l) + 1, NEW e \in Nat
    PROVE  /\ InsertAt(l, n, e) \in Seq(Nat)
           /\ Len(InsertAt(l, n, e)) = Len(l) + 1
           /\ \A i \in 1 .. Len(l) + 1 :
                 InsertAt(l, n, e)[i] = IF i < n THEN l[i] ELSE IF i = n THEN e ELSE l[i - 1]
  <1>1. SubSeq(l, 1, n - 1) \in Seq(Nat) /\ Len(SubSeq(l, 1, n - 1)) = n - 1
        /\ \A i \in 1 .. n - 1 : SubSeq(l, 1, n - 1)[i] = l[i]
    OBVIOUS
  <1>2. SubSeq(l, n, Len(l)) \in Seq(Nat) /\ Len(SubSeq(l, n, Len(l))) = Len(l) - n + 1
        /\ \A i \in 1 .. Len(l) - n + 1 : SubSeq(l, n, Len(l))[i] = l[i + n - 1]
    OBVIOUS
  <1> DEFINE a == SubSeq(l, 1, n - 1)
             b == SubSeq(l, n, Len(l))
             m == <<e>>
             ab == a \o m
  <1>3. a \in Seq(Nat) /\ b \in Seq(Nat) /\ Len(a) = n - 1 /\ Len(b) = Len(l) - n + 1
        /\ (\A i \in 1 .. n - 1 : a[i] = l[i])
        /\ (\A i \in 1 .. Len(l) - n + 1 : b[i] = l[i + n - 1])
    BY <1>1, <1>2
  <1>4. m \in Seq(Nat) /\ Len(m) = 1 /\ m[1] = e
    OBVIOUS
  <1> HIDE DEF a, b, m
  <1>5. Len(l) \in Nat /\ n \in Nat /\ n <= Len(l) + 1 /\ 1 <= n
    OBVIOUS
  <1>6. ab \in Seq(Nat) /\ Len(ab) = n /\ \A i \in 1 .. n : ab[i] = IF i < n THEN l[i] ELSE e
    <2>1. /\ ab \in Seq(Nat) /\ Len(ab) = Len(a) + Len(m)
          /\ \A i \in 1 .. Len(a) + Len(m) :
                ab[i] = IF i <= Len(a) THEN a[i] ELSE m[i - Len(a)]
      BY <1>3, <1>4, Pieces
    <2> HIDE DEF ab
    <2>2. Len(ab) = n
      BY <1>3, <1>4, <1>5, <2>1
    <2>3. ASSUME NEW i \in 1 .. n
          PROVE  ab[i] = IF i < n THEN l[i] ELSE e
      <3>1. CASE i < n
        <4>1. Len(a) = n - 1 /\ Len(m) = 1
          BY <1>3, <1>4
        <4>2. i \in 1 .. n - 1 /\ i <= Len(a) /\ i \in 1 .. Len(a) + Len(m)
          BY <1>5, <3>1, <4>1
        <4> QED BY <1>3, <2>1, <3>1, <4>2
      <3>2. CASE i = n
        <4>1. ~(i <= Len(a)) /\ i - Len(a) = 1 /\ i \in 1 .. Len(a) + Len(m)
          BY <1>3, <1>4, <1>5, <3>2
        <4> QED BY <1>4, <2>1, <3>2, <4>1
      <3> QED BY <1>5, <3>1, <3>2
    <2> QED BY <2>1, <2>2, <2>3
  <1> HIDE DEF ab
  <1> DEFINE k == ab \o b
  <1>10. /\ k \in Seq(Nat) /\ Len(k) = Len(ab) + Len(b)
         /\ \A i \in 1 .. Len(ab) + Len(b) :
               k[i] = IF i <= Len(ab) THEN ab[i] ELSE b[i - Len(ab)]
    BY <1>3, <1>6, Pieces
  <1> HIDE DEF k
  <1>7. k \in Seq(Nat) /\ Len(k) = Len(l) + 1
        /\ \A i \in 1 .. Len(l) + 1 : k[i] = IF i <= n THEN ab[i] ELSE b[i - n]
    BY <1>3, <1>5, <1>6, <1>10
  <1>8. ASSUME NEW i \in 1 .. Len(l) + 1
        PROVE  k[i] = IF i < n THEN l[i] ELSE IF i = n THEN e ELSE l[i - 1]
    <2>1. CASE i <= n
      BY <1>5, <1>6, <1>7, <2>1
    <2>2. CASE i > n
      <3>1. i - n \in 1 .. Len(l) - n + 1 /\ (i - n) + n - 1 = i - 1
        BY <1>5, <2>2
      <3>2. b[i - n] = l[(i - n) + n - 1]
        BY <1>3, <3>1
      <3>3. ~(i <= n) /\ ~(i < n) /\ i # n
        BY <1>5, <2>2
      <3>4. k[i] = b[i - n]
        BY <1>7, <3>3
      <3>5. k[i] = l[i - 1]
        BY <3>1, <3>2, <3>4
      <3> QED BY <3>3, <3>5
    <2> QED BY <1>5, <2>1, <2>2
  <1>9. InsertAt(l, n, e) = k
    BY DEF Namespace!InsertAt, k, ab, a, b, m
  <1> QED BY <1>7, <1>8, <1>9

\* A list of names in which none is twice.
NameList(l) == l \in Seq(Nat) /\ \A i, j \in 1 .. Len(l) : l[i] = l[j] => i = j

LEMMA NameListIs ==
    ASSUME NEW l \in Seq(Nat)
    PROVE  /\ NameList(l) <=> Namespace!IsInjective(l)
           /\ \A e : e \in ToSet(l) <=> \E i \in 1 .. Len(l) : l[i] = e
  <1>1. DOMAIN l = 1 .. Len(l)
    OBVIOUS
  <1> QED BY <1>1 DEF NameList, Namespace!IsInjective, Namespace!ToSet

\* The place of a name.
LEMMA PlaceOf ==
    ASSUME NEW l, NameList(l), NEW i \in 1 .. Len(l)
    PROVE  Namespace!SelectInSeq(l, LAMBDA x : x = l[i]) = i
  <1> DEFINE I == {j \in 1 .. Len(l) : l[j] = l[i]}
  <1>1. I = {i}
    BY DEF NameList
  <1>2. Namespace!Min(I) = i
    BY <1>1 DEF Namespace!Min
  <1> QED BY <1>1, <1>2 DEF Namespace!SelectInSeq

LEMMA FirstRemoved ==
    ASSUME NEW l, NameList(l), NEW e
    PROVE  /\ NameList(RemoveFirst(l, e))
           /\ ToSet(RemoveFirst(l, e)) = ToSet(l) \ {e}
           /\ Len(RemoveFirst(l, e)) = IF e \in ToSet(l) THEN Len(l) - 1 ELSE Len(l)
  <1>0. l \in Seq(Nat)
    BY DEF NameList
  <1>1. CASE ~ \E i \in 1 .. Len(l) : l[i] = e
    <2>1. RemoveFirst(l, e) = l
      BY <1>1 DEF Namespace!RemoveFirst
    <2>2. e \notin ToSet(l)
      BY <1>0, <1>1, NameListIs
    <2> QED BY <2>1, <2>2
  <1>2. ASSUME NEW n \in 1 .. Len(l), l[n] = e
        PROVE  /\ NameList(RemoveFirst(l, e))
               /\ ToSet(RemoveFirst(l, e)) = ToSet(l) \ {e}
               /\ Len(RemoveFirst(l, e)) = IF e \in ToSet(l) THEN Len(l) - 1 ELSE Len(l)
    <2> DEFINE k == RemoveAt(l, n)
    <2>1. RemoveFirst(l, e) = k
      <3>1. Namespace!SelectInSeq(l, LAMBDA w : w = l[n]) = n
        BY PlaceOf
      <3> QED BY <1>2, <3>1 DEF Namespace!RemoveFirst
    <2>2. k \in Seq(Nat) /\ Len(k) = Len(l) - 1 /\ Len(l) \in Nat
          /\ \A i \in 1 .. Len(l) - 1 : k[i] = IF i < n THEN l[i] ELSE l[i + 1]
      <3>1. Len(l) \in Nat
        BY <1>0
      <3> QED BY <1>0, <3>1, RemoveAtIs, Zenon
    <2> HIDE DEF k
    <2>3. NameList(k)
      <3> SUFFICES ASSUME NEW i \in 1 .. Len(k), NEW j \in 1 .. Len(k), k[i] = k[j]
                   PROVE  i = j
        BY <2>2 DEF NameList
      <3> DEFINE At(x) == IF x < n THEN x ELSE x + 1
      <3>1. \A x \in 1 .. Len(k) : At(x) \in 1 .. Len(l) /\ k[x] = l[At(x)]
        BY <2>2, SMTT(30)
      <3>2. At(i) = At(j)
        <4> HIDE DEF At
        <4> QED BY <3>1 DEF NameList
      <3> QED BY <2>2, <3>2
    <2>4. ASSUME NEW x
          PROVE  (\E i \in 1 .. Len(k) : k[i] = x) <=> x # e /\ \E i \in 1 .. Len(l) : l[i] = x
      <3>1. ASSUME NEW i \in 1 .. Len(k), k[i] = x
            PROVE  x # e /\ \E j \in 1 .. Len(l) : l[j] = x
        <4>1. CASE i < n
          BY <1>2, <2>2, <3>1, <4>1, SMTT(30) DEF NameList
        <4>2. CASE ~(i < n)
          <5>1. i + 1 \in 1 .. Len(l) /\ i + 1 # n /\ k[i] = l[i + 1]
            BY <2>2, <4>2
          <5> QED BY <1>2, <3>1, <5>1 DEF NameList
        <4> QED BY <4>1, <4>2
      <3>2. ASSUME NEW j \in 1 .. Len(l), l[j] = x, x # e
            PROVE  \E i \in 1 .. Len(k) : k[i] = x
        <4>1. CASE j < n
          <5>1. j \in 1 .. Len(k) /\ k[j] = l[j]
            BY <2>2, <4>1
          <5> QED BY <3>2, <5>1
        <4>2. CASE j > n
          <5>1. j - 1 \in 1 .. Len(k) /\ ~(j - 1 < n) /\ (j - 1) + 1 = j
            BY <2>2, <4>2
          <5>2. k[j - 1] = l[j]
            BY <2>2, <5>1
          <5> QED BY <3>2, <5>1, <5>2
        <4> QED BY <1>2, <3>2, <4>1, <4>2
      <3> QED BY <3>1, <3>2
    <2>5. ToSet(k) = ToSet(l) \ {e}
      BY <1>0, <2>2, <2>4, NameListIs
    <2>6. e \in ToSet(l)
      BY <1>0, <1>2, NameListIs
    <2> QED BY <2>1, <2>2, <2>3, <2>5, <2>6
  <1> QED BY <1>1, <1>2

LEMMA NameInserted ==
    ASSUME NEW l, NameList(l), NEW n \in 1 .. Len(l) + 1, NEW e \in Nat, e \notin ToSet(l)
    PROVE  NameList(InsertAt(l, n, e)) /\ ToSet(InsertAt(l, n, e)) = ToSet(l) \cup {e}
  <1>0. l \in Seq(Nat)
    BY DEF NameList
  <1> DEFINE k == InsertAt(l, n, e)
  <1>7. k \in Seq(Nat) /\ Len(k) = Len(l) + 1
        /\ \A i \in 1 .. Len(l) + 1 : k[i] = IF i < n THEN l[i] ELSE IF i = n THEN e ELSE l[i - 1]
    BY <1>0, InsertAtIs
  <1> HIDE DEF k
  <1>1. k \in Seq(Nat) /\ Len(k) = Len(l) + 1 /\ Len(l) \in Nat
        /\ \A i \in 1 .. Len(l) + 1 : k[i] = IF i < n THEN l[i] ELSE IF i = n THEN e ELSE l[i - 1]
    BY <1>0, <1>7
  <1>2. \A i \in 1 .. Len(l) : l[i] # e
    BY <1>0, NameListIs
  <1>3. ASSUME NEW i \in 1 .. Len(k), i # n
        PROVE  \E x \in 1 .. Len(l) : k[i] = l[x] /\ x = IF i < n THEN i ELSE i - 1
    BY <1>1, <1>3
  <1>4. NameList(k)
    <2> SUFFICES ASSUME NEW i \in 1 .. Len(k), NEW j \in 1 .. Len(k), k[i] = k[j]
                 PROVE  i = j
      BY <1>1 DEF NameList
    <2>1. CASE i = n \/ j = n
      <3>1. k[n] = e
        BY <1>1
      <3>2. ASSUME NEW x \in 1 .. Len(k), x # n
            PROVE  k[x] # e
        <4>1. PICK y \in 1 .. Len(l) : k[x] = l[y]
          BY <1>3, <3>2
        <4> QED BY <1>2, <4>1
      <3> QED BY <2>1, <3>1, <3>2
    <2>2. CASE i # n /\ j # n
      <3>1. PICK x \in 1 .. Len(l) : k[i] = l[x] /\ x = IF i < n THEN i ELSE i - 1
        BY <1>3, <2>2
      <3>2. PICK y \in 1 .. Len(l) : k[j] = l[y] /\ y = IF j < n THEN j ELSE j - 1
        BY <1>3, <2>2
      <3>3. x = y
        BY <3>1, <3>2 DEF NameList
      <3> QED BY <1>1, <2>2, <3>1, <3>2, <3>3
    <2> QED BY <2>1, <2>2
  <1>5. ASSUME NEW x
        PROVE  (\E i \in 1 .. Len(k) : k[i] = x) <=> x = e \/ \E i \in 1 .. Len(l) : l[i] = x
    <2>1. k[n] = e /\ n \in 1 .. Len(k)
      BY <1>1
    <2>2. ASSUME NEW j \in 1 .. Len(l)
          PROVE  \E i \in 1 .. Len(k) : k[i] = l[j]
      <3>1. CASE j < n
        <4>1. j \in 1 .. Len(k) /\ k[j] = l[j]
          BY <1>1, <3>1
        <4> QED BY <4>1
      <3>2. CASE ~(j < n)
        <4>1. j + 1 \in 1 .. Len(k) /\ ~(j + 1 < n) /\ j + 1 # n /\ (j + 1) - 1 = j
          BY <1>1, <3>2
        <4>2. k[j + 1] = l[j]
          BY <1>1, <4>1
        <4> QED BY <4>1, <4>2
      <3> QED BY <3>1, <3>2
    <2>3. ASSUME NEW i \in 1 .. Len(k), k[i] = x
          PROVE  x = e \/ \E j \in 1 .. Len(l) : l[j] = x
      <3>1. CASE i = n
        BY <2>1, <2>3, <3>1
      <3>2. CASE i # n
        <4>1. PICK y \in 1 .. Len(l) : k[i] = l[y]
          BY <1>3, <3>2
        <4> QED BY <2>3, <4>1
      <3> QED BY <3>1, <3>2
    <2> QED BY <2>1, <2>2, <2>3
  <1>6. ToSet(k) = ToSet(l) \cup {e}
    <2>1. \A x : x \in ToSet(k) <=> \E i \in 1 .. Len(k) : k[i] = x
      BY <1>1, NameListIs, Zenon
    <2>2. \A x : x \in ToSet(l) <=> \E i \in 1 .. Len(l) : l[i] = x
      BY <1>0, NameListIs, Zenon
    <2> QED BY <1>5, <2>1, <2>2, Zenon
  <1> QED BY <1>4, <1>6 DEF k

\* The children fields K list the prims among the objects at O.
ListedIn(K, O) ==
    /\ \A q \in O : q # Root => ~IsProperty(Front(q))
    /\ DOMAIN K = {q \in O : ~IsProperty(q)}
    /\ \A p \in DOMAIN K :
          /\ NameList(K[p])
          /\ \A n \in Nat : n \in ToSet(K[p]) <=> Append(p, n) \in DOMAIN K

\* Whether a place is of a property is known by the name at its end.
LEMMA PropertyJoined ==
    ASSUME NEW p \in AnyPath, NEW s \in AnyPath, s # Root
    PROVE  IsProperty(p \o s) <=> IsProperty(s)
  <1>1. Len(s) \in Nat \ {0} /\ Len(p) \in Nat
    BY Parents DEF AnyPath
  <1>2. Len(p \o s) = Len(p) + Len(s) /\ (p \o s)[Len(p) + Len(s)] = s[Len(s)]
    BY <1>1, Joined
  <1>3. p \o s # Root
    BY <1>1, <1>2 DEF Namespace!Root
  <1> QED BY <1>2, <1>3 DEF Namespace!IsProperty, Namespace!Last

\* Nothing is below a property.
LEMMA PropertyLeaf ==
    ASSUME NEW K, NEW O, Closed(O), ListedIn(K, O), NEW c \in O, IsProperty(c),
           NEW q \in O, HasPrefix(q, c)
    PROVE  q = c
  <1>1. c \in AnyPath /\ q \in AnyPath
    BY DEF Closed
  <1>2. PICK s \in AnyPath : q = c \o s
    BY <1>1, Rest
  <1>3. CASE s = Root
    <2>1. c \o Root = c
      BY <1>1, JoinedRoot DEF AnyPath
    <2> QED BY <1>2, <1>3, <2>1
  <1>4. CASE s # Root
    <2>1. Len(s) \in Nat \ {0}
      BY <1>4, Parents
    <2> DEFINE t == SubSeq(s, 1, 1)
    <2>2. t \in AnyPath /\ Len(t) = 1 /\ \A i \in 1 .. 1 : t[i] = s[i]
      BY <2>1, Beginning DEF AnyPath
    <2> HIDE DEF t
    <2>3. t # Root /\ HasPrefix(s, t)
      <3>1. t # Root
        <4>1. Len(t) = 1 /\ Len(Root) = 0
          BY <2>2 DEF Namespace!Root
        <4> QED BY <4>1
      <3>2. Len(t) <= Len(s) /\ \A i \in 1 .. Len(t) : s[i] = t[i]
        BY <2>1, <2>2
      <3> QED BY <2>2, <3>1, <3>2, PrefixNames, Zenon
    <2>4. PICK u \in AnyPath : s = t \o u
      BY <2>2, <2>3, Rest
    <2>5. HasPrefix(c \o s, c \o t) /\ c \o t \in AnyPath
      <3>1. (c \o t) \o u = c \o (t \o u)
        BY <1>1, <2>2, JoinedTwice, ZenonT(60)
      <3>2. c \o t \in AnyPath
        BY <1>1, <2>2, Joined, Zenon
      <3>3. HasPrefix((c \o t) \o u, c \o t)
        BY <3>2, Joined, Zenon
      <3> QED BY <2>4, <3>1, <3>2, <3>3, Zenon
    <2>6. c \o t \in O
      BY <1>2, <2>5 DEF Closed
    <2>7. c \o t # Root
      <3>1. Len(c \o t) = Len(c) + Len(t)
        BY <1>1, <2>2, Joined, Zenon
      <3>2. Len(c \o t) # 0 /\ Len(Root) = 0
        BY <1>1, <2>2, <3>1 DEF Namespace!Root, AnyPath
      <3> QED BY <3>2, Zenon
    <2>8. Front(c \o t) = c \o Front(t)
      BY <1>1, <2>2, <2>3, JoinedParent
    <2>9. Front(t) = Root
      <3>1. Front(t) \in AnyPath /\ Len(Front(t)) = 0
        BY <2>2, <2>3, Parents
      <3> QED BY <3>1, EmptySeq DEF Namespace!Root, AnyPath
    <2>10. c \o Root = c
      BY <1>1, JoinedRoot DEF AnyPath
    <2>11. Front(c \o t) = c
      BY <2>8, <2>9, <2>10
    <2> QED BY <2>6, <2>7, <2>11 DEF ListedIn
  <1> QED BY <1>3, <1>4

\* A property is removed.
LEMMA ListedPropertyRemoval ==
    ASSUME NEW K, NEW O, Closed(O), ListedIn(K, O), NEW c \in O, IsProperty(c)
    PROVE  ListedIn(K, {q \in O : ~HasPrefix(q, c)})
  <1>1. c \in AnyPath /\ HasPrefix(c, c)
    BY PrefixSelf DEF Closed
  <1>2. {q \in O : ~HasPrefix(q, c)} = O \ {c}
    BY <1>1, PropertyLeaf
  <1> QED BY <1>2 DEF ListedIn

\* A prim is removed.
LEMMA ListedRemoval ==
    ASSUME NEW K, NEW O, Closed(O), ListedIn(K, O), NEW c \in O, ~IsProperty(c), c # Root
    PROVE  ListedIn(Cut([K EXCEPT ![Front(c)] = RemoveFirst(@, Last(c))], c),
                    {q \in O : ~HasPrefix(q, c)})
  <1> DEFINE left == [K EXCEPT ![Front(c)] = RemoveFirst(@, Last(c))]
             after == Cut(left, c)
             O2 == {q \in O : ~HasPrefix(q, c)}
  <1>1. c \in AnyPath
    BY DEF Closed
  <1>2. /\ Front(c) \in AnyPath /\ Last(c) \in Nat /\ c = Append(Front(c), Last(c))
        /\ HasPrefix(c, Front(c))
        /\ \A p \in AnyPath : HasPrefix(c, p) => p = c \/ HasPrefix(Front(c), p)
    BY <1>1, Parents
  <1>3. DOMAIN left = DOMAIN K
    OBVIOUS
  <1>4. DOMAIN after = {q \in DOMAIN K : ~HasPrefix(q, c)}
        /\ \A q \in DOMAIN after : after[q] = left[q]
    BY <1>3 DEF Namespace!Cut, Namespace!Below
  <1>5. \A p \in DOMAIN K : left[p] = IF p = Front(c) THEN RemoveFirst(K[p], Last(c)) ELSE K[p]
    OBVIOUS
  <1> HIDE DEF left, after
  <1>6. DOMAIN K \subseteq AnyPath
    BY DEF ListedIn, Closed
  <1>7. ASSUME NEW p \in DOMAIN after
        PROVE  /\ NameList(after[p])
               /\ \A n \in Nat : n \in ToSet(after[p]) <=> Append(p, n) \in DOMAIN after
    <2>1. p \in DOMAIN K /\ p \in AnyPath /\ ~HasPrefix(p, c) /\ after[p] = left[p]
      BY <1>4, <1>6
    <2>2. NameList(K[p]) /\ \A n \in Nat : n \in ToSet(K[p]) <=> Append(p, n) \in DOMAIN K
      BY <2>1 DEF ListedIn
    <2>3. ASSUME NEW n \in Nat
          PROVE  HasPrefix(Append(p, n), c) <=> Append(p, n) = c
      <3>1. Append(p, n) \in AnyPath /\ Append(p, n) # Root /\ Front(Append(p, n)) = p
        BY <2>1, Child
      <3>2. HasPrefix(Append(p, n), c) => c = Append(p, n) \/ HasPrefix(p, c)
        BY <1>1, <3>1, Parents
      <3> QED BY <1>1, <2>1, <3>2, PrefixSelf
    <2>4. ASSUME NEW n \in Nat
          PROVE  Append(p, n) \in DOMAIN after <=> Append(p, n) \in DOMAIN K /\ Append(p, n) # c
      BY <1>4, <2>3
    <2>5. CASE p = Front(c)
      <3>1. after[p] = RemoveFirst(K[p], Last(c))
        BY <1>5, <2>1, <2>5
      <3>2. NameList(after[p]) /\ ToSet(after[p]) = ToSet(K[p]) \ {Last(c)}
        BY <2>2, <3>1, FirstRemoved
      <3>3. ASSUME NEW n \in Nat
            PROVE  Append(p, n) = c <=> n = Last(c)
        <4>1. Last(Append(p, n)) = n
          BY <2>1, Child
        <4> QED BY <1>2, <2>5, <4>1
      <3> QED BY <2>2, <2>4, <3>2, <3>3
    <2>6. CASE p # Front(c)
      <3>1. after[p] = K[p]
        BY <1>5, <2>1, <2>6
      <3>2. ASSUME NEW n \in Nat
            PROVE  Append(p, n) # c
        <4>1. Front(Append(p, n)) = p
          BY <2>1, Child
        <4> QED BY <2>6, <4>1
      <3> QED BY <2>2, <2>4, <3>1, <3>2
    <2> QED BY <2>5, <2>6
  <1>8. DOMAIN after = {q \in O2 : ~IsProperty(q)}
    BY <1>4 DEF ListedIn
  <1>9. \A q \in O2 : q # Root => ~IsProperty(Front(q))
    BY DEF ListedIn
  <1> QED BY <1>7, <1>8, <1>9 DEF ListedIn, after, left

LEMMA JoinedChild ==
    ASSUME NEW p \in AnyPath, NEW s \in AnyPath, NEW x \in Nat
    PROVE  Append(p \o s, x) = p \o Append(s, x) /\ Append(s, x) \in AnyPath
  <1>1. Append(s, x) = s \o <<x>> /\ Append(s, x) \in AnyPath /\ <<x>> \in AnyPath
    BY Child, Zenon
  <1>2. p \o s \in AnyPath
    BY Joined, Zenon
  <1>3. Append(p \o s, x) = (p \o s) \o <<x>>
    BY <1>2, Child, Zenon
  <1>4. (p \o s) \o <<x>> = p \o (s \o <<x>>)
    BY <1>1, JoinedTwice, ZenonT(60)
  <1> QED BY <1>1, <1>3, <1>4, Zenon

\* When a child of a path is below another path that the path itself is not below.
LEMMA ChildBelow ==
    ASSUME NEW p \in AnyPath, NEW x \in Nat, NEW c \in AnyPath, c # Root, ~HasPrefix(p, c)
    PROVE  /\ HasPrefix(Append(p, x), c) <=> Append(p, x) = c
           /\ Append(p, x) = c <=> p = Front(c) /\ x = Last(c)
  <1>1. Append(p, x) \in AnyPath /\ Append(p, x) # Root /\ Front(Append(p, x)) = p
        /\ Last(Append(p, x)) = x
    BY Child
  <1>2. HasPrefix(Append(p, x), c) => c = Append(p, x) \/ HasPrefix(p, c)
    BY <1>1, Parents
  <1>3. HasPrefix(c, c)
    BY PrefixSelf
  <1>4. c = Append(Front(c), Last(c))
    BY Parents
  <1> QED BY <1>1, <1>2, <1>3, <1>4

\* The lists after a name is taken out at the parent of c and one is put in at that of n.
Relisted(K, listed, c, n) ==
    /\ DOMAIN listed = DOMAIN K
    /\ \A p \in DOMAIN K :
          /\ NameList(listed[p])
          /\ \A x \in Nat : x \in ToSet(listed[p]) <=>
                \/ x \in ToSet(K[p]) /\ ~(p = Front(c) /\ x = Last(c))
                \/ p = Front(n) /\ x = Last(n)

\* A prim goes to another place of the list it is in.
LEMMA ListedReorder ==
    ASSUME NEW K, NEW O, Closed(O), ListedIn(K, O), NEW c \in O, ~IsProperty(c), c # Root,
           NEW listed, Relisted(K, listed, c, c)
    PROVE  ListedIn(listed, O)
  <1>1. c \in AnyPath /\ c \in DOMAIN K /\ DOMAIN K \subseteq O
    BY DEF Closed, ListedIn
  <1>2. c = Append(Front(c), Last(c)) /\ Last(c) \in Nat
    BY <1>1, Parents
  <1>3. ASSUME NEW p \in DOMAIN K, NEW x \in Nat
        PROVE  x \in ToSet(listed[p]) <=> Append(p, x) \in DOMAIN K
    <2>1. x \in ToSet(K[p]) <=> Append(p, x) \in DOMAIN K
      BY DEF ListedIn
    <2>2. CASE p = Front(c) /\ x = Last(c)
      BY <1>1, <1>2, <2>2 DEF Relisted
    <2>3. CASE ~(p = Front(c) /\ x = Last(c))
      BY <2>1, <2>3 DEF Relisted
    <2> QED BY <2>2, <2>3
  <1> QED BY <1>3 DEF ListedIn, Relisted

\* A prim moves to another place.
LEMMA ListedMove ==
    ASSUME NEW K, NEW O, Closed(O), ListedIn(K, O), NEW c, NEW n, Apart(c, n),
           c \in O, ~IsProperty(c), c # Root, n \notin O, ~IsProperty(n), n # Root,
           Front(n) \in DOMAIN K, NEW moved, MovedPlaces(O, moved, c, n),
           NEW listed, Relisted(K, listed, c, n)
    PROVE  ListedIn(Graft(listed, c, n), moved)
  <1> DEFINE after == Graft(listed, c, n)
  <1>0. c \in AnyPath /\ n \in AnyPath /\ c \in DOMAIN K
    BY DEF Apart, ListedIn
  <1>1. \A p \in DOMAIN K : p \in AnyPath /\ p \in O /\ ~HasPrefix(p, n)
    BY <1>0 DEF ListedIn, Closed
  <1>2. /\ DOMAIN after \subseteq AnyPath
        /\ \A s \in AnyPath : /\ n \o s \in DOMAIN after <=> c \o s \in DOMAIN K
                              /\ c \o s \in DOMAIN K => after[n \o s] = listed[c \o s]
        /\ \A q \in AnyPath : ~HasPrefix(q, n) =>
              /\ q \in DOMAIN after <=> q \in DOMAIN K /\ ~HasPrefix(q, c)
              /\ q \in DOMAIN after => after[q] = listed[q]
    <2>1. DOMAIN listed = DOMAIN K
      BY DEF Relisted
    <2>2. \A p \in DOMAIN listed : p \in AnyPath /\ ~HasPrefix(p, n)
      BY <1>1, <2>1
    <2>3. /\ DOMAIN after \subseteq AnyPath
          /\ \A s \in AnyPath : /\ n \o s \in DOMAIN after <=> c \o s \in DOMAIN listed
                                /\ c \o s \in DOMAIN listed => after[n \o s] = listed[c \o s]
          /\ \A q \in AnyPath : ~HasPrefix(q, n) =>
                /\ q \in DOMAIN after <=> q \in DOMAIN listed /\ ~HasPrefix(q, c)
                /\ q \in DOMAIN after => after[q] = listed[q]
      BY <2>2, Grafted
    <2> QED BY <2>1, <2>3, Zenon
  <1> HIDE DEF after
  <1>3. ASSUME NEW s \in AnyPath
        PROVE  IsProperty(n \o s) <=> IsProperty(c \o s)
    <2>1. CASE s = Root
      <3>1. n \o Root = n /\ c \o Root = c
        BY <1>0, JoinedRoot DEF AnyPath
      <3> QED BY <2>1, <3>1
    <2>2. CASE s # Root
      BY <1>0, <2>2, PropertyJoined
    <2> QED BY <2>1, <2>2
  <1>4. DOMAIN after = {q \in moved : ~IsProperty(q)}
    <2>1. ASSUME NEW q \in AnyPath
          PROVE  q \in DOMAIN after <=> q \in moved /\ ~IsProperty(q)
      <3>1. CASE HasPrefix(q, n)
        <4>1. PICK s \in AnyPath : q = n \o s
          BY <1>0, <3>1, Rest
        <4>2. n \o s \in DOMAIN after <=> c \o s \in DOMAIN K
          BY <1>2
        <4>3. n \o s \in moved <=> c \o s \in O
          BY DEF MovedPlaces
        <4>4. c \o s \in DOMAIN K <=> c \o s \in O /\ ~IsProperty(c \o s)
          BY DEF ListedIn
        <4>5. IsProperty(n \o s) <=> IsProperty(c \o s)
          BY <1>3
        <4> QED BY <4>1, <4>2, <4>3, <4>4, <4>5
      <3>2. CASE ~HasPrefix(q, n)
        <4>1. q \in DOMAIN after <=> q \in DOMAIN K /\ ~HasPrefix(q, c)
          BY <1>2, <3>2
        <4>2. q \in moved <=> q \in O /\ ~HasPrefix(q, c)
          BY <3>2 DEF MovedPlaces
        <4> QED BY <4>1, <4>2 DEF ListedIn
      <3> QED BY <3>1, <3>2
    <2> QED BY <1>2, <2>1 DEF MovedPlaces
  <1>5. ASSUME NEW q \in moved, q # Root
        PROVE  ~IsProperty(Front(q))
    <2>1. CASE HasPrefix(q, n)
      <3>1. PICK s \in AnyPath : q = n \o s
        BY <1>0, <2>1, Rest DEF MovedPlaces
      <3>2. CASE s = Root
        <4>1. n \o Root = n
          BY <1>0, JoinedRoot DEF AnyPath
        <4> QED BY <3>1, <3>2, <4>1 DEF ListedIn
      <3>3. CASE s # Root
        <4>1. Front(n \o s) = n \o Front(s) /\ Front(c \o s) = c \o Front(s)
              /\ Front(s) \in AnyPath
          BY <1>0, <3>3, JoinedParent
        <4>2. c \o s \in O
          BY <3>1 DEF MovedPlaces
        <4>3. c \o s # Root
          <5>1. HasPrefix(c \o s, c) /\ HasPrefix(c, Root) /\ Root \in AnyPath
            BY <1>0, Joined, PrefixSelf
          <5> QED BY <1>0, <5>1, PrefixBoth
        <4>4. ~IsProperty(Front(c \o s))
          BY <4>2, <4>3 DEF ListedIn
        <4>5. ~IsProperty(c \o Front(s))
          BY <4>1, <4>4
        <4>6. ~IsProperty(n \o Front(s))
          BY <1>3, <4>1, <4>5
        <4> QED BY <3>1, <4>1, <4>6
      <3> QED BY <3>2, <3>3
    <2>2. CASE ~HasPrefix(q, n)
      BY <1>5, <2>2 DEF MovedPlaces, ListedIn
    <2> QED BY <2>1, <2>2
  <1>6. ASSUME NEW p \in DOMAIN after
        PROVE  /\ NameList(after[p])
               /\ \A x \in Nat : x \in ToSet(after[p]) <=> Append(p, x) \in DOMAIN after
    <2>1. CASE HasPrefix(p, n)
      <3>1. PICK s \in AnyPath : p = n \o s
        BY <1>0, <1>2, <2>1, Rest
      <3>2. c \o s \in DOMAIN K /\ after[p] = listed[c \o s]
        BY <1>2, <3>1
      <3>3. HasPrefix(c \o s, c)
        BY <1>0, Joined
      <3>4. c \o s # Front(c)
        <4>1. Front(c) \in AnyPath /\ Len(Front(c)) = Len(c) - 1 /\ Len(c) \in Nat
          BY <1>0, Parents
        <4>2. ~HasPrefix(Front(c), c)
          BY <1>0, <4>1, PrefixNames
        <4> QED BY <3>3, <4>2
      <3>5. c \o s # Front(n)
        <4>1. Front(n) \in AnyPath /\ HasPrefix(n, Front(n))
          BY <1>0, Parents
        <4>2. ~HasPrefix(Front(n), c)
          BY <1>0, <4>1, PrefixTransitive DEF Apart
        <4> QED BY <3>3, <4>2
      <3>6. NameList(after[p]) /\ \A x \in Nat : x \in ToSet(after[p]) <=> x \in ToSet(K[c \o s])
        BY <3>2, <3>4, <3>5 DEF Relisted
      <3>7. ASSUME NEW x \in Nat
            PROVE  x \in ToSet(K[c \o s]) <=> Append(p, x) \in DOMAIN after
        <4>1. Append(n \o s, x) = n \o Append(s, x) /\ Append(c \o s, x) = c \o Append(s, x)
              /\ Append(s, x) \in AnyPath
          BY <1>0, JoinedChild
        <4>2. n \o Append(s, x) \in DOMAIN after <=> c \o Append(s, x) \in DOMAIN K
          BY <1>2, <4>1
        <4>3. x \in ToSet(K[c \o s]) <=> Append(c \o s, x) \in DOMAIN K
          BY <3>2 DEF ListedIn
        <4> QED BY <3>1, <4>1, <4>2, <4>3
      <3> QED BY <3>6, <3>7
    <2>2. CASE ~HasPrefix(p, n)
      <3>1. p \in DOMAIN K /\ p \in AnyPath /\ ~HasPrefix(p, c) /\ after[p] = listed[p]
        BY <1>2, <2>2
      <3>2. NameList(listed[p])
        BY <3>1 DEF Relisted
      <3>3. ASSUME NEW x \in Nat
            PROVE  x \in ToSet(listed[p]) <=> Append(p, x) \in DOMAIN after
        <4>1. /\ HasPrefix(Append(p, x), c) <=> Append(p, x) = c
              /\ Append(p, x) = c <=> p = Front(c) /\ x = Last(c)
          BY <1>0, <3>1, ChildBelow
        <4>2. /\ HasPrefix(Append(p, x), n) <=> Append(p, x) = n
              /\ Append(p, x) = n <=> p = Front(n) /\ x = Last(n)
          BY <1>0, <2>2, <3>1, ChildBelow
        <4>3. x \in ToSet(K[p]) <=> Append(p, x) \in DOMAIN K
          BY <3>1 DEF ListedIn
        <4>4. Append(p, x) \in AnyPath
          BY <3>1, Child
        <4>5. CASE Append(p, x) = n
          <5>1. n \in DOMAIN after
            <6>1. n \o Root = n /\ c \o Root = c /\ Root \in AnyPath
              BY <1>0, JoinedRoot, PrefixSelf DEF AnyPath
            <6> QED BY <1>0, <1>2, <6>1
          <5> QED BY <3>1, <4>2, <4>5, <5>1 DEF Relisted
        <4>6. CASE Append(p, x) # n
          <5>1. Append(p, x) \in DOMAIN after <=> Append(p, x) \in DOMAIN K /\ Append(p, x) # c
            BY <1>2, <4>1, <4>2, <4>4, <4>6
          <5>2. x \in ToSet(listed[p]) <=> x \in ToSet(K[p]) /\ ~(p = Front(c) /\ x = Last(c))
            BY <3>1, <4>2, <4>6 DEF Relisted
          <5> QED BY <4>1, <4>3, <5>1, <5>2
        <4> QED BY <4>5, <4>6
      <3> QED BY <3>1, <3>2, <3>3
    <2> QED BY <2>1, <2>2
  <1> QED BY <1>4, <1>5, <1>6 DEF ListedIn, after

\* A property moves to another place.
LEMMA ListedPropertyMove ==
    ASSUME NEW K, NEW O, Closed(O), ListedIn(K, O), NEW c, NEW n, Apart(c, n),
           c \in O, IsProperty(c), n \notin O, IsProperty(n), n # Root,
           Front(n) \in DOMAIN K, NEW moved, MovedPlaces(O, moved, c, n)
    PROVE  ListedIn(K, moved)
  <1>0. c \in AnyPath /\ n \in AnyPath
    BY DEF Apart
  <1>1. ASSUME NEW q \in moved, HasPrefix(q, n)
        PROVE  q = n
    <2>1. PICK s \in AnyPath : q = n \o s
      BY <1>0, <1>1, Rest DEF MovedPlaces
    <2>2. c \o s \in O /\ HasPrefix(c \o s, c)
      BY <1>0, <2>1, Joined DEF MovedPlaces
    <2>3. c \o s = c
      BY <2>2, PropertyLeaf
    <2>4. s = Root
      <3>1. c \o s = c \o Root /\ Root \in AnyPath
        BY <1>0, <2>3, JoinedRoot, PrefixSelf DEF AnyPath
      <3> QED BY <1>0, <3>1, JoinedInjective
    <2> QED BY <1>0, <2>1, <2>4, JoinedRoot DEF AnyPath
  <1>2. \A q \in moved : q = n \/ q \in O
    BY <1>1 DEF MovedPlaces
  <1>3. ASSUME NEW q \in O, ~IsProperty(q)
        PROVE  q \in moved
    <2>1. q \in AnyPath /\ ~HasPrefix(q, n)
      BY <1>0 DEF Closed
    <2>2. ~HasPrefix(q, c)
      BY <1>3, PropertyLeaf
    <2> QED BY <2>1, <2>2 DEF MovedPlaces
  <1>4. {q \in moved : ~IsProperty(q)} = {q \in O : ~IsProperty(q)}
    BY <1>2, <1>3
  <1>5. ~IsProperty(Front(n))
    BY DEF ListedIn
  <1> QED BY <1>2, <1>4, <1>5 DEF ListedIn

\* The place a name is put in is one of the list.
LEMMA IndexInList ==
    ASSUME NEW names \in Seq(Nat), NEW place \in 0 .. Len(names), NEW index \in Int
    PROVE  InsertionIndex(names, place, index) \in
               0 .. (IF place = 0 THEN Len(names) ELSE Len(names) - 1)
  <1>1. Len(names) \in Nat
    OBVIOUS
  <1> QED BY <1>1 DEF Namespace!InsertionIndex

\* The lists of DoMove.
Listed(K, c, n, index) ==
    LET names == K[Front(n)]
        place == IF Front(c) = Front(n)
                 THEN Namespace!SelectInSeq(names, LAMBDA x : x = Last(c)) ELSE 0
        left == [K EXCEPT ![Front(c)] = RemoveFirst(@, Last(c))]
    IN  [left EXCEPT ![Front(n)] =
            InsertAt(@, InsertionIndex(names, place, index) + 1, Last(n))]

LEMMA MoveRelists ==
    ASSUME NEW K, NEW O, Closed(O), ListedIn(K, O), NEW c \in DOMAIN K, c # Root,
           NEW n \in AnyPath, n # Root, Front(n) \in DOMAIN K, n = c \/ n \notin DOMAIN K,
           NEW index \in Int
    PROVE  Relisted(K, Listed(K, c, n, index), c, n)
  <1> DEFINE names == K[Front(n)]
             place == IF Front(c) = Front(n)
                      THEN Namespace!SelectInSeq(names, LAMBDA x : x = Last(c)) ELSE 0
             left == [K EXCEPT ![Front(c)] = RemoveFirst(@, Last(c))]
             at == InsertionIndex(names, place, index) + 1
             listed == [left EXCEPT ![Front(n)] = InsertAt(@, at, Last(n))]
  <1>1. /\ c \in AnyPath /\ c \in O /\ Front(c) \in AnyPath /\ Last(c) \in Nat
        /\ c = Append(Front(c), Last(c)) /\ n = Append(Front(n), Last(n)) /\ Last(n) \in Nat
        /\ HasPrefix(c, Front(c))
    BY Parents DEF Closed, ListedIn
  <1>2. Front(c) \in DOMAIN K
    BY <1>1 DEF Closed, ListedIn
  <1>3. \A p \in DOMAIN K :
           /\ NameList(K[p])
           /\ \A x \in Nat : x \in ToSet(K[p]) <=> Append(p, x) \in DOMAIN K
    BY DEF ListedIn
  <1>4. Last(c) \in ToSet(K[Front(c)])
    BY <1>1, <1>2, <1>3
  <1>5. /\ DOMAIN left = DOMAIN K
        /\ \A p \in DOMAIN K : left[p] = IF p = Front(c) THEN RemoveFirst(K[p], Last(c)) ELSE K[p]
    OBVIOUS
  <1> HIDE DEF left
  <1>6. ASSUME NEW p \in DOMAIN K
        PROVE  /\ NameList(left[p])
               /\ ToSet(left[p]) = IF p = Front(c) THEN ToSet(K[p]) \ {Last(c)} ELSE ToSet(K[p])
               /\ Len(left[p]) = IF p = Front(c) THEN Len(K[p]) - 1 ELSE Len(K[p])
    <2>1. NameList(K[p])
      BY <1>3
    <2> QED BY <1>4, <1>5, <2>1, FirstRemoved
  <1>7. names \in Seq(Nat) /\ NameList(names)
    BY <1>3 DEF NameList
  <1>8. place \in 0 .. Len(names) /\ (place = 0 <=> Front(c) # Front(n))
    <2>1. CASE Front(c) = Front(n)
      <3>1. PICK i \in 1 .. Len(names) : names[i] = Last(c)
        BY <1>4, <1>7, <2>1, NameListIs
      <3>2. Namespace!SelectInSeq(names, LAMBDA x : x = names[i]) = i
        BY <1>7, PlaceOf
      <3>3. place = i
        BY <2>1, <3>1, <3>2
      <3> QED BY <2>1, <3>3
    <2>2. CASE Front(c) # Front(n)
      BY <1>7, <2>2
    <2> QED BY <2>1, <2>2
  <1> HIDE DEF place
  <1>9. at \in 1 .. Len(left[Front(n)]) + 1
    <2>1. InsertionIndex(names, place, index) \in
               0 .. (IF place = 0 THEN Len(names) ELSE Len(names) - 1)
      BY <1>7, <1>8, IndexInList
    <2>2. Len(left[Front(n)]) = IF place = 0 THEN Len(names) ELSE Len(names) - 1
      BY <1>6, <1>8
    <2>3. Len(names) \in Nat
      BY <1>7
    <2> QED BY <2>1, <2>2, <2>3
  <1> HIDE DEF at
  <1>10. Last(n) \notin ToSet(left[Front(n)])
    <2>1. CASE n = c
      BY <1>6, <2>1
    <2>2. CASE n \notin DOMAIN K
      BY <1>1, <1>3, <1>6, <2>2
    <2> QED BY <2>1, <2>2
  <1>11. /\ NameList(InsertAt(left[Front(n)], at, Last(n)))
         /\ ToSet(InsertAt(left[Front(n)], at, Last(n))) = ToSet(left[Front(n)]) \cup {Last(n)}
    <2>1. NameList(left[Front(n)]) /\ Last(n) \in Nat
      BY <1>1, <1>6
    <2> QED BY <1>9, <1>10, <2>1, NameInserted, ZenonT(60)
  <1>12. /\ DOMAIN listed = DOMAIN K
         /\ \A p \in DOMAIN K : listed[p] = IF p = Front(n) THEN InsertAt(left[p], at, Last(n))
                                           ELSE left[p]
    BY <1>5
  <1>13. listed = Listed(K, c, n, index)
    BY DEF Listed, left, at, place
  <1> HIDE DEF listed
  <1>14. Relisted(K, listed, c, n)
    BY <1>6, <1>11, <1>12 DEF Relisted
  <1> QED BY <1>13, <1>14

-----------------------------------------------------------------------------
(* The invariant of a batch.                                               *)

\* A map whose subtree stays where it is.
LEMMA GraftSame ==
    ASSUME NEW f, DOMAIN f \subseteq AnyPath, NEW c \in AnyPath
    PROVE  /\ DOMAIN Graft(f, c, c) = DOMAIN f
           /\ \A q \in DOMAIN f : Graft(f, c, c)[q] = f[q]
  <1>1. \A p \in Below(f, c) : p \in DOMAIN f /\ ReplacePrefix(p, c, c) = p
    <2> SUFFICES ASSUME NEW p \in DOMAIN f, HasPrefix(p, c)
                 PROVE  ReplacePrefix(p, c, c) = p
      BY DEF Namespace!Below
    <2>1. p \in AnyPath
      OBVIOUS
    <2>2. PICK s \in AnyPath : p = c \o s
      BY <2>1, Rest
    <2> QED BY <2>2, Replaced
  <1>2. {ReplacePrefix(p, c, c) : p \in Below(f, c)} = Below(f, c)
    BY <1>1
  <1> QED BY <1>1, <1>2 DEF Namespace!Graft

Objects == DOMAIN before \cup properties

BatchInv ==
    /\ Objects \subseteq AnyPath
    /\ Agreed(Objects, nodes, deadspace, origin)
    /\ ListedIn(children, DOMAIN origin)

\* What is edited is not the root, and is below a prim.
LEMMA EditPaths ==
    ASSUME NEW p \in Namespace!EditPath
    PROVE  p \in AnyPath /\ p # Root /\ ~IsProperty(Front(p))
  <1>1. ASSUME NEW q \in Namespace!PrimPath
        PROVE  /\ q \in AnyPath /\ q # Root /\ Len(q) \in Nat \ {0}
               /\ \A i \in 1 .. Len(q) : q[i] \in Nat \ {0}
    <2>1. PICK n \in 1 .. MaxDepth : q \in [1 .. n -> PrimName]
      BY DEF Namespace!PrimPath
    <2>2. n \in Nat \ {0}
      BY <2>1, BatchConstants
    <2>3. q \in [1 .. n -> Nat]
      BY <2>1, BatchConstants
    <2>4. q \in Seq(Nat) /\ Len(q) = n
      BY <2>2, <2>3
    <2>5. \A i \in 1 .. n : q[i] \in Nat \ {0}
      BY <2>1, BatchConstants
    <2>6. Len(Root) = 0
      BY DEF Namespace!Root
    <2> QED BY <2>2, <2>4, <2>5, <2>6 DEF AnyPath
  <1>2. \A q \in Namespace!PrimPath : ~IsProperty(q)
    BY <1>1 DEF Namespace!IsProperty, Namespace!Last, Namespace!Property
  <1>3. CASE p \in Namespace!PrimPath
    <2>1. p \in AnyPath /\ p # Root /\ Len(p) \in Nat \ {0}
          /\ \A i \in 1 .. Len(p) : p[i] \in Nat \ {0}
      BY <1>1, <1>3
    <2>2. Front(p) \in AnyPath /\ Len(Front(p)) = Len(p) - 1 /\ HasPrefix(p, Front(p))
      BY <2>1, Parents
    <2>3. \A i \in 1 .. Len(Front(p)) : Front(p)[i] = p[i]
      BY <2>1, <2>2, PrefixNames
    <2>4. CASE Front(p) = Root
      BY <2>1, <2>4 DEF Namespace!IsProperty
    <2>5. CASE Front(p) # Root
      <3>1. Len(Front(p)) \in Nat \ {0}
        BY <2>2, <2>5, Parents
      <3>2. Front(p)[Len(Front(p))] \in Nat \ {0}
        BY <2>1, <2>2, <2>3, <3>1
      <3> QED BY <2>1, <3>2 DEF Namespace!IsProperty, Namespace!Last, Namespace!Property
    <2> QED BY <2>1, <2>4, <2>5
  <1>4. CASE p \in Namespace!PropertyPath
    <2>1. PICK q \in Namespace!PrimPath : p = Append(q, 0)
      BY <1>4 DEF Namespace!PropertyPath, Namespace!Property
    <2>2. q \in AnyPath /\ ~IsProperty(q)
      BY <1>1, <1>2
    <2>3. p \in AnyPath /\ p # Root /\ Front(p) = q
      BY <2>1, <2>2, Child
    <2> QED BY <2>2, <2>3
  <1> QED BY <1>3, <1>4 DEF Namespace!EditPath

\* The namespace that Process keeps, with the names of the lemmas.
LEMMA StateIs ==
    /\ \A p : Namespace!Unedit(p) = UneditIn(nodes, p)
    /\ \A p : Namespace!IsDeadspace(p) <=> DeadIn(deadspace, p)
    /\ \A A : Namespace!WithNodes(A) = WithNodesIn(nodes, A)
    /\ \A p, q : Namespace!MoveDead(p, q) = MoveDeadIn(deadspace, p, q)
  <1>1. \A p : Namespace!Unedit(p) = UneditIn(nodes, p)
    BY DEF Namespace!Unedit, UneditIn
  <1>2. \A p : Namespace!IsDeadspace(p) <=> DeadIn(deadspace, p)
    BY DEF Namespace!IsDeadspace, DeadIn
  <1>3. \A A : Namespace!WithNodes(A) = WithNodesIn(nodes, A)
    BY <1>1 DEF Namespace!WithNodes, WithNodesIn
  <1>4. \A p, q : Namespace!MoveDead(p, q) = MoveDeadIn(deadspace, p, q)
    BY DEF Namespace!MoveDead, MoveDeadIn
  <1> QED BY <1>1, <1>2, <1>3, <1>4

\* The empty path is no place.
LEMMA NoPlace == Namespace!Removed \notin AnyPath
  <1>1. Len(Namespace!Removed) = 1 /\ Namespace!Removed[1] = -1
    BY DEF Namespace!Removed
  <1>2. -1 \notin Nat
    OBVIOUS
  <1>3. ASSUME NEW q \in AnyPath, Len(q) = 1
        PROVE  q[1] \in Nat
    <2>1. 1 \in 1 .. Len(q)
      BY <1>3
    <2> QED BY <2>1 DEF AnyPath
  <1> QED BY <1>1, <1>2, <1>3

\* What Process finds is there, and what it finds free is free.
LEMMA FoundThere ==
    ASSUME BatchInv, NEW p \in AnyPath, ~Namespace!IsDeadspace(p),
           Namespace!HasObject(Namespace!Unedit(p))
    PROVE  p \in DOMAIN origin
  BY StateIs, AgreedThere DEF BatchInv, Namespace!HasObject, Objects

LEMMA FoundFree ==
    ASSUME BatchInv, NEW p \in AnyPath,
           \/ Namespace!OriginalPath(p) = Namespace!Removed
           \/ ~Namespace!HasObject(Namespace!OriginalPath(p))
    PROVE  p \notin DOMAIN origin
  <1>1. CASE Namespace!IsDeadspace(p)
    BY <1>1, StateIs, AgreedDead DEF BatchInv
  <1>2. CASE ~Namespace!IsDeadspace(p)
    <2>1. Namespace!OriginalPath(p) = UneditIn(nodes, p)
      BY <1>2, StateIs DEF Namespace!OriginalPath
    <2>2. UneditIn(nodes, p) \in AnyPath
      BY UneditIs DEF BatchInv, Agreed
    <2>3. Namespace!Removed \notin AnyPath
      BY NoPlace
    <2>4. ~Namespace!HasObject(UneditIn(nodes, p))
      BY <2>1, <2>2, <2>3
    <2> QED BY <2>4 DEF BatchInv, Agreed, Namespace!HasObject, Objects
  <1> QED BY <1>1, <1>2

\* Two batches whose layers have the same objects at the same paths.
LEMMA AgreedSame ==
    ASSUME NEW H, NEW N, NEW D, NEW Or, Agreed(H, N, D, Or),
           NEW same, DOMAIN same = DOMAIN Or, \A q \in DOMAIN Or : same[q] = Or[q]
    PROVE  Agreed(H, N, D, same)
  BY DEF Agreed

\* An object that Process removes is removed.
LEMMA RemoveKeeps ==
    ASSUME BatchInv, NEW current \in Namespace!EditPath, Namespace!RemoveObject(current)
    PROVE  BatchInv'
  <1>1. current \in AnyPath /\ current # Root
    BY EditPaths
  <1>2. /\ ~Namespace!IsDeadspace(current) /\ Namespace!HasObject(Namespace!Unedit(current))
        /\ \A d \in deadspace : ~HasPrefix(d, current)
        /\ nodes' = Cut(WithNodesIn(nodes, {current}), current)
        /\ deadspace' = deadspace \cup {current}
        /\ before' = before /\ properties' = properties
    BY StateIs DEF Namespace!RemoveObject, Namespace!MayRemove
  <1>3. current \in DOMAIN origin
    BY <1>1, <1>2, FoundThere
  <1>4. Namespace!Doable(current, Namespace!Removed)
    BY <1>3 DEF Namespace!Doable
  <1>5. /\ origin' = Cut(origin, current)
        /\ children' = IF IsProperty(current) THEN children
                       ELSE Cut([children EXCEPT ![Front(current)] =
                                    RemoveFirst(@, Last(current))], current)
    BY <1>4 DEF Namespace!RemoveObject, Namespace!DoRemove
  <1>6. Agreed(Objects, WithNodesIn(nodes, {current}), deadspace, origin)
    BY <1>1, AgreedNodes DEF BatchInv
  <1>7. Agreed(Objects, nodes', deadspace', origin')
    BY <1>1, <1>2, <1>3, <1>5, <1>6, AgreedRemoval
  <1>8. DOMAIN origin' = {q \in DOMAIN origin : ~HasPrefix(q, current)}
    BY <1>5 DEF Namespace!Cut, Namespace!Below
  <1>9. Closed(DOMAIN origin) /\ ListedIn(children, DOMAIN origin)
    BY DEF BatchInv, Agreed
  <1>10. ListedIn(children', DOMAIN origin')
    <2>1. CASE IsProperty(current)
      BY <1>3, <1>5, <1>8, <1>9, <2>1, ListedPropertyRemoval
    <2>2. CASE ~IsProperty(current)
      BY <1>1, <1>3, <1>5, <1>8, <1>9, <2>2, ListedRemoval
    <2> QED BY <2>1, <2>2
  <1>11. Objects' = Objects
    BY <1>2 DEF Objects
  <1> QED BY <1>7, <1>10, <1>11 DEF BatchInv

\* An object that Process moves is where Process has it, and at the place of its parent's list.
LEMMA MoveKeeps ==
    ASSUME BatchInv, NEW current \in Namespace!EditPath, NEW new \in Namespace!EditPath,
           NEW index \in EditIndex, Namespace!MoveObject(current, new, index)
    PROVE  BatchInv'
  <1>1. /\ current \in AnyPath /\ current # Root
        /\ new \in AnyPath /\ new # Root /\ ~IsProperty(Front(new))
        /\ index \in Int
    BY EditPaths, BatchConstants
  <1>2. Front(new) \in AnyPath /\ Len(Front(new)) = Len(new) - 1 /\ Len(new) \in Nat
        /\ HasPrefix(new, Front(new))
    BY <1>1, Parents
  <1>3. /\ ~Namespace!IsDeadspace(current) /\ Namespace!HasObject(Namespace!Unedit(current))
        /\ ~Namespace!IsDeadspace(Front(new)) /\ Namespace!HasObject(Namespace!Unedit(Front(new)))
        /\ IsProperty(current) = IsProperty(new)
        /\ new # current =>
              /\ ~HasPrefix(current, new) /\ ~HasPrefix(new, current)
              /\ \/ Namespace!OriginalPath(new) = Namespace!Removed
                 \/ ~Namespace!HasObject(Namespace!OriginalPath(new))
              /\ new \notin DOMAIN nodes
    BY DEF Namespace!MoveObject, Namespace!MayMove
  <1>4. current \in DOMAIN origin /\ Front(new) \in DOMAIN origin
    BY <1>1, <1>2, <1>3, FoundThere
  <1>5. new # current => new \notin DOMAIN origin
    BY <1>1, <1>3, FoundFree
  <1>6. /\ Objects \subseteq AnyPath /\ Closed(DOMAIN origin)
        /\ ListedIn(children, DOMAIN origin) /\ NodeMap(nodes)
        /\ Agreed(Objects, nodes, deadspace, origin)
    BY DEF BatchInv, Agreed
  <1>7. Front(new) \in DOMAIN children
    BY <1>1, <1>4, <1>6 DEF ListedIn
  <1>8. Namespace!Doable(current, new)
    BY <1>4, <1>5, <1>7 DEF Namespace!Doable
  <1>9. /\ origin' = Graft(origin, current, new)
        /\ children' = IF IsProperty(current) THEN children
                       ELSE IF current = new THEN Listed(children, current, new, index)
                       ELSE Graft(Listed(children, current, new, index), current, new)
        /\ before' = before /\ properties' = properties
    BY <1>8 DEF Namespace!MoveObject, Namespace!DoMove, Listed
  <1>10. Objects' = Objects
    BY <1>9 DEF Objects
  <1>11. ~IsProperty(current) =>
             Relisted(children, Listed(children, current, new, index), current, new)
    <2> SUFFICES ASSUME ~IsProperty(current)
                 PROVE  Relisted(children, Listed(children, current, new, index), current, new)
      OBVIOUS
    <2>1. current \in DOMAIN children
      BY <1>4, <1>6 DEF ListedIn
    <2>2. new = current \/ new \notin DOMAIN children
      BY <1>5, <1>6 DEF ListedIn
    <2> QED BY <1>1, <1>6, <1>7, <2>1, <2>2, MoveRelists
  <1>12. CASE new = current
    <2>1. nodes' = WithNodesIn(nodes, {current}) /\ deadspace' = deadspace
      BY <1>12, StateIs DEF Namespace!MoveObject
    <2>2. Agreed(Objects, nodes', deadspace', origin)
      BY <1>1, <1>6, <2>1, AgreedNodes
    <2>3. DOMAIN origin' = DOMAIN origin /\ \A q \in DOMAIN origin : origin'[q] = origin[q]
      BY <1>1, <1>6, <1>9, <1>12, GraftSame DEF Closed
    <2>4. Agreed(Objects, nodes', deadspace', origin')
      BY <2>2, <2>3, AgreedSame
    <2>5. ListedIn(children', DOMAIN origin)
      <3>1. CASE IsProperty(current)
        BY <1>6, <1>9, <3>1
      <3>2. CASE ~IsProperty(current)
        BY <1>1, <1>4, <1>6, <1>9, <1>11, <1>12, <3>2, ListedReorder
      <3> QED BY <3>1, <3>2
    <2> QED BY <1>6, <1>10, <2>3, <2>4, <2>5 DEF BatchInv
  <1>13. CASE new # current
    <2> DEFINE W == WithNodesIn(nodes, {current, Front(new)})
    <2>1. nodes' = Graft(W, current, new) /\ deadspace' = MoveDeadIn(deadspace, current, new)
      BY <1>13, StateIs DEF Namespace!MoveObject
    <2>2. Apart(current, new)
      BY <1>1, <1>3, <1>13 DEF Apart
    <2>3. {current, Front(new)} \subseteq AnyPath
      BY <1>1, <1>2
    <2>4. /\ Agreed(Objects, W, deadspace, origin)
          /\ \A q \in AnyPath : q \in DOMAIN W <=>
                 q \in DOMAIN nodes \/ HasPrefix(current, q) \/ HasPrefix(Front(new), q)
      <3>1. \A q \in AnyPath : q \in DOMAIN W <=>
                 q \in DOMAIN nodes \/ \E path \in {current, Front(new)} : HasPrefix(path, q)
        BY <1>6, <2>3, NodesMade
      <3> QED BY <1>6, <2>3, <3>1, AgreedNodes
    <2>5. ~HasPrefix(Front(new), new)
      BY <1>1, <1>2, PrefixNames
    <2>6. current \in DOMAIN W /\ Front(new) \in DOMAIN W /\ new \notin DOMAIN W
      BY <1>1, <1>2, <1>3, <1>13, <2>4, <2>5, PrefixSelf
    <2> HIDE DEF W
    <2>7. Agreed(Objects, nodes', deadspace', origin')
      BY <1>1, <1>4, <1>5, <1>9, <1>13, <2>1, <2>2, <2>4, <2>6, AgreedMove
    <2>8. MovedPlaces(DOMAIN origin, DOMAIN origin', current, new)
      <3>1. \A q \in DOMAIN origin : q \in AnyPath /\ ~HasPrefix(q, new)
        BY <1>1, <1>5, <1>6, <1>13 DEF Closed
      <3> QED BY <1>9, <2>2, <3>1, Grafted DEF MovedPlaces
    <2>9. ListedIn(children', DOMAIN origin')
      <3>1. CASE IsProperty(current)
        BY <1>1, <1>3, <1>4, <1>5, <1>6, <1>7, <1>9, <1>13, <2>2, <2>8, <3>1, ListedPropertyMove
      <3>2. CASE ~IsProperty(current)
        BY <1>1, <1>3, <1>4, <1>5, <1>6, <1>7, <1>9, <1>11, <1>13, <2>2, <2>8, <3>2, ListedMove
      <3> QED BY <3>1, <3>2
    <2> QED BY <1>6, <1>10, <2>7, <2>9 DEF BatchInv
  <1> QED BY <1>12, <1>13

\* Every edit keeps the invariant.
LEMMA NextBatchInv ==
    ASSUME BatchInv, [Namespace!Next]_Namespace!vars
    PROVE  BatchInv'
  <1>1. CASE UNCHANGED <<before, properties, nodes, deadspace, children, origin>>
    <2>1. Objects' = Objects
      BY <1>1 DEF Objects
    <2> QED BY <1>1, <2>1 DEF BatchInv
  <1>2. CASE Namespace!Skip \/ Namespace!Refuse \/ UNCHANGED Namespace!vars
    BY <1>1, <1>2 DEF Namespace!Skip, Namespace!Refuse, Namespace!vars
  <1>3. ASSUME NEW current \in Namespace!EditPath, Namespace!RemoveObject(current)
        PROVE  BatchInv'
    BY <1>3, RemoveKeeps
  <1>4. ASSUME NEW current \in Namespace!EditPath, NEW new \in Namespace!EditPath,
               NEW index \in EditIndex, Namespace!MoveObject(current, new, index)
        PROVE  BatchInv'
    BY <1>4, MoveKeeps
  <1> QED BY <1>2, <1>3, <1>4 DEF Namespace!Next

\* Places are closed when the parent of each is one of them.
LEMMA ParentsClosed ==
    ASSUME NEW D, D \subseteq AnyPath, \A p \in D : p # Root => Front(p) \in D
    PROVE  Closed(D)
  <1> SUFFICES ASSUME NEW p \in D, NEW q \in AnyPath, HasPrefix(p, q), q \notin D
               PROVE  FALSE
    BY DEF Closed
  <1> DEFINE T == {k \in Nat : \E r \in D : HasPrefix(r, q) /\ Len(r) = k}
  <1>1. Len(p) \in T
    BY DEF AnyPath
  <1>2. PICK k \in T : \A j \in T : k <= j
    BY <1>1, LeastNumber
  <1>3. PICK r \in D : HasPrefix(r, q) /\ Len(r) = k
    BY <1>2
  <1>4. r \in AnyPath /\ r # Root
    <2>1. r \in AnyPath
      BY <1>3
    <2>2. r # Root
      <3>1. HasPrefix(q, Root) /\ Root \in AnyPath
        BY PrefixSelf
      <3> QED BY <1>3, <3>1, PrefixBoth
    <2> QED BY <2>1, <2>2
  <1>5. HasPrefix(Front(r), q) /\ Front(r) \in D
    BY <1>3, <1>4, Parents
  <1>6. Len(Front(r)) = k - 1 /\ Len(Front(r)) \in Nat /\ k \in Nat
    BY <1>3, <1>4, Parents DEF AnyPath
  <1>7. Len(Front(r)) \in T
    BY <1>5, <1>6
  <1> HIDE DEF T
  <1> QED BY <1>2, <1>6, <1>7

LEMMA InitBatchInv ==
    ASSUME Namespace!Init
    PROVE  BatchInv
  <1>1. /\ before = FirstChildren /\ properties = FirstProperties
        /\ DOMAIN origin = Objects /\ \A q \in Objects : origin[q] = q
        /\ DOMAIN nodes = {Root} /\ nodes[Root] = Root
        /\ deadspace = {} /\ children = FirstChildren
    BY DEF Namespace!Init, Objects
  <1>2. Objects = DOMAIN FirstChildren \cup FirstProperties
    BY <1>1 DEF Objects
  <1>3. Objects \subseteq AnyPath /\ Root \in Objects /\ Root \in AnyPath
    BY <1>2, FirstLayer, PrefixSelf DEF AnyPath, Namespace!Root
  <1>4. \A p \in Objects : p # Root => Front(p) \in DOMAIN FirstChildren
    BY <1>2, FirstLayer DEF Namespace!Root
  <1>5. Closed(Objects)
    BY <1>2, <1>3, <1>4, ParentsClosed
  <1>6. NodeMap(nodes)
    <2>1. \A q \in AnyPath : HasPrefix(Root, q) => q = Root
      <3>1. \A q \in AnyPath : HasPrefix(q, Root)
        BY PrefixSelf
      <3> QED BY <1>3, <3>1, PrefixBoth
    <2> QED BY <1>1, <1>3, <2>1 DEF NodeMap, Closed
  <1>7. ASSUME NEW q \in AnyPath
        PROVE  UneditIn(nodes, q) = q
    <2>1. PICK d \in DOMAIN nodes, s \in AnyPath :
             q = d \o s /\ UneditIn(nodes, q) = nodes[d] \o s
      BY <1>6, UneditIs
    <2> QED BY <1>1, <2>1
  <1>8. Agreed(Objects, nodes, deadspace, origin)
    <2>1. DeadPlaces(deadspace, DOMAIN origin)
      BY <1>1 DEF DeadPlaces
    <2>2. \A q \in DOMAIN origin : origin[q] \in Objects /\ UneditIn(nodes, q) = origin[q]
      BY <1>1, <1>3, <1>7
    <2>3. \A q \in AnyPath : q \in DOMAIN origin \/ UneditIn(nodes, q) \notin Objects
      BY <1>1, <1>7
    <2> QED BY <1>1, <1>3, <1>5, <1>6, <2>1, <2>2, <2>3 DEF Agreed
  <1>9. ASSUME NEW p \in DOMAIN FirstChildren
        PROVE  /\ NameList(FirstChildren[p])
               /\ \A n \in Nat : n \in ToSet(FirstChildren[p]) <=>
                                   Append(p, n) \in DOMAIN FirstChildren
    <2>1. /\ FirstChildren[p] \in Seq(Nat) /\ Namespace!IsInjective(FirstChildren[p])
          /\ ToSet(FirstChildren[p]) =
                 {Last(q) : q \in {r \in DOMAIN FirstChildren \ {Root} : Front(r) = p}}
      BY FirstLayer DEF Namespace!Root
    <2>2. p \in AnyPath /\ DOMAIN FirstChildren \subseteq AnyPath
      BY <1>2, <1>3
    <2>3. ASSUME NEW n \in Nat, n \in ToSet(FirstChildren[p])
          PROVE  Append(p, n) \in DOMAIN FirstChildren
      <3>1. PICK q \in DOMAIN FirstChildren \ {Root} : Front(q) = p /\ Last(q) = n
        BY <2>1, <2>3
      <3>2. q = Append(Front(q), Last(q))
        BY <2>2, Parents
      <3> QED BY <3>1, <3>2
    <2>4. ASSUME NEW n \in Nat, Append(p, n) \in DOMAIN FirstChildren
          PROVE  n \in ToSet(FirstChildren[p])
      <3>1. /\ Append(p, n) # Root /\ Front(Append(p, n)) = p
            /\ Last(Append(p, n)) = n
        BY <2>2, Child
      <3> QED BY <2>1, <2>4, <3>1
    <2> QED BY <2>1, <2>3, <2>4, NameListIs
  <1>10. DOMAIN FirstChildren = {q \in Objects : ~IsProperty(q)}
    BY <1>2, FirstLayer
  <1>11. \A q \in Objects : q # Root => ~IsProperty(Front(q))
    BY <1>4, <1>10
  <1>12. ListedIn(children, DOMAIN origin)
    BY <1>1, <1>9, <1>10, <1>11 DEF ListedIn
  <1> QED BY <1>1, <1>3, <1>8, <1>12 DEF BatchInv

\* What is told of a batch follows from the invariant.
LEMMA BatchAgrees ==
    ASSUME BatchInv
    PROVE  Namespace!NamespaceAgrees /\ Namespace!ChildrenListed
  <1>1. Objects \subseteq AnyPath /\ Agreed(Objects, nodes, deadspace, origin)
        /\ ListedIn(children, DOMAIN origin) /\ DOMAIN origin \subseteq AnyPath
    BY DEF BatchInv, Agreed, Closed
  <1>2. Namespace!NamespaceAgrees
    <2> SUFFICES ASSUME NEW path \in Namespace!PrimPath \cup Namespace!PropertyPath
                                        \cup DOMAIN origin
                 PROVE  IF path \in DOMAIN origin THEN Namespace!OriginalPath(path) = origin[path]
                        ELSE ~Namespace!HasObject(Namespace!OriginalPath(path))
      BY DEF Namespace!NamespaceAgrees
    <2>1. path \in AnyPath
      BY <1>1, EditPaths DEF Namespace!EditPath
    <2>2. CASE path \in DOMAIN origin
      <3>1. ~Namespace!IsDeadspace(path)
        BY <1>1, <2>2, StateIs, AgreedDead
      <3> QED BY <1>1, <2>2, <3>1, StateIs DEF Namespace!OriginalPath, Agreed
    <2>3. CASE path \notin DOMAIN origin
      <3>1. CASE Namespace!IsDeadspace(path)
        <4>1. Namespace!OriginalPath(path) = Namespace!Removed
          BY <3>1 DEF Namespace!OriginalPath
        <4>2. Namespace!Removed \notin AnyPath
          BY NoPlace
        <4> QED BY <1>1, <2>3, <4>1, <4>2 DEF Namespace!HasObject, Objects
      <3>2. CASE ~Namespace!IsDeadspace(path)
        BY <2>1, <2>3, <3>2, FoundThere DEF Namespace!OriginalPath
      <3> QED BY <3>1, <3>2
    <2> QED BY <2>2, <2>3
  <1>3. ASSUME NEW path \in DOMAIN children
        PROVE  /\ Namespace!IsInjective(children[path])
               /\ {Append(path, name) : name \in ToSet(children[path])} =
                      {p \in DOMAIN children : Len(p) = Len(path) + 1 /\ HasPrefix(p, path)}
    <2>1. path \in AnyPath /\ NameList(children[path]) /\ children[path] \in Seq(Nat)
          /\ \A n \in Nat : n \in ToSet(children[path]) <=> Append(path, n) \in DOMAIN children
      BY <1>1 DEF ListedIn, NameList
    <2>2. Namespace!IsInjective(children[path]) /\ ToSet(children[path]) \subseteq Nat
      BY <2>1, NameListIs
    <2>3. ASSUME NEW name \in ToSet(children[path])
          PROVE  /\ Append(path, name) \in DOMAIN children
                 /\ Len(Append(path, name)) = Len(path) + 1 /\ HasPrefix(Append(path, name), path)
      <3>1. name \in Nat
        BY <2>2
      <3>2. Append(path, name) \in AnyPath /\ Append(path, name) # Root
            /\ Front(Append(path, name)) = path /\ Len(Append(path, name)) = Len(path) + 1
        BY <2>1, <3>1, Child
      <3>3. HasPrefix(Append(path, name), path)
        BY <3>2, Parents
      <3> QED BY <2>1, <3>1, <3>2, <3>3
    <2>4. ASSUME NEW p \in DOMAIN children, Len(p) = Len(path) + 1, HasPrefix(p, path)
          PROVE  \E name \in ToSet(children[path]) : p = Append(path, name)
      <3>1. p \in AnyPath /\ Len(path) \in Nat
        BY <1>1, <2>1 DEF ListedIn, AnyPath
      <3>2. p # Root
        BY <2>4, <3>1 DEF Namespace!Root
      <3>3. /\ Front(p) \in AnyPath /\ Len(Front(p)) = Len(path) /\ Last(p) \in Nat
            /\ p = Append(Front(p), Last(p)) /\ HasPrefix(p, Front(p))
        <4>1. /\ Front(p) \in AnyPath /\ Len(Front(p)) = Len(p) - 1 /\ Last(p) \in Nat
              /\ p = Append(Front(p), Last(p)) /\ HasPrefix(p, Front(p))
          BY <3>1, <3>2, Parents
        <4> QED BY <2>4, <3>1, <4>1
      <3>4. Front(p) = path
        <4>1. HasPrefix(Front(p), path) /\ HasPrefix(path, Front(p))
          BY <2>1, <2>4, <3>1, <3>3, PrefixCompare
        <4> QED BY <2>1, <3>3, <4>1, PrefixBoth
      <3>5. Last(p) \in ToSet(children[path])
        BY <2>1, <3>3, <3>4
      <3> QED BY <3>3, <3>4, <3>5
    <2> QED BY <2>2, <2>3, <2>4
  <1>4. Namespace!ChildrenListed
    BY <1>1, <1>3 DEF Namespace!ChildrenListed, ListedIn
  <1> QED BY <1>2, <1>4

-----------------------------------------------------------------------------
(* List ops, the specs of targets, and sublayers                           *)

\* What the clients of list editors and of sublayers edit are constants too; the clients keep
\* to what the property of the targets speaks of.
Targets == INSTANCE ListEditors WITH Loose <- {}

Sublayers == INSTANCE SubLayers

ASSUME ListConstants ==
    /\ Targets!NoItem \notin Items \cup Assets
    /\ Vectors \subseteq Seq(Items)
    /\ PathLists \subseteq Seq(Assets)
    /\ MaxSubLayers \in Nat

-----------------------------------------------------------------------------
(* Functions over places, and what a fold over a list is                   *)

\* What is so of 0 and of each number after one of which it is so, up to n.
LEMMA StepByStep ==
    ASSUME NEW n \in Nat, NEW T, 0 \in T, \A k \in 1 .. n : k - 1 \in T => k \in T
    PROVE  0 .. n \subseteq T
  <1> DEFINE Bad == {k \in 0 .. n : k \notin T}
  <1> SUFFICES ASSUME Bad # {}
               PROVE  FALSE
    OBVIOUS
  <1>1. Bad \subseteq Nat
    OBVIOUS
  <1>2. PICK k \in Bad : \A j \in Bad : k <= j
    <2> HIDE DEF Bad
    <2> QED BY <1>1, LeastNumber
  <1>3. k \in 1 .. n /\ k - 1 \in 0 .. n /\ k - 1 \notin Bad
    BY <1>2
  <1> QED BY <1>2, <1>3

\* The greatest number of a set (FiniteSetsExt, Max).
LEMMA LargestIs ==
    ASSUME NEW n \in Nat, NEW t \in SUBSET (1 .. n), t # {}
    PROVE  Targets!Max(t) \in t /\ \A k \in t : k <= Targets!Max(t)
  <1> DEFINE T == {n - k : k \in t}
  <1>1. T \subseteq Nat /\ T # {}
    <2>1. PICK k \in t : TRUE
      OBVIOUS
    <2>2. n - k \in T
      BY <2>1
    <2>3. \A j \in t : n - j \in Nat
      OBVIOUS
    <2> QED BY <2>2, <2>3
  <1>2. PICK m \in T : \A j \in T : m <= j
    <2> HIDE DEF T
    <2> QED BY <1>1, LeastNumber
  <1>3. PICK k \in t : m = n - k
    BY <1>2
  <1>4. ASSUME NEW j \in t
        PROVE  k >= j
    <2>1. n - j \in T /\ j \in Int /\ k \in Int
      OBVIOUS
    <2>2. m <= n - j
      BY <1>2, <2>1
    <2> QED BY <1>3, <2>1, <2>2
  <1>5. \E x \in t : \A y \in t : x >= y
    BY <1>4
  <1>6. Targets!Max(t) \in t /\ \A y \in t : Targets!Max(t) >= y
    <2>1. Targets!Max(t) = CHOOSE x \in t : \A y \in t : x >= y
      BY DEF Targets!Max
    <2> QED BY <1>5, <2>1
  <1>7. \A y \in t : y \in Int
    OBVIOUS
  <1> QED BY <1>6, <1>7

LEMMA UpToLargest ==
    ASSUME NEW n \in Nat, NEW k \in 1 .. n
    PROVE  /\ 1 .. k \in SUBSET (1 .. n) /\ 1 .. k # {} /\ Targets!Max(1 .. k) = k
           /\ (1 .. k) \ {Targets!Max(1 .. k)} = 1 .. (k - 1)
  <1>1. 1 .. k \in SUBSET (1 .. n) /\ k \in 1 .. k
    OBVIOUS
  <1>2. Targets!Max(1 .. k) \in 1 .. k /\ \A j \in 1 .. k : j <= Targets!Max(1 .. k)
    BY <1>1, LargestIs
  <1>3. Targets!Max(1 .. k) = k
    BY <1>1, <1>2
  <1> QED BY <1>1, <1>3

\* The table of a fold of s over sets of places: g is what is done with an element.
FoldOf(f, b, n, s, g) ==
    \A t \in SUBSET (1 .. n) :
       f[t] = IF t = {} THEN b ELSE g[<<f[t \ {Targets!Max(t)}], s[Targets!Max(t)]>>]

LEMMA FoldExists ==
    ASSUME NEW X, NEW I, NEW b \in X, NEW n \in Nat, NEW s \in [1 .. n -> I],
           NEW g \in [X \X I -> X]
    PROVE  \E f \in [SUBSET (1 .. n) -> X] : FoldOf(f, b, n, s, g)
  <1> DEFINE T == {k \in 0 .. n : \E f \in [SUBSET (1 .. k) -> X] : FoldOf(f, b, k, s, g)}
  <1>1. 0 \in T
    <2> DEFINE f == [t \in SUBSET (1 .. 0) |-> b]
    <2>1. \A t \in SUBSET (1 .. 0) : t = {}
      OBVIOUS
    <2>2. f \in [SUBSET (1 .. 0) -> X] /\ FoldOf(f, b, 0, s, g)
      BY <2>1 DEF FoldOf
    <2> QED BY <2>2
  <1>2. ASSUME NEW k \in 1 .. n, k - 1 \in T
        PROVE  k \in T
    <2>1. PICK f \in [SUBSET (1 .. (k - 1)) -> X] : FoldOf(f, b, k - 1, s, g)
      BY <1>2
    <2> DEFINE h == [t \in SUBSET (1 .. k) |-> IF k \in t THEN g[<<f[t \ {k}], s[k]>>] ELSE f[t]]
    <2>2. h \in [SUBSET (1 .. k) -> X]
      <3>1. ASSUME NEW t \in SUBSET (1 .. k)
            PROVE  (IF k \in t THEN g[<<f[t \ {k}], s[k]>>] ELSE f[t]) \in X
        <4>1. CASE k \in t
          <5>1. t \ {k} \in SUBSET (1 .. (k - 1)) /\ s[k] \in I
            OBVIOUS
          <5>2. <<f[t \ {k}], s[k]>> \in X \X I
            BY <5>1
          <5> QED BY <4>1, <5>2
        <4>2. CASE k \notin t
          <5>1. t \in SUBSET (1 .. (k - 1))
            BY <4>2
          <5> QED BY <4>2, <5>1
        <4> QED BY <4>1, <4>2
      <3> QED BY <3>1
    <2>3. ASSUME NEW t \in SUBSET (1 .. k)
          PROVE  h[t] = IF t = {} THEN b ELSE g[<<h[t \ {Targets!Max(t)}], s[Targets!Max(t)]>>]
      <3>0. k \in Nat /\ k - 1 \in Nat
        OBVIOUS
      <3>1. CASE k \in t
        <4>1. Targets!Max(t) \in t /\ \A j \in t : j <= Targets!Max(t)
          BY <3>0, <3>1, LargestIs
        <4>2. Targets!Max(t) = k
          <5>1. Targets!Max(t) \in 1 .. k /\ k <= Targets!Max(t)
            BY <3>1, <4>1
          <5> QED BY <5>1
        <4>3. t \ {k} \in SUBSET (1 .. k) /\ k \notin t \ {k}
          OBVIOUS
        <4>4. h[t \ {k}] = f[t \ {k}]
          BY <4>3
        <4>5. h[t] = g[<<f[t \ {k}], s[k]>>]
          BY <3>1
        <4> HIDE DEF h
        <4> QED BY <3>1, <4>2, <4>4, <4>5
      <3>2. CASE k \notin t
        <4>1. t \in SUBSET (1 .. (k - 1)) /\ h[t] = f[t]
          BY <3>2
        <4>2. CASE t = {}
          <5>1. f[t] = b
            BY <2>1, <4>1, <4>2 DEF FoldOf
          <5> HIDE DEF h
          <5> QED BY <4>1, <4>2, <5>1
        <4>3. CASE t # {}
          <5>1. Targets!Max(t) \in t
            BY <3>0, <4>1, <4>3, LargestIs
          <5>2. t \ {Targets!Max(t)} \in SUBSET (1 .. k) /\ k \notin t \ {Targets!Max(t)}
            BY <3>2
          <5>3. h[t \ {Targets!Max(t)}] = f[t \ {Targets!Max(t)}]
            BY <5>2
          <5>4. f[t] = g[<<f[t \ {Targets!Max(t)}], s[Targets!Max(t)]>>]
            BY <2>1, <4>1, <4>3 DEF FoldOf
          <5> HIDE DEF h
          <5> QED BY <4>1, <4>3, <5>3, <5>4
        <4> QED BY <4>2, <4>3
      <3> QED BY <3>1, <3>2
    <2>4. FoldOf(h, b, k, s, g)
      <3> HIDE DEF h
      <3> QED BY <2>3 DEF FoldOf
    <2> HIDE DEF h
    <2> QED BY <2>2, <2>4
  <1> HIDE DEF T
  <1>3. n \in T
    <2>1. 0 .. n \subseteq T
      BY <1>1, <1>2, StepByStep
    <2>2. n \in 0 .. n
      OBVIOUS
    <2> QED BY <2>1, <2>2
  <1> QED BY <1>3 DEF T

-----------------------------------------------------------------------------
(* The folds of the list ops (ListOps, ListEditors), in closed form        *)

\* The order in which the calls that are about all lists go through the kinds.
RemovalOrder == <<"explicit", "added", "prepended", "appended", "deleted", "ordered">>

\* What _UpdateListOp tells of one kind.
ToldOne(known, kind, old, new, changed) ==
    IF kind \notin changed THEN known
    ELSE Targets!OnEdit(known, kind, old.items[kind], new.items[kind])
ToldClosed(X, old, new, changed) ==
    \A x \in X, kind \in Targets!Kinds : ToldOne(x, kind, old, new, changed) \in X
ToldThrough(c, X, b, old, new, changed) ==
    /\ c \in [0 .. Len(Targets!OpTypes) -> X]
    /\ c[0] = b /\ Targets!Told(b, old, new, changed) = c[Len(Targets!OpTypes)]
    /\ \A k \in 1 .. Len(Targets!OpTypes) :
          c[k] = ToldOne(c[k - 1], Targets!OpTypes[k], old, new, changed)

\* What the calls about all lists do with one.
RemovedOne(r, kind, kinds, item) == IF kind \in kinds THEN Targets!RemoveFrom(r, kind, item) ELSE r
RemovalClosed(X, item) ==
    \A x \in X, kind \in Targets!Kinds : Targets!RemoveFrom(x, kind, item) \in X
RemovedThrough(c, X, b, kinds, item) ==
    /\ c \in [0 .. Len(RemovalOrder) -> X]
    /\ Targets!RemoveFromAll(b, kinds, item) = c[Len(RemovalOrder)]
ReplacementClosed(X, old, new) ==
    \A x \in X, kind \in Targets!Kinds : Targets!ReplaceIn(x, kind, old, new) \in X
ReplacedThrough(c, X, b, old, new) ==
    /\ c \in [0 .. Len(RemovalOrder) -> X]
    /\ Targets!ReplaceInAll(b, old, new) = c[Len(RemovalOrder)]

\* What AppendKeys and PrependKeys do with a key.
MovedToEnd(seq, x) == Append(Targets!Without(seq, {x}), x)
MovedToFront(seq, x) == <<x>> \o Targets!Without(seq, {x})

\* AddKeys adds the keys one by one (listOp.cpp, _AddKeys).
LEMMA AddKeysFold ==
    ASSUME NEW X, NEW I, NEW b \in X, NEW s \in Seq(I),
           \A x \in X, i \in I : (IF i \in Targets!ToSet(x) THEN x ELSE Append(x, i)) \in X
    PROVE  \E c \in [0 .. Len(s) -> X] :
              /\ c[0] = b /\ Targets!AddKeys(b, s) = c[Len(s)]
              /\ \A k \in 1 .. Len(s) : c[k] = (IF s[k] \in Targets!ToSet(c[k - 1])
                     THEN c[k - 1] ELSE Append(c[k - 1], s[k]))
  <1> DEFINE n == Len(s)
             g == [p \in X \X I |-> (IF p[2] \in Targets!ToSet(p[1]) THEN p[1] ELSE Append(p[1],
                    p[2]))]
             IsFold(f) == f = [t \in SUBSET (DOMAIN s) |->
                 IF t = {} THEN b ELSE (IF s[Targets!Max(t)]
                        \in Targets!ToSet(f[t \ {Targets!Max(t)}])
                            THEN f[t \ {Targets!Max(t)}] ELSE Append(f[t \ {Targets!Max(t)}],
                                s[Targets!Max(t)]))]
             iter == CHOOSE f : IsFold(f)
             c == [k \in 0 .. n |-> iter[1 .. k]]
  <1>1. Targets!AddKeys(b, s) = iter[DOMAIN s]
    BY DEF Targets!AddKeys, Targets!FoldLeft, Targets!MapThenFoldSet
  <1>2. n \in Nat /\ DOMAIN s = 1 .. n /\ s \in [1 .. n -> I]
    OBVIOUS
  <1>3. g \in [X \X I -> X]
    OBVIOUS
  <1> HIDE DEF n, g, IsFold, iter
  <1>4. PICK h \in [SUBSET (1 .. n) -> X] : FoldOf(h, b, n, s, g)
    BY <1>2, <1>3, FoldExists
  <1>5. IsFold(h)
    <2>1. ASSUME NEW t \in SUBSET (1 .. n)
          PROVE  h[t] = IF t = {} THEN b ELSE (IF s[Targets!Max(t)]
                 \in Targets!ToSet(h[t \ {Targets!Max(t)}]) THEN h[t \ {Targets!Max(t)}]
                     ELSE Append(h[t \ {Targets!Max(t)}], s[Targets!Max(t)]))
      <3>1. CASE t = {}
        BY <1>4, <3>1 DEF FoldOf
      <3>2. CASE t # {}
        <4>1. Targets!Max(t) \in 1 .. n /\ t \ {Targets!Max(t)} \in SUBSET (1 .. n)
          BY <1>2, <3>2, LargestIs
        <4>2. h[t \ {Targets!Max(t)}] \in X /\ s[Targets!Max(t)] \in I
          BY <1>2, <1>4, <4>1
        <4>3. h[t] = g[<<h[t \ {Targets!Max(t)}], s[Targets!Max(t)]>>]
          BY <1>4, <3>2 DEF FoldOf
        <4> QED BY <3>2, <4>2, <4>3 DEF g
      <3> QED BY <3>1, <3>2
    <2> QED BY <1>2, <1>4, <2>1 DEF IsFold
  <1>6. IsFold(iter)
    BY <1>5 DEF iter
  <1>7. ASSUME NEW t \in SUBSET (1 .. n)
        PROVE  iter[t] = IF t = {} THEN b
                         ELSE (IF s[Targets!Max(t)] \in Targets!ToSet(iter[t \ {Targets!Max(t)}]) THEN iter[t \ {Targets!Max(t)}] ELSE Append(iter[t \ {Targets!Max(t)}], s[Targets!Max(t)]))
    BY <1>2, <1>6 DEF IsFold
  <1>8. ASSUME NEW k \in 1 .. n
        PROVE  iter[1 .. k] = (IF s[k] \in Targets!ToSet(iter[1 .. (k - 1)])
               THEN iter[1 .. (k - 1)] ELSE Append(iter[1 .. (k - 1)], s[k]))
    BY <1>2, <1>7, UpToLargest
  <1>9. iter[1 .. 0] = b
    <2>1. 1 .. 0 = {} /\ {} \in SUBSET (1 .. n)
      OBVIOUS
    <2> QED BY <1>7, <2>1
  <1>10. 0 .. n \subseteq {k \in 0 .. n : iter[1 .. k] \in X}
    <2> DEFINE T == {k \in 0 .. n : iter[1 .. k] \in X}
    <2>1. 0 \in T
      BY <1>2, <1>9
    <2>2. ASSUME NEW k \in 1 .. n, k - 1 \in T
          PROVE  k \in T
      <3>1. k - 1 \in 0 .. n /\ k \in 0 .. n /\ iter[1 .. (k - 1)] \in X /\ s[k] \in I
        BY <1>2, <2>2
      <3>2. (IF s[k] \in Targets!ToSet(iter[1 .. (k - 1)]) THEN iter[1 .. (k - 1)]
             ELSE Append(iter[1 .. (k - 1)], s[k])) \in X
        BY <3>1
      <3> QED BY <1>8, <3>1, <3>2
    <2> HIDE DEF T
    <2>3. 0 .. n \subseteq T
      BY <1>2, <2>1, <2>2, StepByStep
    <2> QED BY <2>3 DEF T
  <1>11. c \in [0 .. n -> X] /\ c[0] = b /\ Targets!AddKeys(b, s) = c[n]
    BY <1>1, <1>2, <1>9, <1>10
  <1>12. ASSUME NEW k \in 1 .. n
         PROVE  c[k] = (IF s[k] \in Targets!ToSet(c[k - 1]) THEN c[k - 1] ELSE Append(c[k - 1],
                s[k]))
    <2>1. k \in 0 .. n /\ k - 1 \in 0 .. n /\ c[k] = iter[1 .. k] /\ c[k - 1] = iter[1 .. (k - 1)]
      BY <1>2
    <2> QED BY <1>8, <2>1
  <1> HIDE DEF c
  <1> QED BY <1>11, <1>12 DEF n

\* Mapped goes through the items one by one, from an empty list.
LEMMA MappedFold ==
    ASSUME NEW X, NEW I, NEW b \in X, NEW s \in Seq(I), NEW cb, b = <<>>,
           \A x \in X, i \in I : (IF cb[i] = Targets!NoItem THEN x ELSE Append(x, cb[i])) \in X
    PROVE  \E c \in [0 .. Len(s) -> X] :
              /\ c[0] = b /\ Targets!Mapped(s, cb) = c[Len(s)]
              /\ \A k \in 1 .. Len(s) : c[k] = (IF cb[s[k]] = Targets!NoItem THEN c[k - 1]
                     ELSE Append(c[k - 1], cb[s[k]]))
  <1> DEFINE n == Len(s)
             g == [p \in X \X I |-> (IF cb[p[2]] = Targets!NoItem THEN p[1] ELSE Append(p[1],
                    cb[p[2]]))]
             IsFold(f) == f = [t \in SUBSET (DOMAIN s) |->
                 IF t = {} THEN b ELSE (IF cb[s[Targets!Max(t)]] = Targets!NoItem
                        THEN f[t \ {Targets!Max(t)}] ELSE Append(f[t \ {Targets!Max(t)}],
                            cb[s[Targets!Max(t)]]))]
             iter == CHOOSE f : IsFold(f)
             c == [k \in 0 .. n |-> iter[1 .. k]]
  <1>1. Targets!Mapped(s, cb) = iter[DOMAIN s]
    BY DEF Targets!Mapped, Targets!FoldLeft, Targets!MapThenFoldSet
  <1>2. n \in Nat /\ DOMAIN s = 1 .. n /\ s \in [1 .. n -> I]
    OBVIOUS
  <1>3. g \in [X \X I -> X]
    OBVIOUS
  <1> HIDE DEF n, g, IsFold, iter
  <1>4. PICK h \in [SUBSET (1 .. n) -> X] : FoldOf(h, b, n, s, g)
    BY <1>2, <1>3, FoldExists
  <1>5. IsFold(h)
    <2>1. ASSUME NEW t \in SUBSET (1 .. n)
          PROVE  h[t] = IF t = {} THEN b ELSE (IF cb[s[Targets!Max(t)]] = Targets!NoItem
                 THEN h[t \ {Targets!Max(t)}] ELSE Append(h[t \ {Targets!Max(t)}],
                     cb[s[Targets!Max(t)]]))
      <3>1. CASE t = {}
        BY <1>4, <3>1 DEF FoldOf
      <3>2. CASE t # {}
        <4>1. Targets!Max(t) \in 1 .. n /\ t \ {Targets!Max(t)} \in SUBSET (1 .. n)
          BY <1>2, <3>2, LargestIs
        <4>2. h[t \ {Targets!Max(t)}] \in X /\ s[Targets!Max(t)] \in I
          BY <1>2, <1>4, <4>1
        <4>3. h[t] = g[<<h[t \ {Targets!Max(t)}], s[Targets!Max(t)]>>]
          BY <1>4, <3>2 DEF FoldOf
        <4> QED BY <3>2, <4>2, <4>3 DEF g
      <3> QED BY <3>1, <3>2
    <2> QED BY <1>2, <1>4, <2>1 DEF IsFold
  <1>6. IsFold(iter)
    BY <1>5 DEF iter
  <1>7. ASSUME NEW t \in SUBSET (1 .. n)
        PROVE  iter[t] = IF t = {} THEN b
                         ELSE (IF cb[s[Targets!Max(t)]] = Targets!NoItem
                                THEN iter[t \ {Targets!Max(t)}]
                                    ELSE Append(iter[t \ {Targets!Max(t)}], cb[s[Targets!Max(t)]]))
    BY <1>2, <1>6 DEF IsFold
  <1>8. ASSUME NEW k \in 1 .. n
        PROVE  iter[1 .. k] = (IF cb[s[k]] = Targets!NoItem THEN iter[1 .. (k - 1)]
               ELSE Append(iter[1 .. (k - 1)], cb[s[k]]))
    BY <1>2, <1>7, UpToLargest
  <1>9. iter[1 .. 0] = b
    <2>1. 1 .. 0 = {} /\ {} \in SUBSET (1 .. n)
      OBVIOUS
    <2> QED BY <1>7, <2>1
  <1>10. 0 .. n \subseteq {k \in 0 .. n : iter[1 .. k] \in X}
    <2> DEFINE T == {k \in 0 .. n : iter[1 .. k] \in X}
    <2>1. 0 \in T
      BY <1>2, <1>9
    <2>2. ASSUME NEW k \in 1 .. n, k - 1 \in T
          PROVE  k \in T
      <3>1. k - 1 \in 0 .. n /\ k \in 0 .. n /\ iter[1 .. (k - 1)] \in X /\ s[k] \in I
        BY <1>2, <2>2
      <3>2. (IF cb[s[k]] = Targets!NoItem THEN iter[1 .. (k - 1)]
             ELSE Append(iter[1 .. (k - 1)], cb[s[k]])) \in X
        BY <3>1
      <3> QED BY <1>8, <3>1, <3>2
    <2> HIDE DEF T
    <2>3. 0 .. n \subseteq T
      BY <1>2, <2>1, <2>2, StepByStep
    <2> QED BY <2>3 DEF T
  <1>11. c \in [0 .. n -> X] /\ c[0] = b /\ Targets!Mapped(s, cb) = c[n]
    BY <1>1, <1>2, <1>9, <1>10
  <1>12. ASSUME NEW k \in 1 .. n
         PROVE  c[k] = (IF cb[s[k]] = Targets!NoItem THEN c[k - 1] ELSE Append(c[k - 1], cb[s[k]]))
    <2>1. k \in 0 .. n /\ k - 1 \in 0 .. n /\ c[k] = iter[1 .. k] /\ c[k - 1] = iter[1 .. (k - 1)]
      BY <1>2
    <2> QED BY <1>8, <2>1
  <1> HIDE DEF c
  <1> QED BY <1>11, <1>12 DEF n

\* AppendKeys moves the keys to the end one by one (_AppendKeys).
LEMMA AppendKeysFold ==
    ASSUME NEW X, NEW I, NEW b \in X, NEW s \in Seq(I),
           \A x \in X, i \in I : MovedToEnd(x, i) \in X
    PROVE  \E c \in [0 .. Len(s) -> X] :
              /\ c[0] = b /\ Targets!AppendKeys(b, s) = c[Len(s)]
              /\ \A k \in 1 .. Len(s) : c[k] = MovedToEnd(c[k - 1], s[k])
  <1> DEFINE n == Len(s)
             g == [p \in X \X I |-> MovedToEnd(p[1], p[2])]
             IsFold(f) == f = [t \in SUBSET (DOMAIN s) |->
                 IF t = {} THEN b ELSE MovedToEnd(f[t \ {Targets!Max(t)}], s[Targets!Max(t)])]
             iter == CHOOSE f : IsFold(f)
             c == [k \in 0 .. n |-> iter[1 .. k]]
  <1>1. Targets!AppendKeys(b, s) = iter[DOMAIN s]
    BY DEF MovedToEnd, Targets!AppendKeys, Targets!FoldLeft, Targets!MapThenFoldSet
  <1>2. n \in Nat /\ DOMAIN s = 1 .. n /\ s \in [1 .. n -> I]
    OBVIOUS
  <1>3. g \in [X \X I -> X]
    OBVIOUS
  <1> HIDE DEF n, g, IsFold, iter
  <1>4. PICK h \in [SUBSET (1 .. n) -> X] : FoldOf(h, b, n, s, g)
    BY <1>2, <1>3, FoldExists
  <1>5. IsFold(h)
    <2>1. ASSUME NEW t \in SUBSET (1 .. n)
          PROVE  h[t] = IF t = {} THEN b ELSE MovedToEnd(h[t \ {Targets!Max(t)}], s[Targets!Max(t)])
      <3>1. CASE t = {}
        BY <1>4, <3>1 DEF FoldOf
      <3>2. CASE t # {}
        <4>1. Targets!Max(t) \in 1 .. n /\ t \ {Targets!Max(t)} \in SUBSET (1 .. n)
          BY <1>2, <3>2, LargestIs
        <4>2. h[t \ {Targets!Max(t)}] \in X /\ s[Targets!Max(t)] \in I
          BY <1>2, <1>4, <4>1
        <4>3. h[t] = g[<<h[t \ {Targets!Max(t)}], s[Targets!Max(t)]>>]
          BY <1>4, <3>2 DEF FoldOf
        <4> QED BY <3>2, <4>2, <4>3 DEF g
      <3> QED BY <3>1, <3>2
    <2> QED BY <1>2, <1>4, <2>1 DEF IsFold
  <1>6. IsFold(iter)
    BY <1>5 DEF iter
  <1>7. ASSUME NEW t \in SUBSET (1 .. n)
        PROVE  iter[t] = IF t = {} THEN b
                         ELSE MovedToEnd(iter[t \ {Targets!Max(t)}], s[Targets!Max(t)])
    BY <1>2, <1>6 DEF IsFold
  <1>8. ASSUME NEW k \in 1 .. n
        PROVE  iter[1 .. k] = MovedToEnd(iter[1 .. (k - 1)], s[k])
    BY <1>2, <1>7, UpToLargest
  <1>9. iter[1 .. 0] = b
    <2>1. 1 .. 0 = {} /\ {} \in SUBSET (1 .. n)
      OBVIOUS
    <2> QED BY <1>7, <2>1
  <1>10. 0 .. n \subseteq {k \in 0 .. n : iter[1 .. k] \in X}
    <2> DEFINE T == {k \in 0 .. n : iter[1 .. k] \in X}
    <2>1. 0 \in T
      BY <1>2, <1>9
    <2>2. ASSUME NEW k \in 1 .. n, k - 1 \in T
          PROVE  k \in T
      <3>1. k - 1 \in 0 .. n /\ k \in 0 .. n /\ iter[1 .. (k - 1)] \in X /\ s[k] \in I
        BY <1>2, <2>2
      <3>2. MovedToEnd(iter[1 .. (k - 1)], s[k]) \in X
        BY <3>1
      <3> QED BY <1>8, <3>1, <3>2
    <2> HIDE DEF T
    <2>3. 0 .. n \subseteq T
      BY <1>2, <2>1, <2>2, StepByStep
    <2> QED BY <2>3 DEF T
  <1>11. c \in [0 .. n -> X] /\ c[0] = b /\ Targets!AppendKeys(b, s) = c[n]
    BY <1>1, <1>2, <1>9, <1>10
  <1>12. ASSUME NEW k \in 1 .. n
         PROVE  c[k] = MovedToEnd(c[k - 1], s[k])
    <2>1. k \in 0 .. n /\ k - 1 \in 0 .. n /\ c[k] = iter[1 .. k] /\ c[k - 1] = iter[1 .. (k - 1)]
      BY <1>2
    <2> QED BY <1>8, <2>1
  <1> HIDE DEF c
  <1> QED BY <1>11, <1>12 DEF n

\* PrependKeys moves the keys to the front, from the last (_PrependKeys).
LEMMA PrependKeysFold ==
    ASSUME NEW X, NEW I, NEW b \in X, NEW s \in Seq(I), NEW keys, s = Targets!Reverse(keys),
           \A x \in X, i \in I : MovedToFront(x, i) \in X
    PROVE  \E c \in [0 .. Len(s) -> X] :
              /\ c[0] = b /\ Targets!PrependKeys(b, keys) = c[Len(s)]
              /\ \A k \in 1 .. Len(s) : c[k] = MovedToFront(c[k - 1], s[k])
  <1> DEFINE n == Len(s)
             g == [p \in X \X I |-> MovedToFront(p[1], p[2])]
             IsFold(f) == f = [t \in SUBSET (DOMAIN s) |->
                 IF t = {} THEN b ELSE MovedToFront(f[t \ {Targets!Max(t)}], s[Targets!Max(t)])]
             iter == CHOOSE f : IsFold(f)
             c == [k \in 0 .. n |-> iter[1 .. k]]
  <1>1. Targets!PrependKeys(b, keys) = iter[DOMAIN s]
    BY DEF MovedToFront, Targets!PrependKeys, Targets!FoldLeft, Targets!MapThenFoldSet
  <1>2. n \in Nat /\ DOMAIN s = 1 .. n /\ s \in [1 .. n -> I]
    OBVIOUS
  <1>3. g \in [X \X I -> X]
    OBVIOUS
  <1> HIDE DEF n, g, IsFold, iter
  <1>4. PICK h \in [SUBSET (1 .. n) -> X] : FoldOf(h, b, n, s, g)
    BY <1>2, <1>3, FoldExists
  <1>5. IsFold(h)
    <2>1. ASSUME NEW t \in SUBSET (1 .. n)
          PROVE  h[t] = IF t = {} THEN b ELSE MovedToFront(h[t \ {Targets!Max(t)}],
                 s[Targets!Max(t)])
      <3>1. CASE t = {}
        BY <1>4, <3>1 DEF FoldOf
      <3>2. CASE t # {}
        <4>1. Targets!Max(t) \in 1 .. n /\ t \ {Targets!Max(t)} \in SUBSET (1 .. n)
          BY <1>2, <3>2, LargestIs
        <4>2. h[t \ {Targets!Max(t)}] \in X /\ s[Targets!Max(t)] \in I
          BY <1>2, <1>4, <4>1
        <4>3. h[t] = g[<<h[t \ {Targets!Max(t)}], s[Targets!Max(t)]>>]
          BY <1>4, <3>2 DEF FoldOf
        <4> QED BY <3>2, <4>2, <4>3 DEF g
      <3> QED BY <3>1, <3>2
    <2> QED BY <1>2, <1>4, <2>1 DEF IsFold
  <1>6. IsFold(iter)
    BY <1>5 DEF iter
  <1>7. ASSUME NEW t \in SUBSET (1 .. n)
        PROVE  iter[t] = IF t = {} THEN b
                         ELSE MovedToFront(iter[t \ {Targets!Max(t)}], s[Targets!Max(t)])
    BY <1>2, <1>6 DEF IsFold
  <1>8. ASSUME NEW k \in 1 .. n
        PROVE  iter[1 .. k] = MovedToFront(iter[1 .. (k - 1)], s[k])
    BY <1>2, <1>7, UpToLargest
  <1>9. iter[1 .. 0] = b
    <2>1. 1 .. 0 = {} /\ {} \in SUBSET (1 .. n)
      OBVIOUS
    <2> QED BY <1>7, <2>1
  <1>10. 0 .. n \subseteq {k \in 0 .. n : iter[1 .. k] \in X}
    <2> DEFINE T == {k \in 0 .. n : iter[1 .. k] \in X}
    <2>1. 0 \in T
      BY <1>2, <1>9
    <2>2. ASSUME NEW k \in 1 .. n, k - 1 \in T
          PROVE  k \in T
      <3>1. k - 1 \in 0 .. n /\ k \in 0 .. n /\ iter[1 .. (k - 1)] \in X /\ s[k] \in I
        BY <1>2, <2>2
      <3>2. MovedToFront(iter[1 .. (k - 1)], s[k]) \in X
        BY <3>1
      <3> QED BY <1>8, <3>1, <3>2
    <2> HIDE DEF T
    <2>3. 0 .. n \subseteq T
      BY <1>2, <2>1, <2>2, StepByStep
    <2> QED BY <2>3 DEF T
  <1>11. c \in [0 .. n -> X] /\ c[0] = b /\ Targets!PrependKeys(b, keys) = c[n]
    BY <1>1, <1>2, <1>9, <1>10
  <1>12. ASSUME NEW k \in 1 .. n
         PROVE  c[k] = MovedToFront(c[k - 1], s[k])
    <2>1. k \in 0 .. n /\ k - 1 \in 0 .. n /\ c[k] = iter[1 .. k] /\ c[k - 1] = iter[1 .. (k - 1)]
      BY <1>2
    <2> QED BY <1>8, <2>1
  <1> HIDE DEF c
  <1> QED BY <1>11, <1>12 DEF n

\* Each item of an order takes along what follows it (_ReorderKeysHelper).
LEMMA TakenAlongFold ==
    ASSUME NEW X, NEW I, NEW b \in X, NEW s \in Seq(I), NEW seq, NEW order,
           s = Targets!MakeUnique(order), b = [result |-> <<>>, scratch |-> seq],
           \A x \in X, i \in I : Targets!TakeAlong(x, i, order) \in X
    PROVE  \E c \in [0 .. Len(s) -> X] :
              /\ c[0] = b /\ Targets!TakenAlong(seq, order) = c[Len(s)]
              /\ \A k \in 1 .. Len(s) : c[k] = Targets!TakeAlong(c[k - 1], s[k], order)
  <1> DEFINE n == Len(s)
             g == [p \in X \X I |-> Targets!TakeAlong(p[1], p[2], order)]
             IsFold(f) == f = [t \in SUBSET (DOMAIN s) |->
                 IF t = {} THEN b ELSE Targets!TakeAlong(f[t \ {Targets!Max(t)}],
                        s[Targets!Max(t)], order)]
             iter == CHOOSE f : IsFold(f)
             c == [k \in 0 .. n |-> iter[1 .. k]]
  <1>1. Targets!TakenAlong(seq, order) = iter[DOMAIN s]
    BY DEF Targets!TakenAlong, Targets!FoldLeft, Targets!MapThenFoldSet
  <1>2. n \in Nat /\ DOMAIN s = 1 .. n /\ s \in [1 .. n -> I]
    OBVIOUS
  <1>3. g \in [X \X I -> X]
    OBVIOUS
  <1> HIDE DEF n, g, IsFold, iter
  <1>4. PICK h \in [SUBSET (1 .. n) -> X] : FoldOf(h, b, n, s, g)
    BY <1>2, <1>3, FoldExists
  <1>5. IsFold(h)
    <2>1. ASSUME NEW t \in SUBSET (1 .. n)
          PROVE  h[t] = IF t = {} THEN b ELSE Targets!TakeAlong(h[t \ {Targets!Max(t)}],
                 s[Targets!Max(t)], order)
      <3>1. CASE t = {}
        BY <1>4, <3>1 DEF FoldOf
      <3>2. CASE t # {}
        <4>1. Targets!Max(t) \in 1 .. n /\ t \ {Targets!Max(t)} \in SUBSET (1 .. n)
          BY <1>2, <3>2, LargestIs
        <4>2. h[t \ {Targets!Max(t)}] \in X /\ s[Targets!Max(t)] \in I
          BY <1>2, <1>4, <4>1
        <4>3. h[t] = g[<<h[t \ {Targets!Max(t)}], s[Targets!Max(t)]>>]
          BY <1>4, <3>2 DEF FoldOf
        <4> QED BY <3>2, <4>2, <4>3 DEF g
      <3> QED BY <3>1, <3>2
    <2> QED BY <1>2, <1>4, <2>1 DEF IsFold
  <1>6. IsFold(iter)
    BY <1>5 DEF iter
  <1>7. ASSUME NEW t \in SUBSET (1 .. n)
        PROVE  iter[t] = IF t = {} THEN b
                         ELSE Targets!TakeAlong(iter[t \ {Targets!Max(t)}], s[Targets!Max(t)],
                                order)
    BY <1>2, <1>6 DEF IsFold
  <1>8. ASSUME NEW k \in 1 .. n
        PROVE  iter[1 .. k] = Targets!TakeAlong(iter[1 .. (k - 1)], s[k], order)
    BY <1>2, <1>7, UpToLargest
  <1>9. iter[1 .. 0] = b
    <2>1. 1 .. 0 = {} /\ {} \in SUBSET (1 .. n)
      OBVIOUS
    <2> QED BY <1>7, <2>1
  <1>10. 0 .. n \subseteq {k \in 0 .. n : iter[1 .. k] \in X}
    <2> DEFINE T == {k \in 0 .. n : iter[1 .. k] \in X}
    <2>1. 0 \in T
      BY <1>2, <1>9
    <2>2. ASSUME NEW k \in 1 .. n, k - 1 \in T
          PROVE  k \in T
      <3>1. k - 1 \in 0 .. n /\ k \in 0 .. n /\ iter[1 .. (k - 1)] \in X /\ s[k] \in I
        BY <1>2, <2>2
      <3>2. Targets!TakeAlong(iter[1 .. (k - 1)], s[k], order) \in X
        BY <3>1
      <3> QED BY <1>8, <3>1, <3>2
    <2> HIDE DEF T
    <2>3. 0 .. n \subseteq T
      BY <1>2, <2>1, <2>2, StepByStep
    <2> QED BY <2>3 DEF T
  <1>11. c \in [0 .. n -> X] /\ c[0] = b /\ Targets!TakenAlong(seq, order) = c[n]
    BY <1>1, <1>2, <1>9, <1>10
  <1>12. ASSUME NEW k \in 1 .. n
         PROVE  c[k] = Targets!TakeAlong(c[k - 1], s[k], order)
    <2>1. k \in 0 .. n /\ k - 1 \in 0 .. n /\ c[k] = iter[1 .. k] /\ c[k - 1] = iter[1 .. (k - 1)]
      BY <1>2
    <2> QED BY <1>8, <2>1
  <1> HIDE DEF c
  <1> QED BY <1>11, <1>12 DEF n

\* The edits of the kinds are told one by one (_UpdateListOp).
LEMMA ToldFold ==
    ASSUME NEW X, NEW b \in X, NEW old, NEW new, NEW changed, ToldClosed(X, old, new, changed)
    PROVE  \E c : ToldThrough(c, X, b, old, new, changed)
  <1> DEFINE s == Targets!OpTypes
             I == Targets!Kinds
             n == Len(s)
             g == [p \in X \X I |-> ToldOne(p[1], p[2], old, new, changed)]
             IsFold(f) == f = [t \in SUBSET (DOMAIN s) |->
                 IF t = {} THEN b ELSE ToldOne(f[t \ {Targets!Max(t)}], s[Targets!Max(t)], old,
                        new, changed)]
             iter == CHOOSE f : IsFold(f)
             c == [k \in 0 .. n |-> iter[1 .. k]]
  <1>1. Targets!Told(b, old, new, changed) = iter[DOMAIN s]
    BY DEF ToldOne, Targets!Told, Targets!FoldLeft, Targets!MapThenFoldSet
  <1>2. n \in Nat /\ DOMAIN s = 1 .. n /\ s \in [1 .. n -> I]
    <2>1. s \in Seq(I)
      BY DEF Targets!Kinds, Targets!OpTypes, RemovalOrder
    <2> HIDE DEF s, I
    <2> QED BY <2>1
  <1>3. g \in [X \X I -> X]
    <2>1. \A x \in X, i \in I : ToldOne(x, i, old, new, changed) \in X
      BY DEF ToldClosed
    <2> HIDE DEF I
    <2> QED BY <2>1
  <1>0. \A x \in X, i \in I : ToldOne(x, i, old, new, changed) \in X
    BY DEF ToldClosed
  <1> HIDE DEF s, I, n, g, IsFold, iter
  <1>4. PICK h \in [SUBSET (1 .. n) -> X] : FoldOf(h, b, n, s, g)
    BY <1>2, <1>3, FoldExists
  <1>5. IsFold(h)
    <2>1. ASSUME NEW t \in SUBSET (1 .. n)
          PROVE  h[t] = IF t = {} THEN b ELSE ToldOne(h[t \ {Targets!Max(t)}],
                 s[Targets!Max(t)], old, new, changed)
      <3>1. CASE t = {}
        BY <1>4, <3>1 DEF FoldOf
      <3>2. CASE t # {}
        <4>1. Targets!Max(t) \in 1 .. n /\ t \ {Targets!Max(t)} \in SUBSET (1 .. n)
          BY <1>2, <3>2, LargestIs
        <4>2. h[t \ {Targets!Max(t)}] \in X /\ s[Targets!Max(t)] \in I
          BY <1>2, <1>4, <4>1
        <4>3. h[t] = g[<<h[t \ {Targets!Max(t)}], s[Targets!Max(t)]>>]
          BY <1>4, <3>2 DEF FoldOf
        <4> QED BY <3>2, <4>2, <4>3 DEF g
      <3> QED BY <3>1, <3>2
    <2> QED BY <1>2, <1>4, <2>1 DEF IsFold
  <1>6. IsFold(iter)
    BY <1>5 DEF iter
  <1>7. ASSUME NEW t \in SUBSET (1 .. n)
        PROVE  iter[t] = IF t = {} THEN b
                         ELSE ToldOne(iter[t \ {Targets!Max(t)}], s[Targets!Max(t)], old, new,
                                changed)
    BY <1>2, <1>6 DEF IsFold
  <1>8. ASSUME NEW k \in 1 .. n
        PROVE  iter[1 .. k] = ToldOne(iter[1 .. (k - 1)], s[k], old, new, changed)
    BY <1>2, <1>7, UpToLargest
  <1>9. iter[1 .. 0] = b
    <2>1. 1 .. 0 = {} /\ {} \in SUBSET (1 .. n)
      OBVIOUS
    <2> QED BY <1>7, <2>1
  <1>10. 0 .. n \subseteq {k \in 0 .. n : iter[1 .. k] \in X}
    <2> DEFINE T == {k \in 0 .. n : iter[1 .. k] \in X}
    <2>1. 0 \in T
      BY <1>2, <1>9
    <2>2. ASSUME NEW k \in 1 .. n, k - 1 \in T
          PROVE  k \in T
      <3>1. k - 1 \in 0 .. n /\ k \in 0 .. n /\ iter[1 .. (k - 1)] \in X /\ s[k] \in I
        BY <1>2, <2>2
      <3>2. ToldOne(iter[1 .. (k - 1)], s[k], old, new, changed) \in X
        BY <1>0, <3>1
      <3> QED BY <1>8, <3>1, <3>2
    <2> HIDE DEF T
    <2>3. 0 .. n \subseteq T
      BY <1>2, <2>1, <2>2, StepByStep
    <2> QED BY <2>3 DEF T
  <1>11. c \in [0 .. n -> X] /\ c[0] = b /\ Targets!Told(b, old, new, changed) = c[n]
    BY <1>1, <1>2, <1>9, <1>10
  <1>12. ASSUME NEW k \in 1 .. n
         PROVE  c[k] = ToldOne(c[k - 1], s[k], old, new, changed)
    <2>1. k \in 0 .. n /\ k - 1 \in 0 .. n /\ c[k] = iter[1 .. k] /\ c[k - 1] = iter[1 .. (k - 1)]
      BY <1>2
    <2> QED BY <1>8, <2>1
  <1> HIDE DEF c
  <1>13. n = Len(Targets!OpTypes)
    BY DEF n, s
  <1>14. s = Targets!OpTypes
    BY DEF s
  <1> QED BY <1>11, <1>12, <1>13, <1>14 DEF ToldThrough

\* An item is removed from one list after the other.
LEMMA RemoveFromAllFold ==
    ASSUME NEW X, NEW b \in X, NEW kinds, NEW item, RemovalClosed(X, item)
    PROVE  \E c : RemovedThrough(c, X, b, kinds, item)
  <1> DEFINE s == RemovalOrder
             I == Targets!Kinds
             n == Len(s)
             g == [p \in X \X I |-> RemovedOne(p[1], p[2], kinds, item)]
             IsFold(f) == f = [t \in SUBSET (DOMAIN s) |->
                 IF t = {} THEN b ELSE RemovedOne(f[t \ {Targets!Max(t)}], s[Targets!Max(t)],
                        kinds, item)]
             iter == CHOOSE f : IsFold(f)
             c == [k \in 0 .. n |-> iter[1 .. k]]
  <1>1. Targets!RemoveFromAll(b, kinds, item) = iter[DOMAIN s]
    BY DEF RemovedOne, Targets!RemoveFromAll, RemovalOrder, Targets!FoldLeft,
       Targets!MapThenFoldSet
  <1>2. n \in Nat /\ DOMAIN s = 1 .. n /\ s \in [1 .. n -> I]
    <2>1. s \in Seq(I)
      BY DEF Targets!Kinds, Targets!OpTypes, RemovalOrder
    <2> HIDE DEF s, I
    <2> QED BY <2>1
  <1>3. g \in [X \X I -> X]
    <2>1. \A x \in X, i \in I : RemovedOne(x, i, kinds, item) \in X
      BY DEF RemovalClosed, RemovedOne
    <2> HIDE DEF I
    <2> QED BY <2>1
  <1>0. \A x \in X, i \in I : RemovedOne(x, i, kinds, item) \in X
    BY DEF RemovalClosed, RemovedOne
  <1> HIDE DEF s, I, n, g, IsFold, iter
  <1>4. PICK h \in [SUBSET (1 .. n) -> X] : FoldOf(h, b, n, s, g)
    BY <1>2, <1>3, FoldExists
  <1>5. IsFold(h)
    <2>1. ASSUME NEW t \in SUBSET (1 .. n)
          PROVE  h[t] = IF t = {} THEN b ELSE RemovedOne(h[t \ {Targets!Max(t)}],
                 s[Targets!Max(t)], kinds, item)
      <3>1. CASE t = {}
        BY <1>4, <3>1 DEF FoldOf
      <3>2. CASE t # {}
        <4>1. Targets!Max(t) \in 1 .. n /\ t \ {Targets!Max(t)} \in SUBSET (1 .. n)
          BY <1>2, <3>2, LargestIs
        <4>2. h[t \ {Targets!Max(t)}] \in X /\ s[Targets!Max(t)] \in I
          BY <1>2, <1>4, <4>1
        <4>3. h[t] = g[<<h[t \ {Targets!Max(t)}], s[Targets!Max(t)]>>]
          BY <1>4, <3>2 DEF FoldOf
        <4> QED BY <3>2, <4>2, <4>3 DEF g
      <3> QED BY <3>1, <3>2
    <2> QED BY <1>2, <1>4, <2>1 DEF IsFold
  <1>6. IsFold(iter)
    BY <1>5 DEF iter
  <1>7. ASSUME NEW t \in SUBSET (1 .. n)
        PROVE  iter[t] = IF t = {} THEN b
                         ELSE RemovedOne(iter[t \ {Targets!Max(t)}], s[Targets!Max(t)], kinds, item)
    BY <1>2, <1>6 DEF IsFold
  <1>8. ASSUME NEW k \in 1 .. n
        PROVE  iter[1 .. k] = RemovedOne(iter[1 .. (k - 1)], s[k], kinds, item)
    BY <1>2, <1>7, UpToLargest
  <1>9. iter[1 .. 0] = b
    <2>1. 1 .. 0 = {} /\ {} \in SUBSET (1 .. n)
      OBVIOUS
    <2> QED BY <1>7, <2>1
  <1>10. 0 .. n \subseteq {k \in 0 .. n : iter[1 .. k] \in X}
    <2> DEFINE T == {k \in 0 .. n : iter[1 .. k] \in X}
    <2>1. 0 \in T
      BY <1>2, <1>9
    <2>2. ASSUME NEW k \in 1 .. n, k - 1 \in T
          PROVE  k \in T
      <3>1. k - 1 \in 0 .. n /\ k \in 0 .. n /\ iter[1 .. (k - 1)] \in X /\ s[k] \in I
        BY <1>2, <2>2
      <3>2. RemovedOne(iter[1 .. (k - 1)], s[k], kinds, item) \in X
        BY <1>0, <3>1
      <3> QED BY <1>8, <3>1, <3>2
    <2> HIDE DEF T
    <2>3. 0 .. n \subseteq T
      BY <1>2, <2>1, <2>2, StepByStep
    <2> QED BY <2>3 DEF T
  <1>11. c \in [0 .. n -> X] /\ c[0] = b /\ Targets!RemoveFromAll(b, kinds, item) = c[n]
    BY <1>1, <1>2, <1>9, <1>10
  <1>12. ASSUME NEW k \in 1 .. n
         PROVE  c[k] = RemovedOne(c[k - 1], s[k], kinds, item)
    <2>1. k \in 0 .. n /\ k - 1 \in 0 .. n /\ c[k] = iter[1 .. k] /\ c[k - 1] = iter[1 .. (k - 1)]
      BY <1>2
    <2> QED BY <1>8, <2>1
  <1> HIDE DEF c
  <1>13. n = Len(RemovalOrder)
    BY DEF n, s
  <1>14. s = RemovalOrder
    BY DEF s
  <1> QED BY <1>11, <1>12, <1>13, <1>14 DEF RemovedThrough

\* An item is replaced in one list after the other.
LEMMA ReplaceInAllFold ==
    ASSUME NEW X, NEW b \in X, NEW old, NEW new, ReplacementClosed(X, old, new)
    PROVE  \E c : ReplacedThrough(c, X, b, old, new)
  <1> DEFINE s == RemovalOrder
             I == Targets!Kinds
             n == Len(s)
             g == [p \in X \X I |-> Targets!ReplaceIn(p[1], p[2], old, new)]
             IsFold(f) == f = [t \in SUBSET (DOMAIN s) |->
                 IF t = {} THEN b ELSE Targets!ReplaceIn(f[t \ {Targets!Max(t)}],
                        s[Targets!Max(t)], old, new)]
             iter == CHOOSE f : IsFold(f)
             c == [k \in 0 .. n |-> iter[1 .. k]]
  <1>1. Targets!ReplaceInAll(b, old, new) = iter[DOMAIN s]
    BY DEF Targets!ReplaceInAll, RemovalOrder, Targets!FoldLeft, Targets!MapThenFoldSet
  <1>2. n \in Nat /\ DOMAIN s = 1 .. n /\ s \in [1 .. n -> I]
    <2>1. s \in Seq(I)
      BY DEF Targets!Kinds, Targets!OpTypes, RemovalOrder
    <2> HIDE DEF s, I
    <2> QED BY <2>1
  <1>3. g \in [X \X I -> X]
    <2>1. \A x \in X, i \in I : Targets!ReplaceIn(x, i, old, new) \in X
      BY DEF ReplacementClosed
    <2> HIDE DEF I
    <2> QED BY <2>1
  <1>0. \A x \in X, i \in I : Targets!ReplaceIn(x, i, old, new) \in X
    BY DEF ReplacementClosed
  <1> HIDE DEF s, I, n, g, IsFold, iter
  <1>4. PICK h \in [SUBSET (1 .. n) -> X] : FoldOf(h, b, n, s, g)
    BY <1>2, <1>3, FoldExists
  <1>5. IsFold(h)
    <2>1. ASSUME NEW t \in SUBSET (1 .. n)
          PROVE  h[t] = IF t = {} THEN b ELSE Targets!ReplaceIn(h[t \ {Targets!Max(t)}],
                 s[Targets!Max(t)], old, new)
      <3>1. CASE t = {}
        BY <1>4, <3>1 DEF FoldOf
      <3>2. CASE t # {}
        <4>1. Targets!Max(t) \in 1 .. n /\ t \ {Targets!Max(t)} \in SUBSET (1 .. n)
          BY <1>2, <3>2, LargestIs
        <4>2. h[t \ {Targets!Max(t)}] \in X /\ s[Targets!Max(t)] \in I
          BY <1>2, <1>4, <4>1
        <4>3. h[t] = g[<<h[t \ {Targets!Max(t)}], s[Targets!Max(t)]>>]
          BY <1>4, <3>2 DEF FoldOf
        <4> QED BY <3>2, <4>2, <4>3 DEF g
      <3> QED BY <3>1, <3>2
    <2> QED BY <1>2, <1>4, <2>1 DEF IsFold
  <1>6. IsFold(iter)
    BY <1>5 DEF iter
  <1>7. ASSUME NEW t \in SUBSET (1 .. n)
        PROVE  iter[t] = IF t = {} THEN b
                         ELSE Targets!ReplaceIn(iter[t \ {Targets!Max(t)}], s[Targets!Max(t)],
                                old, new)
    BY <1>2, <1>6 DEF IsFold
  <1>8. ASSUME NEW k \in 1 .. n
        PROVE  iter[1 .. k] = Targets!ReplaceIn(iter[1 .. (k - 1)], s[k], old, new)
    BY <1>2, <1>7, UpToLargest
  <1>9. iter[1 .. 0] = b
    <2>1. 1 .. 0 = {} /\ {} \in SUBSET (1 .. n)
      OBVIOUS
    <2> QED BY <1>7, <2>1
  <1>10. 0 .. n \subseteq {k \in 0 .. n : iter[1 .. k] \in X}
    <2> DEFINE T == {k \in 0 .. n : iter[1 .. k] \in X}
    <2>1. 0 \in T
      BY <1>2, <1>9
    <2>2. ASSUME NEW k \in 1 .. n, k - 1 \in T
          PROVE  k \in T
      <3>1. k - 1 \in 0 .. n /\ k \in 0 .. n /\ iter[1 .. (k - 1)] \in X /\ s[k] \in I
        BY <1>2, <2>2
      <3>2. Targets!ReplaceIn(iter[1 .. (k - 1)], s[k], old, new) \in X
        BY <1>0, <3>1
      <3> QED BY <1>8, <3>1, <3>2
    <2> HIDE DEF T
    <2>3. 0 .. n \subseteq T
      BY <1>2, <2>1, <2>2, StepByStep
    <2> QED BY <2>3 DEF T
  <1>11. c \in [0 .. n -> X] /\ c[0] = b /\ Targets!ReplaceInAll(b, old, new) = c[n]
    BY <1>1, <1>2, <1>9, <1>10
  <1>12. ASSUME NEW k \in 1 .. n
         PROVE  c[k] = Targets!ReplaceIn(c[k - 1], s[k], old, new)
    <2>1. k \in 0 .. n /\ k - 1 \in 0 .. n /\ c[k] = iter[1 .. k] /\ c[k - 1] = iter[1 .. (k - 1)]
      BY <1>2
    <2> QED BY <1>8, <2>1
  <1> HIDE DEF c
  <1>13. n = Len(RemovalOrder)
    BY DEF n, s
  <1>14. s = RemovalOrder
    BY DEF s
  <1> QED BY <1>11, <1>12, <1>13, <1>14 DEF ReplacedThrough

-----------------------------------------------------------------------------
(* The lists a list op is made of                                          *)

\* The place of the first item of a list that is x, or 0 (SelectInSeq of the community modules).
FirstPlace(seq, x) ==
    IF {i \in 1 .. Len(seq) : seq[i] = x} # {}
    THEN Targets!Min({i \in 1 .. Len(seq) : seq[i] = x}) ELSE 0

LEMMA PlaceIs ==
    ASSUME NEW S, NEW seq \in Seq(S), NEW x
    PROVE  /\ FirstPlace(seq, x) \in 0 .. Len(seq)
           /\ (FirstPlace(seq, x) = 0) <=> (x \notin Targets!ToSet(seq))
           /\ FirstPlace(seq, x) # 0 => seq[FirstPlace(seq, x)] = x
  <1> DEFINE at == FirstPlace(seq, x)
             T == {i \in 1 .. Len(seq) : seq[i] = x}
  <1>1. at = IF T # {} THEN Targets!Min(T) ELSE 0
    BY DEF FirstPlace
  <1>2. CASE T = {}
    BY <1>1, <1>2 DEF Targets!ToSet
  <1>3. CASE T # {}
    <2>1. T \subseteq Nat
      OBVIOUS
    <2>2. \E i \in T : \A j \in T : i <= j
      <3> HIDE DEF T
      <3> QED BY <1>3, <2>1, LeastNumber
    <2>3. at \in T
      <3>1. at = CHOOSE i \in T : \A j \in T : i <= j
        BY <1>1, <1>3 DEF Targets!Min
      <3> HIDE DEF at, T
      <3> QED BY <2>2, <3>1
    <2> QED BY <2>3 DEF Targets!ToSet
  <1> QED BY <1>2, <1>3

LEMMA NoneOf == Targets!ToSet(<<>>) = {} /\ Targets!IsInjective(<<>>) /\ \A S : <<>> \in Seq(S)
  BY DEF Targets!ToSet, Targets!IsInjective

LEMMA Listing ==
    ASSUME NEW S, NEW seq \in Seq(S)
    PROVE  Targets!ToSet(seq) \subseteq S
  BY DEF Targets!ToSet

LEMMA OneMore ==
    ASSUME NEW S, NEW seq \in Seq(S), NEW x \in S
    PROVE  /\ Append(seq, x) \in Seq(S)
           /\ Targets!ToSet(Append(seq, x)) = Targets!ToSet(seq) \cup {x}
           /\ (Targets!IsInjective(seq) /\ x \notin Targets!ToSet(seq))
                  => Targets!IsInjective(Append(seq, x))
  <1> DEFINE longer == Append(seq, x)
  <1>1. longer \in Seq(S) /\ DOMAIN seq = 1 .. Len(seq) /\ DOMAIN longer = 1 .. Len(seq) + 1
    OBVIOUS
  <1>2. \A i \in DOMAIN longer : longer[i] = IF i = Len(seq) + 1 THEN x ELSE seq[i]
    OBVIOUS
  <1> HIDE DEF longer
  <1>3. Targets!ToSet(longer) = Targets!ToSet(seq) \cup {x}
    <2>1. ASSUME NEW i \in DOMAIN longer
          PROVE  longer[i] \in Targets!ToSet(seq) \cup {x}
      BY <1>1, <1>2 DEF Targets!ToSet
    <2>2. ASSUME NEW i \in DOMAIN seq
          PROVE  seq[i] \in Targets!ToSet(longer)
      BY <1>1, <1>2 DEF Targets!ToSet
    <2>3. Len(seq) + 1 \in DOMAIN longer /\ longer[Len(seq) + 1] = x
      BY <1>1, <1>2
    <2> QED BY <2>1, <2>2, <2>3 DEF Targets!ToSet
  <1>4. ASSUME Targets!IsInjective(seq), x \notin Targets!ToSet(seq)
        PROVE  Targets!IsInjective(longer)
    BY <1>1, <1>2, <1>4 DEF Targets!IsInjective, Targets!ToSet
  <1> QED BY <1>1, <1>3, <1>4 DEF longer

\* AddKeys adds the keys that the list does not have, none of them twice.
LEMMA KeysAdded ==
    ASSUME NEW S, NEW seq \in Seq(S), NEW keys \in Seq(S)
    PROVE  /\ Targets!AddKeys(seq, keys) \in Seq(S)
           /\ Targets!ToSet(Targets!AddKeys(seq,
                  keys)) = Targets!ToSet(seq) \cup Targets!ToSet(keys)
           /\ Targets!IsInjective(seq) => Targets!IsInjective(Targets!AddKeys(seq, keys))
  <1> DEFINE Step(l, x) == IF x \in Targets!ToSet(l) THEN l ELSE Append(l, x)
             L == Seq(S)
  <1>1. seq \in L /\ \A l \in L, x \in S : Step(l, x) \in L
    OBVIOUS
  <1> HIDE DEF L
  <1>2. PICK c \in [0 .. Len(keys) -> L] :
           /\ c[0] = seq /\ Targets!AddKeys(seq, keys) = c[Len(keys)]
           /\ \A k \in 1 .. Len(keys) : c[k] = Step(c[k - 1], keys[k])
    BY <1>1, AddKeysFold, SMTT(60)
  <1> USE DEF L
  <1> DEFINE T == {k \in 0 .. Len(keys) :
                      /\ Targets!ToSet(c[k]) = Targets!ToSet(seq) \cup {keys[j] : j \in 1 .. k}
                      /\ Targets!IsInjective(seq) => Targets!IsInjective(c[k])}
  <1>3. 0 \in T
    BY <1>2
  <1>4. ASSUME NEW k \in 1 .. Len(keys), k - 1 \in T
        PROVE  k \in T
    <2>1. c[k - 1] \in Seq(S) /\ keys[k] \in S /\ k \in 0 .. Len(keys)
      BY <1>2
    <2>2. {keys[j] : j \in 1 .. k} = {keys[j] : j \in 1 .. (k - 1)} \cup {keys[k]}
      <3>1. 1 .. k = 1 .. (k - 1) \cup {k}
        OBVIOUS
      <3> QED BY <3>1
    <2>3. CASE keys[k] \in Targets!ToSet(c[k - 1])
      BY <1>2, <1>4, <2>1, <2>2, <2>3
    <2>4. CASE keys[k] \notin Targets!ToSet(c[k - 1])
      <3>1. c[k] = Append(c[k - 1], keys[k])
        BY <1>2, <2>4
      <3>2. /\ Targets!ToSet(c[k]) = Targets!ToSet(c[k - 1]) \cup {keys[k]}
            /\ Targets!IsInjective(c[k - 1]) => Targets!IsInjective(c[k])
        BY <2>1, <2>4, <3>1, OneMore
      <3> QED BY <1>4, <2>1, <2>2, <3>2
    <2> QED BY <2>3, <2>4
  <1>5. Len(keys) \in T
    <2> HIDE DEF T
    <2>1. Len(keys) \in Nat /\ Len(keys) \in 0 .. Len(keys)
      OBVIOUS
    <2>2. 0 .. Len(keys) \subseteq T
      BY <1>3, <1>4, <2>1, StepByStep
    <2> QED BY <2>1, <2>2
  <1>6. Targets!ToSet(keys) = {keys[j] : j \in 1 .. Len(keys)}
    BY DEF Targets!ToSet
  <1> QED BY <1>2, <1>5, <1>6

\* _MakeUnique keeps every item once.
LEMMA UniqueMade ==
    ASSUME NEW S, NEW seq \in Seq(S)
    PROVE  /\ Targets!MakeUnique(seq) \in Seq(S)
           /\ Targets!ToSet(Targets!MakeUnique(seq)) = Targets!ToSet(seq)
           /\ Targets!IsInjective(Targets!MakeUnique(seq))
  <1> DEFINE none == <<>>
  <1>1. none \in Seq(S) /\ Targets!ToSet(none) = {} /\ Targets!IsInjective(none)
    BY NoneOf
  <1> HIDE DEF none
  <1>2. /\ Targets!AddKeys(none, seq) \in Seq(S)
        /\ Targets!ToSet(Targets!AddKeys(none, seq)) = Targets!ToSet(none) \cup Targets!ToSet(seq)
        /\ Targets!IsInjective(Targets!AddKeys(none, seq))
    BY <1>1, KeysAdded, ZenonT(60)
  <1>3. Targets!ToSet(Targets!AddKeys(none, seq)) = Targets!ToSet(seq)
    BY <1>1, <1>2
  <1> QED BY <1>2, <1>3 DEF none, Targets!MakeUnique

\* Mapped gives what the callback returns of each item, but for what it drops.
LEMMA MappedIs ==
    ASSUME NEW S, NEW seq \in Seq(S), NEW R, NEW cb,
           \A x \in Targets!ToSet(seq) : cb[x] \in R \cup {Targets!NoItem}
    PROVE  /\ Targets!Mapped(seq, cb) \in Seq(R)
           /\ Targets!ToSet(Targets!Mapped(seq, cb)) =
                  {cb[x] : x \in Targets!ToSet(seq)} \ {Targets!NoItem}
  <1> DEFINE I == Targets!ToSet(seq)
             Step(l, x) == IF cb[x] = Targets!NoItem THEN l ELSE Append(l, cb[x])
             L == Seq(R)
             none == <<>>
  <1>0. seq \in Seq(I)
    BY DEF Targets!ToSet
  <1>1. none \in L /\ \A l \in L, x \in I : Step(l, x) \in L
    OBVIOUS
  <1>2. PICK c \in [0 .. Len(seq) -> L] :
           /\ c[0] = none /\ Targets!Mapped(seq, cb) = c[Len(seq)]
           /\ \A k \in 1 .. Len(seq) : c[k] = Step(c[k - 1], seq[k])
    <2> HIDE DEF L, I
    <2>1. none = <<>>
      OBVIOUS
    <2> HIDE DEF none
    <2> QED BY <1>0, <1>1, <2>1, MappedFold
  <1> DEFINE T == {k \in 0 .. Len(seq) :
                      Targets!ToSet(c[k]) = {cb[seq[j]] : j \in 1 .. k} \ {Targets!NoItem}}
  <1>3. 0 \in T
    BY <1>2, NoneOf
  <1>4. ASSUME NEW k \in 1 .. Len(seq), k - 1 \in T
        PROVE  k \in T
    <2>1. c[k - 1] \in Seq(R) /\ seq[k] \in I /\ k \in 0 .. Len(seq)
      BY <1>0, <1>2
    <2>2. {cb[seq[j]] : j \in 1 .. k} = {cb[seq[j]] : j \in 1 .. (k - 1)} \cup {cb[seq[k]]}
      <3>1. 1 .. k = 1 .. (k - 1) \cup {k}
        OBVIOUS
      <3> QED BY <3>1
    <2>3. CASE cb[seq[k]] = Targets!NoItem
      BY <1>2, <1>4, <2>1, <2>2, <2>3
    <2>4. CASE cb[seq[k]] # Targets!NoItem
      <3>1. c[k] = Append(c[k - 1], cb[seq[k]]) /\ cb[seq[k]] \in R
        BY <1>2, <2>1, <2>4
      <3>2. Targets!ToSet(c[k]) = Targets!ToSet(c[k - 1]) \cup {cb[seq[k]]}
        BY <2>1, <3>1, OneMore
      <3> QED BY <1>4, <2>1, <2>2, <2>4, <3>2
    <2> QED BY <2>3, <2>4
  <1>5. Len(seq) \in T
    <2> HIDE DEF T
    <2>1. Len(seq) \in Nat /\ Len(seq) \in 0 .. Len(seq)
      OBVIOUS
    <2>2. 0 .. Len(seq) \subseteq T
      BY <1>3, <1>4, <2>1, StepByStep
    <2> QED BY <2>1, <2>2
  <1>6. {cb[x] : x \in I} = {cb[seq[j]] : j \in 1 .. Len(seq)}
    BY DEF Targets!ToSet
  <1>7. Len(seq) \in 0 .. Len(seq)
    OBVIOUS
  <1>8. Targets!ToSet(c[Len(seq)]) = {cb[x] : x \in I} \ {Targets!NoItem}
    BY <1>5, <1>6
  <1>9. c[Len(seq)] \in Seq(R)
    BY <1>2, <1>7
  <1> HIDE DEF T
  <1> QED BY <1>2, <1>8, <1>9

\* Without leaves items out.
LEMMA WithoutIs ==
    ASSUME NEW S, NEW seq \in Seq(S), NEW items, Targets!NoItem \notin S
    PROVE  /\ Targets!Without(seq, items) \in Seq(S)
           /\ Targets!ToSet(Targets!Without(seq, items)) = Targets!ToSet(seq) \ items
  <1> DEFINE cb == [x \in Targets!ToSet(seq) |-> IF x \in items THEN Targets!NoItem ELSE x]
  <1>1. Targets!ToSet(seq) \subseteq S
    BY Listing
  <1>2. \A x \in Targets!ToSet(seq) : cb[x] = IF x \in items THEN Targets!NoItem ELSE x
    OBVIOUS
  <1> HIDE DEF cb
  <1>3. \A x \in Targets!ToSet(seq) : cb[x] \in S \cup {Targets!NoItem}
    BY <1>1, <1>2
  <1>4. /\ Targets!Mapped(seq, cb) \in Seq(S)
        /\ Targets!ToSet(Targets!Mapped(seq, cb)) =
               {cb[x] : x \in Targets!ToSet(seq)} \ {Targets!NoItem}
    BY <1>3, MappedIs
  <1>5. {cb[x] : x \in Targets!ToSet(seq)} \ {Targets!NoItem} = Targets!ToSet(seq) \ items
    BY <1>1, <1>2
  <1> QED BY <1>4, <1>5 DEF cb, Targets!Without

LEMMA ReverseTyped ==
    ASSUME NEW S, NEW seq \in Seq(S)
    PROVE  /\ Targets!Reverse(seq) \in Seq(S)
  <1>1. Len(seq) \in Nat /\ \A i \in 1 .. Len(seq) : seq[(Len(seq) - i) + 1] \in S
    OBVIOUS
  <1>2. Targets!Reverse(seq) \in [1 .. Len(seq) -> S]
    BY <1>1 DEF Targets!Reverse
  <1> QED BY <1>1, <1>2

\* AppendKeys and PrependKeys make lists of the items of both.
LEMMA AppendKeysIn ==
    ASSUME NEW X, NEW I, NEW b \in X, NEW s \in Seq(I),
           \A x \in X, i \in I : MovedToEnd(x, i) \in X
    PROVE  Targets!AppendKeys(b, s) \in X
  <1>1. Len(s) \in 0 .. Len(s)
    OBVIOUS
  <1>2. \E c \in [0 .. Len(s) -> X] : Targets!AppendKeys(b, s) = c[Len(s)]
    BY AppendKeysFold
  <1> QED BY <1>1, <1>2

LEMMA AppendKeysTyped ==
    ASSUME NEW S, NEW seq \in Seq(S), NEW keys \in Seq(S), Targets!NoItem \notin S
    PROVE  Targets!AppendKeys(seq, keys) \in Seq(S)
  <1>1. \A l \in Seq(S), x \in S : MovedToEnd(l, x) \in Seq(S)
    BY WithoutIs DEF MovedToEnd
  <1> QED BY <1>1, AppendKeysIn, Zenon

LEMMA PrependKeysIn ==
    ASSUME NEW X, NEW I, NEW b \in X, NEW keys, Targets!Reverse(keys) \in Seq(I),
           \A x \in X, i \in I : MovedToFront(x, i) \in X
    PROVE  Targets!PrependKeys(b, keys) \in X
  <1> DEFINE s == Targets!Reverse(keys)
  <1>1. s \in Seq(I) /\ s = Targets!Reverse(keys)
    OBVIOUS
  <1> HIDE DEF s
  <1>2. Len(s) \in 0 .. Len(s)
    BY <1>1
  <1>3. \E c \in [0 .. Len(s) -> X] : Targets!PrependKeys(b, keys) = c[Len(s)]
    BY <1>1, PrependKeysFold
  <1> QED BY <1>2, <1>3

LEMMA PrependKeysTyped ==
    ASSUME NEW S, NEW seq \in Seq(S), NEW keys \in Seq(S), Targets!NoItem \notin S
    PROVE  Targets!PrependKeys(seq, keys) \in Seq(S)
  <1>1. ASSUME NEW l \in Seq(S), NEW x \in S
        PROVE  MovedToFront(l, x) \in Seq(S)
    <2>1. Targets!Without(l, {x}) \in Seq(S) /\ <<x>> \in Seq(S)
      BY WithoutIs
    <2> QED BY <2>1 DEF MovedToFront
  <1>2. Targets!Reverse(keys) \in Seq(S)
    BY ReverseTyped
  <1> QED BY <1>1, <1>2, PrependKeysIn, Zenon

\* A part of a list.
LEMMA PartTyped ==
    ASSUME NEW S, NEW seq \in Seq(S), NEW m \in 1 .. Len(seq) + 1, NEW n \in 0 .. Len(seq)
    PROVE  SubSeq(seq, m, n) \in Seq(S)
  BY SubSeqProperties

Taking(S) == [result : Seq(S), scratch : Seq(S)]

LEMMA TakeAlongTyped ==
    ASSUME NEW S, NEW r \in Taking(S), NEW x, NEW order
    PROVE  Targets!TakeAlong(r, x, order) \in Taking(S)
  <1> DEFINE seq == r.scratch
             at == FirstPlace(seq, x)
             ends == {j \in at + 1 .. Len(seq) : seq[j] \in Targets!ToSet(order)}
                         \cup {Len(seq) + 1}
             end == CHOOSE j \in ends : \A k \in ends : j <= k
  <1>1. Targets!TakeAlong(r, x, order) =
            IF at = 0 THEN r
            ELSE [result |-> r.result \o SubSeq(seq, at, end - 1),
                  scratch |-> SubSeq(seq, 1, at - 1) \o SubSeq(seq, end, Len(seq))]
    BY DEF Targets!TakeAlong, Targets!SelectInSeq, FirstPlace
  <1>2. r.result \in Seq(S) /\ seq \in Seq(S) /\ Len(seq) \in Nat
    BY DEF Taking
  <1> HIDE DEF seq
  <1>3. at \in 0 .. Len(seq)
    BY <1>2, PlaceIs
  <1> HIDE DEF at
  <1>4. ends \subseteq Nat /\ ends # {} /\ ends \subseteq at + 1 .. Len(seq) + 1
    BY <1>2, <1>3
  <1> HIDE DEF ends
  <1>5. end \in ends
    BY <1>4, LeastNumber
  <1> HIDE DEF end
  <1>6. CASE at = 0
    BY <1>1, <1>6
  <1>7. CASE at # 0
    <2>1. /\ at \in 1 .. Len(seq) + 1 /\ end - 1 \in 0 .. Len(seq)
          /\ 1 \in 1 .. Len(seq) + 1 /\ at - 1 \in 0 .. Len(seq)
          /\ end \in 1 .. Len(seq) + 1 /\ Len(seq) \in 0 .. Len(seq)
      BY <1>2, <1>3, <1>4, <1>5, <1>7
    <2>2. /\ SubSeq(seq, at, end - 1) \in Seq(S)
          /\ SubSeq(seq, 1, at - 1) \in Seq(S)
          /\ SubSeq(seq, end, Len(seq)) \in Seq(S)
      BY <1>2, <2>1, PartTyped
    <2> QED BY <1>1, <1>2, <1>7, <2>2 DEF Taking
  <1> QED BY <1>6, <1>7

LEMMA TakenAlongIn ==
    ASSUME NEW X, NEW I, NEW seq, NEW order, Targets!MakeUnique(order) \in Seq(I),
           [result |-> <<>>, scratch |-> seq] \in X,
           \A x \in X, i \in I : Targets!TakeAlong(x, i, order) \in X
    PROVE  Targets!TakenAlong(seq, order) \in X
  <1> DEFINE s == Targets!MakeUnique(order)
             b == [result |-> <<>>, scratch |-> seq]
  <1>1. s \in Seq(I) /\ s = Targets!MakeUnique(order) /\ b \in X
    OBVIOUS
  <1>2. b = [result |-> <<>>, scratch |-> seq]
    OBVIOUS
  <1> HIDE DEF s, b
  <1>3. Len(s) \in 0 .. Len(s)
    BY <1>1
  <1>4. \E c \in [0 .. Len(s) -> X] : Targets!TakenAlong(seq, order) = c[Len(s)]
    BY <1>1, <1>2, TakenAlongFold
  <1> QED BY <1>3, <1>4

\* ReorderKeys makes a list of the items of the list.
LEMMA ReorderKeysTyped ==
    ASSUME NEW S, NEW seq \in Seq(S), NEW order \in Seq(S)
    PROVE  Targets!ReorderKeys(seq, order) \in Seq(S)
  <1> DEFINE done == Targets!TakenAlong(seq, order)
  <1>1. Targets!MakeUnique(order) \in Seq(S)
    BY UniqueMade
  <1>2. [result |-> <<>>, scratch |-> seq] \in Taking(S)
    BY DEF Taking
  <1>3. \A x \in Taking(S), i \in S : Targets!TakeAlong(x, i, order) \in Taking(S)
    BY TakeAlongTyped
  <1>4. done \in Taking(S)
    <2> HIDE DEF done
    <2> QED BY <1>1, <1>2, <1>3, TakenAlongIn, Zenon DEF done
  <1>5. Targets!ReorderKeys(seq, order) = IF order = <<>> THEN seq ELSE done.scratch \o done.result
    BY DEF Targets!ReorderKeys
  <1> HIDE DEF done
  <1> QED BY <1>4, <1>5 DEF Taking

-----------------------------------------------------------------------------
\* The list ops of items of S.
OpsOf(S) == [explicit : BOOLEAN, items : [Targets!Kinds -> Seq(S)]]

LEMMA NewOps ==
    ASSUME NEW S
    PROVE  /\ Targets!NewListOp \in OpsOf(S) /\ Targets!ClearAndMakeExplicit \in OpsOf(S)
           /\ ~Targets!NewListOp.explicit /\ Targets!ClearAndMakeExplicit.explicit
           /\ \A kind \in Targets!Kinds :
                 /\ Targets!NewListOp.items[kind] = <<>>
                 /\ Targets!ClearAndMakeExplicit.items[kind] = <<>>
  <1>1. Targets!NoItems \in [Targets!Kinds -> Seq(S)]
        /\ \A kind \in Targets!Kinds : Targets!NoItems[kind] = <<>>
    BY DEF Targets!NoItems
  <1>2. Targets!NewListOp = [explicit |-> FALSE, items |-> Targets!NoItems]
    BY DEF Targets!NewListOp
  <1>3. Targets!ClearAndMakeExplicit = [explicit |-> TRUE, items |-> Targets!NoItems]
    <2> DEFINE op == Targets!NewListOp
    <2>1. op = [explicit |-> FALSE, items |-> op.items] /\ op.items = Targets!NoItems
      BY <1>2
    <2>2. Targets!ClearAndMakeExplicit = [op EXCEPT !.explicit = TRUE]
      BY DEF Targets!ClearAndMakeExplicit
    <2> HIDE DEF op
    <2> QED BY <2>1, <2>2
  <1> QED BY <1>1, <1>2, <1>3 DEF OpsOf

\* An op is the empty one if it has no keys.
LEMMA KeysOrNew ==
    ASSUME NEW S, NEW op \in OpsOf(S), ~Targets!HasKeys(op)
    PROVE  op = Targets!NewListOp
  BY DEF OpsOf, Targets!HasKeys, Targets!NewListOp

\* SetItems makes the op explicit or not, and leaves the other lists alone if it was so before.
LEMMA ItemsSet ==
    ASSUME NEW S, NEW op \in OpsOf(S), NEW items \in Seq(S), NEW kind \in Targets!Kinds
    PROVE  LET new == Targets!SetItems(op, items, kind)
           IN  /\ new \in OpsOf(S)
               /\ new.explicit = (kind = "explicit")
               /\ \A other \in Targets!Kinds \ {kind} :
                     new.items[other] = IF op.explicit = (kind = "explicit") THEN op.items[other]
                                        ELSE <<>>
               /\ kind \in {"added", "ordered"} => new.items[kind] = items
  <1> DEFINE unique == CASE kind \in {"added", "ordered"} -> items
                         [] kind = "appended" ->
                                Targets!Reverse(Targets!MakeUnique(Targets!Reverse(items)))
                         [] OTHER -> Targets!MakeUnique(items)
             base == Targets!SetExplicit(op, kind = "explicit")
  <1>1. Targets!SetItems(op, items, kind) = [base EXCEPT !.items[kind] = unique]
    BY DEF Targets!SetItems
  <1>2. unique \in Seq(S)
    <2>1. Targets!MakeUnique(items) \in Seq(S) /\ Targets!Reverse(items) \in Seq(S)
      BY UniqueMade, ReverseTyped
    <2>2. Targets!MakeUnique(Targets!Reverse(items)) \in Seq(S)
      BY <2>1, UniqueMade
    <2>3. Targets!Reverse(Targets!MakeUnique(Targets!Reverse(items))) \in Seq(S)
      BY <2>2, ReverseTyped
    <2>4. kind \in {"added", "ordered"} => unique = items
      OBVIOUS
    <2>5. (kind \notin {"added", "ordered"} /\ kind = "appended") =>
              unique = Targets!Reverse(Targets!MakeUnique(Targets!Reverse(items)))
      OBVIOUS
    <2>6. (kind \notin {"added", "ordered"} /\ kind # "appended") =>
              unique = Targets!MakeUnique(items)
      OBVIOUS
    <2> HIDE DEF unique
    <2> QED BY <2>1, <2>3, <2>4, <2>5, <2>6
  <1>3. kind \in {"added", "ordered"} => unique = items
    OBVIOUS
  <1>4. /\ base \in OpsOf(S) /\ base.explicit = (kind = "explicit")
        /\ \A other \in Targets!Kinds :
              base.items[other] = IF op.explicit = (kind = "explicit") THEN op.items[other]
                                  ELSE <<>>
    <2>1. CASE op.explicit = (kind = "explicit")
      BY <2>1 DEF Targets!SetExplicit
    <2>2. CASE op.explicit # (kind = "explicit")
      <3>1. base = [explicit |-> (kind = "explicit"), items |-> Targets!NoItems]
        BY <2>2 DEF Targets!SetExplicit
      <3> HIDE DEF base
      <3> QED BY <2>2, <3>1 DEF OpsOf, Targets!NoItems
    <2> QED BY <2>1, <2>2
  <1> HIDE DEF unique, base
  <1>5. base.items \in [Targets!Kinds -> Seq(S)] /\ base = [explicit |-> base.explicit,
         items |-> base.items]
    BY <1>4 DEF OpsOf
  <1>6. Targets!SetItems(op, items, kind) =
            [explicit |-> base.explicit, items |-> [base.items EXCEPT ![kind] = unique]]
    BY <1>1, <1>5
  <1> QED BY <1>2, <1>3, <1>4, <1>5, <1>6 DEF OpsOf

\* ReplaceOperations refuses, or sets the list of the kind to one of the items it had and of the
\* new ones.
LEMMA OperationsReplaced ==
    ASSUME NEW S, NEW op \in OpsOf(S), NEW kind \in Targets!Kinds, NEW index \in Nat, NEW n \in Nat,
           NEW newItems \in Seq(S),
           Targets!ReplaceOperations(op, kind, index, n, newItems) # Targets!NoListOp
    PROVE  LET part == SubSeq(op.items[kind], 1, index) \o newItems
                           \o SubSeq(op.items[kind], index + n + 1, Len(op.items[kind]))
           IN  /\ part \in Seq(S) /\ index + n <= Len(op.items[kind])
               /\ Targets!ReplaceOperations(op, kind, index, n, newItems) =
                      Targets!SetItems(op, part, kind)
  <1> DEFINE items == op.items[kind]
  <1>1. items \in Seq(S) /\ Len(items) \in Nat
    BY DEF OpsOf
  <1>2. /\ index + n <= Len(items)
        /\ Targets!ReplaceOperations(op, kind, index, n, newItems) =
               Targets!SetItems(op, SubSeq(items, 1, index) \o newItems
                                        \o SubSeq(items, index + n + 1, Len(items)), kind)
    <2>1. ~(index + n > Len(items))
      BY DEF Targets!ReplaceOperations
    <2> QED BY <1>1, <2>1 DEF Targets!ReplaceOperations
  <1>3. SubSeq(items, 1, index) \in Seq(S) /\ SubSeq(items, index + n + 1, Len(items)) \in Seq(S)
    <2> HIDE DEF items
    <2>1. /\ 1 \in 1 .. Len(items) + 1 /\ index \in 0 .. Len(items)
          /\ index + n + 1 \in 1 .. Len(items) + 1 /\ Len(items) \in 0 .. Len(items)
      BY <1>1, <1>2
    <2> QED BY <1>1, <2>1, PartTyped
  <1> HIDE DEF items
  <1>4. SubSeq(items, 1, index) \o newItems \o SubSeq(items, index + n + 1, Len(items)) \in Seq(S)
    BY <1>1, <1>3
  <1> QED BY <1>2, <1>4 DEF items

\* ComposeOperations sets the list of the kind.
LEMMA OperationsComposed ==
    ASSUME NEW S, NEW op \in OpsOf(S), NEW stronger \in OpsOf(S), NEW kind \in Targets!Kinds,
           Targets!NoItem \notin S
    PROVE  \E items \in Seq(S) :
              Targets!ComposeOperations(op, stronger, kind) = Targets!SetItems(op, items, kind)
  <1> DEFINE items == stronger.items[kind]
             own == op.items[kind]
             added == Targets!AddKeys(own, items)
             composed == CASE kind = "explicit" -> items
                           [] kind = "ordered" -> Targets!ReorderKeys(added, items)
                           [] kind = "prepended" -> Targets!PrependKeys(own, items)
                           [] kind = "appended" -> Targets!AppendKeys(own, items)
                           [] OTHER -> added
  <1>1. Targets!ComposeOperations(op, stronger, kind) = Targets!SetItems(op, composed, kind)
    BY DEF Targets!ComposeOperations
  <1>2. items \in Seq(S) /\ own \in Seq(S)
    BY DEF OpsOf
  <1>3. /\ kind = "explicit" => composed = items
        /\ kind = "ordered" => composed = Targets!ReorderKeys(added, items)
        /\ kind = "prepended" => composed = Targets!PrependKeys(own, items)
        /\ kind = "appended" => composed = Targets!AppendKeys(own, items)
        /\ kind \in {"added", "deleted"} => composed = added
    OBVIOUS
  <1> HIDE DEF items, own, composed
  <1>4. added \in Seq(S)
    BY <1>2, KeysAdded
  <1>5. /\ Targets!ReorderKeys(added, items) \in Seq(S) /\ Targets!PrependKeys(own,
         items) \in Seq(S)
        /\ Targets!AppendKeys(own, items) \in Seq(S)
    BY <1>2, <1>4, ReorderKeysTyped, PrependKeysTyped, AppendKeysTyped
  <1>6. composed \in Seq(S)
    <2> HIDE DEF added
    <2> QED BY <1>2, <1>3, <1>4, <1>5 DEF Targets!Kinds
  <1> QED BY <1>1, <1>6

\* ModifyOperations maps every list and keeps no item twice.
MapsInto(cb, op, S) == \A kind \in Targets!Kinds : \A x \in Targets!ToSet(op.items[kind]) :
    cb[x] \in S \cup {Targets!NoItem}
ModifiedFrom(new, op, cb, S) ==
    /\ new \in OpsOf(S) /\ new.explicit = op.explicit
    /\ \A kind \in Targets!Kinds :
          /\ Targets!IsInjective(new.items[kind])
          /\ Targets!ToSet(new.items[kind]) =
                 {cb[x] : x \in Targets!ToSet(op.items[kind])} \ {Targets!NoItem}

LEMMA OperationsModified ==
    ASSUME NEW S, NEW op \in OpsOf(S), NEW cb, MapsInto(cb, op, S)
    PROVE  ModifiedFrom(Targets!ModifyOperations(op, cb), op, cb, S)
  <1> DEFINE new == [kind \in Targets!Kinds |->
                        Targets!MakeUnique(Targets!Mapped(op.items[kind], cb))]
  <1>1. op.explicit \in BOOLEAN /\ \A kind \in Targets!Kinds : op.items[kind] \in Seq(S)
    BY DEF OpsOf
  <1>2. ASSUME NEW kind \in Targets!Kinds
        PROVE  /\ new[kind] \in Seq(S) /\ Targets!IsInjective(new[kind])
               /\ Targets!ToSet(new[kind]) =
                      {cb[x] : x \in Targets!ToSet(op.items[kind])} \ {Targets!NoItem}
    <2> DEFINE mapped == Targets!Mapped(op.items[kind], cb)
    <2>1. /\ mapped \in Seq(S)
          /\ Targets!ToSet(mapped) =
                 {cb[x] : x \in Targets!ToSet(op.items[kind])} \ {Targets!NoItem}
      BY <1>1, MappedIs DEF MapsInto
    <2>2. new[kind] = Targets!MakeUnique(mapped)
      OBVIOUS
    <2> HIDE DEF mapped, new
    <2>3. /\ new[kind] \in Seq(S) /\ Targets!IsInjective(new[kind])
          /\ Targets!ToSet(new[kind]) = Targets!ToSet(mapped)
      BY <2>1, <2>2, UniqueMade
    <2> QED BY <2>1, <2>3
  <1>3. new \in [Targets!Kinds -> Seq(S)]
    BY <1>2
  <1>4. Targets!ModifyOperations(op, cb) = [op EXCEPT !.items = new]
    BY DEF Targets!ModifyOperations
  <1> HIDE DEF new
  <1>5. Targets!ModifyOperations(op, cb) = [explicit |-> op.explicit, items |-> new]
    BY <1>4 DEF OpsOf
  <1> QED BY <1>1, <1>2, <1>3, <1>5 DEF OpsOf, ModifiedFrom

\* A list that the validation lets through has no item twice if the old one has not.
LEMMA Validated ==
    ASSUME NEW S, NEW old \in Seq(S), NEW new \in Seq(S), Targets!ValidateEdit(old, new),
           Targets!IsInjective(old)
    PROVE  Targets!IsInjective(new)
  <1>1. ASSUME NEW i \in DOMAIN new, NEW j \in 1 .. i - 1, new[j] = new[i]
        PROVE  FALSE
    <2>1. i <= Len(old) /\ \A k \in 1 .. i : new[k] = old[k]
      BY <1>1 DEF Targets!ValidateEdit
    <2>2. i \in 1 .. i /\ j \in 1 .. i /\ i \in DOMAIN old /\ j \in DOMAIN old /\ i # j
      BY <2>1
    <2>3. old[i] = old[j]
      BY <1>1, <2>1, <2>2
    <2> QED BY <2>2, <2>3 DEF Targets!IsInjective
  <1>2. ASSUME NEW i \in DOMAIN new, NEW j \in DOMAIN new, new[i] = new[j]
        PROVE  i = j
    <2>1. i \in Int /\ j \in Int /\ i >= 1 /\ j >= 1
      OBVIOUS
    <2>2. ~(i < j) /\ ~(j < i)
      BY <1>1, <1>2, <2>1
    <2> QED BY <2>1, <2>2
  <1> QED BY <1>2 DEF Targets!IsInjective

-----------------------------------------------------------------------------
(* The specs of targets (ListEditors)                                      *)

-----------------------------------------------------------------------------
NamesIn(op, kind) == Targets!ToSet(op.items[kind])

\* An explicit op has no other list, one that is not has no explicit list.
Modal(op) == \A kind \in Targets!Kinds : op.explicit # (kind = "explicit") => op.items[kind] = <<>>

\* No target is in two lists of additions.
KindsApart(op) == \A k, l \in Targets!Additions : k # l => NamesIn(op, k) \cap NamesIn(op, l) = {}

Singly(op) == \A kind \in Targets!Kinds : Targets!IsInjective(op.items[kind])

LEMMA ListedIs ==
    ASSUME NEW op
    PROVE  Targets!Listed(op) = NamesIn(op, "explicit") \cup NamesIn(op, "added")
                                    \cup NamesIn(op, "prepended") \cup NamesIn(op, "appended")
  BY DEF Targets!Listed, Targets!Additions, NamesIn

\* _OnEditShared, of a list that comes after another.
Exchanged(known, old, new) == (known \ (old \ new)) \cup (new \ old)

LEMMA ExchangedInTurn ==
    ASSUME NEW oe, NEW oa, NEW op, NEW oq, NEW ne, NEW na, NEW np, NEW nq,
           oe \cap oa = {}, oe \cap op = {}, oe \cap oq = {},
           oa \cap op = {}, oa \cap oq = {}, op \cap oq = {},
           ne \cap oa = {}, ne \cap op = {}, ne \cap oq = {},
           na \cap op = {}, na \cap oq = {}, np \cap oq = {}
    PROVE  Exchanged(Exchanged(Exchanged(Exchanged(oe \cup oa \cup op \cup oq,
               oe, ne), oa, na), op, np), oq, nq) = ne \cup na \cup np \cup nq
  <1>1. Exchanged(oe \cup oa \cup op \cup oq, oe, ne) = ne \cup oa \cup op \cup oq
    BY DEF Exchanged
  <1>2. Exchanged(ne \cup oa \cup op \cup oq, oa, na) = ne \cup na \cup op \cup oq
    BY DEF Exchanged
  <1>3. Exchanged(ne \cup na \cup op \cup oq, op, np) = ne \cup na \cup np \cup oq
    BY DEF Exchanged
  <1>4. Exchanged(ne \cup na \cup np \cup oq, oq, nq) = ne \cup na \cup np \cup nq
    BY DEF Exchanged
  <1> QED BY <1>1, <1>2, <1>3, <1>4

\* The specs that were those of the old targets are those of the new ones when the kinds have
\* been told, if no list takes a target that a later one still holds.
LEMMA ToldRight ==
    ASSUME NEW S, NEW old \in OpsOf(S), NEW new \in OpsOf(S), NEW changed,
           \A kind \in ({"explicit"} \cup Targets!Additions) \ changed : NamesIn(old,
                  kind) = NamesIn(new, kind),
           KindsApart(old), \A kind \in Targets!Additions :
               NamesIn(old, "explicit") \cap NamesIn(old, kind) = {}
               /\ NamesIn(new, "explicit") \cap NamesIn(old, kind) = {},
           NamesIn(new, "added") \cap NamesIn(old, "prepended") = {},
           NamesIn(new, "added") \cap NamesIn(old, "appended") = {},
           NamesIn(new, "prepended") \cap NamesIn(old, "appended") = {}
    PROVE  Targets!Told(Targets!Listed(old), old, new, changed) = Targets!Listed(new)
  <1> DEFINE X == SUBSET S
             b == Targets!Listed(old)
             s == Targets!OpTypes
             Step(known, kind) == ToldOne(known, kind, old, new, changed)
  <1>1. \A kind \in Targets!Kinds : NamesIn(old, kind) \subseteq S /\ NamesIn(new, kind) \subseteq S
    BY Listing DEF NamesIn, OpsOf
  <1>2. Len(s) = 6 /\ s[1] = "explicit" /\ s[2] = "added" /\ s[3] = "deleted" /\ s[4] = "ordered"
        /\ s[5] = "prepended" /\ s[6] = "appended"
    BY DEF Targets!OpTypes
  <1>3. b \in X
    BY <1>1, ListedIs DEF Targets!Kinds
  <1>4. ASSUME NEW known, NEW kind \in Targets!Kinds
        PROVE  Step(known, kind) = IF kind \in changed \ {"ordered", "deleted"}
                                   THEN Exchanged(known, NamesIn(old, kind), NamesIn(new, kind))
                                   ELSE known
    BY DEF ToldOne, Targets!OnEdit, Exchanged, NamesIn
  <1>5. \A known \in X, kind \in Targets!Kinds : Step(known, kind) \in X
    <2> HIDE DEF Step
    <2> QED BY <1>1, <1>4 DEF Exchanged
  <1>6. PICK c :
           /\ c \in [0 .. 6 -> X]
           /\ c[0] = b /\ Targets!Told(b, old, new, changed) = c[6]
           /\ \A k \in 1 .. 6 : c[k] = Step(c[k - 1], s[k])
    <2>1. ToldClosed(X, old, new, changed)
      BY <1>5 DEF ToldClosed
    <2> HIDE DEF X, b
    <2>2. PICK c : ToldThrough(c, X, b, old, new, changed)
      BY <1>3, <2>1, ToldFold
    <2> QED BY <1>2, <2>2 DEF ToldThrough
  <1> HIDE DEF X, b, s, Step
  <1>8. ASSUME NEW known, NEW kind \in {"explicit"} \cup Targets!Additions
        PROVE  Step(known, kind) = Exchanged(known, NamesIn(old, kind), NamesIn(new, kind))
    <2>1. CASE kind \in changed
      BY <1>4, <2>1 DEF Targets!Additions, Targets!Kinds
    <2>2. CASE kind \notin changed
      <3>1. NamesIn(old, kind) = NamesIn(new, kind) /\ Step(known, kind) = known
        BY <1>4, <2>2 DEF Targets!Additions, Targets!Kinds
      <3> QED BY <3>1 DEF Exchanged
    <2> QED BY <2>1, <2>2
  <1>9. \A known : Step(known, "deleted") = known /\ Step(known, "ordered") = known
    BY <1>4 DEF Targets!Kinds
  <1>10. /\ c[1] = Exchanged(b, NamesIn(old, "explicit"), NamesIn(new, "explicit"))
         /\ c[2] = Exchanged(c[1], NamesIn(old, "added"), NamesIn(new, "added"))
         /\ c[5] = Exchanged(c[2], NamesIn(old, "prepended"), NamesIn(new, "prepended"))
         /\ c[6] = Exchanged(c[5], NamesIn(old, "appended"), NamesIn(new, "appended"))
    <2>1. /\ c[1] = Step(b, "explicit") /\ c[2] = Step(c[1], "added") /\ c[3] = Step(c[2],
           "deleted")
          /\ c[4] = Step(c[3], "ordered") /\ c[5] = Step(c[4], "prepended")
          /\ c[6] = Step(c[5], "appended")
      <3>1. c[1] = Step(c[1 - 1], s[1]) /\ c[2] = Step(c[2 - 1], s[2]) /\ c[3] = Step(c[3 - 1],
             s[3])
            /\ c[4] = Step(c[4 - 1], s[4]) /\ c[5] = Step(c[5 - 1],
                   s[5]) /\ c[6] = Step(c[6 - 1], s[6])
        BY <1>6
      <3> QED BY <1>2, <1>6, <3>1
    <2> QED BY <1>8, <1>9, <2>1 DEF Targets!Additions
  <1>11. c[6] = NamesIn(new, "explicit") \cup NamesIn(new, "added")
                    \cup NamesIn(new, "prepended") \cup NamesIn(new, "appended")
    <2>1. b = NamesIn(old, "explicit") \cup NamesIn(old, "added")
                  \cup NamesIn(old, "prepended") \cup NamesIn(old, "appended")
      BY ListedIs DEF b
    <2>2. /\ NamesIn(old, "added") \cap NamesIn(old, "prepended") = {}
          /\ NamesIn(old, "added") \cap NamesIn(old, "appended") = {}
          /\ NamesIn(old, "prepended") \cap NamesIn(old, "appended") = {}
      BY DEF KindsApart, Targets!Additions
    <2>3. \A kind \in {"added", "prepended", "appended"} :
             /\ NamesIn(old, "explicit") \cap NamesIn(old, kind) = {}
             /\ NamesIn(new, "explicit") \cap NamesIn(old, kind) = {}
      BY DEF Targets!Additions
    <2> QED BY <1>10, <2>1, <2>2, <2>3, ExchangedInTurn
  <1> QED BY <1>2, <1>6, <1>11, ListedIs DEF b

LEMMA ToldTyped ==
    ASSUME NEW S, NEW old \in OpsOf(S), NEW new \in OpsOf(S), NEW changed, NEW known \in SUBSET S
    PROVE  Targets!Told(known, old, new, changed) \in SUBSET S
  <1> DEFINE X == SUBSET S
  <1>1. \A kind \in Targets!Kinds :
           Targets!ToSet(old.items[kind]) \subseteq S /\ Targets!ToSet(new.items[kind]) \subseteq S
    BY Listing DEF OpsOf
  <1>2. ToldClosed(X, old, new, changed) /\ known \in X
    BY <1>1 DEF ToldClosed, ToldOne, Targets!OnEdit
  <1> HIDE DEF X
  <1>3. PICK c : ToldThrough(c, X, known, old, new, changed)
    BY <1>2, ToldFold
  <1>4. Len(Targets!OpTypes) = 6
    BY DEF Targets!OpTypes
  <1>5. Targets!Told(known, old, new, changed) \in X
    BY <1>3, <1>4 DEF ToldThrough
  <1> QED BY <1>5 DEF X

\* An edit that is not loose.
LEMMA NotLoose ==
    ASSUME NEW old, NEW new, NEW only, Targets!LooseEdit(old, new, only) = {}
    PROVE  /\ KindsApart(new)
           /\ only # Targets!Kinds => (old.explicit = new.explicit \/ Targets!Listed(old) = {})
           /\ only = Targets!Kinds => \A k, l \in Targets!Additions :
                  k # l => NamesIn(old, k) \cap NamesIn(new, l) = {}
  <1> DEFINE Shared == \E k, l \in Targets!Additions :
                           k # l /\ Targets!ToSet(new.items[k]) \cap Targets!ToSet(new.items[l]) # {}
             Switching == only # Targets!Kinds /\ old.explicit # new.explicit
                              /\ Targets!Listed(old) # {}
             Moving == only = Targets!Kinds /\ \E k, l \in Targets!Additions :
                           k # l /\ Targets!ToSet(old.items[k]) \cap Targets!ToSet(new.items[l]) # {}
             Is(which) == CASE which = "shared" -> Shared
                            [] which = "switching" -> Switching
                            [] which = "moving" -> Moving
  <1>1. Targets!LooseEdit(old, new, only) = {which \in {"shared", "switching",
         "moving"} : Is(which)}
    BY DEF Targets!LooseEdit
  <1>2. (Is("shared") <=> Shared) /\ (Is("switching") <=> Switching) /\ (Is("moving") <=> Moving)
    <2> HIDE DEF Shared, Switching, Moving
    <2> QED OBVIOUS
  <1>3. ~Is("shared") /\ ~Is("switching") /\ ~Is("moving")
    <2> HIDE DEF Is
    <2> QED BY <1>1
  <1> HIDE DEF Is
  <1>4. ~Shared /\ ~Switching /\ ~Moving
    BY <1>2, <1>3
  <1> QED BY <1>4 DEF KindsApart, NamesIn

\* The record a call threads through its edits: typed, and while nothing loose was done the
\* copy is the field and the specs of targets are those of what it lists.
Loosenesses == {"shared", "switching", "moving"}
Records == [op : OpsOf(Items), loose : SUBSET Loosenesses, field : OpsOf(Items),
            targets : SUBSET Items]
Kept(r) == r.loose = {} =>
    /\ r.op = r.field /\ Modal(r.op) /\ KindsApart(r.op) /\ Singly(r.op)
    /\ r.targets = Targets!Listed(r.op)
Sound == {r \in Records : Kept(r)}

\* An edit of the list of a kind, and one of all lists.
ChangesOne(old, new, kind) ==
    /\ new.explicit = (kind = "explicit")
    /\ \A other \in Targets!Kinds \ {kind} :
          new.items[other] = IF old.explicit = (kind = "explicit") THEN old.items[other] ELSE <<>>
ChangesAll(old, new) ==
    /\ Modal(old) => Modal(new)
    /\ new.explicit => old.explicit \/ \A kind \in Targets!Kinds : new.items[kind] = <<>>

LEMMA UpdatedIs ==
    ASSUME NEW r \in Records, NEW new \in OpsOf(Items), NEW only,
           Targets!UpdateListOp(r, new, only) # r
    PROVE  LET changed == {kind \in only : new.items[kind] # r.op.items[kind]}
           IN  /\ \A kind \in changed : Targets!ValidateEdit(r.op.items[kind], new.items[kind])
               /\ Targets!UpdateListOp(r, new, only) =
                      [op |-> new, loose |-> r.loose \cup Targets!LooseEdit(r.op, new, only),
                       field |-> new, targets |-> Targets!Told(r.targets, r.op, new, changed)]
  <1>1. (IF Targets!HasKeys(new) THEN new ELSE Targets!NewListOp) = new
    BY KeysOrNew
  <1> QED BY <1>1 DEF Targets!UpdateListOp

\* The lists after an edit of one kind or of all.
LEMMA ChangedLists ==
    ASSUME NEW old \in OpsOf(Items), NEW new \in OpsOf(Items), NEW kind \in Targets!Kinds,
           ChangesOne(old, new, kind), Modal(old)
    PROVE  Modal(new)
  <1>1. old.explicit \in BOOLEAN /\ new.explicit \in BOOLEAN
    BY DEF OpsOf
  <1> QED BY <1>1 DEF ChangesOne, Modal

LEMMA ChangedSingly ==
    ASSUME NEW old \in OpsOf(Items), NEW new \in OpsOf(Items), Singly(old),
           \A kind \in Targets!Kinds : \/ Targets!ValidateEdit(old.items[kind], new.items[kind])
                                       \/ new.items[kind] = old.items[kind]
                                       \/ new.items[kind] = <<>>
    PROVE  Singly(new)
  <1>1. ASSUME NEW kind \in Targets!Kinds
        PROVE  Targets!IsInjective(new.items[kind])
    <2>1. old.items[kind] \in Seq(Items) /\ new.items[kind] \in Seq(Items)
          /\ Targets!IsInjective(old.items[kind])
      BY DEF OpsOf, Singly
    <2> QED BY <2>1, Validated, NoneOf
  <1> QED BY <1>1 DEF Singly

\* What is listed after an edit that is not loose.
LEMMA ChangedOneTold ==
    ASSUME NEW old \in OpsOf(Items), NEW new \in OpsOf(Items), NEW kind \in Targets!Kinds,
           ChangesOne(old, new, kind), Modal(old), KindsApart(old), KindsApart(new),
           old.explicit = new.explicit \/ Targets!Listed(old) = {}
    PROVE  Targets!Told(Targets!Listed(old), old, new,
               {k \in {kind} : new.items[k] # old.items[k]}) = Targets!Listed(new)
  <1> DEFINE changed == {k \in {kind} : new.items[k] # old.items[k]}
             K == {"explicit"} \cup Targets!Additions
  <1>0. K \subseteq Targets!Kinds /\ old.explicit \in BOOLEAN /\ new.explicit \in BOOLEAN
    BY DEF OpsOf, Targets!Kinds, Targets!Additions
  <1>1. CASE old.explicit = new.explicit
    <2>1. \A k \in Targets!Kinds \ {kind} : NamesIn(new, k) = NamesIn(old, k)
      BY <1>1 DEF ChangesOne, NamesIn
    <2>2. \A k \in K \ changed : NamesIn(old, k) = NamesIn(new, k)
      BY <1>0, <2>1 DEF NamesIn
    <2>3. ASSUME NEW k \in Targets!Additions
          PROVE  /\ NamesIn(old, "explicit") \cap NamesIn(old, k) = {}
                 /\ NamesIn(new, "explicit") \cap NamesIn(old, k) = {}
      <3>0. k \in Targets!Kinds /\ k # "explicit" /\ "explicit" \in Targets!Kinds
        BY DEF Targets!Additions, Targets!Kinds
      <3>1. CASE old.explicit
        <4>1. NamesIn(old, k) = {}
          BY <3>0, <3>1, NoneOf DEF Modal, NamesIn
        <4> QED BY <4>1
      <3>2. CASE ~old.explicit
        <4>1. NamesIn(old, "explicit") = {} /\ NamesIn(new, "explicit") = {}
          <5>1. old.items["explicit"] = <<>> /\ new.items["explicit"] = <<>>
            BY <1>0, <1>1, <3>0, <3>2, ChangedLists DEF Modal
          <5> QED BY <5>1, NoneOf DEF NamesIn
        <4> QED BY <4>1
      <3> QED BY <3>1, <3>2
    <2>4. ASSUME NEW k \in Targets!Additions, NEW l \in Targets!Additions, k # l
          PROVE  NamesIn(new, k) \cap NamesIn(old, l) = {}
      <3>1. k \in Targets!Kinds /\ l \in Targets!Kinds
        BY DEF Targets!Additions, Targets!Kinds
      <3>2. CASE l # kind
        BY <2>1, <2>4, <3>1, <3>2 DEF KindsApart
      <3>3. CASE l = kind
        BY <2>1, <2>4, <3>1, <3>3 DEF KindsApart
      <3> QED BY <3>2, <3>3
    <2> HIDE DEF changed
    <2> QED BY <2>2, <2>3, <2>4, ToldRight DEF Targets!Additions, changed
  <1>2. CASE old.explicit # new.explicit
    <2>1. \A k \in K : NamesIn(old, k) = {}
      BY <1>2, ListedIs DEF Targets!Additions
    <2>2. \A k \in Targets!Kinds \ {kind} : NamesIn(new, k) = {}
      BY <1>2, NoneOf DEF ChangesOne, NamesIn
    <2>3. \A k \in K \ changed : NamesIn(old, k) = NamesIn(new, k)
      <3> SUFFICES ASSUME NEW k \in K \ changed
                   PROVE  NamesIn(old, k) = NamesIn(new, k)
        OBVIOUS
      <3>1. CASE k = kind
        BY <3>1 DEF NamesIn
      <3>2. CASE k # kind
        BY <1>0, <2>1, <2>2, <3>2
      <3> QED BY <3>1, <3>2
    <2> HIDE DEF changed
    <2> QED BY <2>1, <2>3, ToldRight DEF Targets!Additions, changed
  <1> QED BY <1>1, <1>2

LEMMA ChangedAllTold ==
    ASSUME NEW old \in OpsOf(Items), NEW new \in OpsOf(Items),
           ChangesAll(old, new), Modal(old), KindsApart(old), KindsApart(new),
           \A k, l \in Targets!Additions : k # l => NamesIn(old, k) \cap NamesIn(new, l) = {}
    PROVE  Targets!Told(Targets!Listed(old), old, new,
               {k \in Targets!Kinds : new.items[k] # old.items[k]}) = Targets!Listed(new)
  <1> DEFINE changed == {k \in Targets!Kinds : new.items[k] # old.items[k]}
             K == {"explicit"} \cup Targets!Additions
  <1>0. K \subseteq Targets!Kinds /\ old.explicit \in BOOLEAN /\ new.explicit \in BOOLEAN
    BY DEF OpsOf, Targets!Kinds, Targets!Additions
  <1>1. \A k \in K \ changed : NamesIn(old, k) = NamesIn(new, k)
    BY <1>0 DEF NamesIn
  <1>2. ASSUME NEW k \in Targets!Additions
        PROVE  /\ NamesIn(old, "explicit") \cap NamesIn(old, k) = {}
               /\ NamesIn(new, "explicit") \cap NamesIn(old, k) = {}
    <2>0. k \in Targets!Kinds /\ k # "explicit" /\ "explicit" \in Targets!Kinds
      BY DEF Targets!Additions, Targets!Kinds
    <2>1. CASE old.explicit
      <3>1. NamesIn(old, k) = {}
        BY <2>0, <2>1, NoneOf DEF Modal, NamesIn
      <3> QED BY <3>1
    <2>2. CASE ~old.explicit
      <3>1. old.items["explicit"] = <<>>
        BY <1>0, <2>0, <2>2 DEF Modal
      <3>2. new.items["explicit"] = <<>>
        <4>1. CASE new.explicit
          BY <2>0, <2>2, <4>1 DEF ChangesAll
        <4>2. CASE ~new.explicit
          BY <1>0, <2>0, <4>2 DEF ChangesAll, Modal
        <4> QED BY <4>1, <4>2
      <3>3. NamesIn(old, "explicit") = {} /\ NamesIn(new, "explicit") = {}
        BY <3>1, <3>2, NoneOf DEF NamesIn
      <3> QED BY <3>3
    <2> QED BY <2>1, <2>2
  <1>3. /\ NamesIn(new, "added") \cap NamesIn(old, "prepended") = {}
        /\ NamesIn(new, "added") \cap NamesIn(old, "appended") = {}
        /\ NamesIn(new, "prepended") \cap NamesIn(old, "appended") = {}
    <2>1. \A k, l \in Targets!Additions : k # l => NamesIn(new, k) \cap NamesIn(old, l) = {}
      OBVIOUS
    <2> QED BY <2>1 DEF Targets!Additions
  <1> HIDE DEF changed
  <1> QED BY <1>1, <1>2, <1>3, ToldRight DEF changed

\* _UpdateListOp keeps the specs of targets in step with the field.
LEMMA UpdatedSound ==
    ASSUME NEW r \in Sound, NEW new \in OpsOf(Items), NEW only,
           \/ only = Targets!Kinds /\ ChangesAll(r.op, new)
           \/ \E kind \in Targets!Kinds : only = {kind} /\ ChangesOne(r.op, new, kind)
    PROVE  Targets!UpdateListOp(r, new, only) \in Sound
  <1> DEFINE after == Targets!UpdateListOp(r, new, only)
             changed == {kind \in only : new.items[kind] # r.op.items[kind]}
             loose == Targets!LooseEdit(r.op, new, only)
             told == Targets!Told(r.targets, r.op, new, changed)
  <1>0. r \in Records /\ Kept(r) /\ r.op \in OpsOf(Items) /\ r.targets \in SUBSET Items
    BY DEF Sound, Records
  <1> SUFFICES ASSUME after # r
               PROVE  after \in Sound
    OBVIOUS
  <1>1. /\ \A kind \in changed : Targets!ValidateEdit(r.op.items[kind], new.items[kind])
        /\ after = [op |-> new, loose |-> r.loose \cup loose, field |-> new, targets |-> told]
    BY <1>0, UpdatedIs
  <1>2. told \in SUBSET Items
    BY <1>0, ToldTyped
  <1>3. loose \subseteq Loosenesses
    BY DEF Targets!LooseEdit, Loosenesses
  <1> HIDE DEF after, loose, told
  <1>4. after \in Records
    BY <1>0, <1>1, <1>2, <1>3 DEF Records
  <1>5. ASSUME r.loose = {}, loose = {}
        PROVE  Modal(new) /\ KindsApart(new) /\ Singly(new) /\ told = Targets!Listed(new)
    <2>1. /\ Modal(r.op) /\ KindsApart(r.op) /\ Singly(r.op) /\ r.targets = Targets!Listed(r.op)
      BY <1>0, <1>5 DEF Kept
    <2>2. /\ KindsApart(new)
          /\ only # Targets!Kinds => (r.op.explicit = new.explicit \/ Targets!Listed(r.op) = {})
          /\ only = Targets!Kinds => \A k, l \in Targets!Additions :
                 k # l => NamesIn(r.op, k) \cap NamesIn(new, l) = {}
      BY <1>5, NotLoose DEF loose
    <2>3. CASE only = Targets!Kinds /\ ChangesAll(r.op, new)
      <3>1. Modal(new)
        BY <2>1, <2>3 DEF ChangesAll
      <3>2. \A kind \in Targets!Kinds : \/ Targets!ValidateEdit(r.op.items[kind], new.items[kind])
                                        \/ new.items[kind] = r.op.items[kind]
        BY <1>1, <2>3
      <3>3. Singly(new)
        BY <1>0, <2>1, <3>2, ChangedSingly
      <3>4. told = Targets!Listed(new)
        BY <1>0, <2>1, <2>2, <2>3, ChangedAllTold DEF told
      <3> QED BY <2>2, <3>1, <3>3, <3>4
    <2>4. ASSUME NEW kind \in Targets!Kinds, only = {kind}, ChangesOne(r.op, new, kind)
          PROVE  Modal(new) /\ Singly(new) /\ told = Targets!Listed(new)
      <3>1. Modal(new)
        BY <1>0, <2>1, <2>4, ChangedLists
      <3>2. \A other \in Targets!Kinds :
                \/ Targets!ValidateEdit(r.op.items[other], new.items[other])
                \/ new.items[other] = r.op.items[other]
                \/ new.items[other] = <<>>
        BY <1>1, <2>4 DEF ChangesOne
      <3>3. Singly(new)
        BY <1>0, <2>1, <3>2, ChangedSingly
      <3>4. only # Targets!Kinds
        <4>1. "added" \in Targets!Kinds /\ "deleted" \in Targets!Kinds /\ "added" # "deleted"
          BY DEF Targets!Kinds
        <4> QED BY <2>4, <4>1
      <3>5. told = Targets!Listed(new)
        BY <1>0, <2>1, <2>2, <2>4, <3>4, ChangedOneTold DEF told
      <3> QED BY <3>1, <3>3, <3>5
    <2> QED BY <2>2, <2>3, <2>4
  <1>6. Kept(after)
    BY <1>1, <1>5 DEF Kept
  <1> QED BY <1>4, <1>6 DEF Sound

LEMMA SetItemsChanges ==
    ASSUME NEW op \in OpsOf(Items), NEW items \in Seq(Items), NEW kind \in Targets!Kinds
    PROVE  /\ Targets!SetItems(op, items, kind) \in OpsOf(Items)
           /\ ChangesOne(op, Targets!SetItems(op, items, kind), kind)
  BY ItemsSet DEF ChangesOne

\* The edits of one list.
LEMMA EditSound ==
    ASSUME NEW r \in Sound, NEW kind \in Targets!Kinds, NEW index \in Nat, NEW n \in Nat,
           NEW elems \in Seq(Items)
    PROVE  Targets!Edit(r, kind, index, n, elems) \in Sound
  <1> DEFINE new == Targets!ReplaceOperations(r.op, kind, index, n, elems)
  <1>1. r.op \in OpsOf(Items)
    BY DEF Sound, Records
  <1>2. CASE new = Targets!NoListOp
    BY <1>2 DEF Targets!Edit
  <1>3. CASE new # Targets!NoListOp
    <2>1. new \in OpsOf(Items) /\ ChangesOne(r.op, new, kind)
      <3> DEFINE part == SubSeq(r.op.items[kind], 1, index) \o elems
                             \o SubSeq(r.op.items[kind], index + n + 1, Len(r.op.items[kind]))
      <3>1. part \in Seq(Items) /\ new = Targets!SetItems(r.op, part, kind)
        BY <1>1, <1>3, OperationsReplaced
      <3> HIDE DEF part, new
      <3> QED BY <1>1, <3>1, SetItemsChanges
    <2>2. Targets!UpdateListOp(r, new, {kind}) \in Sound
      <3> HIDE DEF new
      <3> QED BY <2>1, UpdatedSound
    <2>3. Targets!Edit(r, kind, index, n, elems) \in {r, Targets!UpdateListOp(r, new, {kind})}
      BY DEF Targets!Edit
    <2> HIDE DEF new
    <2> QED BY <2>2, <2>3
  <1> QED BY <1>2, <1>3

LEMMA FindIs ==
    ASSUME NEW r \in Sound, NEW kind \in Targets!Kinds, NEW item
    PROVE  /\ r.op.items[kind] \in Seq(Items)
           /\ Targets!Size(r, kind) \in Nat
           /\ Targets!Find(r, kind, item) \in 0 .. Targets!Size(r, kind)
  <1>1. r.op.items[kind] \in Seq(Items)
    BY DEF Sound, Records, OpsOf
  <1>2. Targets!Find(r, kind, item) = FirstPlace(r.op.items[kind], item)
    BY DEF Targets!Find, Targets!SelectInSeq, FirstPlace
  <1> QED BY <1>1, <1>2, PlaceIs DEF Targets!Size

LEMMA RemoveFromSound ==
    ASSUME NEW r \in Sound, NEW kind \in Targets!Kinds, NEW item
    PROVE  Targets!RemoveFrom(r, kind, item) \in Sound
  <1> DEFINE at == Targets!Find(r, kind, item)
             none == <<>>
  <1>1. Targets!RemoveFrom(r, kind, item) =
            IF at = 0 THEN r ELSE Targets!Edit(r, kind, at - 1, 1, none)
    BY DEF Targets!RemoveFrom
  <1>2. at \in Nat /\ none \in Seq(Items)
    BY FindIs
  <1> HIDE DEF at, none
  <1>3. at # 0 => at - 1 \in Nat
    BY <1>2
  <1>4. at # 0 => Targets!Edit(r, kind, at - 1, 1, none) \in Sound
    BY <1>2, <1>3, EditSound
  <1> QED BY <1>1, <1>4

LEMMA ReplaceInSound ==
    ASSUME NEW r \in Sound, NEW kind \in Targets!Kinds, NEW old, NEW new \in Items
    PROVE  Targets!ReplaceIn(r, kind, old, new) \in Sound
  <1> DEFINE at == Targets!Find(r, kind, old)
             one == <<new>>
  <1>1. Targets!ReplaceIn(r, kind, old, new) =
            IF at = 0 THEN r ELSE Targets!Edit(r, kind, at - 1, 1, one)
    BY DEF Targets!ReplaceIn
  <1>2. at \in Nat /\ one \in Seq(Items)
    BY FindIs
  <1> HIDE DEF at, one
  <1>3. at # 0 => at - 1 \in Nat
    BY <1>2
  <1>4. at # 0 => Targets!Edit(r, kind, at - 1, 1, one) \in Sound
    BY <1>2, <1>3, EditSound
  <1> QED BY <1>1, <1>4

LEMMA AddIfMissingSound ==
    ASSUME NEW r \in Sound, NEW kind \in Targets!Kinds, NEW item \in Items
    PROVE  Targets!AddIfMissing(r, kind, item) \in Sound
  <1>1. Targets!Size(r, kind) \in Nat /\ <<item>> \in Seq(Items)
    BY FindIs
  <1>2. Targets!Edit(r, kind, Targets!Size(r, kind), 0, <<item>>) \in Sound
    BY <1>1, EditSound
  <1> QED BY <1>2 DEF Targets!AddIfMissing

LEMMA PrependToSound ==
    ASSUME NEW r \in Sound, NEW kind \in Targets!Kinds, NEW item \in Items
    PROVE  Targets!PrependTo(r, kind, item) \in Sound
  <1>1. Targets!RemoveFrom(r, kind, item) \in Sound /\ <<item>> \in Seq(Items)
    BY RemoveFromSound
  <1>2. Targets!Edit(Targets!RemoveFrom(r, kind, item), kind, 0, 0, <<item>>) \in Sound
    BY <1>1, EditSound
  <1> QED BY <1>2 DEF Targets!PrependTo

LEMMA AppendToSound ==
    ASSUME NEW r \in Sound, NEW kind \in Targets!Kinds, NEW item \in Items
    PROVE  Targets!AppendTo(r, kind, item) \in Sound
  <1> DEFINE removed == Targets!RemoveFrom(r, kind, item)
  <1>1. removed \in Sound /\ <<item>> \in Seq(Items)
    BY RemoveFromSound
  <1>2. Targets!Size(removed, kind) \in Nat
    BY <1>1, FindIs
  <1>3. Targets!Edit(removed, kind, Targets!Size(removed, kind), 0, <<item>>) \in Sound
    BY <1>1, <1>2, EditSound
  <1> QED BY <1>3 DEF Targets!AppendTo

\* The edits of all lists.
LEMMA OrderedRemovals == Len(RemovalOrder) = 6
  BY DEF RemovalOrder

LEMMA RemoveFromAllSound ==
    ASSUME NEW r \in Sound, NEW kinds, NEW item
    PROVE  Targets!RemoveFromAll(r, kinds, item) \in Sound
  <1>1. RemovalClosed(Sound, item)
    BY RemoveFromSound DEF RemovalClosed
  <1>2. PICK c : RemovedThrough(c, Sound, r, kinds, item)
    BY <1>1, RemoveFromAllFold
  <1> QED BY <1>2, OrderedRemovals DEF RemovedThrough

LEMMA ReplaceInAllSound ==
    ASSUME NEW r \in Sound, NEW old, NEW new \in Items
    PROVE  Targets!ReplaceInAll(r, old, new) \in Sound
  <1>1. ReplacementClosed(Sound, old, new)
    BY ReplaceInSound DEF ReplacementClosed
  <1>2. PICK c : ReplacedThrough(c, Sound, r, old, new)
    BY <1>1, ReplaceInAllFold
  <1> QED BY <1>2, OrderedRemovals DEF ReplacedThrough

-----------------------------------------------------------------------------
\* The list op in the field is well-formed, and the specs of targets are those of what it lists.
TargetsKept ==
    /\ field \in OpsOf(Items) /\ Modal(field) /\ KindsApart(field) /\ Singly(field)
    /\ targets = Targets!Listed(field)

\* The record a call starts from.
Started(e) == [op |-> copies[e], loose |-> {}, field |-> field, targets |-> targets]

LEMMA StartedSound ==
    ASSUME TargetsKept, NEW e, copies[e] = field
    PROVE  Started(e) \in Sound
  <1>1. targets \in SUBSET Items
    <2>1. \A kind \in Targets!Kinds : NamesIn(field, kind) \subseteq Items
      BY Listing DEF TargetsKept, OpsOf, NamesIn
    <2> QED BY <2>1, ListedIs DEF TargetsKept, Targets!Kinds
  <1>2. Started(e) \in Records
    BY <1>1 DEF Started, Records, TargetsKept
  <1> QED BY <1>2 DEF Started, Sound, Kept, TargetsKept

\* The call of an editor e that left r.
Left(e, r) ==
    /\ copies[e] = field /\ r.loose \subseteq {}
    /\ field' = r.field /\ targets' = r.targets

LEMMA LeftKeeps ==
    ASSUME NEW e, NEW r \in Sound, Left(e, r)
    PROVE  TargetsKept'
  <1>1. r.loose = {}
    BY DEF Left
  <1> QED BY <1>1 DEF Left, Sound, Kept, Records, TargetsKept

\* The calls keep the record sound.
LEMMA CallsSound ==
    ASSUME NEW r \in Sound, NEW item \in Items
    PROVE  /\ Targets!Add(r, item) \in Sound
           /\ Targets!Prepend(r, item) \in Sound
           /\ Targets!AppendItem(r, item) \in Sound
           /\ Targets!Erase(r, item) \in Sound
           /\ Targets!RemoveItem(r, item) \in Sound
  <1>1. {"explicit", "added", "prepended", "appended", "deleted"} \subseteq Targets!Kinds
    BY DEF Targets!Kinds
  <1>2. Targets!RemoveFrom(r, "deleted", item) \in Sound
    BY <1>1, RemoveFromSound
  <1>3. Targets!Add(r, item) \in Sound
    BY <1>1, <1>2, AddIfMissingSound DEF Targets!Add
  <1>4. Targets!Prepend(r, item) \in Sound
    BY <1>1, <1>2, PrependToSound DEF Targets!Prepend
  <1>5. Targets!AppendItem(r, item) \in Sound
    BY <1>1, <1>2, AppendToSound DEF Targets!AppendItem
  <1>6. Targets!Erase(r, item) \in Sound
    BY RemoveFromAllSound DEF Targets!Erase
  <1>7. Targets!RemoveItem(r, item) \in Sound
    <2>1. Targets!RemoveFromAll(r, Targets!Additions, item) \in Sound
      BY RemoveFromAllSound
    <2> QED BY <1>1, <2>1, RemoveFromSound, AddIfMissingSound DEF Targets!RemoveItem
  <1> QED BY <1>3, <1>4, <1>5, <1>6, <1>7

LEMMA NewOpChanges ==
    ASSUME NEW old \in OpsOf(Items)
    PROVE  /\ Targets!NewListOp \in OpsOf(Items) /\ ChangesAll(old, Targets!NewListOp)
           /\ Targets!ClearAndMakeExplicit \in OpsOf(Items)
           /\ ChangesAll(old, Targets!ClearAndMakeExplicit)
  BY NewOps DEF ChangesAll, Modal

LEMMA NothingListed ==
    ASSUME NEW S, NEW seq \in Seq(S), Targets!ToSet(seq) = {}
    PROVE  seq = <<>>
  <1>1. ASSUME Len(seq) # 0
        PROVE  FALSE
    <2>1. 1 \in DOMAIN seq
      BY <1>1
    <2> QED BY <2>1 DEF Targets!ToSet
  <1> QED BY <1>1

LEMMA ModifiedChanges ==
    ASSUME NEW old \in OpsOf(Items), NEW cb \in [Items -> Items \cup {Targets!NoItem}]
    PROVE  /\ Targets!ModifyOperations(old, cb) \in OpsOf(Items)
           /\ ChangesAll(old, Targets!ModifyOperations(old, cb))
  <1> DEFINE new == Targets!ModifyOperations(old, cb)
  <1>1. MapsInto(cb, old, Items)
    BY Listing DEF OpsOf, MapsInto
  <1>2. /\ new \in OpsOf(Items) /\ new.explicit = old.explicit
        /\ \A kind \in Targets!Kinds :
              Targets!ToSet(new.items[kind]) =
                  {cb[x] : x \in Targets!ToSet(old.items[kind])} \ {Targets!NoItem}
    BY <1>1, OperationsModified, SMTT(60) DEF ModifiedFrom
  <1> HIDE DEF new
  <1>3. ASSUME NEW kind \in Targets!Kinds, old.items[kind] = <<>>
        PROVE  new.items[kind] = <<>>
    <2>1. Targets!ToSet(new.items[kind]) = {}
      BY <1>2, <1>3, NoneOf
    <2>2. new.items[kind] \in Seq(Items)
      BY <1>2 DEF OpsOf
    <2> QED BY <2>1, <2>2, NothingListed
  <1> QED BY <1>2, <1>3 DEF ChangesAll, Modal, new

LEMMA OtherChanges ==
    ASSUME NEW old \in OpsOf(Items), NEW items \in Seq(Items), NEW kind \in Targets!Additions
    PROVE  LET other == Targets!SetItems(Targets!NewListOp, items, kind)
           IN  other \in OpsOf(Items) /\ ChangesAll(old, other)
  <1> DEFINE other == Targets!SetItems(Targets!NewListOp, items, kind)
  <1>1. kind \in Targets!Kinds /\ kind # "explicit"
    BY DEF Targets!Additions, Targets!Kinds
  <1>2. other \in OpsOf(Items) /\ other.explicit = FALSE
        /\ \A k \in Targets!Kinds \ {kind} : other.items[k] = <<>>
    <2> DEFINE none == Targets!NewListOp
    <2>1. none \in OpsOf(Items) /\ ~none.explicit
          /\ \A k \in Targets!Kinds : none.items[k] = <<>>
      BY NewOps
    <2>2. other = Targets!SetItems(none, items, kind)
      OBVIOUS
    <2> HIDE DEF none, other
    <2>3. /\ other \in OpsOf(Items) /\ other.explicit = (kind = "explicit")
          /\ \A k \in Targets!Kinds \ {kind} :
                other.items[k] = IF none.explicit = (kind = "explicit") THEN none.items[k] ELSE <<>>
      BY <1>1, <2>1, <2>2, ItemsSet
    <2> QED BY <1>1, <2>1, <2>3
  <1> HIDE DEF other
  <1>3. Modal(other)
    BY <1>1, <1>2 DEF Modal
  <1> QED BY <1>2, <1>3 DEF ChangesAll, other

LEMMA WholeSound ==
    ASSUME NEW r \in Sound
    PROVE  /\ Targets!UpdateListOp(r, Targets!NewListOp, Targets!Kinds) \in Sound
           /\ Targets!UpdateListOp(r, Targets!ClearAndMakeExplicit, Targets!Kinds) \in Sound
           /\ \A kind \in Targets!Kinds, items \in Seq(Items) : Targets!SetList(r, kind,
                  items) \in Sound
           /\ \A cb \in [Items -> Items \cup {Targets!NoItem}] : Targets!ModifyItemEdits(r,
                  cb) \in Sound
  <1>1. r.op \in OpsOf(Items)
    BY DEF Sound, Records
  <1>2. /\ Targets!UpdateListOp(r, Targets!NewListOp, Targets!Kinds) \in Sound
        /\ Targets!UpdateListOp(r, Targets!ClearAndMakeExplicit, Targets!Kinds) \in Sound
    BY <1>1, NewOpChanges, UpdatedSound
  <1>3. ASSUME NEW kind \in Targets!Kinds, NEW items \in Seq(Items)
        PROVE  Targets!SetList(r, kind, items) \in Sound
    <2>1. Targets!Size(r, kind) \in Nat
      BY FindIs
    <2> QED BY <2>1, EditSound DEF Targets!SetList
  <1>4. ASSUME NEW cb \in [Items -> Items \cup {Targets!NoItem}]
        PROVE  Targets!ModifyItemEdits(r, cb) \in Sound
    BY <1>1, ModifiedChanges, UpdatedSound DEF Targets!ModifyItemEdits
  <1> QED BY <1>2, <1>3, <1>4

LEMMA FromSound ==
    ASSUME NEW r \in Sound, NEW kind \in Targets!Additions, NEW items \in Seq(Items)
    PROVE  LET other == Targets!SetItems(Targets!NewListOp, items, kind)
           IN  /\ Targets!UpdateListOp(r, other, Targets!Kinds) \in Sound
               /\ Targets!ApplyList(r, other, kind) \in Sound
  <1> DEFINE other == Targets!SetItems(Targets!NewListOp, items, kind)
             new == Targets!ComposeOperations(r.op, other, kind)
  <1>1. r.op \in OpsOf(Items) /\ kind \in Targets!Kinds
    BY DEF Sound, Records, Targets!Additions, Targets!Kinds
  <1>2. other \in OpsOf(Items) /\ ChangesAll(r.op, other)
    BY <1>1, OtherChanges
  <1> HIDE DEF other
  <1>3. Targets!UpdateListOp(r, other, Targets!Kinds) \in Sound
    BY <1>2, UpdatedSound
  <1>4. new \in OpsOf(Items) /\ ChangesOne(r.op, new, kind)
    <2>1. PICK seq \in Seq(Items) : new = Targets!SetItems(r.op, seq, kind)
      BY <1>1, <1>2, ListConstants, OperationsComposed
    <2> HIDE DEF new
    <2> QED BY <1>1, <2>1, SetItemsChanges
  <1>5. Targets!ApplyList(r, other, kind) \in Sound
    <2>1. Targets!ApplyList(r, other, kind) = Targets!UpdateListOp(r, new, {kind})
      BY DEF Targets!ApplyList
    <2> HIDE DEF new
    <2> QED BY <1>1, <1>4, <2>1, UpdatedSound
  <1> QED BY <1>3, <1>5 DEF other

\* A call of an editor leaves a sound record.
LEMMA EditItemKeeps ==
    ASSUME TargetsKept, NEW e, Targets!EditItem(e)
    PROVE  TargetsKept'
  <1> DEFINE r == Started(e)
  <1>1. PICK item \in Items :
           \/ Targets!Edited(e, LAMBDA s : Targets!Add(s, item))
           \/ Targets!Edited(e, LAMBDA s : Targets!Prepend(s, item))
           \/ Targets!Edited(e, LAMBDA s : Targets!AppendItem(s, item))
           \/ Targets!Edited(e, LAMBDA s : Targets!Erase(s, item))
           \/ Targets!Edited(e, LAMBDA s : Targets!RemoveItem(s, item))
           \/ Targets!Edited(e, LAMBDA s : Targets!RemoveFromAll(s, Targets!Kinds, item))
           \/ \E new \in Items : Targets!Edited(e, LAMBDA s : Targets!ReplaceInAll(s, item, new))
    BY DEF Targets!EditItem
  <1>2. \/ Left(e, Targets!Add(r, item))
        \/ Left(e, Targets!Prepend(r, item))
        \/ Left(e, Targets!AppendItem(r, item))
        \/ Left(e, Targets!Erase(r, item))
        \/ Left(e, Targets!RemoveItem(r, item))
        \/ Left(e, Targets!RemoveFromAll(r, Targets!Kinds, item))
        \/ \E new \in Items : Left(e, Targets!ReplaceInAll(r, item, new))
    BY <1>1, ZenonT(60) DEF Targets!Edited, Targets!Fresh, Left, Started
  <1>3. copies[e] = field
    BY <1>2 DEF Left
  <1>4. r \in Sound
    BY <1>3, StartedSound
  <1> HIDE DEF r
  <1>5. /\ Targets!RemoveFromAll(r, Targets!Kinds, item) \in Sound
        /\ \A new \in Items : Targets!ReplaceInAll(r, item, new) \in Sound
    BY <1>4, RemoveFromAllSound, ReplaceInAllSound
  <1>6. \E s \in Sound : Left(e, s)
    BY <1>2, <1>4, <1>5, CallsSound
  <1> QED BY <1>6, LeftKeeps

LEMMA EditWholeKeeps ==
    ASSUME TargetsKept, NEW e, Targets!EditWhole(e)
    PROVE  TargetsKept'
  <1> DEFINE r == Started(e)
  <1>1. \/ Left(e, Targets!UpdateListOp(r, Targets!NewListOp, Targets!Kinds))
        \/ Left(e, Targets!UpdateListOp(r, Targets!ClearAndMakeExplicit, Targets!Kinds))
        \/ \E kind \in Targets!Kinds, items \in Vectors : Left(e, Targets!SetList(r, kind, items))
        \/ \E cb \in [Items -> Items \cup {Targets!NoItem}] : Left(e, Targets!ModifyItemEdits(r,
               cb))
    BY DEF Targets!EditWhole, Targets!Edited, Targets!Fresh, Left, Started
  <1>2. copies[e] = field
    BY <1>1 DEF Left
  <1>3. r \in Sound
    BY <1>2, StartedSound
  <1> HIDE DEF r
  <1>4. Vectors \subseteq Seq(Items)
    BY ListConstants
  <1>5. \E s \in Sound : Left(e, s)
    BY <1>1, <1>3, <1>4, WholeSound
  <1> QED BY <1>5, LeftKeeps

LEMMA EditFromKeeps ==
    ASSUME TargetsKept, NEW e, Targets!EditFrom(e)
    PROVE  TargetsKept'
  <1> DEFINE r == Started(e)
  <1>1. PICK kind \in Targets!Additions, items \in Vectors :
           LET other == Targets!SetItems(Targets!NewListOp, items, kind)
           IN  \/ Left(e, Targets!UpdateListOp(r, other, Targets!Kinds))
               \/ Left(e, Targets!ApplyList(r, other, kind))
    BY DEF Targets!EditFrom, Targets!Edited, Targets!Fresh, Left, Started
  <1>2. copies[e] = field
    BY <1>1 DEF Left
  <1>3. r \in Sound
    BY <1>2, StartedSound
  <1> HIDE DEF r
  <1>4. items \in Seq(Items)
    BY ListConstants
  <1>5. \E s \in Sound : Left(e, s)
    BY <1>1, <1>3, <1>4, FromSound
  <1> QED BY <1>5, LeftKeeps

\* ReplaceTargetPath moves the spec as the field moves the path.
LEMMA ReplaceTargetPathKeeps ==
    ASSUME TargetsKept, NEW old \in Items, NEW new \in Items, Targets!ReplaceTargetPath(old, new)
    PROVE  TargetsKept'
  <1> DEFINE cb == [x \in Items |-> IF x = old THEN new ELSE IF x = new THEN Targets!NoItem ELSE x]
             after == Targets!ModifyOperations(field, cb)
  <1>1. /\ old # new /\ old \in targets
        /\ targets' = (targets \ {old}) \cup {new}
        /\ field' = IF Targets!HasItem(field, old) THEN after ELSE field
    BY DEF Targets!ReplaceTargetPath
  <1>2. PICK at \in {"explicit"} \cup Targets!Additions : old \in NamesIn(field, at)
    BY <1>1 DEF TargetsKept, Targets!Listed, NamesIn
  <1>3. at \in Targets!Kinds /\ {"explicit"} \cup Targets!Additions \subseteq Targets!Kinds
    BY <1>2 DEF Targets!Kinds, Targets!Additions
  <1>4. field' = after
    <2>1. field.explicit = (at = "explicit")
      <3>1. field.items[at] # <<>>
        BY <1>2, NoneOf DEF NamesIn
      <3> QED BY <1>3, <3>1 DEF TargetsKept, Modal, OpsOf
    <2>2. at \in (IF field.explicit THEN {"explicit"} ELSE Targets!Kinds \ {"explicit"})
      BY <1>3, <2>1
    <2>3. Targets!HasItem(field, old)
      BY <1>2, <2>2 DEF Targets!HasItem, NamesIn
    <2> QED BY <1>1, <2>3
  <1>5. \A x \in Items : cb[x] = IF x = old THEN new ELSE IF x = new THEN Targets!NoItem ELSE x
    OBVIOUS
  <1>6. ModifiedFrom(after, field, cb, Items)
    <2>1. MapsInto(cb, field, Items)
      <3>1. \A kind \in Targets!Kinds : Targets!ToSet(field.items[kind]) \subseteq Items
        BY Listing DEF TargetsKept, OpsOf
      <3>2. \A x \in Items : cb[x] \in Items \cup {Targets!NoItem}
        BY <1>5
      <3> HIDE DEF cb
      <3> QED BY <3>1, <3>2 DEF MapsInto
    <2> HIDE DEF cb
    <2> QED BY <2>1, OperationsModified DEF TargetsKept
  <1> HIDE DEF cb, after
  <1>7. \A kind \in Targets!Kinds : NamesIn(field, kind) \subseteq Items
    BY Listing DEF TargetsKept, OpsOf, NamesIn
  <1>8. ASSUME NEW kind \in Targets!Kinds
        PROVE  NamesIn(after, kind) = (NamesIn(field, kind) \ {old, new})
                                        \cup (IF old \in NamesIn(field, kind) THEN {new} ELSE {})
    <2>1. NamesIn(after, kind) = {cb[x] : x \in NamesIn(field, kind)} \ {Targets!NoItem}
      BY <1>6 DEF ModifiedFrom, NamesIn
    <2>2. NamesIn(field, kind) \subseteq Items /\ Targets!NoItem \notin Items
      BY <1>7, ListConstants
    <2> QED BY <1>1, <1>5, <2>1, <2>2
  <1>9. after \in OpsOf(Items) /\ Singly(after)
    BY <1>6 DEF ModifiedFrom, Singly
  <1>10. Modal(after)
    <2> SUFFICES ASSUME NEW kind \in Targets!Kinds, after.explicit # (kind = "explicit")
                 PROVE  after.items[kind] = <<>>
      BY DEF Modal
    <2>1. field.items[kind] = <<>>
      BY <1>6 DEF ModifiedFrom, TargetsKept, Modal
    <2>2. NamesIn(after, kind) = {}
      BY <1>8, <2>1, NoneOf DEF NamesIn
    <2>3. after.items[kind] \in Seq(Items)
      BY <1>9 DEF OpsOf
    <2> QED BY <2>2, <2>3, NothingListed DEF NamesIn
  <1>11. KindsApart(after)
    <2> SUFFICES ASSUME NEW k \in Targets!Additions, NEW l \in Targets!Additions, k # l
                 PROVE  NamesIn(after, k) \cap NamesIn(after, l) = {}
      BY DEF KindsApart
    <2>1. NamesIn(field, k) \cap NamesIn(field, l) = {}
      BY DEF TargetsKept, KindsApart
    <2> QED BY <1>3, <1>8, <2>1
  <1>12. (targets \ {old}) \cup {new} = Targets!Listed(after)
    <2>1. targets = NamesIn(field, "explicit") \cup NamesIn(field, "added")
                        \cup NamesIn(field, "prepended") \cup NamesIn(field, "appended")
      BY ListedIs DEF TargetsKept
    <2>2. Targets!Listed(after) = NamesIn(after, "explicit") \cup NamesIn(after, "added")
                                      \cup NamesIn(after, "prepended") \cup NamesIn(after,
                                             "appended")
      BY ListedIs
    <2>3. \A kind \in {"explicit", "added", "prepended", "appended"} :
             NamesIn(after, kind) = (NamesIn(field, kind) \ {old, new})
                                      \cup (IF old \in NamesIn(field, kind) THEN {new} ELSE {})
      BY <1>8 DEF Targets!Kinds
    <2> QED BY <1>1, <2>1, <2>2, <2>3
  <1> QED BY <1>1, <1>4, <1>9, <1>10, <1>11, <1>12 DEF TargetsKept

LEMMA TargetsStart ==
    ASSUME Targets!Init
    PROVE  TargetsKept
  <1>1. field = Targets!NewListOp /\ targets = {}
    BY DEF Targets!Init
  <1>2. \A kind \in Targets!Kinds : field.items[kind] = <<>> /\ NamesIn(field, kind) = {}
    BY <1>1, NewOps, NoneOf DEF NamesIn
  <1>3. {"explicit"} \cup Targets!Additions \subseteq Targets!Kinds
    BY DEF Targets!Additions, Targets!Kinds
  <1>4. Targets!Listed(field) = {}
    BY <1>2, <1>3, ListedIs DEF Targets!Additions
  <1>5. Modal(field) /\ KindsApart(field) /\ Singly(field)
    BY <1>2, <1>3, NoneOf DEF Modal, KindsApart, Singly
  <1> QED BY <1>1, <1>4, <1>5, NewOps DEF TargetsKept

LEMMA TargetsStay ==
    ASSUME TargetsKept, Targets!Next
    PROVE  TargetsKept'
  <1>1. ASSUME NEW e \in Editors, Targets!Open(e)
        PROVE  TargetsKept'
    BY <1>1 DEF Targets!Open, TargetsKept
  <1> QED BY <1>1, EditItemKeeps, EditWholeKeeps, EditFromKeeps, ReplaceTargetPathKeeps
          DEF Targets!Next

LEMMA KeptFollows ==
    ASSUME TargetsKept
    PROVE  Targets!TargetsFollow
  BY DEF TargetsKept, Singly, Targets!TargetsFollow

-----------------------------------------------------------------------------
\* Both components work with the operators of ListOps.
LEMMA SameMakeUnique ==
    ASSUME NEW seq
    PROVE  Sublayers!MakeUnique(seq) = Targets!MakeUnique(seq)
  BY DEF Sublayers!MakeUnique, Sublayers!AddKeys, Sublayers!FoldLeft, Sublayers!MapThenFoldSet,
         Sublayers!ToSet, Sublayers!Max,
         Targets!MakeUnique, Targets!AddKeys, Targets!FoldLeft, Targets!MapThenFoldSet,
         Targets!ToSet, Targets!Max

LEMMA SameMapped ==
    ASSUME NEW seq, NEW cb
    PROVE  Sublayers!Mapped(seq, cb) = Targets!Mapped(seq, cb)
  BY DEF Sublayers!Mapped, Sublayers!FoldLeft, Sublayers!MapThenFoldSet, Sublayers!Max,
     Sublayers!NoItem,
         Targets!Mapped, Targets!FoldLeft, Targets!MapThenFoldSet, Targets!Max, Targets!NoItem

LEMMA SameSetItems ==
    ASSUME NEW op, NEW items, NEW kind
    PROVE  Sublayers!SetItems(op, items, kind) = Targets!SetItems(op, items, kind)
  BY SameMakeUnique
     DEF Sublayers!SetItems, Sublayers!SetExplicit, Sublayers!NoItems, Sublayers!Kinds,
         Sublayers!Reverse,
         Targets!SetItems, Targets!SetExplicit, Targets!NoItems, Targets!Kinds, Targets!Reverse

LEMMA SameNewListOp == Sublayers!NewListOp = Targets!NewListOp
  BY DEF Sublayers!NewListOp, Sublayers!NoItems, Sublayers!Kinds,
         Targets!NewListOp, Targets!NoItems, Targets!Kinds

LEMMA SameReplaceOperations ==
    ASSUME NEW op, NEW kind, NEW index, NEW n, NEW items
    PROVE  Sublayers!ReplaceOperations(op, kind, index, n, items) =
               Targets!ReplaceOperations(op, kind, index, n, items)
  BY SameSetItems DEF Sublayers!ReplaceOperations, Sublayers!NoListOp,
                      Targets!ReplaceOperations, Targets!NoListOp

LEMMA SameReorderKeys ==
    ASSUME NEW seq, NEW order
    PROVE  Sublayers!ReorderKeys(seq, order) = Targets!ReorderKeys(seq, order)
  BY DEF Sublayers!ReorderKeys, Sublayers!TakenAlong, Sublayers!TakeAlong, Sublayers!SelectInSeq,
         Sublayers!Min, Sublayers!MakeUnique, Sublayers!AddKeys, Sublayers!FoldLeft,
         Sublayers!MapThenFoldSet, Sublayers!ToSet, Sublayers!Max,
         Targets!ReorderKeys, Targets!TakenAlong, Targets!TakeAlong, Targets!SelectInSeq,
         Targets!Min, Targets!MakeUnique, Targets!AddKeys, Targets!FoldLeft,
         Targets!MapThenFoldSet, Targets!ToSet, Targets!Max

LEMMA SameAddKeys ==
    ASSUME NEW seq, NEW keys
    PROVE  Sublayers!AddKeys(seq, keys) = Targets!AddKeys(seq, keys)
  BY DEF Sublayers!AddKeys, Sublayers!FoldLeft, Sublayers!MapThenFoldSet, Sublayers!ToSet,
     Sublayers!Max,
         Targets!AddKeys, Targets!FoldLeft, Targets!MapThenFoldSet, Targets!ToSet, Targets!Max

\* An op with an order only, as the editor of a vector makes it, is composed by reordering.
LEMMA OrderComposed ==
    ASSUME NEW op, NEW stronger
    PROVE  Sublayers!ComposeOperations(op, stronger, "ordered") =
               Targets!ComposeOperations(op, stronger, "ordered")
  <1>1. Sublayers!ComposeOperations(op, stronger, "ordered") =
            Sublayers!SetItems(op, Sublayers!ReorderKeys(Sublayers!AddKeys(op.items["ordered"],
                stronger.items["ordered"]), stronger.items["ordered"]), "ordered")
    BY DEF Sublayers!ComposeOperations
  <1>2. Targets!ComposeOperations(op, stronger, "ordered") =
            Targets!SetItems(op, Targets!ReorderKeys(Targets!AddKeys(op.items["ordered"],
                stronger.items["ordered"]), stronger.items["ordered"]), "ordered")
    BY DEF Targets!ComposeOperations
  <1> QED BY <1>1, <1>2, SameSetItems, SameReorderKeys, SameAddKeys

LEMMA SameSets ==
    ASSUME NEW seq
    PROVE  /\ Sublayers!ToSet(seq) = Targets!ToSet(seq)
           /\ Sublayers!IsInjective(seq) = Targets!IsInjective(seq)
  BY DEF Sublayers!ToSet, Targets!ToSet, Sublayers!IsInjective, Targets!IsInjective

\* A list in which n items from a place on are exchanged for others.
Spliced(seq, index, n, elems) ==
    SubSeq(seq, 1, index) \o elems \o SubSeq(seq, index + n + 1, Len(seq))

IsSplice(new, S, seq, index, n, elems) ==
    /\ new \in Seq(S) /\ Len(new) = (Len(seq) - n) + Len(elems)
    /\ \A i \in 1 .. Len(new) :
          new[i] = IF i <= index THEN seq[i]
                   ELSE IF i <= index + Len(elems) THEN elems[i - index]
                   ELSE seq[(i - Len(elems)) + n]

LEMMA SplicedIs ==
    ASSUME NEW S, NEW seq \in Seq(S), NEW index \in Nat, NEW n \in Nat, NEW elems \in Seq(S),
           index + n <= Len(seq)
    PROVE  IsSplice(Spliced(seq, index, n, elems), S, seq, index, n, elems)
  <1> DEFINE front == SubSeq(seq, 1, index)
             back == SubSeq(seq, index + n + 1, Len(seq))
             start == front \o elems
  <1>0. Len(seq) \in Nat /\ Len(elems) \in Nat
    OBVIOUS
  <1>1. /\ front \in Seq(S) /\ Len(front) = index
        /\ \A i \in 1 .. index : front[i] = seq[i]
    <2>1. \A i \in 1 .. index : seq[i] \in S
      BY <1>0
    <2>2. /\ front \in Seq(S) /\ Len(front) = IF 1 <= index THEN index - 1 + 1 ELSE 0
          /\ \A i \in 1 .. (index - 1 + 1) : front[i] = seq[1 + i - 1]
      BY <2>1, SubSeqProperties
    <2> HIDE DEF front
    <2>3. Len(front) = index
      BY <2>2
    <2>4. \A i \in 1 .. index : i \in 1 .. (index - 1 + 1) /\ 1 + i - 1 = i
      OBVIOUS
    <2> QED BY <2>2, <2>3, <2>4
  <1>2. /\ back \in Seq(S) /\ Len(back) = Len(seq) - (index + n)
        /\ \A i \in 1 .. Len(seq) - (index + n) : back[i] = seq[index + n + i]
    <2>1. \A i \in index + n + 1 .. Len(seq) : seq[i] \in S
      BY <1>0
    <2>2. /\ back \in Seq(S)
          /\ Len(back) = IF index + n + 1 <= Len(seq) THEN Len(seq) - (index + n + 1) + 1 ELSE 0
          /\ \A i \in 1 .. (Len(seq) - (index + n + 1) + 1) : back[i] = seq[(index + n + 1) + i - 1]
      BY <1>0, <2>1, SubSeqProperties
    <2> HIDE DEF back
    <2> QED BY <1>0, <2>2
  <1> HIDE DEF front, back
  <1>3. /\ start \in Seq(S) /\ Len(start) = index + Len(elems)
        /\ \A i \in 1 .. index + Len(elems) :
              start[i] = IF i <= index THEN seq[i] ELSE elems[i - index]
    <2>1. /\ start \in Seq(S) /\ Len(start) = index + Len(elems)
          /\ \A i \in 1 .. index + Len(elems) :
                start[i] = IF i <= index THEN front[i] ELSE elems[i - index]
      BY <1>1, ConcatProperties
    <2> HIDE DEF start
    <2> QED BY <1>0, <1>1, <2>1
  <1> HIDE DEF start
  <1> DEFINE new == start \o back
  <1>4. /\ new \in Seq(S) /\ Len(new) = Len(start) + Len(back)
        /\ \A i \in 1 .. Len(start) + Len(back) :
              new[i] = IF i <= Len(start) THEN start[i] ELSE back[i - Len(start)]
    <2>1. start \in Seq(S) /\ back \in Seq(S)
      BY <1>2, <1>3
    <2> QED BY <2>1, ConcatProperties
  <1>5. Spliced(seq, index, n, elems) = new
    BY DEF Spliced, start, front, back
  <1> HIDE DEF new
  <1>6. Len(new) = (Len(seq) - n) + Len(elems)
    BY <1>0, <1>2, <1>3, <1>4
  <1>7. ASSUME NEW i \in 1 .. Len(new)
        PROVE  new[i] = IF i <= index THEN seq[i]
                        ELSE IF i <= index + Len(elems) THEN elems[i - index]
                        ELSE seq[(i - Len(elems)) + n]
    <2>1. CASE i <= index + Len(elems)
      BY <1>0, <1>2, <1>3, <1>4, <1>6, <2>1
    <2>2. CASE ~(i <= index + Len(elems))
      <3>1. new[i] = back[i - (index + Len(elems))]
        BY <1>0, <1>3, <1>4, <1>6, <2>2
      <3>2. i - (index + Len(elems)) \in 1 .. Len(seq) - (index + n)
        BY <1>0, <1>6, <2>2
      <3>3. new[i] = seq[index + n + (i - (index + Len(elems)))]
        BY <1>2, <3>1, <3>2
      <3> QED BY <1>0, <2>2, <3>3
    <2> QED BY <2>1, <2>2
  <1> QED BY <1>4, <1>5, <1>6, <1>7 DEF IsSplice

LEMMA SplicedNames ==
    ASSUME NEW S, NEW seq \in Seq(S), NEW index \in Nat, NEW n \in Nat, NEW elems \in Seq(S),
           index + n <= Len(seq)
    PROVE  Targets!ToSet(Spliced(seq, index, n, elems)) \subseteq
               Targets!ToSet(seq) \cup Targets!ToSet(elems)
  <1> DEFINE new == Spliced(seq, index, n, elems)
  <1>1. /\ new \in Seq(S) /\ Len(new) = (Len(seq) - n) + Len(elems)
        /\ \A i \in 1 .. Len(new) :
              new[i] = IF i <= index THEN seq[i]
                       ELSE IF i <= index + Len(elems) THEN elems[i - index]
                       ELSE seq[(i - Len(elems)) + n]
    BY SplicedIs DEF IsSplice
  <1> HIDE DEF new
  <1>2. ASSUME NEW i \in 1 .. Len(new)
        PROVE  new[i] \in Targets!ToSet(seq) \cup Targets!ToSet(elems)
    <2>0. Len(seq) \in Nat /\ Len(elems) \in Nat /\ DOMAIN seq = 1 .. Len(seq)
          /\ DOMAIN elems = 1 .. Len(elems)
      OBVIOUS
    <2>1. CASE i <= index
      <3>1. i \in DOMAIN seq
        BY <2>0, <2>1
      <3> QED BY <1>1, <2>1, <3>1 DEF Targets!ToSet
    <2>2. CASE ~(i <= index) /\ i <= index + Len(elems)
      <3>1. i - index \in DOMAIN elems
        BY <2>0, <2>2
      <3> QED BY <1>1, <2>2, <3>1 DEF Targets!ToSet
    <2>3. CASE ~(i <= index) /\ ~(i <= index + Len(elems))
      <3>1. (i - Len(elems)) + n \in DOMAIN seq
        BY <1>1, <2>0, <2>3
      <3> QED BY <1>1, <2>3, <3>1 DEF Targets!ToSet
    <2> QED BY <2>1, <2>2, <2>3
  <1>3. DOMAIN new = 1 .. Len(new)
    BY <1>1
  <1>4. Targets!ToSet(new) \subseteq Targets!ToSet(seq) \cup Targets!ToSet(elems)
    BY <1>2, <1>3 DEF Targets!ToSet
  <1> QED BY <1>4 DEF new

\* A list of distinct items without the one at a place.
LEMMA SplicedOut ==
    ASSUME NEW S, NEW seq \in Seq(S), Targets!IsInjective(seq), NEW index \in Nat,
           index < Len(seq)
    PROVE  LET new == Spliced(seq, index, 1, <<>>)
           IN  /\ new \in Seq(S) /\ Targets!IsInjective(new)
               /\ Targets!ToSet(new) = Targets!ToSet(seq) \ {seq[index + 1]}
  <1> DEFINE none == <<>>
             new == Spliced(seq, index, 1, none)
  <1>0. Len(seq) \in Nat /\ none \in Seq(S) /\ Len(none) = 0 /\ index + 1 <= Len(seq)
        /\ DOMAIN seq = 1 .. Len(seq)
    OBVIOUS
  <1> HIDE DEF none
  <1>1. /\ new \in Seq(S) /\ Len(new) = (Len(seq) - 1) + Len(none)
        /\ \A i \in 1 .. Len(new) :
              new[i] = IF i <= index THEN seq[i]
                       ELSE IF i <= index + Len(none) THEN none[i - index]
                       ELSE seq[(i - Len(none)) + 1]
    <2>1. IsSplice(new, S, seq, index, 1, none)
      BY <1>0, SplicedIs
    <2> HIDE DEF new
    <2> QED BY <2>1 DEF IsSplice
  <1> HIDE DEF new
  <1>2. /\ DOMAIN new = 1 .. Len(seq) - 1
        /\ \A i \in 1 .. Len(seq) - 1 : new[i] = IF i <= index THEN seq[i] ELSE seq[i + 1]
    <2>1. Len(new) = Len(seq) - 1
      BY <1>0, <1>1
    <2>2. ASSUME NEW i \in 1 .. Len(seq) - 1
          PROVE  new[i] = IF i <= index THEN seq[i] ELSE seq[i + 1]
      BY <1>0, <1>1, <2>1
    <2> QED BY <1>1, <2>1, <2>2
  <1>3. Targets!IsInjective(new)
    <2> SUFFICES ASSUME NEW i \in DOMAIN new, NEW j \in DOMAIN new, new[i] = new[j]
                 PROVE  i = j
      BY DEF Targets!IsInjective
    <2> DEFINE p == IF i <= index THEN i ELSE i + 1
               q == IF j <= index THEN j ELSE j + 1
    <2>1. p \in DOMAIN seq /\ q \in DOMAIN seq /\ seq[p] = seq[q]
      BY <1>0, <1>2
    <2>2. p = q
      BY <2>1 DEF Targets!IsInjective
    <2> QED BY <1>0, <1>2, <2>2
  <1>4. Targets!ToSet(new) = Targets!ToSet(seq) \ {seq[index + 1]}
    <2>1. ASSUME NEW i \in DOMAIN new
          PROVE  new[i] \in Targets!ToSet(seq) \ {seq[index + 1]}
      <3> DEFINE p == IF i <= index THEN i ELSE i + 1
      <3>1. p \in DOMAIN seq /\ new[i] = seq[p] /\ p # index + 1 /\ index + 1 \in DOMAIN seq
        BY <1>0, <1>2
      <3> HIDE DEF p
      <3> QED BY <3>1 DEF Targets!ToSet, Targets!IsInjective
    <2>2. ASSUME NEW p \in DOMAIN seq, seq[p] # seq[index + 1]
          PROVE  seq[p] \in Targets!ToSet(new)
      <3> DEFINE i == IF p <= index THEN p ELSE p - 1
      <3>1. p # index + 1
        BY <2>2
      <3>2. i \in DOMAIN new /\ new[i] = seq[p]
        BY <1>0, <1>2, <3>1
      <3> HIDE DEF i
      <3> QED BY <3>2 DEF Targets!ToSet
    <2> QED BY <2>1, <2>2 DEF Targets!ToSet
  <1> QED BY <1>1, <1>3, <1>4 DEF new, none

-----------------------------------------------------------------------------
(* The offsets of sublayers (SubLayers)                                    *)

-----------------------------------------------------------------------------
\* The values of the field of offsets; a list of paths with the offsets in step.
OffsetValues == Offsets \cup {Sublayers!Identity}
InStep(r) ==
    /\ r.paths \in Seq(Assets) /\ Targets!IsInjective(r.paths)
    /\ r.offsets \in Seq(OffsetValues) /\ Len(r.offsets) = Len(r.paths)

\* Each path that both records have is at the same offset in both.
SameOffsets(r, s) ==
    \A path \in Targets!ToSet(r.paths) \cap Targets!ToSet(s.paths) :
        s.offsets[FirstPlace(s.paths, path)] = r.offsets[FirstPlace(r.paths, path)]

LEMMA OffsetsAfterIs ==
    ASSUME NEW r, InStep(r), NEW new \in Seq(Assets)
    PROVE  /\ Sublayers!OffsetsAfter(r.paths, new, r.offsets) \in Seq(OffsetValues)
           /\ Len(Sublayers!OffsetsAfter(r.paths, new, r.offsets)) = Len(new)
           /\ \A i \in 1 .. Len(new) :
                 Sublayers!OffsetsAfter(r.paths, new, r.offsets)[i] =
                     IF new[i] \in Targets!ToSet(r.paths) THEN r.offsets[FirstPlace(r.paths,
                            new[i])]
                     ELSE Sublayers!Identity
  <1> DEFINE after == [i \in DOMAIN new |->
                          IF new[i] \in Targets!ToSet(r.paths)
                                 THEN r.offsets[FirstPlace(r.paths, new[i])]
                          ELSE Sublayers!Identity]
  <1>1. Sublayers!OffsetsAfter(r.paths, new, r.offsets) = after
    BY SameSets DEF InStep, Sublayers!OffsetsAfter, Sublayers!SelectInSeq, FirstPlace,
                    Sublayers!Min, Targets!Min
  <1>2. ASSUME NEW x
        PROVE  (IF x \in Targets!ToSet(r.paths) THEN r.offsets[FirstPlace(r.paths, x)]
                ELSE Sublayers!Identity) \in OffsetValues
    <2>1. CASE x \in Targets!ToSet(r.paths)
      <3>1. FirstPlace(r.paths, x) \in 1 .. Len(r.paths)
        BY <2>1, PlaceIs DEF InStep
      <3> QED BY <2>1, <3>1 DEF InStep
    <2>2. CASE x \notin Targets!ToSet(r.paths)
      BY <2>2 DEF OffsetValues
    <2> QED BY <2>1, <2>2
  <1>3. DOMAIN new = 1 .. Len(new) /\ Len(new) \in Nat
    OBVIOUS
  <1>4. after \in [1 .. Len(new) -> OffsetValues]
    BY <1>2, <1>3
  <1>5. after \in Seq(OffsetValues) /\ Len(after) = Len(new)
    <2> HIDE DEF after
    <2> QED BY <1>3, <1>4
  <1>6. \A i \in 1 .. Len(new) :
            after[i] = IF new[i] \in Targets!ToSet(r.paths) THEN r.offsets[FirstPlace(r.paths,
                   new[i])]
                       ELSE Sublayers!Identity
    BY <1>3
  <1> HIDE DEF after
  <1> QED BY <1>1, <1>5, <1>6

LEMMA UpdateFieldDataKeeps ==
    ASSUME NEW r, InStep(r), NEW new \in Seq(Assets)
    PROVE  LET after == Sublayers!UpdateFieldData(r, new)
           IN  /\ InStep(after) /\ SameOffsets(r, after)
               /\ after = r \/ after.paths = new
               /\ Targets!IsInjective(new) => after.paths = new
  <1> DEFINE told == Sublayers!OffsetsAfter(r.paths, new, r.offsets)
             after == Sublayers!UpdateFieldData(r, new)
  <1>1. CASE ~Targets!IsInjective(new)
    <2>1. after = r
      BY <1>1, SameSets DEF Sublayers!UpdateFieldData
    <2> QED BY <1>1, <2>1 DEF SameOffsets
  <1>2. CASE Targets!IsInjective(new)
    <2>1. after = [paths |-> new, offsets |-> told]
      BY <1>2, SameSets DEF Sublayers!UpdateFieldData
    <2>2. /\ told \in Seq(OffsetValues) /\ Len(told) = Len(new)
          /\ \A i \in 1 .. Len(new) :
                told[i] = IF new[i] \in Targets!ToSet(r.paths)
                       THEN r.offsets[FirstPlace(r.paths, new[i])]
                          ELSE Sublayers!Identity
      BY OffsetsAfterIs
    <2> HIDE DEF after, told
    <2>3. InStep(after)
      BY <1>2, <2>1, <2>2 DEF InStep
    <2>4. SameOffsets(r, after)
      <3> SUFFICES ASSUME NEW path \in Targets!ToSet(r.paths), path \in Targets!ToSet(new)
                   PROVE  told[FirstPlace(new, path)] = r.offsets[FirstPlace(r.paths, path)]
        BY <2>1 DEF SameOffsets
      <3>1. FirstPlace(new, path) \in 1 .. Len(new) /\ new[FirstPlace(new, path)] = path
        BY PlaceIs
      <3> QED BY <2>2, <3>1
    <2> QED BY <2>1, <2>3, <2>4 DEF after
  <1> QED BY <1>1, <1>2

\* The editor of the vector exchanges a part of it.
LEMMA ReplaceEditsKeeps ==
    ASSUME NEW r, InStep(r), NEW index \in Nat, NEW n \in Nat, NEW elems \in Seq(Assets)
    PROVE  LET after == Sublayers!ReplaceEdits(r, index, n, elems)
               part == Spliced(r.paths, index, n, elems)
           IN  /\ InStep(after) /\ SameOffsets(r, after)
               /\ after = r \/ (after.paths = part /\ index + n <= Len(r.paths))
               /\ (index + n <= Len(r.paths) /\ Targets!IsInjective(part)) => after.paths = part
  <1> DEFINE op == Targets!SetItems(Targets!NewListOp, r.paths, "ordered")
             new == Targets!ReplaceOperations(op, "ordered", index, n, elems)
             part == Spliced(r.paths, index, n, elems)
             after == Sublayers!ReplaceEdits(r, index, n, elems)
  <1>0. r.paths \in Seq(Assets) /\ "ordered" \in Targets!Kinds
    BY DEF InStep, Targets!Kinds
  <1>1. after = IF new = Targets!NoListOp THEN r
                ELSE Sublayers!UpdateFieldData(r, new.items["ordered"])
    BY SameSetItems, SameNewListOp, SameReplaceOperations
       DEF Sublayers!ReplaceEdits, Sublayers!NoListOp, Targets!NoListOp
  <1>2. op \in OpsOf(Assets) /\ op.explicit = FALSE /\ op.items["ordered"] = r.paths
    <2> DEFINE none == Targets!NewListOp
    <2>1. none \in OpsOf(Assets)
      BY NewOps
    <2> HIDE DEF none
    <2>2. LET set == Targets!SetItems(none, r.paths, "ordered")
          IN  /\ set \in OpsOf(Assets) /\ set.explicit = ("ordered" = "explicit")
              /\ set.items["ordered"] = r.paths
      BY <1>0, <2>1, ItemsSet
    <2> QED BY <2>2 DEF none
  <1> HIDE DEF op
  <1>3. ASSUME new # Targets!NoListOp
        PROVE  part \in Seq(Assets) /\ index + n <= Len(r.paths) /\ new.items["ordered"] = part
    <2>1. part \in Seq(Assets) /\ index + n <= Len(r.paths)
          /\ new = Targets!SetItems(op, part, "ordered")
      BY <1>0, <1>2, <1>3, OperationsReplaced DEF Spliced
    <2> HIDE DEF new, part
    <2>2. Targets!SetItems(op, part, "ordered").items["ordered"] = part
      BY <1>0, <1>2, <2>1, ItemsSet
    <2> QED BY <2>1, <2>2
  <1>4. index + n <= Len(r.paths) => new # Targets!NoListOp
    <2> SUFFICES ASSUME index + n <= Len(r.paths)
                 PROVE  new # Targets!NoListOp
      OBVIOUS
    <2>1. Len(r.paths) \in Nat
      BY <1>0
    <2>2. new = Targets!SetItems(op, SubSeq(r.paths, 1, index) \o elems
                    \o SubSeq(r.paths, index + n + 1, Len(r.paths)), "ordered")
      <3> DEFINE seq == op.items["ordered"]
                 part2 == SubSeq(seq, 1, index) \o elems \o SubSeq(seq, index + n + 1, Len(seq))
                 switches == op.explicit # ("ordered" = "explicit")
      <3>1. new = IF (switches /\ (n > 0 \/ elems = <<>>)) \/ index + n > Len(seq)
                  THEN Targets!NoListOp ELSE Targets!SetItems(op, part2, "ordered")
        BY DEF Targets!ReplaceOperations
      <3>2. seq = r.paths /\ ~switches
        BY <1>2
      <3>3. ~(index + n > Len(seq))
        BY <2>1, <3>2
      <3> HIDE DEF switches, new, seq
      <3>4. new = Targets!SetItems(op, part2, "ordered")
        BY <3>1, <3>2, <3>3
      <3> QED BY <3>2, <3>4
    <2>3. part \in Seq(Assets)
      BY <1>0, SplicedIs DEF IsSplice
    <2>4. new \in OpsOf(Assets)
      <3>1. new = Targets!SetItems(op, part, "ordered")
        BY <2>2 DEF Spliced
      <3> HIDE DEF new, part
      <3> QED BY <1>0, <1>2, <2>3, <3>1, ItemsSet
    <2>5. Targets!NoListOp \notin OpsOf(Assets)
      <3>1. DOMAIN Targets!NoListOp = {"none"}
        BY DEF Targets!NoListOp
      <3>2. \A x \in OpsOf(Assets) : DOMAIN x = {"explicit", "items"}
        BY DEF OpsOf
      <3>3. "none" # "explicit" /\ "none" # "items"
        OBVIOUS
      <3> QED BY <3>1, <3>2, <3>3
    <2> QED BY <2>4, <2>5
  <1> HIDE DEF new, part, after
  <1>5. CASE new = Targets!NoListOp
    <2>1. after = r /\ ~(index + n <= Len(r.paths))
      BY <1>1, <1>4, <1>5
    <2> QED BY <2>1 DEF SameOffsets, after, part
  <1>6. CASE new # Targets!NoListOp
    <2>1. after = Sublayers!UpdateFieldData(r, part)
      BY <1>1, <1>3, <1>6
    <2>2. /\ InStep(after) /\ SameOffsets(r, after)
          /\ after = r \/ after.paths = part
          /\ Targets!IsInjective(part) => after.paths = part
      BY <1>3, <1>6, <2>1, UpdateFieldDataKeeps
    <2> QED BY <1>3, <1>6, <2>2 DEF after, part
  <1> QED BY <1>5, <1>6

-----------------------------------------------------------------------------
\* The sublayer paths are distinct and there is an offset for each.
OffsetsKept == InStep(Sublayers!Fields)

LEMMA KeptIs ==
    OffsetsKept <=> /\ paths \in Seq(Assets) /\ Targets!IsInjective(paths)
                    /\ offsets \in Seq(OffsetValues) /\ Len(offsets) = Len(paths)
  BY DEF OffsetsKept, InStep, Sublayers!Fields

LEMMA OffsetOfIs ==
    ASSUME NEW path
    PROVE  Sublayers!OffsetOf(path) = offsets[FirstPlace(paths, path)]
  BY DEF Sublayers!OffsetOf, Sublayers!SelectInSeq, FirstPlace, Sublayers!Min, Targets!Min

LEMMA OffsetOfIsNext ==
    ASSUME NEW path
    PROVE  Sublayers!OffsetOf(path)' = offsets'[FirstPlace(paths', path)]
  BY DEF Sublayers!OffsetOf, Sublayers!SelectInSeq, FirstPlace, Sublayers!Min, Targets!Min

\* What is written of a record in which the offsets are in step and the same as they were.
LEMMA WrittenKeeps ==
    ASSUME OffsetsKept, NEW r, InStep(r), SameOffsets(Sublayers!Fields, r), Sublayers!Written(r)
    PROVE  OffsetsKept' /\ Sublayers!OffsetsStep
  <1>1. paths' = r.paths /\ offsets' = r.offsets
    BY DEF Sublayers!Written
  <1>2. Sublayers!Fields.paths = paths /\ Sublayers!Fields.offsets = offsets
    BY DEF Sublayers!Fields
  <1>3. OffsetsKept'
    BY <1>1 DEF InStep, OffsetsKept, Sublayers!Fields
  <1>4. Len(paths') = Len(offsets') /\ Sublayers!IsInjective(paths')
    BY <1>1, SameSets DEF InStep
  <1>5. ASSUME NEW path \in Sublayers!ToSet(paths) \cap Sublayers!ToSet(paths')
        PROVE  Sublayers!OffsetOf(path)' = Sublayers!OffsetOf(path)
    <2>1. path \in Targets!ToSet(Sublayers!Fields.paths) \cap Targets!ToSet(r.paths)
      BY <1>1, <1>2, <1>5, SameSets
    <2>2. r.offsets[FirstPlace(r.paths, path)] = offsets[FirstPlace(paths, path)]
      BY <1>2, <2>1 DEF SameOffsets
    <2> QED BY <1>1, <2>2, OffsetOfIs, OffsetOfIsNext
  <1> QED BY <1>3, <1>4, <1>5 DEF Sublayers!OffsetsStep

LEMMA UnchangedKeeps ==
    ASSUME OffsetsKept, UNCHANGED <<paths, offsets>>
    PROVE  OffsetsKept' /\ Sublayers!OffsetsStep
  <1>1. paths' = paths /\ offsets' = offsets
    OBVIOUS
  <1>2. OffsetsKept'
    BY <1>1 DEF OffsetsKept, Sublayers!Fields
  <1>3. \A path : Sublayers!OffsetOf(path)' = Sublayers!OffsetOf(path)
    BY <1>1, OffsetOfIs, OffsetOfIsNext
  <1>4. Len(paths') = Len(offsets') /\ Sublayers!IsInjective(paths')
    BY <1>1, KeptIs, SameSets
  <1> QED BY <1>2, <1>3, <1>4 DEF Sublayers!OffsetsStep

LEMMA SetSubLayerPathsKeeps ==
    ASSUME OffsetsKept, NEW new \in Seq(Assets), Sublayers!SetSubLayerPaths(new)
    PROVE  OffsetsKept' /\ Sublayers!OffsetsStep
  <1> DEFINE fields == Sublayers!Fields
             after == Sublayers!ReplaceEdits(fields, 0, Len(paths), new)
  <1>1. Len(paths) \in Nat
    BY KeptIs
  <1>2. InStep(after) /\ SameOffsets(fields, after)
    <2> HIDE DEF fields
    <2> QED BY <1>1, ReplaceEditsKeeps DEF OffsetsKept, fields
  <1>3. Sublayers!Written(after)
    BY DEF Sublayers!SetSubLayerPaths
  <1> HIDE DEF after
  <1> QED BY <1>2, <1>3, WrittenKeeps

LEMMA InsertKeeps ==
    ASSUME NEW r, InStep(r), NEW path \in Assets, NEW index \in Nat \cup {-1}
    PROVE  LET after == Sublayers!Insert(r, path, index)
           IN  /\ InStep(after) /\ SameOffsets(r, after)
               /\ Targets!ToSet(after.paths) \subseteq Targets!ToSet(r.paths) \cup {path}
  <1> DEFINE at == IF index = -1 THEN Len(r.paths) ELSE index
             one == <<path>>
             after == Sublayers!ReplaceEdits(r, at, 0, one)
  <1>1. Sublayers!Insert(r, path, index) = after
    BY DEF Sublayers!Insert
  <1>2. at \in Nat /\ one \in Seq(Assets) /\ Targets!ToSet(one) = {path} /\ r.paths \in Seq(Assets)
    BY DEF InStep, Targets!ToSet
  <1> HIDE DEF at, one
  <1>3. /\ InStep(after) /\ SameOffsets(r, after)
        /\ after = r \/ (after.paths = Spliced(r.paths, at, 0, one) /\ at + 0 <= Len(r.paths))
    BY <1>2, ReplaceEditsKeeps
  <1> HIDE DEF after
  <1>4. Targets!ToSet(after.paths) \subseteq Targets!ToSet(r.paths) \cup {path}
    BY <1>2, <1>3, SplicedNames
  <1> QED BY <1>1, <1>3, <1>4

LEMMA EraseAtKeeps ==
    ASSUME NEW r, InStep(r), NEW index \in Nat
    PROVE  LET after == Sublayers!EraseAt(r, index)
           IN  /\ InStep(after) /\ SameOffsets(r, after)
               /\ index < Len(r.paths) =>
                      Targets!ToSet(after.paths) = Targets!ToSet(r.paths) \ {r.paths[index + 1]}
  <1> DEFINE none == <<>>
             after == Sublayers!ReplaceEdits(r, index, 1, none)
             part == Spliced(r.paths, index, 1, none)
  <1>1. Sublayers!EraseAt(r, index) = after
    BY DEF Sublayers!EraseAt
  <1>2. none \in Seq(Assets) /\ r.paths \in Seq(Assets) /\ Targets!IsInjective(r.paths)
        /\ Len(r.paths) \in Nat
    BY DEF InStep
  <1>3. index < Len(r.paths) => /\ Targets!IsInjective(part)
                                /\ Targets!ToSet(part) = Targets!ToSet(r.paths) \ {r.paths[index + 1]}
    BY <1>2, SplicedOut
  <1> HIDE DEF none
  <1>4. /\ InStep(after) /\ SameOffsets(r, after)
        /\ (index + 1 <= Len(r.paths) /\ Targets!IsInjective(part)) => after.paths = part
    BY <1>2, ReplaceEditsKeeps, SMTT(60)
  <1> HIDE DEF after, part
  <1> QED BY <1>1, <1>2, <1>3, <1>4

LEMMA InsertSubLayerPathKeeps ==
    ASSUME OffsetsKept, NEW path \in Assets, NEW index \in -1 .. MaxSubLayers,
           Sublayers!InsertSubLayerPath(path, index)
    PROVE  OffsetsKept' /\ Sublayers!OffsetsStep
  <1>1. index \in Nat \cup {-1}
    BY ListConstants
  <1>2. Sublayers!Written(Sublayers!Insert(Sublayers!Fields, path, index))
    BY DEF Sublayers!InsertSubLayerPath
  <1> QED BY <1>1, <1>2, InsertKeeps, WrittenKeeps DEF OffsetsKept

LEMMA RemoveSubLayerPathKeeps ==
    ASSUME OffsetsKept, NEW index \in 0 .. MaxSubLayers, Sublayers!RemoveSubLayerPath(index)
    PROVE  OffsetsKept' /\ Sublayers!OffsetsStep
  <1>1. index \in Nat
    BY ListConstants
  <1>2. Sublayers!Written(Sublayers!EraseAt(Sublayers!Fields, index))
    BY DEF Sublayers!RemoveSubLayerPath
  <1> QED BY <1>1, <1>2, EraseAtKeeps, WrittenKeeps DEF OffsetsKept

LEMMA ModifySubLayersKeeps ==
    ASSUME OffsetsKept, NEW cb \in [Assets -> Assets \cup {Sublayers!NoItem}],
           Sublayers!ModifySubLayers(cb)
    PROVE  OffsetsKept' /\ Sublayers!OffsetsStep
  <1> DEFINE new == Sublayers!MakeUnique(Sublayers!Mapped(paths, cb))
  <1>1. new \in Seq(Assets)
    <2>1. paths \in Seq(Assets)
      BY KeptIs
    <2>2. \A x \in Targets!ToSet(paths) : cb[x] \in Assets \cup {Targets!NoItem}
      BY <2>1, Listing DEF Sublayers!NoItem, Targets!NoItem
    <2>3. Targets!Mapped(paths, cb) \in Seq(Assets)
      BY <2>1, <2>2, MappedIs
    <2> QED BY <2>3, UniqueMade, SameMakeUnique, SameMapped
  <1>2. Sublayers!Written(Sublayers!UpdateFieldData(Sublayers!Fields, new))
    BY DEF Sublayers!ModifySubLayers
  <1> HIDE DEF new
  <1> QED BY <1>1, <1>2, UpdateFieldDataKeeps, WrittenKeeps DEF OffsetsKept

LEMMA ApplySubLayersKeeps ==
    ASSUME OffsetsKept, NEW stronger \in Seq(Assets), Sublayers!ApplySubLayers(stronger)
    PROVE  OffsetsKept' /\ Sublayers!OffsetsStep
  <1> DEFINE op == Targets!SetItems(Targets!NewListOp, paths, "ordered")
             over == Targets!SetItems(Targets!NewListOp, stronger, "ordered")
             new == Targets!ComposeOperations(op, over, "ordered")
  <1>1. paths \in Seq(Assets) /\ "ordered" \in Targets!Kinds /\ Targets!NoItem \notin Assets
    BY KeptIs, ListConstants DEF Targets!Kinds
  <1>2. Sublayers!Written(Sublayers!UpdateFieldData(Sublayers!Fields, new.items["ordered"]))
    BY SameSetItems, SameNewListOp, OrderComposed DEF Sublayers!ApplySubLayers
  <1>3. op \in OpsOf(Assets) /\ over \in OpsOf(Assets)
    <2> DEFINE none == Targets!NewListOp
    <2>1. none \in OpsOf(Assets)
      BY NewOps
    <2> HIDE DEF none
    <2>2. Targets!SetItems(none, paths, "ordered") \in OpsOf(Assets)
          /\ Targets!SetItems(none, stronger, "ordered") \in OpsOf(Assets)
      BY <1>1, <2>1, ItemsSet
    <2> QED BY <2>2 DEF none
  <1> HIDE DEF op, over
  <1>4. PICK items \in Seq(Assets) : new = Targets!SetItems(op, items, "ordered")
    BY <1>1, <1>3, OperationsComposed
  <1>5. new \in OpsOf(Assets)
    <2> HIDE DEF new
    <2> QED BY <1>1, <1>3, <1>4, ItemsSet
  <1>6. new.items["ordered"] \in Seq(Assets)
    <2> HIDE DEF new
    <2> QED BY <1>1, <1>5 DEF OpsOf
  <1> HIDE DEF new
  <1> QED BY <1>2, <1>6, UpdateFieldDataKeeps, WrittenKeeps DEF OffsetsKept

LEMMA SetSubLayerOffsetKeeps ==
    ASSUME OffsetsKept, NEW offset \in Offsets, NEW index, Sublayers!SetSubLayerOffset(offset,
           index)
    PROVE  OffsetsKept' /\ Sublayers!OffsetsStep
  <1>1. /\ paths \in Seq(Assets) /\ Targets!IsInjective(paths)
        /\ offsets \in Seq(OffsetValues) /\ Len(offsets) = Len(paths)
    BY KeptIs
  <1>2. /\ index \in 0 .. Len(offsets) - 1
        /\ offsets' = [offsets EXCEPT ![index + 1] = offset]
        /\ call' = <<"offset", index>> /\ paths' = paths
    BY DEF Sublayers!SetSubLayerOffset
  <1>3. index + 1 \in DOMAIN offsets /\ offset \in OffsetValues
    BY <1>1, <1>2 DEF OffsetValues
  <1>4. offsets' \in Seq(OffsetValues) /\ Len(offsets') = Len(offsets)
    BY <1>1, <1>2, <1>3, ExceptSeq
  <1>5. OffsetsKept'
    BY <1>1, <1>2, <1>4 DEF OffsetsKept, InStep, Sublayers!Fields
  <1>6. ASSUME NEW path \in Targets!ToSet(paths), paths[index + 1] # path
        PROVE  Sublayers!OffsetOf(path)' = Sublayers!OffsetOf(path)
    <2> DEFINE at == FirstPlace(paths, path)
    <2>1. at \in 1 .. Len(paths) /\ paths[at] = path
      BY <1>1, <1>6, PlaceIs
    <2>2. Sublayers!OffsetOf(path)' = offsets'[at] /\ Sublayers!OffsetOf(path) = offsets[at]
      BY <1>2, OffsetOfIs, OffsetOfIsNext
    <2> HIDE DEF at
    <2>3. at # index + 1 /\ at \in DOMAIN offsets
      BY <1>1, <1>6, <2>1
    <2> QED BY <1>1, <1>2, <2>2, <2>3
  <1>7. Len(paths') = Len(offsets') /\ Sublayers!IsInjective(paths')
    BY <1>1, <1>2, <1>4, SameSets
  <1>8. call'[1] = "offset" /\ call'[2] = index
    BY <1>2
  <1> QED BY <1>5, <1>6, <1>7, <1>8, SameSets DEF Sublayers!OffsetsStep

\* A rename takes the old path out and puts the new one in its place: it is refused where the
\* new path is already named.
LEMMA UpdateKeeps ==
    ASSUME OffsetsKept, NEW old \in Assets, NEW new \in Assets \cup {Sublayers!NoItem},
           Sublayers!UpdateCompositionAssetDependency(old, new)
    PROVE  OffsetsKept' /\ Sublayers!OffsetsStep
  <1> DEFINE fields == Sublayers!Fields
             at == FirstPlace(paths, old)
             removed == Sublayers!EraseAt(fields, at - 1)
             after == IF new = Sublayers!NoItem THEN removed
                      ELSE Sublayers!Insert(removed, new, at - 1)
  <1>1. /\ paths \in Seq(Assets) /\ Len(paths) \in Nat /\ fields.paths = paths
        /\ fields.offsets = offsets
    BY KeptIs DEF Sublayers!Fields
  <1>2. at \in 0 .. Len(paths) /\ (at # 0 => paths[at] = old)
    BY <1>1, PlaceIs
  <1>3. /\ call' = <<"update", old, new>>
        /\ IF at - 1 # -1 THEN Sublayers!Written(after) ELSE UNCHANGED <<paths, offsets>>
    BY DEF Sublayers!UpdateCompositionAssetDependency, Sublayers!SelectInSeq, FirstPlace,
           Sublayers!Min, Targets!Min
  <1> HIDE DEF at
  <1>4. CASE at = 0
    <2>1. UNCHANGED <<paths, offsets>>
      BY <1>3, <1>4
    <2> QED BY <2>1, UnchangedKeeps
  <1>5. CASE at # 0
    <2>1. at - 1 \in Nat /\ at - 1 < Len(paths) /\ (at - 1) + 1 = at /\ at - 1 \in Nat \cup {-1}
      BY <1>1, <1>2, <1>5
    <2>2. /\ InStep(removed) /\ SameOffsets(fields, removed)
          /\ Targets!ToSet(removed.paths) = Targets!ToSet(paths) \ {old}
      <3> HIDE DEF fields
      <3>1. InStep(fields)
        BY DEF OffsetsKept, fields
      <3>2. /\ InStep(removed) /\ SameOffsets(fields, removed)
            /\ at - 1 < Len(fields.paths) =>
                   Targets!ToSet(removed.paths) = Targets!ToSet(fields.paths) \ {fields.paths[(at - 1) + 1]}
        BY <2>1, <3>1, EraseAtKeeps
      <3> QED BY <1>1, <1>2, <1>5, <2>1, <3>2
    <2> HIDE DEF fields, removed
    <2>3. /\ InStep(after) /\ SameOffsets(removed, after)
          /\ Targets!ToSet(after.paths) \subseteq Targets!ToSet(removed.paths) \cup {new}
          /\ new = Sublayers!NoItem => after = removed
      <3>1. CASE new = Sublayers!NoItem
        BY <2>2, <3>1 DEF SameOffsets
      <3>2. CASE new # Sublayers!NoItem
        <4>1. new \in Assets
          BY <3>2
        <4>2. after = Sublayers!Insert(removed, new, at - 1)
          BY <3>2
        <4> HIDE DEF after
        <4> QED BY <2>1, <2>2, <3>2, <4>1, <4>2, InsertKeeps, ZenonT(60)
      <3> QED BY <3>1, <3>2
    <2> HIDE DEF after
    <2>4. paths' = after.paths /\ offsets' = after.offsets
      BY <1>3, <1>2, <1>5 DEF Sublayers!Written
    <2>5. OffsetsKept' /\ Len(paths') = Len(offsets') /\ Sublayers!IsInjective(paths')
      BY <2>3, <2>4, SameSets DEF OffsetsKept, InStep, Sublayers!Fields
    <2>6. ASSUME NEW path \in Targets!ToSet(paths), path \in Targets!ToSet(paths')
          PROVE  \/ call' = <<"update", path, path>>
                 \/ Sublayers!OffsetOf(path)' = Sublayers!OffsetOf(path)
      <3>1. CASE path = old
        <4>1. path = new
          BY <2>2, <2>3, <2>4, <2>6, <3>1
        <4> QED BY <1>3, <3>1, <4>1
      <3>2. CASE path # old
        <4>1. path \in Targets!ToSet(removed.paths)
          BY <2>2, <3>2
        <4>2. /\ after.offsets[FirstPlace(after.paths,
               path)] = removed.offsets[FirstPlace(removed.paths, path)]
              /\ removed.offsets[FirstPlace(removed.paths, path)] = offsets[FirstPlace(paths, path)]
          BY <1>1, <2>2, <2>3, <2>4, <2>6, <4>1 DEF SameOffsets
        <4> QED BY <2>4, <4>2, OffsetOfIs, OffsetOfIsNext
      <3> QED BY <3>1, <3>2
    <2> QED BY <2>5, <2>6, SameSets DEF Sublayers!OffsetsStep
  <1> QED BY <1>4, <1>5

LEMMA OffsetsStart ==
    ASSUME Sublayers!Init
    PROVE  OffsetsKept
  <1>1. paths = <<>> /\ offsets = <<>>
    BY DEF Sublayers!Init
  <1> QED BY <1>1, KeptIs, NoneOf

LEMMA OffsetsStay ==
    ASSUME OffsetsKept, Sublayers!Next
    PROVE  OffsetsKept' /\ Sublayers!OffsetsStep
  <1>1. PathLists \subseteq Seq(Assets)
    BY ListConstants
  <1>2. ASSUME NEW prim, NEW op, Sublayers!SetReferences(prim, op)
        PROVE  OffsetsKept' /\ Sublayers!OffsetsStep
    BY <1>2, UnchangedKeeps DEF Sublayers!SetReferences
  <1>3. CASE \E new \in PathLists : Sublayers!SetSubLayerPaths(new) \/ Sublayers!ApplySubLayers(new)
    BY <1>1, <1>3, SetSubLayerPathsKeeps, ApplySubLayersKeeps
  <1>4. CASE \E path \in Assets, index
         \in -1 .. MaxSubLayers : Sublayers!InsertSubLayerPath(path, index)
    BY <1>4, InsertSubLayerPathKeeps
  <1>5. CASE \E index \in 0 .. MaxSubLayers : Sublayers!RemoveSubLayerPath(index)
    BY <1>5, RemoveSubLayerPathKeeps
  <1>6. CASE \E cb \in [Assets -> Assets \cup {Sublayers!NoItem}] : Sublayers!ModifySubLayers(cb)
    BY <1>6, ModifySubLayersKeeps
  <1>7. CASE \E offset \in Offsets,
         index \in 0 .. MaxSubLayers : Sublayers!SetSubLayerOffset(offset, index)
    BY <1>7, SetSubLayerOffsetKeeps
  <1>8. CASE \E old \in Assets, new \in Assets \cup {Sublayers!NoItem} :
                Sublayers!UpdateCompositionAssetDependency(old, new)
    BY <1>8, UpdateKeeps
  <1> QED BY <1>2, <1>3, <1>4, <1>5, <1>6, <1>7, <1>8 DEF Sublayers!Next

-----------------------------------------------------------------------------
(* The layer that is muted, edited and saved                               *)

\* None of the uses after which the code does not keep its promises.
State == INSTANCE LayerState WITH Path <- Identifier, Allowed <- {}

ASSUME StateConstants == State!StateConstants

LayerType == [open : BOOLEAN, path : Identifier \cup {None}, data : Content \cup {None},
              dirty : BOOLEAN, told : BOOLEAN, time : 0 .. MaxTime]

\* Types, and what an open layer has.
TypeInv ==
    /\ State!TypeOK
    /\ \A path \in Identifier : State!Exists(path) => file[path].content \in Content
    /\ layer.open => layer.path \in Identifier /\ {layer.data, authored, synced} \subseteq Content

\* The cache of IsMuted, and who may use it.
CacheInv ==
    /\ \A a \in Asker : mutex = a <=> asker[a].pc = "store"
    /\ \A a \in Asker : asker[a].pc # "idle" => layer.open
    /\ cache.revision <= revision
    /\ mutex # None => cache.revision = revision
    /\ layer.open /\ mutex = None /\ cache.revision = revision
       => cache.muted = (layer.path \in mutedLayers)

\* What an asker will be told was so, whichever way it comes to its answer.
AskInv ==
    \A a \in Asker :
        /\ asker[a].pc # "idle" => (layer.path \in mutedLayers) \in asker[a].truths
        /\ asker[a].seen <= revision
        /\ asker[a].pc = "compare" /\ mutex = None /\ cache.revision = asker[a].seen
           => cache.muted \in asker[a].truths

\* What is put aside for the open layer is what was authored in it.
AsideInv ==
    layer.open /\ layer.path \in mutedLayers =>
        /\ mutedData[layer.path] # None => mutedData[layer.path] = authored
        /\ layer.dirty => mutedData[layer.path] # None

StateInv ==
    TypeInv /\ CacheInv /\ AskInv /\ State!MutedAnswers /\ AsideInv /\ State!ContentShown
           /\ State!CleanMeansSaved

-----------------------------------------------------------------------------
(* The helpers                                                             *)

\* New data, with what becomes of the dirtiness.
LEMMA SetDataFields ==
    ASSUME NEW l \in LayerType, NEW content \in Content
    PROVE  /\ State!SetData(l, content) \in LayerType
           /\ State!SetData(l, content).data = content
           /\ State!SetData(l, content).open = l.open
           /\ State!SetData(l, content).path = l.path
           /\ State!SetData(l, content).time = l.time
           /\ l.dirty => State!SetData(l, content).dirty
           /\ ~streams /\ l.data # content => State!SetData(l, content).dirty
  BY DEF State!SetData, State!AdoptData, State!Edited, State!MarkCurrentStateAsDirty,
     State!Told, LayerType

LEMMA EditedFields ==
    ASSUME NEW l \in LayerType, NEW content \in Content
    PROVE  /\ State!Edited(l, content) \in LayerType
           /\ State!Edited(l, content).data = content /\ State!Edited(l, content).dirty
           /\ State!Edited(l, content).open = l.open /\ State!Edited(l, content).path = l.path
  BY DEF State!Edited, State!MarkCurrentStateAsDirty, State!Told, LayerType

LEMMA ReplacedFields ==
    ASSUME NEW l \in LayerType, NEW content \in Content
    PROVE  /\ State!Replaced(l, content) \in LayerType
           /\ State!Replaced(l, content).data = content
           /\ State!Replaced(l, content).open = l.open /\ State!Replaced(l, content).path = l.path
           /\ ~State!Replaced(l, content).dirty => ~l.dirty /\ l.data = content
  BY DEF State!Replaced, State!SetData, State!AdoptData, State!Edited,
     State!MarkCurrentStateAsDirty, State!Told, LayerType

LEMMA ReloadMutedFields ==
    ASSUME NEW l \in LayerType
    PROVE  /\ State!ReloadMuted(l) \in LayerType
           /\ State!ReloadMuted(l).data = Empty
           /\ State!ReloadMuted(l).open = l.open /\ State!ReloadMuted(l).path = l.path
           /\ State!ReloadMuted(l).dirty => l.dirty
           /\ l.data = Empty => State!ReloadMuted(l) = l
  BY StateConstants DEF State!StateConstants, State!ReloadMuted, State!SetData, State!AdoptData,
     State!Edited, State!MarkCurrentStateAsDirty,
         State!MarkCurrentStateAsClean, State!Told, LayerType

LEMMA ReadFields ==
    ASSUME TypeInv, layer.open, State!Exists(layer.path)
    PROVE  /\ State!Read(layer) \in LayerType
           /\ State!Read(layer).data = file[layer.path].content
           /\ State!Read(layer).data \in Content
           /\ State!Read(layer).open /\ State!Read(layer).path = layer.path
                  /\ ~State!Read(layer).dirty
  <1> DEFINE c == file[layer.path].content
             l == State!SetData(layer, c)
  <1>1. c \in Content /\ layer \in LayerType /\ file[layer.path].time \in 0 .. MaxTime
    BY DEF TypeInv, State!TypeOK, LayerType
  <1>2. l \in LayerType /\ l.data = c /\ l.open /\ l.path = layer.path
    BY <1>1, SetDataFields
  <1>3. State!Read(layer) = [State!MarkCurrentStateAsClean(l) EXCEPT !.time = file[layer.path].time]
    BY DEF State!Read, State!SetLayerData
  <1> HIDE DEF c, l
  <1> QED BY <1>1, <1>2, <1>3 DEF State!MarkCurrentStateAsClean, LayerType, c

\* The cache after IsMuted: it is left as it is between the two stores of an asker.
LEMMA CacheRefreshed ==
    ASSUME TypeInv, CacheInv, layer.open
    PROVE  /\ State!Refreshed.revision = revision
           /\ State!Refreshed \in [revision : 0 .. MaxRevision, muted : BOOLEAN]
           /\ mutex = None => State!Refreshed.muted = (layer.path \in mutedLayers)
           /\ mutex # None => State!Refreshed = cache
  BY DEF CacheInv, TypeInv, State!TypeOK, State!Refreshed, State!CacheAt

\* The answer of IsMuted to the thread that works with the layer.
LEMMA WorkerAnswer ==
    ASSUME TypeInv, CacheInv, layer.open, State!ToldRight
    PROVE  /\ State!IsMuted = (layer.path \in mutedLayers)
           /\ State!Refreshed \in [revision : 0 .. MaxRevision, muted : BOOLEAN]
  BY CacheRefreshed DEF State!ToldRight

\* A file that is written.
LEMMA FileWritten ==
    ASSUME TypeInv, NEW path \in Identifier, NEW c \in Content, State!Write(path, c)
    PROVE  /\ now' \in 1 .. MaxTime
           /\ file' \in [Identifier -> [content : Content \cup {None}, time : 0 .. MaxTime]]
           /\ \A p \in Identifier : State!Exists(p)' => file'[p].content \in Content
  <1>1. /\ now < MaxTime /\ now' = now + 1
        /\ file' = [file EXCEPT ![path] = [content |-> c, time |-> now']]
    BY DEF State!Write
  <1>2. now' \in 1 .. MaxTime
    BY StateConstants, <1>1 DEF TypeInv, State!TypeOK, State!StateConstants
  <1>3. file' \in [Identifier -> [content : Content \cup {None}, time : 0 .. MaxTime]]
    BY <1>1, <1>2 DEF TypeInv, State!TypeOK
  <1>4. \A p \in Identifier : State!Exists(p)' => file'[p].content \in Content
    BY <1>1 DEF TypeInv, State!TypeOK, State!Exists
  <1> QED BY <1>2, <1>3, <1>4

\* What is written is what was authored, whether the layer is muted or not.
LEMMA AuthoredWritten ==
    ASSUME StateInv, layer.open, NEW path \in Identifier, State!WriteToFile(path)
    PROVE  State!ToWrite = authored /\ State!Write(path, authored) /\ authored \in Content
  <1> USE DEF StateInv
  <1>1. CASE layer.path \in mutedLayers
    <2>1. mutedData[layer.path] # None
      BY <1>1 DEF State!WriteToFile
    <2>2. mutedData[layer.path] = authored
      BY <1>1, <2>1 DEF AsideInv
    <2> QED BY <2>1, <2>2 DEF State!ToWrite, State!WriteToFile, TypeInv
  <1>2. CASE layer.path \notin mutedLayers
    <2>1. mutedData[layer.path] = None /\ layer.data = authored
      BY <1>2 DEF State!WriteToFile, State!NothingKept, State!ContentShown
    <2> QED BY <2>1 DEF State!ToWrite, State!WriteToFile, TypeInv
  <1> QED BY <1>1, <1>2

-----------------------------------------------------------------------------
(* The steps                                                               *)

LEMMA UnchangedStep ==
    ASSUME StateInv, UNCHANGED State!vars
    PROVE  StateInv'
  <1> USE DEF StateInv, State!vars
  <1>1. TypeInv'
    BY DEF TypeInv, State!TypeOK, State!Exists
  <1>2. CacheInv' /\ AskInv' /\ State!MutedAnswers'
    BY DEF CacheInv, AskInv, State!MutedAnswers
  <1>3. AsideInv' /\ State!ContentShown' /\ State!CleanMeansSaved'
    BY DEF AsideInv, State!ContentShown, State!CleanMeansSaved
  <1> QED BY <1>1, <1>2, <1>3

\* Steps that change files alone.
LEMMA FileStep ==
    ASSUME StateInv, NEW path \in Identifier, State!ChangeFile(path) \/ State!RemoveFile(path)
    PROVE  StateInv'
  <1> USE DEF StateInv
  <1>1. UNCHANGED <<streams, layer, State!muting, cache, State!asking, State!ghosts>>
    BY DEF State!ChangeFile, State!RemoveFile
  <1>2. /\ now' \in 1 .. MaxTime
        /\ file' \in [Identifier -> [content : Content \cup {None}, time : 0 .. MaxTime]]
        /\ \A p \in Identifier : State!Exists(p)' => file'[p].content \in Content
    <2>1. CASE State!ChangeFile(path)
      <3>1. PICK c \in Content : State!Write(path, c)
        BY <2>1 DEF State!ChangeFile
      <3> QED BY <3>1, FileWritten
    <2>2. CASE State!RemoveFile(path)
      <3>1. file' = [file EXCEPT ![path] = State!NoFile] /\ now' = now
        BY <2>2 DEF State!RemoveFile
      <3> QED BY StateConstants, <3>1 DEF TypeInv, State!TypeOK, State!Exists, State!NoFile,
                 State!StateConstants
    <2> QED BY <2>1, <2>2
  <1>3. TypeInv'
    BY <1>1, <1>2 DEF TypeInv, State!TypeOK, State!muting, State!asking, State!ghosts
  <1>4. CacheInv' /\ AskInv' /\ State!MutedAnswers'
    BY <1>1 DEF CacheInv, AskInv, State!MutedAnswers, State!muting, State!asking
  <1>5. AsideInv' /\ State!ContentShown' /\ State!CleanMeansSaved'
    BY <1>1 DEF AsideInv, State!ContentShown, State!CleanMeansSaved, State!muting, State!ghosts
  <1> QED BY <1>3, <1>4, <1>5

\* Open and Close: nobody asks a layer that is not open.
LEMMA OpenStep ==
    ASSUME StateInv, NEW path \in Identifier, State!Open(path)
    PROVE  StateInv'
  <1> USE DEF StateInv
  <1>1. /\ ~layer.open /\ mutedData[path] = None
        /\ file[path].content \in Content /\ file[path].time \in 0 .. MaxTime
        /\ cache' = [revision |-> revision, muted |-> path \in mutedLayers]
        /\ layer' = [open |-> TRUE, path |-> path, dirty |-> FALSE, told |-> FALSE,
                     data |-> IF path \in mutedLayers THEN Empty ELSE file[path].content,
                     time |-> file[path].time]
        /\ authored' = file[path].content /\ synced' = file[path].content
        /\ UNCHANGED <<streams, now, file, mutedLayers, revision, mutedData, mutex, asker>>
    BY DEF State!Open, State!NothingKept, TypeInv, State!TypeOK, State!muting, State!asking
  <1>2. TypeInv'
    BY StateConstants, <1>1 DEF TypeInv, State!TypeOK, State!Exists, State!NoFile,
       State!StateConstants
  <1>3. CacheInv'
    BY <1>1 DEF CacheInv, TypeInv, State!TypeOK
  <1>4. AskInv' /\ State!MutedAnswers'
    BY <1>1 DEF CacheInv, AskInv, State!MutedAnswers
  <1>5. AsideInv' /\ State!ContentShown' /\ State!CleanMeansSaved'
    BY <1>1 DEF AsideInv, State!ContentShown, State!CleanMeansSaved
  <1> QED BY <1>2, <1>3, <1>4, <1>5

LEMMA CloseStep ==
    ASSUME StateInv, State!Close
    PROVE  StateInv'
  <1> USE DEF StateInv
  <1>1. /\ \A a \in Asker : asker[a].pc = "idle"
        /\ layer' = State!Closed /\ cache' = State!NoCache
        /\ mutedData' \in [Identifier -> Content \cup {None}]
        /\ authored' = None /\ synced' = None
        /\ asker' = [a \in Asker |-> State!Idle]
        /\ UNCHANGED <<streams, now, file, mutedLayers, revision, mutex>>
    BY DEF State!Close, TypeInv, State!TypeOK
  <1>2. mutex = None
    BY <1>1 DEF CacheInv, TypeInv, State!TypeOK
  <1>3. TypeInv'
    BY StateConstants, <1>1 DEF TypeInv, State!TypeOK, State!Closed, State!NoCache, State!Idle,
       State!Exists, State!NoFile, State!StateConstants
  <1>4. CacheInv' /\ AskInv' /\ State!MutedAnswers'
    <2>1. /\ \A a \in Asker : asker'[a].pc = "idle" /\ asker'[a].seen = 0 /\ mutex' # a
          /\ ~layer'.open /\ cache'.revision = 0 /\ mutex' = None /\ revision' \in Nat
      BY StateConstants, <1>1, <1>2 DEF State!Closed, State!NoCache, State!Idle, TypeInv,
         State!TypeOK, State!StateConstants
    <2> QED BY <2>1 DEF CacheInv, AskInv, State!MutedAnswers
  <1>5. AsideInv' /\ State!ContentShown' /\ State!CleanMeansSaved'
    BY <1>1 DEF AsideInv, State!ContentShown, State!CleanMeansSaved, State!Closed
  <1> QED BY <1>3, <1>4, <1>5

\* A step of the thread that works with the layer, which refreshes the cache or
\* leaves it and neither mutes nor renames, keeps what askers rely on.
LEMMA CacheKept ==
    ASSUME TypeInv, CacheInv, AskInv, State!MutedAnswers, layer.open,
           cache' = cache \/ cache' = State!Refreshed,
           layer'.open, layer'.path = layer.path,
           UNCHANGED <<mutedLayers, revision, mutex, asker>>
    PROVE  CacheInv' /\ AskInv' /\ State!MutedAnswers'
  <1>1. /\ State!Refreshed.revision = revision
        /\ mutex = None => State!Refreshed.muted = (layer.path \in mutedLayers)
        /\ mutex # None => State!Refreshed = cache
        /\ revision \in Nat
    BY CacheRefreshed DEF TypeInv, State!TypeOK
  <1>2. \A a \in Asker : asker[a].seen \in Nat
    BY DEF TypeInv, State!TypeOK
  <1>3. CacheInv'
    BY <1>1 DEF CacheInv
  <1>4. State!MutedAnswers'
    BY <1>1 DEF AskInv, State!MutedAnswers
  <1>5. AskInv'
    BY <1>1, <1>2 DEF AskInv, CacheInv
  <1> QED BY <1>3, <1>4, <1>5

LEMMA EditStep ==
    ASSUME StateInv, NEW content \in Content,
           State!Edit(content) \/ State!Replace(content)
    PROVE  StateInv'
  <1> USE DEF StateInv
  <1>1. /\ layer.open /\ State!ToldRight /\ ~State!IsMuted
        /\ cache' = State!Refreshed /\ authored' = content
        /\ layer' = State!Edited(layer, content) \/ layer' = State!Replaced(layer, content)
        /\ UNCHANGED <<streams, now, file, mutedLayers, revision, mutedData, mutex, asker, synced>>
    BY DEF State!Edit, State!Replace, State!PermissionToEdit, State!muting, State!asking
  <1>2. layer \in LayerType
    BY DEF TypeInv, State!TypeOK, LayerType
  <1>3. /\ layer' \in LayerType /\ layer'.data = content
        /\ layer'.open /\ layer'.path = layer.path
        /\ ~layer'.dirty => ~layer.dirty /\ layer.data = content
    BY <1>1, <1>2, EditedFields, ReplacedFields
  <1>4. layer.path \notin mutedLayers /\ State!Refreshed \in [revision : 0 .. MaxRevision,
         muted : BOOLEAN]
    BY <1>1, WorkerAnswer
  <1>5. TypeInv'
    <2>1. State!TypeOK'
      BY <1>1, <1>3, <1>4 DEF TypeInv, State!TypeOK, LayerType
    <2> QED BY <1>1, <1>3, <2>1 DEF TypeInv, State!Exists
  <1>6. CacheInv' /\ AskInv' /\ State!MutedAnswers'
    BY <1>1, <1>3, CacheKept
  <1>7. AsideInv' /\ State!ContentShown' /\ State!CleanMeansSaved'
    BY <1>1, <1>3, <1>4 DEF AsideInv, State!ContentShown, State!CleanMeansSaved
  <1> QED BY <1>5, <1>6, <1>7

LEMMA ImportStep ==
    ASSUME StateInv, NEW path \in Identifier, State!Import(path)
    PROVE  StateInv'
  <1> USE DEF StateInv
  <1> DEFINE content == file[path].content
  <1>1. /\ layer.open /\ content \in Content
        /\ layer.path \notin mutedLayers /\ ~streams
        /\ layer' = State!SetData(layer, content) /\ authored' = content
        /\ UNCHANGED <<streams, now, file, mutedLayers, revision, mutedData, cache, mutex, asker,
                       synced>>
    BY DEF State!Import, State!SetLayerData, State!muting, State!asking, TypeInv
  <1> HIDE DEF content
  <1>2. layer \in LayerType
    BY DEF TypeInv, State!TypeOK, LayerType
  <1>3. /\ layer' \in LayerType /\ layer'.data = content
        /\ layer'.open /\ layer'.path = layer.path
        /\ ~layer'.dirty => ~layer.dirty /\ layer.data = content
    <2>1. layer.dirty \in BOOLEAN /\ State!SetData(layer, content).dirty \in BOOLEAN
      BY <1>1, <1>2, SetDataFields DEF LayerType
    <2> QED BY <1>1, <1>2, <2>1, SetDataFields
  <1>4. TypeInv'
    <2>1. State!TypeOK'
      BY <1>1, <1>3 DEF TypeInv, State!TypeOK, LayerType
    <2> QED BY <1>1, <1>3, <2>1 DEF TypeInv, State!Exists
  <1>5. CacheInv' /\ AskInv' /\ State!MutedAnswers'
    BY <1>1, <1>3, CacheKept
  <1>6. AsideInv' /\ State!ContentShown' /\ State!CleanMeansSaved'
    BY <1>1, <1>3 DEF AsideInv, State!ContentShown, State!CleanMeansSaved
  <1> QED BY <1>4, <1>5, <1>6

LEMMA ReloadStep ==
    ASSUME StateInv, NEW force \in BOOLEAN, State!Reload(force)
    PROVE  StateInv'
  <1> USE DEF StateInv
  <1>1. /\ layer.open /\ State!ToldRight /\ cache' = State!Refreshed
        /\ UNCHANGED <<streams, now, file, mutedLayers, revision, mutedData, mutex, asker>>
    BY DEF State!Reload, State!ReloadFrom, State!muting, State!asking
  <1>2. /\ State!IsMuted = (layer.path \in mutedLayers) /\ layer \in LayerType
        /\ State!Refreshed \in [revision : 0 .. MaxRevision, muted : BOOLEAN]
    BY <1>1, WorkerAnswer DEF TypeInv, State!TypeOK, LayerType
  <1>3. CASE State!IsMuted
    <2>1. layer' = layer /\ UNCHANGED <<authored, synced>>
      BY <1>1, <1>2, <1>3, ReloadMutedFields DEF State!Reload, State!ReloadFrom,
         State!ContentShown, State!ghosts
    <2>2. TypeInv'
      BY <1>1, <1>2, <2>1 DEF TypeInv, State!TypeOK, State!Exists
    <2>3. CacheInv' /\ AskInv' /\ State!MutedAnswers'
      BY <1>1, <2>1, CacheKept
    <2>4. AsideInv' /\ State!ContentShown' /\ State!CleanMeansSaved'
      BY <1>1, <2>1 DEF AsideInv, State!ContentShown, State!CleanMeansSaved
    <2> QED BY <2>2, <2>3, <2>4
  <1>4. CASE ~State!IsMuted
    <2>1. State!Exists(layer.path) /\ layer' = State!Read(layer)
          /\ authored' = layer'.data /\ synced' = layer'.data
      BY <1>4 DEF State!Reload, State!ReloadFrom, State!MustRead
    <2>2. /\ layer' \in LayerType /\ layer'.data \in Content /\ layer'.open
          /\ layer'.path = layer.path /\ ~layer'.dirty
      BY <1>1, <2>1, ReadFields
    <2>3. TypeInv'
      <3>1. State!TypeOK'
        BY <1>1, <1>2, <2>1, <2>2 DEF TypeInv, State!TypeOK, LayerType
      <3> QED BY <1>1, <2>1, <2>2, <3>1 DEF TypeInv, State!Exists
    <2>4. CacheInv' /\ AskInv' /\ State!MutedAnswers'
      BY <1>1, <2>2, CacheKept
    <2>5. AsideInv' /\ State!ContentShown' /\ State!CleanMeansSaved'
      BY <1>1, <1>2, <1>4, <2>1, <2>2 DEF AsideInv, State!ContentShown, State!CleanMeansSaved
    <2> QED BY <2>3, <2>4, <2>5
  <1> QED BY <1>3, <1>4

\* The askers who are under way learn of one more truth.
LEMMA WitnessFields ==
    ASSUME TypeInv, NEW muted, NEW path
    PROVE  /\ State!Witness(muted, path)
                \in [Asker -> [pc : {"idle", "compare", "lock", "store", "answer"},
                               seen : 0 .. MaxRevision, truths : SUBSET BOOLEAN]]
           /\ \A a \in Asker :
                 /\ State!Witness(muted, path)[a].pc = asker[a].pc
                 /\ State!Witness(muted, path)[a].seen = asker[a].seen
                 /\ asker[a].truths \subseteq State!Witness(muted, path)[a].truths
                 /\ asker[a].pc # "idle" => (path \in muted) \in State!Witness(muted,
                        path)[a].truths
  <1> DEFINE More(a) == asker[a].truths \cup {(path \in muted)}
  <1>1. State!Witness(muted, path) = [a \in Asker |-> IF asker[a].pc = "idle" THEN asker[a]
                                                ELSE [asker[a] EXCEPT !.truths = More(a)]]
    BY Zenon DEF State!Witness
  <1>2. ASSUME NEW a \in Asker
        PROVE  More(a) \in SUBSET BOOLEAN /\ (path \in muted) \in More(a)
    <2>1. asker[a].truths \in SUBSET BOOLEAN
      BY DEF TypeInv, State!TypeOK
    <2>2. (path \in muted) \in BOOLEAN
      OBVIOUS
    <2> QED BY <2>1, <2>2, Zenon
  <1>3. \A a \in Asker : asker[a].truths \subseteq More(a)
    OBVIOUS
  <1> HIDE DEF More
  <1> QED BY <1>1, <1>2, <1>3 DEF TypeInv, State!TypeOK

\* Muting or unmuting the open layer: the cache holds the answer for an older
\* revision, or the new answer, and the askers who are under way are witnesses.
LEMMA MutingSeen ==
    ASSUME TypeInv, CacheInv, AskInv, State!MutedAnswers, layer.open, mutex = None,
           mutedLayers' \subseteq Identifier,
           revision < MaxRevision, revision' = revision + 1,
           layer'.open, layer'.path = layer.path, mutex' = mutex,
           cache' = cache \/ cache' = State!CacheAt(revision', mutedLayers', layer.path),
           asker' = State!Witness(mutedLayers', layer.path)
    PROVE  /\ CacheInv' /\ AskInv' /\ State!MutedAnswers'
           /\ cache' \in [revision : 0 .. MaxRevision, muted : BOOLEAN]
           /\ revision' \in 1 .. MaxRevision
           /\ asker' \in [Asker -> [pc : {"idle", "compare", "lock", "store", "answer"},
                                    seen : 0 .. MaxRevision, truths : SUBSET BOOLEAN]]
  <1> DEFINE truth == layer.path \in mutedLayers'
  <1>1. /\ revision \in Nat /\ MaxRevision \in Nat /\ cache.revision \in Nat
        /\ \A a \in Asker : asker[a].seen \in Nat
        /\ truth \in BOOLEAN
    BY StateConstants DEF TypeInv, State!TypeOK, State!StateConstants
  <1>2. \/ cache' = cache
        \/ cache' = [revision |-> revision', muted |-> truth]
    BY <1>1 DEF CacheInv, State!CacheAt
  <1>3. revision' \in 1 .. MaxRevision /\ cache' \in [revision : 0 .. MaxRevision, muted : BOOLEAN]
    <2>1. revision' \in 1 .. MaxRevision /\ revision' \in 0 .. MaxRevision
      BY <1>1
    <2>2. cache' = cache \/ cache' = [revision |-> revision', muted |-> truth]
      BY <1>2
    <2> HIDE DEF truth
    <2> QED BY <1>1, <2>1, <2>2 DEF TypeInv, State!TypeOK
  <1> HIDE DEF truth
  <1>4. asker' = State!Witness(mutedLayers', layer.path) /\ Asker = DOMAIN asker'
    BY DEF State!Witness
  <1>5. asker' \in [Asker -> [pc : {"idle", "compare", "lock", "store", "answer"},
                              seen : 0 .. MaxRevision, truths : SUBSET BOOLEAN]]
    BY <1>4, WitnessFields
  <1>6. \A a \in Asker : /\ asker'[a].pc = asker[a].pc /\ asker'[a].seen = asker[a].seen
                         /\ asker[a].truths \subseteq asker'[a].truths
                         /\ asker[a].pc # "idle" => truth \in asker'[a].truths
    BY <1>4, WitnessFields DEF truth
  <1>7. CacheInv'
    <2>1. cache'.revision <= revision' /\ (cache'.revision = revision' => cache'.muted = truth)
      BY <1>1, <1>2 DEF CacheInv
    <2> QED BY <1>6, <2>1 DEF CacheInv, truth
  <1>8. AskInv'
    <2> SUFFICES ASSUME NEW a \in Asker
                 PROVE  /\ asker'[a].pc # "idle" => truth \in asker'[a].truths
                        /\ asker'[a].seen <= revision'
                        /\ asker'[a].pc = "compare" /\ mutex' = None
                              /\ cache'.revision = asker'[a].seen
                           => cache'.muted \in asker'[a].truths
      BY DEF AskInv, truth
    <2> QED BY <1>1, <1>2, <1>6 DEF AskInv
  <1>9. State!MutedAnswers'
    BY <1>2, <1>6 DEF State!MutedAnswers
  <1> QED BY <1>3, <1>5, <1>7, <1>8, <1>9

\* Muting or unmuting another path than that of the open layer, or a path that is
\* muted, or not muted, already.
LEMMA MutingUnseen ==
    ASSUME StateInv, mutedLayers' \subseteq Identifier,
           mutex = None, revision < MaxRevision, revision' = revision + 1,
           layer.open => (layer.path \in mutedLayers') = (layer.path \in mutedLayers),
           UNCHANGED <<streams, now, file, layer, mutedData, cache, mutex, asker, authored, synced>>
    PROVE  StateInv'
  <1> USE DEF StateInv
  <1>1. /\ revision \in Nat /\ MaxRevision \in Nat /\ cache.revision \in Nat
        /\ \A a \in Asker : asker[a].seen \in Nat
    BY StateConstants DEF TypeInv, State!TypeOK, State!StateConstants
  <1>2. TypeInv'
    BY <1>1 DEF TypeInv, State!TypeOK, State!Exists
  <1>3. CacheInv'
    BY <1>1 DEF CacheInv
  <1>4. AskInv' /\ State!MutedAnswers'
    BY <1>1 DEF CacheInv, AskInv, State!MutedAnswers
  <1>5. AsideInv' /\ State!ContentShown' /\ State!CleanMeansSaved'
    BY DEF AsideInv, State!ContentShown, State!CleanMeansSaved
  <1> QED BY <1>2, <1>3, <1>4, <1>5

LEMMA MuteStep ==
    ASSUME StateInv, NEW path \in Identifier, State!AddToMutedLayers(path)
    PROVE  StateInv'
  <1> USE DEF StateInv
  <1>1. /\ mutex = None /\ revision < MaxRevision /\ revision' = revision + 1
        /\ mutedLayers' = mutedLayers \cup {path} /\ mutedLayers' \subseteq Identifier
        /\ UNCHANGED <<streams, now, file, mutex, authored, synced>>
    BY DEF State!AddToMutedLayers, State!ghosts, TypeInv, State!TypeOK
  <1>2. CASE path \notin mutedLayers /\ layer.open /\ layer.path = path
    <2>1. /\ State!SetAside(path) /\ asker' = State!Witness(mutedLayers', layer.path)
          /\ layer \in LayerType /\ layer.data = authored /\ Empty \in Content
      BY StateConstants, <1>2 DEF State!AddToMutedLayers, TypeInv, State!TypeOK, LayerType,
         State!ContentShown, State!StateConstants
    <2>2. /\ layer' \in LayerType /\ layer'.data = Empty
          /\ layer'.open /\ layer'.path = layer.path
          /\ layer'.dirty = layer.dirty
          /\ mutedData' \in [Identifier -> Content \cup {None}]
          /\ mutedData'[path] = IF layer.dirty THEN authored ELSE None
          /\ cache' = cache \/ cache' = State!CacheAt(revision', mutedLayers', layer.path)
      <3>1. CASE layer.dirty
        <4>1. mutedData' = [mutedData EXCEPT ![path] = layer.data]
              /\ layer' = State!SetData(layer, Empty) /\ cache' = cache
          BY <2>1, <3>1 DEF State!SetAside
        <4>2. /\ layer' \in LayerType /\ layer'.data = Empty
              /\ layer'.open = layer.open /\ layer'.path = layer.path /\ layer'.dirty
          BY <2>1, <3>1, <4>1, SetDataFields
        <4>3. layer'.dirty = layer.dirty
          BY <2>1, <3>1, <4>2 DEF LayerType
        <4> QED BY <1>2, <2>1, <3>1, <4>1, <4>2, <4>3 DEF TypeInv, State!TypeOK
      <3>2. CASE ~layer.dirty
        <4>1. mutedData[path] = None /\ mutedData' = mutedData /\ layer' = State!ReloadMuted(layer)
              /\ cache' = State!CacheAt(revision', mutedLayers', layer.path)
          BY <1>2, <2>1, <3>2 DEF State!SetAside, State!NothingKept
        <4>2. /\ layer' \in LayerType /\ layer'.data = Empty
              /\ layer'.open = layer.open /\ layer'.path = layer.path /\ ~layer'.dirty
          BY <2>1, <3>2, <4>1, ReloadMutedFields
        <4>3. layer'.dirty = layer.dirty
          BY <2>1, <3>2, <4>2 DEF LayerType
        <4> QED BY <1>2, <3>2, <4>1, <4>2, <4>3 DEF TypeInv, State!TypeOK
      <3> QED BY <3>1, <3>2
    <2>3. /\ CacheInv' /\ AskInv' /\ State!MutedAnswers'
          /\ cache' \in [revision : 0 .. MaxRevision, muted : BOOLEAN]
          /\ revision' \in 1 .. MaxRevision
          /\ asker' \in [Asker -> [pc : {"idle", "compare", "lock", "store", "answer"},
                                   seen : 0 .. MaxRevision, truths : SUBSET BOOLEAN]]
      BY <1>1, <1>2, <2>1, <2>2, MutingSeen
    <2>4. TypeInv'
      <3>1. State!TypeOK'
        BY <1>1, <2>2, <2>3 DEF TypeInv, State!TypeOK, LayerType
      <3> QED BY <1>1, <1>2, <2>1, <2>2, <3>1 DEF TypeInv, State!Exists
    <2>5. AsideInv' /\ State!ContentShown' /\ State!CleanMeansSaved'
      BY StateConstants, <1>1, <1>2, <2>1, <2>2 DEF AsideInv, State!ContentShown,
         State!CleanMeansSaved, TypeInv, State!StateConstants
    <2> QED BY <2>3, <2>4, <2>5
  <1>3. CASE ~(path \notin mutedLayers /\ layer.open /\ layer.path = path)
    <2>1. UNCHANGED <<layer, cache, mutedData, asker>>
      BY <1>3 DEF State!AddToMutedLayers
    <2>2. layer.open => (layer.path \in mutedLayers') = (layer.path \in mutedLayers)
      BY <1>1, <1>3
    <2> QED BY <1>1, <2>1, <2>2, MutingUnseen
  <1> QED BY <1>2, <1>3

LEMMA UnmuteStep ==
    ASSUME StateInv, NEW path \in Identifier, State!RemoveFromMutedLayers(path)
    PROVE  StateInv'
  <1> USE DEF StateInv
  <1>1. /\ mutex = None /\ revision < MaxRevision /\ revision' = revision + 1
        /\ mutedLayers' = mutedLayers \ {path} /\ mutedLayers' \subseteq Identifier
        /\ UNCHANGED <<streams, now, file, mutex>>
    BY DEF State!RemoveFromMutedLayers, TypeInv, State!TypeOK
  <1>2. CASE path \in mutedLayers /\ layer.open /\ layer.path = path
    <2>1. /\ State!BringBack(path) /\ asker' = State!Witness(mutedLayers', layer.path)
          /\ layer \in LayerType
      BY <1>2 DEF State!RemoveFromMutedLayers, TypeInv, State!TypeOK, LayerType
    <2>2. /\ layer' \in LayerType /\ layer'.data = authored'
          /\ layer'.open /\ layer'.path = layer.path
          /\ {authored', synced'} \subseteq Content
          /\ ~layer'.dirty => authored' = synced'
          /\ mutedData' \in [Identifier -> Content \cup {None}]
          /\ cache' = cache \/ cache' = State!CacheAt(revision', mutedLayers', layer.path)
      <3>1. CASE layer.dirty
        <4>1. /\ mutedData[path] = authored /\ authored \in Content
              /\ mutedData' = [mutedData EXCEPT ![path] = None]
              /\ layer' = State!SetData(layer, authored)
              /\ cache' = cache /\ authored' = authored /\ synced' = synced
          BY StateConstants, <1>2, <2>1, <3>1 DEF State!BringBack, AsideInv, TypeInv,
             State!StateConstants, State!ghosts
        <4>2. /\ layer' \in LayerType /\ layer'.data = authored
              /\ layer'.open = layer.open /\ layer'.path = layer.path /\ layer'.dirty
          BY <2>1, <3>1, <4>1, SetDataFields
        <4> QED BY <1>2, <4>1, <4>2 DEF TypeInv, State!TypeOK
      <3>2. CASE ~layer.dirty
        <4>1. /\ cache' = State!CacheAt(revision', mutedLayers',
               layer.path) /\ mutedData' = mutedData
              /\ State!Exists(layer.path) /\ layer' = State!Read(layer)
              /\ authored' = layer'.data /\ synced' = layer'.data
          BY <1>2, <2>1, <3>2 DEF State!BringBack, State!MustRead
        <4>2. /\ layer' \in LayerType /\ layer'.data \in Content
              /\ layer'.open /\ layer'.path = layer.path
          BY <1>2, <4>1, ReadFields
        <4> QED BY <4>1, <4>2 DEF TypeInv, State!TypeOK
      <3> QED BY <3>1, <3>2
    <2>3. /\ CacheInv' /\ AskInv' /\ State!MutedAnswers'
          /\ cache' \in [revision : 0 .. MaxRevision, muted : BOOLEAN]
          /\ revision' \in 1 .. MaxRevision
          /\ asker' \in [Asker -> [pc : {"idle", "compare", "lock", "store", "answer"},
                                   seen : 0 .. MaxRevision, truths : SUBSET BOOLEAN]]
      BY <1>1, <1>2, <2>1, <2>2, MutingSeen
    <2>4. TypeInv'
      <3>1. State!TypeOK'
        BY <1>1, <2>2, <2>3 DEF TypeInv, State!TypeOK, LayerType
      <3> QED BY <1>1, <1>2, <2>2, <3>1 DEF TypeInv, State!Exists
    <2>5. AsideInv' /\ State!ContentShown' /\ State!CleanMeansSaved'
      BY <1>1, <1>2, <2>2 DEF AsideInv, State!ContentShown, State!CleanMeansSaved
    <2> QED BY <2>3, <2>4, <2>5
  <1>3. CASE ~(path \in mutedLayers /\ layer.open /\ layer.path = path)
    <2>1. UNCHANGED <<layer, cache, mutedData, asker, authored, synced>>
      BY <1>3 DEF State!RemoveFromMutedLayers, State!ghosts
    <2>2. layer.open => (layer.path \in mutedLayers') = (layer.path \in mutedLayers)
      BY <1>1, <1>3
    <2> QED BY <1>1, <2>1, <2>2, MutingUnseen
  <1> QED BY <1>2, <1>3

LEMMA ExportStep ==
    ASSUME StateInv, NEW path \in Identifier, State!Export(path)
    PROVE  StateInv'
  <1> USE DEF StateInv
  <1>1. /\ State!Write(path, authored) /\ authored \in Content
        /\ UNCHANGED <<streams, layer, mutedLayers, revision, mutedData, cache, mutex, asker,
                       authored, synced>>
    BY AuthoredWritten DEF State!Export, State!muting, State!asking, State!ghosts
  <1>2. TypeInv'
    BY <1>1, FileWritten DEF TypeInv, State!TypeOK
  <1>3. CacheInv' /\ AskInv' /\ State!MutedAnswers'
    BY <1>1 DEF CacheInv, AskInv, State!MutedAnswers
  <1>4. AsideInv' /\ State!ContentShown' /\ State!CleanMeansSaved'
    BY <1>1 DEF AsideInv, State!ContentShown, State!CleanMeansSaved
  <1> QED BY <1>2, <1>3, <1>4

LEMMA SaveStep ==
    ASSUME StateInv, NEW force \in BOOLEAN, State!Save(force)
    PROVE  StateInv'
  <1> USE DEF StateInv
  <1>1. /\ layer.open /\ mutex = None /\ layer.path \in Identifier
        /\ State!WriteToFile(layer.path) /\ synced' = State!ToWrite
        /\ layer' = [State!MarkCurrentStateAsClean(layer) EXCEPT !.time = now']
        /\ UNCHANGED <<streams, mutedLayers, revision, mutedData, cache, mutex, asker, authored>>
    BY DEF State!Save, State!muting, State!asking, TypeInv
  <1>2. State!Write(layer.path, authored) /\ authored \in Content /\ synced' = authored
    BY <1>1, AuthoredWritten
  <1>3. /\ now' \in 1 .. MaxTime
        /\ file' \in [Identifier -> [content : Content \cup {None}, time : 0 .. MaxTime]]
        /\ \A p \in Identifier : State!Exists(p)' => file'[p].content \in Content
    BY <1>1, <1>2, FileWritten
  <1>4. /\ layer' \in LayerType /\ layer'.data = layer.data
        /\ layer'.open /\ layer'.path = layer.path /\ ~layer'.dirty
    <2>1. layer \in LayerType /\ now' \in 0 .. MaxTime
      BY <1>3 DEF TypeInv, State!TypeOK, LayerType
    <2> QED BY <1>1, <2>1 DEF State!MarkCurrentStateAsClean, LayerType
  <1>5. TypeInv'
    <2>1. State!TypeOK'
      BY <1>1, <1>2, <1>3, <1>4 DEF TypeInv, State!TypeOK, LayerType
    <2> QED BY <1>1, <1>2, <1>3, <1>4, <2>1 DEF TypeInv
  <1>6. CacheInv' /\ AskInv' /\ State!MutedAnswers'
    BY <1>1, <1>4, CacheKept
  <1>7. AsideInv' /\ State!ContentShown' /\ State!CleanMeansSaved'
    BY <1>1, <1>2, <1>4 DEF AsideInv, State!ContentShown, State!CleanMeansSaved
  <1> QED BY <1>5, <1>6, <1>7

\* Neither the old path nor the new one is muted, nor was anything put aside for them.
LEMMA SetIdentifierStep ==
    ASSUME StateInv, NEW path \in Identifier, State!SetIdentifier(path)
    PROVE  StateInv'
  <1> USE DEF StateInv
  <1>1. /\ layer.open /\ path \notin mutedLayers /\ layer.path \notin mutedLayers
        /\ layer' = State!Told([State!MarkCurrentStateAsDirty(layer) EXCEPT !.path = path,
                                                                !.time = file[path].time])
        /\ asker' = State!Witness(mutedLayers, path)
        /\ UNCHANGED <<streams, now, file, mutedLayers, revision, mutedData, cache, mutex, authored,
                       synced>>
    BY DEF State!SetIdentifier, State!muting, State!ghosts
  <1>2. /\ layer' \in LayerType /\ layer'.data = layer.data
        /\ layer'.open /\ layer'.path = path /\ layer'.dirty
    BY <1>1 DEF State!Told, State!MarkCurrentStateAsDirty, TypeInv, State!TypeOK, LayerType
  <1>3. /\ asker' \in [Asker -> [pc : {"idle", "compare", "lock", "store", "answer"},
                                 seen : 0 .. MaxRevision, truths : SUBSET BOOLEAN]]
        /\ \A a \in Asker : /\ asker'[a].pc = asker[a].pc /\ asker'[a].seen = asker[a].seen
                            /\ asker[a].truths \subseteq asker'[a].truths
                            /\ asker[a].pc # "idle" => (path \in mutedLayers) \in asker'[a].truths
    BY <1>1, WitnessFields
  <1>4. TypeInv'
    <2>1. State!TypeOK'
      BY <1>1, <1>2, <1>3 DEF TypeInv, State!TypeOK, LayerType
    <2> QED BY <1>1, <1>2, <2>1 DEF TypeInv, State!Exists
  <1>5. CacheInv'
    BY <1>1, <1>2, <1>3 DEF CacheInv
  <1>6. AskInv' /\ State!MutedAnswers'
    BY <1>1, <1>2, <1>3 DEF AskInv, State!MutedAnswers
  <1>7. AsideInv' /\ State!ContentShown' /\ State!CleanMeansSaved'
    BY <1>1, <1>2 DEF AsideInv, State!ContentShown, State!CleanMeansSaved
  <1> QED BY <1>4, <1>5, <1>6, <1>7

LEMMA SetStateDelegateStep ==
    ASSUME StateInv, State!SetStateDelegate
    PROVE  StateInv'
  <1> USE DEF StateInv
  <1>1. UNCHANGED State!vars
    BY DEF State!SetStateDelegate, State!vars, State!muting, State!asking, State!ghosts,
       TypeInv, State!TypeOK
  <1> QED BY <1>1, UnchangedStep

\* The steps of the threads that ask.
LEMMA AskStep ==
    ASSUME StateInv, NEW a \in Asker,
           State!BeginAsk(a) \/ State!Compare(a) \/ State!LockMuted(a) \/ State!StoreMuted(a)
                  \/ State!Answer(a)
    PROVE  StateInv'
  <1> USE DEF StateInv
  <1> DEFINE truth == layer.path \in mutedLayers
             AskerType == [pc : {"idle", "compare", "lock", "store", "answer"},
                           seen : 0 .. MaxRevision, truths : SUBSET BOOLEAN]
  <1>1. UNCHANGED <<streams, now, file, layer, mutedLayers, revision, mutedData, authored, synced>>
    BY DEF State!BeginAsk, State!Compare, State!LockMuted, State!StoreMuted, State!Answer,
       State!muting, State!ghosts
  <1>2. /\ asker \in [Asker -> AskerType] /\ revision \in 1 .. MaxRevision
        /\ revision \in Nat /\ MaxRevision \in Nat
        /\ cache \in [revision : 0 .. MaxRevision, muted : BOOLEAN]
        /\ mutex \in Asker \cup {None} /\ None \notin Asker
        /\ truth \in BOOLEAN
    BY StateConstants DEF TypeInv, State!TypeOK, State!StateConstants
  <1>3. /\ asker' = [asker EXCEPT ![a] = asker'[a]] /\ asker'[a] \in AskerType
        /\ cache' \in [revision : 0 .. MaxRevision, muted : BOOLEAN]
        /\ mutex' \in Asker \cup {None}
        /\ CacheInv' /\ AskInv' /\ State!MutedAnswers'
    <2>1. CASE State!BeginAsk(a)
      <3>1. /\ asker[a].pc = "idle" /\ layer.open /\ cache' = cache /\ mutex' = mutex
            /\ asker' = [asker EXCEPT ![a] = [pc |-> "compare", seen |-> revision,
                                              truths |-> {truth}]]
        BY <2>1 DEF State!BeginAsk
      <3>2. /\ asker'[a].pc = "compare" /\ asker'[a].seen = revision /\ asker'[a].truths = {truth}
            /\ asker'[a] \in AskerType
            /\ \A b \in Asker \ {a} : asker'[b] = asker[b]
        BY <1>2, <3>1
      <3> HIDE DEF truth, AskerType
      <3>3. CacheInv'
        BY <1>1, <3>1, <3>2 DEF CacheInv
      <3>4. AskInv' /\ State!MutedAnswers'
        BY <1>1, <1>2, <3>1, <3>2 DEF CacheInv, AskInv, State!MutedAnswers, truth
      <3> QED BY <1>2, <3>1, <3>2, <3>3, <3>4
    <2>2. CASE State!Compare(a)
      <3>1. /\ asker[a].pc = "compare" /\ cache' = cache /\ mutex' = mutex
            /\ asker' = [asker EXCEPT ![a].pc = IF cache.revision = asker[a].seen THEN "answer"
                                                ELSE "lock",
                                      ![a].seen = 0]
        BY <2>2 DEF State!Compare
      <3>2. /\ asker'[a].pc \in {"answer", "lock"} /\ asker'[a].seen = 0
            /\ asker'[a].truths = asker[a].truths
            /\ asker'[a].pc = "answer" => cache.revision = asker[a].seen
            /\ asker'[a] \in AskerType
            /\ \A b \in Asker \ {a} : asker'[b] = asker[b]
        <4>1. asker[a] \in AskerType /\ 0 \in 0 .. MaxRevision
          BY <1>2
        <4>2. /\ asker'[a] = [asker[a] EXCEPT !.pc = IF cache.revision = asker[a].seen
                                                     THEN "answer" ELSE "lock",
                                              !.seen = 0]
              /\ \A b \in Asker \ {a} : asker'[b] = asker[b]
          BY <1>2, <3>1
        <4>3. CASE cache.revision = asker[a].seen
          <5>1. asker'[a] = [asker[a] EXCEPT !.pc = "answer", !.seen = 0]
            BY <4>2, <4>3
          <5> QED BY <4>1, <4>2, <4>3, <5>1
        <4>4. CASE cache.revision # asker[a].seen
          <5>1. asker'[a] = [asker[a] EXCEPT !.pc = "lock", !.seen = 0]
            BY <4>2, <4>4
          <5> QED BY <4>1, <4>2, <5>1
        <4> QED BY <4>3, <4>4
      <3> HIDE DEF truth, AskerType
      <3>3. CacheInv'
        BY <1>1, <3>1, <3>2, ZenonT(30) DEF CacheInv
      <3>4. AskInv' /\ State!MutedAnswers'
        BY <1>1, <1>2, <3>1, <3>2 DEF CacheInv, AskInv, State!MutedAnswers
      <3> QED BY <1>2, <3>1, <3>2, <3>3, <3>4
    <2>3. CASE State!LockMuted(a)
      <3>1. /\ asker[a].pc = "lock" /\ mutex = None /\ mutex' = a
            /\ cache' = [cache EXCEPT !.revision = revision]
            /\ asker' = [asker EXCEPT ![a].pc = "store"]
        BY <2>3 DEF State!LockMuted
      <3>2. /\ asker'[a].pc = "store" /\ asker'[a].seen = asker[a].seen
            /\ asker'[a].truths = asker[a].truths
            /\ asker'[a] \in AskerType
            /\ \A b \in Asker \ {a} : asker'[b] = asker[b]
            /\ cache' \in [revision : 0 .. MaxRevision, muted : BOOLEAN]
            /\ cache'.revision = revision /\ cache'.muted = cache.muted
        BY <1>2, <3>1
      <3> HIDE DEF truth, AskerType
      <3>3. CacheInv'
        BY <1>1, <1>2, <3>1, <3>2 DEF CacheInv
      <3>4. AskInv' /\ State!MutedAnswers'
        BY <1>1, <1>2, <3>1, <3>2 DEF CacheInv, AskInv, State!MutedAnswers
      <3> QED BY <1>2, <3>1, <3>2, <3>3, <3>4
    <2>4. CASE State!StoreMuted(a)
      <3>1. /\ asker[a].pc = "store" /\ mutex = a /\ mutex' = None
            /\ cache' = [cache EXCEPT !.muted = truth]
            /\ asker' = [asker EXCEPT ![a].pc = "answer"]
        BY <2>4 DEF State!StoreMuted, CacheInv
      <3>2. /\ asker'[a].pc = "answer" /\ asker'[a].seen = asker[a].seen
            /\ asker'[a].truths = asker[a].truths
            /\ asker'[a] \in AskerType
            /\ \A b \in Asker \ {a} : asker'[b] = asker[b]
            /\ cache' \in [revision : 0 .. MaxRevision, muted : BOOLEAN]
            /\ cache'.revision = cache.revision /\ cache'.muted = truth
            /\ cache.revision = revision
        BY <1>2, <3>1 DEF CacheInv
      <3> HIDE DEF truth, AskerType
      <3>3. CacheInv'
        BY <1>1, <1>2, <3>1, <3>2 DEF CacheInv, truth
      <3>4. AskInv' /\ State!MutedAnswers'
        BY <1>1, <1>2, <3>1, <3>2 DEF CacheInv, AskInv, State!MutedAnswers, truth
      <3> QED BY <1>2, <3>1, <3>2, <3>3, <3>4
    <2>5. CASE State!Answer(a)
      <3>1. /\ asker[a].pc = "answer" /\ cache' = cache /\ mutex' = mutex
            /\ asker' = [asker EXCEPT ![a] = State!Idle]
        BY <2>5 DEF State!Answer
      <3>2. /\ asker'[a].pc = "idle" /\ asker'[a].seen = 0 /\ asker'[a] \in AskerType
            /\ \A b \in Asker \ {a} : asker'[b] = asker[b]
        BY <1>2, <3>1 DEF State!Idle
      <3> HIDE DEF truth, AskerType
      <3>3. CacheInv'
        BY <1>1, <3>1, <3>2 DEF CacheInv
      <3>4. AskInv' /\ State!MutedAnswers'
        BY <1>1, <1>2, <3>1, <3>2 DEF CacheInv, AskInv, State!MutedAnswers
      <3> QED BY <1>2, <3>1, <3>2, <3>3, <3>4
    <2> QED BY <2>1, <2>2, <2>3, <2>4, <2>5
  <1>4. TypeInv'
    <2>1. asker' \in [Asker -> AskerType]
      BY <1>2, <1>3
    <2>2. State!TypeOK'
      BY <1>1, <1>3, <2>1 DEF TypeInv, State!TypeOK
    <2> QED BY <1>1, <2>2 DEF TypeInv, State!Exists
  <1>5. AsideInv' /\ State!ContentShown' /\ State!CleanMeansSaved'
    BY <1>1 DEF AsideInv, State!ContentShown, State!CleanMeansSaved
  <1> QED BY <1>3, <1>4, <1>5

-----------------------------------------------------------------------------
(* The theorems                                                            *)

LEMMA InitStateInv ==
    ASSUME State!Init
    PROVE  StateInv
  <1>1. TypeInv
    <2>1. file \in [Identifier -> [content : Content \cup {None}, time : 0 .. MaxTime]]
      BY StateConstants DEF State!Init, State!NoFile, State!StateConstants
    <2>2. \A path \in Identifier : State!Exists(path) => file[path].content \in Content
      BY DEF State!Init, State!NoFile, State!Exists
    <2> QED BY StateConstants, <2>1, <2>2 DEF State!Init, TypeInv, State!TypeOK,
               State!StateConstants, State!Closed, State!NoCache, State!Idle
  <1>2. CacheInv /\ AskInv /\ State!MutedAnswers
    <2>1. /\ \A a \in Asker : asker[a].pc = "idle" /\ asker[a].seen = 0 /\ mutex # a
          /\ ~layer.open /\ cache.revision = 0 /\ mutex = None /\ revision = 1
      BY StateConstants DEF State!Init, State!StateConstants, State!Closed, State!NoCache,
         State!Idle
    <2> QED BY <2>1 DEF CacheInv, AskInv, State!MutedAnswers
  <1>3. AsideInv /\ State!ContentShown /\ State!CleanMeansSaved
    BY DEF State!Init, AsideInv, State!ContentShown, State!CleanMeansSaved, State!Closed
  <1> QED BY <1>1, <1>2, <1>3 DEF StateInv

LEMMA NextStateInv ==
    ASSUME StateInv, [State!Next]_State!vars
    PROVE  StateInv'
  <1>1. CASE UNCHANGED State!vars
    BY <1>1, UnchangedStep
  <1>2. ASSUME NEW path \in Identifier,
               \/ State!ChangeFile(path) \/ State!RemoveFile(path)
               \/ State!Open(path) \/ State!Import(path) \/ State!Export(path)
                      \/ State!SetIdentifier(path)
               \/ State!AddToMutedLayers(path) \/ State!RemoveFromMutedLayers(path)
        PROVE  StateInv'
    BY <1>2, FileStep, OpenStep, ImportStep, ExportStep, SetIdentifierStep, MuteStep, UnmuteStep
  <1>3. ASSUME NEW content \in Content, State!Edit(content) \/ State!Replace(content)
        PROVE  StateInv'
    BY <1>3, EditStep
  <1>4. ASSUME NEW force \in BOOLEAN, State!Reload(force) \/ State!Save(force)
        PROVE  StateInv'
    BY <1>4, ReloadStep, SaveStep
  <1>5. CASE State!Close
    BY <1>5, CloseStep
  <1>6. CASE State!SetStateDelegate
    BY <1>6, SetStateDelegateStep
  <1>7. ASSUME NEW a \in Asker,
               State!BeginAsk(a) \/ State!Compare(a) \/ State!LockMuted(a)
                      \/ State!StoreMuted(a) \/ State!Answer(a)
        PROVE  StateInv'
    BY <1>7, AskStep
  <1> QED BY <1>1, <1>2, <1>3, <1>4, <1>5, <1>6, <1>7 DEF State!Next

\* The invariant of a layer, from which what the runs check of it follows.
THEOREM StateSafety == State!Spec => []StateInv
  <1>1. State!Init => StateInv
    BY InitStateInv
  <1>2. StateInv /\ [State!Next]_State!vars => StateInv'
    BY NextStateInv
  <1> QED BY <1>1, <1>2, PTL DEF State!Spec

=============================================================================
