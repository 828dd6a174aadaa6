------------------------------ MODULE PathProofs ------------------------------
(***************************************************************************)
(* Path nodes: no node dies early, late or twice; the cached text of a     *)
(* live node is its own; and the nodes implement the interning of paths:   *)
(* for every number of threads, nodes and names.  At the end, the table    *)
(* keyed by paths: it holds what was inserted and not erased.              *)
(*                                                                         *)
(* The invariant says who may still refer to a node in each step of its    *)
(* destruction.  A node that is dying has no handle and no child, so only  *)
(* the table still leads to it, and there the count of 0, or the mutex of  *)
(* the thread that found it so, keeps the others from it.  A live node is  *)
(* the entry of its key, which makes the nodes of a path unique.           *)
(***************************************************************************)
EXTENDS PathNodes, Integers, FiniteSetTheorems, SequenceTheorems,
        NaturalsInduction, TLAPS

\* The destructions under way are of different nodes that nobody refers to any
\* more; all but the innermost one of a thread wait for their memory to be
\* freed.
DyingInv ==
    /\ \A t, u \in Thread : \A i \in 1..Len(dying[t]), j \in 1..Len(dying[u]) :
          dying[t][i].node = dying[u][j].node => t = u /\ i = j
    /\ \A t \in Thread : \A i \in 1..Len(dying[t]) :
          /\ dying[t][i].node \in nodes \ {Root}
          /\ handles[dying[t][i].node] = 0
          /\ i < Len(dying[t]) => dying[t][i].step = "free"
    /\ \A c \in Node : HasParent(c) => key[c][1] \in Alive

\* The nodes whose memory is allocated were made for a key.
NodesInv ==
    /\ \A n \in nodes \ {Root} : key[n] \in Key
    /\ \A n \in AnyNode : handles[n] > 0 => n \in Alive
    /\ handles[Root] > 0

\* An entry is a node made for the key; the entry of a live node is the node.
\* A dying node is not the entry any more once it is unlinked.
TableInv ==
    /\ \A k \in Key : table[k] # NoNode => table[k] \in nodes /\ key[table[k]] = k
    /\ \A n \in Alive \ {Root} : table[key[n]] = n
    /\ \A t \in Thread : \A i \in 1..Len(dying[t]) :
          dying[t][i].step # "unlink" => table[key[dying[t][i].node]] # dying[t][i].node

\* A key is locked by the one thread that creates its node, there is no live
\* node for it, and the parent stays alive; of the keys that are not locked, a
\* dying entry has the count 0.
CreatingInv ==
    /\ \A t \in Thread : creating[t] # NoKey =>
          /\ creating[t] \in locked
          /\ handles[creating[t][1]] > 0
          /\ \A n \in Alive \ {Root} : key[n] # creating[t]
    /\ \A t, u \in Thread : creating[t] = creating[u] /\ creating[t] # NoKey => t = u
    /\ \A n \in Dying : table[key[n]] = n /\ key[n] \notin locked => count[n] = 0

\* The cached text of a live node is its own; there is none for a node that is
\* not allocated or whose destructor has removed it, and the bit says whether
\* there is one.
TokensInv ==
    /\ \A n \in Alive \ {Root} : tokens[n] # NoKey => tokens[n] = TextOf[n]
    /\ \A n \in Node : tokens[n] # NoKey => n \in hasToken /\ n \in nodes
    /\ \A t \in Thread : \A i \in 1..Len(dying[t]) :
          dying[t][i].step \in {"parent", "free"} => tokens[dying[t][i].node] = NoKey

\* The live nodes are a tree: d is how deep they are.
IsDepth(d) ==
    /\ d[Root] = 0
    /\ \A n \in Alive \ {Root} : d[n] = d[key[n][1]] + 1

DepthInv == \E d \in [AnyNode -> Nat] : IsDepth(d)

PathInv ==
    TypeOK /\ DyingInv /\ NodesInv /\ TableInv /\ CreatingInv /\ CountsExact
           /\ TokensInv

-----------------------------------------------------------------------------
(* Texts                                                                   *)

\* A set of numbers has a least one.
LEMMA LeastNumber ==
    ASSUME NEW T \in SUBSET Nat, T # {}
    PROVE  \E x \in T : \A y \in T : x <= y
  <1>1. IsWellFoundedOn({ss \in Nat \X Nat : ss[1] < ss[2]}, Nat)
    BY NatLessThanWellFounded DEF OpToRel
  <1>2. PICK x \in T : \A y \in T : ~ (<<y, x>> \in {ss \in Nat \X Nat : ss[1] < ss[2]})
    BY <1>1, WFMin
  <1>3. ASSUME NEW y \in T
        PROVE  x <= y
    <2>1. ~ (y < x)
      <3> SUFFICES ASSUME y < x
                   PROVE  <<y, x>> \in {ss \in Nat \X Nat : ss[1] < ss[2]}
        BY <1>2
      <3>1. <<y, x>> \in Nat \X Nat /\ <<y, x>>[1] < <<y, x>>[2]
        OBVIOUS
      <3> QED BY <3>1
    <2> QED BY <2>1
  <1> QED BY <1>3

Depths == 0..Cardinality(Node)

NoText == [n \in AnyNode |-> <<>>]

\* f has the texts of the keys k, up to every depth there is.
IsUpTo(k, f) ==
    f = [depth \in Depths |->
            IF depth = 0 THEN [n \in AnyNode |-> <<>>] ELSE OneMore(k, f[depth - 1])]

LEMMA Finite == Cardinality(Node) \in Nat
  BY NodeConstants, FS_CardinalityType

\* The texts are defined, up to every depth: a first depth for which they were
\* not would have them from the depth before.
LEMMA TextsExist ==
    ASSUME NEW k
    PROVE  \E f : IsUpTo(k, f)
  <1> DEFINE Is(f, m) == f = [depth \in 0..m |->
                IF depth = 0 THEN [n \in AnyNode |-> <<>>] ELSE OneMore(k, f[depth - 1])]
             T == {m \in Nat : ~ \E f : Is(f, m)}
  <1>1. T = {}
    <2> SUFFICES ASSUME T # {} PROVE FALSE
      OBVIOUS
    <2>1. PICK m \in T : \A y \in T : m <= y
      BY LeastNumber
    <2>2. m # 0
      <3>1. Is([depth \in 0..0 |-> [n \in AnyNode |-> <<>>]], 0)
        OBVIOUS
      <3> QED BY <3>1
    <2>3. m - 1 \in Nat /\ m - 1 \notin T
      <3>1. m \in Nat /\ m - 1 \in Nat /\ ~ (m <= m - 1)
        BY <2>2
      <3> HIDE DEF T
      <3> QED BY <3>1, <2>1
    <2>4. PICK f : Is(f, m - 1)
      BY <2>3
    <2> DEFINE g == [depth \in 0..m |-> IF depth < m THEN f[depth] ELSE OneMore(k, f[m - 1])]
    <2>5. Is(g, m)
      <3>1. \A depth \in 0..m : g[depth] =
                IF depth = 0 THEN [n \in AnyNode |-> <<>>] ELSE OneMore(k, g[depth - 1])
        <4> SUFFICES ASSUME NEW depth \in 0..m
                     PROVE  g[depth] = IF depth = 0 THEN [n \in AnyNode |-> <<>>]
                                       ELSE OneMore(k, g[depth - 1])
          OBVIOUS
        <4>1. CASE depth = m
          <5>1. g[depth] = OneMore(k, f[m - 1]) /\ g[depth - 1] = f[m - 1]
            BY <4>1, <2>2
          <5> QED BY <5>1, <4>1, <2>2
        <4>2. CASE depth < m
          <5>1. g[depth] = f[depth] /\ depth \in 0..(m - 1)
            BY <4>2
          <5>2. CASE depth = 0
            BY <5>1, <5>2, <2>4
          <5>3. CASE depth # 0
            <6>1. g[depth - 1] = f[depth - 1]
              BY <5>3, <4>2
            <6> QED BY <6>1, <5>1, <5>3, <2>4
          <5> QED BY <5>2, <5>3
        <4> QED BY <4>1, <4>2
      <3> QED BY <3>1
    <2> QED BY <2>1, <2>5
  <1>2. Cardinality(Node) \notin T
    BY <1>1
  <1> QED BY <1>2, Finite DEF IsUpTo, Depths

TextsOf(k) == (CHOOSE f : IsUpTo(k, f))

LEMMA TextsAre == ASSUME NEW k PROVE IsUpTo(k, TextsOf(k))
  BY TextsExist DEF TextsOf

LEMMA UpToIs ==
    /\ UpTo = TextsOf(key) /\ TextOf = TextsOf(key)[Cardinality(Node)]
    /\ UpTo' = TextsOf(key') /\ TextOf' = TextsOf(key')[Cardinality(Node)]
  BY DEF UpTo, TextsOf, IsUpTo, TextOf, Depths

LEMMA TextsStep ==
    ASSUME NEW k, NEW depth \in Depths, NEW n \in AnyNode
    PROVE  TextsOf(k)[depth][n] =
              IF depth = 0 \/ n = Root \/ k[n] = NoKey THEN <<>>
              ELSE Append(TextsOf(k)[depth - 1][k[n][1]], k[n][2])
  <1>1. TextsOf(k)[depth] = IF depth = 0 THEN [m \in AnyNode |-> <<>>]
                            ELSE OneMore(k, TextsOf(k)[depth - 1])
    BY TextsAre DEF IsUpTo
  <1> QED BY <1>1 DEF OneMore

\* A step of the induction over depths: what holds for the depth 0, and for a
\* depth if for the one before, holds for all of them.  S has the depths for
\* which it holds.
LEMMA DepthInduction ==
    ASSUME NEW S, 0 \in S, \A m \in Depths : m # 0 /\ m - 1 \in S => m \in S
    PROVE  Depths \subseteq S
  <1> DEFINE T == Depths \ S
  <1> SUFFICES ASSUME T # {} PROVE FALSE
    OBVIOUS
  <1>1. T \in SUBSET Nat
    BY Finite DEF Depths
  <1>2. PICK m \in T : \A y \in T : m <= y
    <2> HIDE DEF T
    <2> QED BY <1>1, LeastNumber
  <1>3. m \in Nat /\ m # 0 /\ m - 1 \in Depths /\ ~ (m <= m - 1)
    BY <1>2, Finite DEF Depths
  <1> QED BY <1>2, <1>3

\* The texts of at most depth elements.
Texts(depth) == UNION {[1..i -> Name] : i \in 0..depth}

Keys == [Node -> Key \cup {NoKey}]

LEMMA TextsAreTexts ==
    ASSUME NEW k \in Keys, NEW depth \in Depths, NEW n \in AnyNode
    PROVE  TextsOf(k)[depth][n] \in Texts(depth)
  <1> DEFINE S == {m \in Depths : \A o \in AnyNode : TextsOf(k)[m][o] \in Texts(m)}
  <1>0. \A m \in Nat : <<>> \in Texts(m)
    <2> SUFFICES ASSUME NEW m \in Nat PROVE <<>> \in Texts(m)
      OBVIOUS
    <2>1. <<>> \in [1..0 -> Name] /\ 0 \in 0..m
      OBVIOUS
    <2> QED BY <2>1 DEF Texts
  <1>1. 0 \in S
    BY <1>0, TextsStep, Finite DEF Depths
  <1>2. ASSUME NEW m \in Depths, m # 0, m - 1 \in S
        PROVE  m \in S
    <2> SUFFICES ASSUME NEW o \in AnyNode
                 PROVE  TextsOf(k)[m][o] \in Texts(m)
      OBVIOUS
    <2>1. CASE o = Root \/ k[o] = NoKey
      BY <2>1, <1>0, TextsStep, Finite DEF Depths
    <2>2. CASE ~ (o = Root \/ k[o] = NoKey)
      <3>1. k[o][1] \in AnyNode /\ k[o][2] \in Name
        BY <2>2 DEF Keys, Key, AnyNode
      <3> DEFINE shorter == TextsOf(k)[m - 1][k[o][1]]
      <3>2. shorter \in Texts(m - 1)
        BY <3>1, <1>2
      <3>3. TextsOf(k)[m][o] = Append(shorter, k[o][2])
        BY <2>2, <1>2, TextsStep
      <3> HIDE DEF shorter
      <3>4. PICK i \in 0..(m - 1) : shorter \in [1..i -> Name]
        BY <3>2 DEF Texts
      <3>5. Append(shorter, k[o][2]) \in [1..(i + 1) -> Name] /\ i + 1 \in 0..m
        <4>1. shorter \in Seq(Name) /\ Len(shorter) = i /\ i \in Nat /\ m \in Nat
          BY <3>4, Finite DEF Depths
        <4>2. /\ Append(shorter, k[o][2]) \in Seq(Name)
              /\ Len(Append(shorter, k[o][2])) = i + 1
          BY <4>1, <3>1
        <4>3. Append(shorter, k[o][2]) \in [1..Len(Append(shorter, k[o][2])) -> Name]
          BY <4>2, LenProperties
        <4> QED BY <4>1, <4>2, <4>3
      <3> QED BY <3>3, <3>5 DEF Texts
    <2> QED BY <2>1, <2>2
  <1>3. Depths \subseteq S
    <2> HIDE DEF S
    <2> QED BY <1>1, <1>2, DepthInduction
  <1> QED BY <1>3

\* Nodes that keep their keys, and whose parents do, keep their texts.
LEMMA TextsStay ==
    ASSUME NEW k, NEW l, NEW A \in SUBSET AnyNode,
           \A n \in A \ {Root} : k[n] = l[n] /\ k[n][1] \in A,
           NEW depth \in Depths, NEW n \in A
    PROVE  TextsOf(k)[depth][n] = TextsOf(l)[depth][n]
  <1> DEFINE S == {m \in Depths : \A o \in A : TextsOf(k)[m][o] = TextsOf(l)[m][o]}
  <1>1. 0 \in S
    BY TextsStep, Finite DEF Depths
  <1>2. ASSUME NEW m \in Depths, m # 0, m - 1 \in S
        PROVE  m \in S
    <2> SUFFICES ASSUME NEW o \in A
                 PROVE  TextsOf(k)[m][o] = TextsOf(l)[m][o]
      OBVIOUS
    <2>1. o \in AnyNode
      OBVIOUS
    <2>2. CASE o = Root
      BY <2>1, <2>2, TextsStep
    <2>3. CASE o # Root
      <3>1. k[o] = l[o] /\ TextsOf(k)[m - 1][k[o][1]] = TextsOf(l)[m - 1][k[o][1]]
        BY <2>3, <1>2
      <3> QED BY <2>1, <3>1, TextsStep
    <2> QED BY <2>2, <2>3
  <1>3. Depths \subseteq S
    <2> HIDE DEF S
    <2> QED BY <1>1, <1>2, DepthInduction
  <1> QED BY <1>3

\* The nodes A with the keys k are a tree with the depths d, and each is the
\* only node of its key.
IsTree(k, A, d) ==
    /\ d[Root] = 0
    /\ \A n \in A \ {Root} : k[n] \in Key /\ k[n][1] \in A /\ d[n] = d[k[n][1]] + 1
    /\ \A m, n \in A \ {Root} : k[m] = k[n] => m = n

\* In a tree the texts are different.
LEMMA TextsDiffer ==
    ASSUME NEW k, NEW A \in SUBSET AnyNode, NEW d \in [AnyNode -> Nat], IsTree(k, A, d),
           k \in Keys, NEW depth \in Depths
    PROVE  \A m, n \in A : /\ d[m] <= depth /\ d[n] <= depth
                           /\ TextsOf(k)[depth][m] = TextsOf(k)[depth][n]
                           => m = n
  <1> DEFINE Differ(i) == \A m, n \in A : /\ d[m] <= i /\ d[n] <= i
                                         /\ TextsOf(k)[i][m] = TextsOf(k)[i][n]
                                         => m = n
             S == {i \in Depths : Differ(i)}
  <1>0. \A n \in A : d[n] \in Nat /\ (n # Root => d[n] > 0)
    BY DEF IsTree, AnyNode, Key
  <1>1. 0 \in S
    <2>1. \A n \in A : d[n] <= 0 => n = Root
      BY <1>0
    <2> QED BY <2>1, Finite DEF Depths
  <1>2. ASSUME NEW i \in Depths, i # 0, i - 1 \in S
        PROVE  i \in S
    <2> SUFFICES ASSUME NEW m \in A, NEW n \in A, d[m] <= i, d[n] <= i,
                        TextsOf(k)[i][m] = TextsOf(k)[i][n]
                 PROVE  m = n
      OBVIOUS
    <2>0. i \in Nat /\ i - 1 \in Depths
      BY <1>2, Finite DEF Depths
    <2> DEFINE Short(o) == TextsOf(k)[i - 1][k[o][1]]
    <2>1. ASSUME NEW o \in A, o # Root, d[o] <= i
          PROVE  /\ TextsOf(k)[i][o] = Append(Short(o), k[o][2])
                 /\ Short(o) \in Seq(Name) /\ k[o][2] \in Name
                 /\ k[o] = <<k[o][1], k[o][2]>>
                 /\ d[k[o][1]] <= i - 1 /\ k[o][1] \in A
      <3>1. k[o] \in Key /\ k[o][1] \in A /\ d[o] = d[k[o][1]] + 1
        BY <2>1 DEF IsTree
      <3>2. k[o] # NoKey /\ k[o] = <<k[o][1], k[o][2]>> /\ k[o][2] \in Name /\ k[o][1] \in AnyNode
        BY <3>1 DEF Key, NoKey
      <3>3. Short(o) \in Texts(i - 1)
        BY <3>2, <2>0, TextsAreTexts
      <3>4. Texts(i - 1) \subseteq Seq(Name)
        BY DEF Texts
      <3>5. TextsOf(k)[i][o] = Append(Short(o), k[o][2])
        BY <3>2, <2>1, <1>2, TextsStep
      <3>6. d[k[o][1]] <= i - 1
        <4>1. d[k[o][1]] \in Nat /\ d[k[o][1]] + 1 <= i
          BY <3>1, <3>2, <2>1
        <4> QED BY <4>1, <2>0
      <3> QED BY <3>1, <3>2, <3>3, <3>4, <3>5, <3>6
    <2>2. CASE m = Root \/ n = Root
      <3>1. TextsOf(k)[i][Root] = <<>>
        BY TextsStep DEF AnyNode
      <3>2. ASSUME NEW o \in A, o # Root, d[o] <= i PROVE TextsOf(k)[i][o] # <<>>
        <4> HIDE DEF Short
        <4> QED BY <3>2, <2>1
      <3> QED BY <2>2, <3>1, <3>2
    <2>3. CASE m # Root /\ n # Root
      <3>1. Short(m) = Short(n) /\ k[m][2] = k[n][2]
        <4>1. /\ Append(Short(m), k[m][2]) = Append(Short(n), k[n][2])
              /\ Short(m) \in Seq(Name) /\ Short(n) \in Seq(Name)
              /\ k[m][2] \in Name /\ k[n][2] \in Name
          BY <2>1, <2>3
        <4> HIDE DEF Short
        <4> QED BY <4>1, AppendInjective
      <3>2. k[m][1] = k[n][1]
        BY <3>1, <2>1, <2>3, <1>2
      <3>3. k[m] = k[n]
        BY <3>1, <3>2, <2>1, <2>3, SMTT(30)
      <3> QED BY <3>3, <2>3 DEF IsTree
    <2> QED BY <2>2, <2>3
  <1>3. Depths \subseteq S
    <2> HIDE DEF S
    <2> QED BY <1>1, <1>2, DepthInduction
  <1> QED BY <1>3

\* In a tree no node is deeper than there are nodes: there is one at every
\* depth above its own.
LEMMA DepthsAreSmall ==
    ASSUME NEW k, NEW A \in SUBSET AnyNode, NEW d \in [AnyNode -> Nat], IsTree(k, A, d),
           NEW n \in A
    PROVE  d[n] <= Cardinality(Node)
  <1> DEFINE T == {j \in 0..d[n] : \A m \in A : d[m] # d[n] - j}
  <1>0. d[n] \in Nat
    BY DEF AnyNode
  <1>1. T = {}
    <2> SUFFICES ASSUME T # {} PROVE FALSE
      OBVIOUS
    <2>1. T \in SUBSET Nat
      OBVIOUS
    <2>2. PICK j \in T : \A i \in T : j <= i
      <3> HIDE DEF T
      <3> QED BY <2>1, LeastNumber
    <2>3. j \in Nat /\ j <= d[n] /\ j # 0
      <3>1. j \in 0..d[n] /\ \A m \in A : d[m] # d[n] - j
        BY <2>2
      <3>2. j # 0
        BY <3>1, <1>0
      <3> QED BY <3>1, <3>2, <1>0
    <2>4. j - 1 \in 0..d[n] /\ ~ (j <= j - 1)
      BY <2>3, <1>0
    <2>5. PICK m \in A : d[m] = d[n] - (j - 1)
      BY <2>2, <2>4
    <2>6. m # Root
      BY <2>5, <2>3, <1>0 DEF IsTree
    <2>7. k[m][1] \in A /\ d[m] = d[k[m][1]] + 1 /\ k[m][1] \in AnyNode
      BY <2>6 DEF IsTree
    <2>8. d[k[m][1]] = d[n] - j
      BY <2>5, <2>7, <2>3, <1>0
    <2> QED BY <2>2, <2>7, <2>8
  <1>2. \A i \in 1..d[n] : \E m \in A : d[m] = i
    <2> SUFFICES ASSUME NEW i \in 1..d[n] PROVE \E m \in A : d[m] = i
      OBVIOUS
    <2>1. d[n] - i \in 0..d[n] /\ d[n] - (d[n] - i) = i
      BY <1>0
    <2> QED BY <1>1, <2>1
  <1> DEFINE f == [i \in 1..d[n] |-> CHOOSE m \in A : d[m] = i]
  <1>3. \A i \in 1..d[n] : f[i] \in A /\ d[f[i]] = i
    BY <1>2
  <1>4. \A i \in 1..d[n] : f[i] \in Node
    <2> HIDE DEF f
    <2> QED BY <1>3, <1>0 DEF IsTree, AnyNode
  <1>5. f \in Injection(1..d[n], Node)
    <2>1. f \in [1..d[n] -> Node]
      BY <1>4
    <2> HIDE DEF f
    <2> QED BY <1>3, <2>1 DEF Injection, IsInjective
  <1>6. Cardinality(1..d[n]) <= Cardinality(Node) /\ Cardinality(1..d[n]) = d[n]
    <2>1. Cardinality(1..d[n]) = IF 1 > d[n] THEN 0 ELSE d[n] - 1 + 1
      BY <1>0, FS_Interval
    <2> HIDE DEF f
    <2> QED BY <1>5, <1>0, <2>1, FS_Injection, NodeConstants
  <1> QED BY <1>6

-----------------------------------------------------------------------------
(* The nodes in destruction                                                *)

Entry == [node : AnyNode, step : {"unlink", "token", "parent", "free"}]

LEMMA Entries ==
    ASSUME TypeOK, NEW t \in Thread
    PROVE  /\ dying[t] \in Seq(Entry) /\ Len(dying[t]) \in Nat
           /\ \A i \in 1..Len(dying[t]) : dying[t][i] \in Entry
           /\ dying[t] # <<>> => Len(dying[t]) \in 1..Len(dying[t])
  <1>1. dying[t] \in Seq(Entry)
    BY DEF TypeOK, Entry
  <1> QED BY <1>1, ElementOfSeq, LenProperties, EmptySeq

LEMMA DyingIs ==
    \A n : n \in Dying <=> \E t \in Thread : \E i \in 1..Len(dying[t]) : dying[t][i].node = n
  BY DEF Dying

LEMMA DyingIsNext ==
    \A n : n \in Dying' <=> \E t \in Thread : \E i \in 1..Len(dying'[t]) : dying'[t][i].node = n
  BY DEF Dying

LEMMA RootAlive == PathInv => Root \in Alive /\ Root \in nodes /\ Root \notin Dying
  BY DEF PathInv, NodesInv, AnyNode, Alive

LEMMA DyingNodes ==
    ASSUME PathInv
    PROVE  /\ Dying \subseteq nodes \ {Root} /\ Dying \cap Alive = {} /\ Dying \subseteq Node
           /\ Alive \subseteq AnyNode /\ nodes = Alive \cup Dying
           /\ \A t \in Thread : \A i \in 1..Len(dying[t]) : dying[t][i].node \in Dying
           /\ \A n \in Dying : handles[n] = 0
  <1>1. nodes \subseteq AnyNode
    BY DEF PathInv, TypeOK
  <1>2. \A n \in Dying : n \in nodes \ {Root} /\ handles[n] = 0
    BY DyingIs DEF PathInv, DyingInv
  <1> QED BY <1>1, <1>2, DyingIs DEF Alive, AnyNode

LEMMA ChildrenFinite ==
    \A n : IsFiniteSet(Children(n)) /\ Cardinality(Children(n)) \in Nat
  <1> SUFFICES ASSUME NEW n
               PROVE  IsFiniteSet(Children(n)) /\ Cardinality(Children(n)) \in Nat
    OBVIOUS
  <1>1. Children(n) \in SUBSET Node
    BY DEF Children
  <1> QED BY <1>1, NodeConstants, FS_Subset, FS_CardinalityType

LEMMA CreatingKeys ==
    ASSUME PathInv, NEW t \in Thread, creating[t] # NoKey
    PROVE  creating[t] \in Key /\ creating[t][1] \in Alive
           /\ creating[t] = <<creating[t][1], creating[t][2]>> /\ creating[t][2] \in Name
  <1>1. creating[t] \in Key /\ creating[t][1] \in AnyNode
        /\ creating[t] = <<creating[t][1], creating[t][2]>> /\ creating[t][2] \in Name
    BY DEF PathInv, TypeOK, Key
  <1> QED BY <1>1 DEF PathInv, CreatingInv, NodesInv

\* Steps that leave the nodes and the destructions alone.
LEMMA SameNodes ==
    ASSUME UNCHANGED <<memory, dying>>
    PROVE  /\ nodes' = nodes /\ key' = key /\ dying' = dying
           /\ Alive' = Alive /\ Dying' = Dying /\ TextOf' = TextOf
           /\ \A n : HasParent(n)' <=> HasParent(n)
           /\ \A n : Children(n)' = Children(n)
  <1>1. nodes' = nodes /\ key' = key /\ dying' = dying
    BY DEF memory
  <1>2. TextOf' = TextOf
    BY <1>1, UpToIs
  <1> QED BY <1>1, <1>2 DEF Alive, Dying, HasParent, Children

\* What the steps do to the handles and to the tree of the live nodes.
Stays == handles' = handles /\ key' = key /\ Alive' \subseteq Alive

Lost(n) ==
    /\ n \in Alive /\ handles[n] > 0 /\ handles[Root] > IF n = Root THEN 1 ELSE 0
    /\ handles' = [handles EXCEPT ![n] = @ - 1] /\ key' = key /\ Alive' \subseteq Alive

Got(n) ==
    n \in Alive /\ handles' = [handles EXCEPT ![n] = @ + 1] /\ key' = key /\ Alive' = Alive

Made(n) ==
    /\ n \in Node \ Alive /\ handles' = [handles EXCEPT ![n] = @ + 1]
    /\ Alive' = Alive \cup {n}
    /\ \E k \in Key : k[1] \in Alive /\ key' = [key EXCEPT ![n] = k]

\* A node that is alive gets one more handle.
LEMMA MoreHandles ==
    ASSUME PathInv, NEW n \in Alive,
           count' = [count EXCEPT ![n] = @ + 1], AddHandle(n),
           UNCHANGED <<memory, hasToken, tokens, table, locked, creating, dying>>
    PROVE  PathInv' /\ Got(n)
  <1>0. /\ nodes' = nodes /\ key' = key /\ dying' = dying
        /\ Alive' = Alive /\ Dying' = Dying /\ TextOf' = TextOf
        /\ \A m : HasParent(m)' <=> HasParent(m)
        /\ \A m : Children(m)' = Children(m)
        /\ hasToken' = hasToken /\ tokens' = tokens /\ table' = table
        /\ locked' = locked /\ creating' = creating
    BY SameNodes
  <1>1. /\ n \in AnyNode /\ n \notin Dying
        /\ \A m \in AnyNode : count[m] \in Nat /\ handles[m] \in Nat
        /\ count' \in [AnyNode -> Nat] /\ handles' \in [AnyNode -> Nat]
        /\ \A m \in AnyNode : count'[m] = IF m = n THEN count[m] + 1 ELSE count[m]
        /\ \A m \in AnyNode : handles'[m] = IF m = n THEN handles[m] + 1 ELSE handles[m]
    BY DEF PathInv, TypeOK, Alive, AddHandle
  <1>2. TypeOK'
    BY <1>0, <1>1 DEF PathInv, TypeOK
  <1>3. DyingInv'
    <2>1. \A t \in Thread : \A i \in 1..Len(dying[t]) :
             dying[t][i].node \in AnyNode /\ dying[t][i].node # n
      BY <1>1, DyingNodes DEF AnyNode
    <2> QED BY <1>0, <1>1, <2>1, SMTT(30) DEF PathInv, DyingInv
  <1>4. NodesInv'
    BY <1>0, <1>1 DEF PathInv, NodesInv, AnyNode
  <1>5. TableInv'
    BY <1>0 DEF PathInv, TableInv
  <1>6. CreatingInv'
    <2>1. \A t \in Thread : creating[t] # NoKey => handles'[creating[t][1]] > 0
      <3> SUFFICES ASSUME NEW t \in Thread, creating[t] # NoKey
                   PROVE  handles'[creating[t][1]] > 0
        OBVIOUS
      <3>1. creating[t][1] \in AnyNode /\ handles[creating[t][1]] > 0
        BY CreatingKeys, DyingNodes DEF PathInv, CreatingInv
      <3> QED BY <3>1, <1>1
    <2>2. \A m \in Dying : count'[m] = count[m]
      BY <1>1, DyingNodes DEF AnyNode
    <2> QED BY <1>0, <2>1, <2>2 DEF PathInv, CreatingInv
  <1>7. CountsExact'
    <2>1. \A m \in Alive : m \in AnyNode /\ Cardinality(Children(m)) \in Nat
      BY ChildrenFinite, DyingNodes
    <2> SUFFICES ASSUME NEW m \in Alive
                 PROVE  count'[m] > 0 /\ count'[m] = handles'[m] + Cardinality(Children(m)')
      BY <1>0 DEF CountsExact
    <2>2. count[m] > 0 /\ count[m] = handles[m] + Cardinality(Children(m))
      BY DEF PathInv, CountsExact
    <2>3. Children(m)' = Children(m)
      BY <1>0
    <2> QED BY <1>1, <2>1, <2>2, <2>3
  <1>8. TokensInv'
    BY <1>0 DEF PathInv, TokensInv
  <1> QED BY <1>2, <1>3, <1>4, <1>5, <1>6, <1>7, <1>8, <1>0 DEF PathInv, Got, AddHandle

LEMMA FindNoneInv ==
    ASSUME PathInv, NEW t \in Thread, NEW p \in AnyNode, NEW a \in Name, FindNone(t, p, a)
    PROVE  PathInv' /\ Stays
  <1> DEFINE k == <<p, a>>
             o == table[k]
  <1>0. /\ nodes' = nodes /\ key' = key /\ dying' = dying
        /\ Alive' = Alive /\ Dying' = Dying /\ TextOf' = TextOf
        /\ \A m : HasParent(m)' <=> HasParent(m)
        /\ \A m : Children(m)' = Children(m)
        /\ hasToken' = hasToken /\ tokens' = tokens /\ table' = table
        /\ handles' = handles
        /\ locked' = locked \cup {(k)}
        /\ creating' = [creating EXCEPT ![t] = k]
    BY SameNodes DEF FindNone
  <1>1. /\ k \in Key /\ k # NoKey /\ k[1] = p /\ handles[p] > 0 /\ k \notin locked
        /\ creating[t] = NoKey
        /\ creating \in [Thread -> Key \cup {NoKey}]
    BY DEF FindNone, Key, NoKey, Idle, PathInv, TypeOK
  <1> HIDE DEF k
  <1>2. /\ \A u \in Thread : creating'[u] = IF u = t THEN k ELSE creating[u]
        /\ creating' \in [Thread -> Key \cup {NoKey}]
    BY <1>0, <1>1
  <1>3. \/ o = NoNode /\ count' = count
        \/ o # NoNode /\ count[o] = 0 /\ count' = [count EXCEPT ![o] = 1]
    BY DEF FindNone, k
  <1>4. o # NoNode /\ count[o] = 0 => o \in Dying /\ key[o] = k /\ o \in AnyNode
    <2> SUFFICES ASSUME o # NoNode, count[o] = 0 PROVE o \in Dying /\ key[o] = k /\ o \in AnyNode
      OBVIOUS
    <2>1. o \in nodes /\ key[o] = k
      BY <1>1 DEF PathInv, TableInv
    <2>2. o \notin Alive
      BY DEF PathInv, CountsExact
    <2> QED BY <2>1, <2>2, DyingNodes DEF AnyNode
  <1>5. /\ count' \in [AnyNode -> Nat]
        /\ \A m \in AnyNode : m \notin Dying \/ key[m] # k => count'[m] = count[m]
    BY <1>3, <1>4, SMTT(30) DEF PathInv, TypeOK
  <1>6. \A m \in Alive \ {Root} : key[m] # k
    <2> SUFFICES ASSUME NEW m \in Alive \ {Root}, key[m] = k PROVE FALSE
      OBVIOUS
    <2>1. o = m
      BY DEF PathInv, TableInv
    <2>2. m \in Node /\ m \notin Dying
      BY DyingNodes DEF AnyNode
    <2> QED BY <2>1, <2>2, <1>3, <1>4, NodeConstants
  <1>7. TypeOK'
    BY <1>0, <1>1, <1>2, <1>5 DEF PathInv, TypeOK
  <1>8. DyingInv'
    BY <1>0 DEF PathInv, DyingInv
  <1>9. NodesInv'
    BY <1>0 DEF PathInv, NodesInv
  <1>10. TableInv'
    BY <1>0 DEF PathInv, TableInv
  <1>11. CreatingInv'
    <2>1. \A u \in Thread : creating'[u] # NoKey =>
             /\ creating'[u] \in locked'
             /\ handles[creating'[u][1]] > 0
             /\ \A m \in Alive \ {Root} : key[m] # creating'[u]
      BY <1>0, <1>1, <1>2, <1>6 DEF PathInv, CreatingInv
    <2>2. \A u, v \in Thread : creating'[u] = creating'[v] /\ creating'[u] # NoKey => u = v
      BY <1>1, <1>2 DEF PathInv, CreatingInv
    <2>3. ASSUME NEW m \in Dying, table[key[m]] = m, key[m] \notin locked'
          PROVE  count'[m] = 0
      <3>1. key[m] \notin locked /\ key[m] # k /\ m \in AnyNode
        BY <2>3, <1>0, DyingNodes DEF AnyNode
      <3> QED BY <3>1, <1>5, <2>3 DEF PathInv, CreatingInv
    <2> QED BY <1>0, <2>1, <2>2, <2>3 DEF CreatingInv
  <1>12. CountsExact'
    <2> SUFFICES ASSUME NEW m \in Alive
                 PROVE  count'[m] > 0 /\ count'[m] = handles'[m] + Cardinality(Children(m)')
      BY <1>0 DEF CountsExact
    <2>1. count[m] > 0 /\ count[m] = handles[m] + Cardinality(Children(m))
      BY DEF PathInv, CountsExact
    <2>2. Children(m)' = Children(m) /\ m \in AnyNode /\ m \notin Dying
      BY <1>0, DyingNodes
    <2> QED BY <1>0, <1>5, <2>1, <2>2
  <1>13. TokensInv'
    BY <1>0 DEF PathInv, TokensInv
  <1> QED BY <1>7, <1>8, <1>9, <1>10, <1>11, <1>12, <1>13, <1>0 DEF PathInv, Stays

LEMMA TextTypes ==
    ASSUME TypeOK, NEW n \in AnyNode
    PROVE  TextOf[n] \in Seq(Name) /\ TextOf[n] \in Texts(Cardinality(Node))
  <1>1. key \in Keys /\ Cardinality(Node) \in Depths
    BY Finite DEF TypeOK, Keys, Depths
  <1>2. TextOf[n] \in Texts(Cardinality(Node))
    BY <1>1, UpToIs, TextsAreTexts
  <1>3. Texts(Cardinality(Node)) \subseteq Seq(Name)
    BY Finite DEF Texts
  <1> QED BY <1>2, <1>3

LEMMA GetPathTokenInv ==
    ASSUME PathInv, NEW n \in AnyNode, GetPathToken(n)
    PROVE  PathInv' /\ Stays
  <1>0. /\ nodes' = nodes /\ key' = key /\ dying' = dying
        /\ Alive' = Alive /\ Dying' = Dying /\ TextOf' = TextOf
        /\ \A m : HasParent(m)' <=> HasParent(m)
        /\ \A m : Children(m)' = Children(m)
        /\ table' = table /\ handles' = handles /\ count' = count
        /\ locked' = locked /\ creating' = creating
        /\ hasToken' = hasToken \cup {n}
    BY SameNodes DEF GetPathToken
  <1>1. n \in Node /\ n \in Alive /\ n \in nodes /\ n \notin Dying
    BY DEF GetPathToken, PathInv, NodesInv, Alive, AnyNode
  <1>2. /\ tokens' \in [Node -> Seq(Name)]
        /\ \A m \in Node : tokens'[m] = tokens[m]
                           \/ (m = n /\ tokens'[m] = TextOf[n])
    <2>1. TextOf[n] \in Seq(Name)
      BY TextTypes DEF PathInv
    <2> QED BY <1>1, <2>1 DEF GetPathToken, PathInv, TypeOK
  <1>3. TypeOK'
    BY <1>0, <1>1, <1>2 DEF PathInv, TypeOK
  <1>4. DyingInv' /\ NodesInv' /\ TableInv' /\ CreatingInv'
    BY <1>0 DEF PathInv, DyingInv, NodesInv, TableInv, CreatingInv
  <1>5. CountsExact'
    BY <1>0 DEF PathInv, CountsExact
  <1>6. TokensInv'
    <2>1. \A m \in Alive \ {Root} : m \in Node
      BY DyingNodes DEF AnyNode
    <2>2. \A u \in Thread : \A i \in 1..Len(dying[u]) :
             dying[u][i].node \in Node /\ dying[u][i].node # n
      BY DyingNodes, <1>1
    <2>3. \A m \in Alive \ {Root} : tokens'[m] # NoKey => tokens'[m] = TextOf[m]
      BY <1>2, <2>1 DEF PathInv, TokensInv
    <2>4. \A m \in Node : tokens'[m] # NoKey => m \in hasToken' /\ m \in nodes
      BY <1>0, <1>1, <1>2 DEF PathInv, TokensInv
    <2>5. \A u \in Thread : \A i \in 1..Len(dying[u]) :
             dying[u][i].step \in {"parent", "free"} => tokens'[dying[u][i].node] = NoKey
      BY <1>2, <2>2 DEF PathInv, TokensInv
    <2> QED BY <1>0, <2>3, <2>4, <2>5 DEF TokensInv
  <1> QED BY <1>3, <1>4, <1>5, <1>6, <1>0 DEF PathInv, Stays

LEMMA CreateInv ==
    ASSUME PathInv, NEW t \in Thread, Create(t)
    PROVE  PathInv' /\ \E n \in Node : Made(n)
  <1>0. PICK k \in Key, p \in AnyNode : k = creating[t] /\ p = k[1]
    BY CreatingKeys, DyingNodes DEF Create
  <1>1. k \in Key /\ p \in Alive /\ k # NoKey /\ k \in locked /\ p \in AnyNode
        /\ creating \in [Thread -> Key \cup {NoKey}]
    BY <1>0, CreatingKeys, DyingNodes DEF Create, PathInv, CreatingInv, TypeOK
  <1>2. PICK n \in Node \ nodes :
          /\ nodes' = nodes \cup {n}
          /\ key' = [key EXCEPT ![n] = k]
          /\ hasToken' = hasToken \ {n}
          /\ count' = [count EXCEPT ![n] = 1, ![p] = @ + 1]
          /\ table' = [table EXCEPT ![k] = n]
          /\ handles' = [handles EXCEPT ![n] = @ + 1]
    BY <1>0 DEF Create, AddHandle
  <1>3. /\ locked' = locked \ {(k)} /\ tokens' = tokens /\ dying' = dying
        /\ creating' = [creating EXCEPT ![t] = NoKey]
    BY <1>0 DEF Create
  <1>4. n \in AnyNode /\ n # Root /\ n \notin Dying /\ n \notin Alive /\ p # n
    BY <1>1, <1>2, DyingNodes, NodeConstants, RootAlive DEF AnyNode
  <1>5. /\ p = k[1] /\ key' \in Keys
        /\ key'[n] = k /\ \A m \in Node : m # n => key'[m] = key[m]
        /\ count' \in [AnyNode -> Nat] /\ count'[n] = 1 /\ count'[p] = count[p] + 1
        /\ \A m \in AnyNode : m # n /\ m # p => count'[m] = count[m]
        /\ table' \in [Key -> Node \cup {NoNode}]
        /\ \A j \in Key : table'[j] = IF j = k THEN n ELSE table[j]
        /\ handles' \in [AnyNode -> Nat] /\ handles'[n] = 1
        /\ \A m \in AnyNode : m # n => handles'[m] = handles[m]
        /\ creating' \in [Thread -> Key \cup {NoKey}] /\ creating'[t] = NoKey
        /\ \A u \in Thread : u # t => creating'[u] = creating[u]
    <2>1. handles[n] = 0
      BY <1>4 DEF PathInv, NodesInv, TypeOK
    <2>2. count' = [[count EXCEPT ![n] = 1] EXCEPT ![p] = @ + 1]
      BY <1>1, <1>2, <1>4 DEF PathInv, TypeOK
    <2>3. key \in [Node -> Key \cup {NoKey}] /\ count \in [AnyNode -> Nat]
          /\ table \in [Key -> Node \cup {NoNode}] /\ handles \in [AnyNode -> Nat]
      BY DEF PathInv, TypeOK
    <2>4. key' \in Keys /\ key'[n] = k /\ \A m \in Node : m # n => key'[m] = key[m]
      BY <1>1, <1>2, <2>3 DEF Keys
    <2>5. /\ count' \in [AnyNode -> Nat] /\ count'[n] = 1 /\ count'[p] = count[p] + 1
          /\ \A m \in AnyNode : m # n /\ m # p => count'[m] = count[m]
      BY <1>1, <1>4, <2>2, <2>3
    <2>6. /\ table' \in [Key -> Node \cup {NoNode}]
          /\ \A j \in Key : table'[j] = IF j = k THEN n ELSE table[j]
      BY <1>1, <1>2, <2>3
    <2>7. /\ handles' \in [AnyNode -> Nat] /\ handles'[n] = 1
          /\ \A m \in AnyNode : m # n => handles'[m] = handles[m]
      BY <1>2, <1>4, <2>1, <2>3
    <2>8. /\ creating' \in [Thread -> Key \cup {NoKey}] /\ creating'[t] = NoKey
          /\ \A u \in Thread : u # t => creating'[u] = creating[u]
      BY <1>1, <1>3
    <2> QED BY <1>0, <2>4, <2>5, <2>6, <2>7, <2>8
  <1>6. /\ Dying' = Dying /\ Alive' = Alive \cup {n}
        /\ \A c : HasParent(c)' <=> HasParent(c) \/ c = n
        /\ \A c : HasParent(c) => c \in Node /\ c # n
    <2>1. Dying' = Dying
      BY <1>3 DEF Dying
    <2>2. \A c : HasParent(c) => c \in nodes \ {Root}
      BY DEF HasParent
    <2>3. \A u \in Thread : \A i \in 1..Len(dying[u]) : dying[u][i].node # n
      BY DyingNodes, <1>4
    <2>4. \A c : HasParent(c)' <=> HasParent(c) \/ c = n
      BY <1>2, <1>3, <1>4, <2>3 DEF HasParent
    <2>5. nodes \ {Root} \subseteq Node
      BY DEF PathInv, TypeOK, AnyNode
    <2> QED BY <1>2, <1>4, <2>1, <2>2, <2>4, <2>5 DEF Alive
  <1>7. /\ Children(n)' = {} /\ Children(p)' = Children(p) \cup {n} /\ n \notin Children(p)
        /\ \A m : m # p => Children(m)' = Children(m)
    <2>1. \A c : HasParent(c) => key'[c] = key[c] /\ key[c][1] \in Alive
      BY <1>5, <1>6 DEF PathInv, DyingInv
    <2>2. \A m : Children(m)' = {c \in Node : HasParent(c)' /\ key'[c][1] = m}
      BY DEF Children
    <2>3. key'[n][1] = p
      BY <1>5
    <2>4. \A m : Children(m)' = IF m = p THEN Children(p) \cup {n} ELSE Children(m)
      BY <1>2, <1>6, <2>1, <2>2, <2>3 DEF Children
    <2>5. Children(n) = {} /\ n \notin Children(p)
      BY <1>4, <1>6, <2>1 DEF Children
    <2> QED BY <2>4, <2>5, <1>4
  <1>8. \A m \in Alive \cup Dying : m # Root => key'[m] = key[m] /\ m \in Node /\ key[m] \in Key
    BY <1>4, <1>5, DyingNodes DEF AnyNode, PathInv, NodesInv
  <1>9. \A m \in Alive : TextOf'[m] = TextOf[m]
    <2>1. \A m \in Alive \ {Root} : key[m] = key'[m] /\ key[m][1] \in Alive
      <3> SUFFICES ASSUME NEW m \in Alive \ {Root} PROVE key[m] = key'[m] /\ key[m][1] \in Alive
        OBVIOUS
      <3>1. HasParent(m) /\ m \in Node
        BY <1>8, DyingNodes DEF HasParent, Alive
      <3> QED BY <3>1, <1>8 DEF PathInv, DyingInv
    <2>2. Alive \in SUBSET AnyNode /\ Cardinality(Node) \in Depths
      BY DyingNodes, Finite DEF Depths
    <2>3. \A m \in Alive :
             TextsOf(key)[Cardinality(Node)][m] = TextsOf(key')[Cardinality(Node)][m]
      BY <2>1, <2>2, TextsStay
    <2> QED BY <2>3, UpToIs
  <1>10. TypeOK'
    <2>1. nodes' \subseteq AnyNode /\ hasToken' \subseteq Node /\ locked' \subseteq Key
      BY <1>2, <1>3, <1>4 DEF PathInv, TypeOK
    <2> QED BY <1>3, <1>5, <2>1 DEF PathInv, TypeOK, Keys
  <1>11. DyingInv'
    <2>1. \A c \in Node : HasParent(c)' => key'[c][1] \in Alive'
      BY <1>1, <1>5, <1>6 DEF PathInv, DyingInv
    <2>2. \A u \in Thread : \A i \in 1..Len(dying[u]) :
            /\ dying[u][i].node \in nodes' \ {Root}
            /\ handles'[dying[u][i].node] = 0
            /\ i < Len(dying[u]) => dying[u][i].step = "free"
      BY <1>2, <1>4, <1>5, DyingNodes DEF PathInv, DyingInv, AnyNode
    <2> QED BY <1>3, <2>1, <2>2 DEF PathInv, DyingInv
  <1>12. NodesInv'
    <2>1. \A m \in nodes' \ {Root} : key'[m] \in Key
      BY <1>1, <1>2, <1>5, <1>8, DyingNodes
    <2>2. \A m \in AnyNode : handles'[m] > 0 => m \in Alive'
      BY <1>5, <1>6 DEF PathInv, NodesInv
    <2>3. handles'[Root] > 0
      BY <1>4, <1>5 DEF PathInv, NodesInv, AnyNode
    <2> QED BY <2>1, <2>2, <2>3 DEF NodesInv
  <1>13. TableInv'
    <2>1. ASSUME NEW j \in Key, table'[j] # NoNode
          PROVE  table'[j] \in nodes' /\ key'[table'[j]] = j
      <3>1. CASE j = k
        BY <3>1, <1>2, <1>5
      <3>2. CASE j # k
        <4>1. table[j] \in nodes /\ key[table[j]] = j /\ table[j] \in Node /\ table'[j] = table[j]
          BY <3>2, <2>1, <1>5 DEF PathInv, TableInv, TypeOK
        <4> QED BY <4>1, <1>2, <1>5
      <3> QED BY <3>1, <3>2
    <2>2. ASSUME NEW m \in Alive' \ {Root}
          PROVE  table'[key'[m]] = m
      <3>1. CASE m = n
        BY <3>1, <1>1, <1>5
      <3>2. CASE m # n
        <4>1. m \in Alive \ {Root} /\ key'[m] = key[m] /\ key[m] \in Key
          BY <3>2, <1>6, <1>8
        <4>2. key[m] # k /\ table[key[m]] = m
          BY <4>1, <1>0, <1>1 DEF PathInv, CreatingInv, TableInv
        <4> QED BY <4>1, <4>2, <1>5
      <3> QED BY <3>1, <3>2
    <2>3. ASSUME NEW u \in Thread, NEW i \in 1..Len(dying[u]), dying[u][i].step # "unlink"
          PROVE  table'[key'[dying[u][i].node]] # dying[u][i].node
      <3> DEFINE m == dying[u][i].node
      <3>1. m \in Dying /\ m # n /\ m # Root /\ table[key[m]] # m
        BY <2>3, DyingNodes, <1>4 DEF PathInv, TableInv
      <3>2. key'[m] = key[m] /\ key[m] \in Key
        BY <3>1, <1>8
      <3> QED BY <3>1, <3>2, <1>5
    <2> QED BY <1>3, <2>1, <2>2, <2>3 DEF TableInv
  <1>14. CreatingInv'
    <2>1. ASSUME NEW u \in Thread, creating'[u] # NoKey
          PROVE  /\ creating'[u] \in locked'
                 /\ handles'[creating'[u][1]] > 0
                 /\ \A m \in Alive' \ {Root} : key'[m] # creating'[u]
      <3>1. u # t /\ creating'[u] = creating[u] /\ creating[u] # NoKey
        BY <2>1, <1>5
      <3>2. creating[u] # k
        BY <3>1, <1>0, <1>1 DEF PathInv, CreatingInv
      <3>3. creating[u] \in locked /\ handles[creating[u][1]] > 0
            /\ creating[u][1] \in AnyNode /\ creating[u][1] # n
            /\ \A m \in Alive \ {Root} : key[m] # creating[u]
        BY <3>1, CreatingKeys, DyingNodes, <1>4 DEF PathInv, CreatingInv
      <3>4. \A m \in Alive' \ {Root} : key'[m] # creating[u]
        BY <3>2, <3>3, <1>5, <1>6, <1>8
      <3> QED BY <3>1, <3>2, <3>3, <3>4, <1>3, <1>5
    <2>2. \A u, v \in Thread : creating'[u] = creating'[v] /\ creating'[u] # NoKey => u = v
      BY <1>5 DEF PathInv, CreatingInv
    <2>3. ASSUME NEW m \in Dying, table'[key'[m]] = m, key'[m] \notin locked'
          PROVE  count'[m] = 0
      <3>1. key'[m] = key[m] /\ key[m] \in Key /\ m # n /\ m # p /\ m \in AnyNode
        BY <1>1, <1>4, <1>8, DyingNodes DEF AnyNode
      <3>2. key[m] # k
        BY <3>1, <2>3, <1>5
      <3>3. table[key[m]] = m /\ key[m] \notin locked
        BY <3>1, <3>2, <2>3, <1>3, <1>5
      <3> QED BY <3>1, <3>3, <1>5 DEF PathInv, CreatingInv
    <2> QED BY <1>6, <2>1, <2>2, <2>3 DEF CreatingInv
  <1>15. CountsExact'
    <2> SUFFICES ASSUME NEW m \in Alive \cup {n}
                 PROVE  count'[m] > 0 /\ count'[m] = handles'[m] + Cardinality(Children(m)')
      BY <1>6 DEF CountsExact
    <2>1. CASE m = n
      BY <2>1, <1>5, <1>7, FS_EmptySet
    <2>2. CASE m # n
      <3>1. /\ count[m] > 0 /\ count[m] = handles[m] + Cardinality(Children(m))
            /\ m \in AnyNode /\ handles'[m] = handles[m]
            /\ handles[m] \in Nat /\ Cardinality(Children(m)) \in Nat
        BY <2>2, <1>5, DyingNodes, ChildrenFinite DEF PathInv, CountsExact, TypeOK
      <3>2. CASE m # p
        BY <2>2, <3>1, <3>2, <1>5, <1>7
      <3>3. CASE m = p
        <4>1. Cardinality(Children(p)') = Cardinality(Children(p)) + 1
          BY <1>7, ChildrenFinite, FS_AddElement, ZenonT(30)
        <4> QED BY <3>1, <3>3, <4>1, <1>5
      <3> QED BY <3>2, <3>3
    <2> QED BY <2>1, <2>2
  <1>16. TokensInv'
    <2>1. tokens[n] = NoKey
      BY <1>2 DEF PathInv, TokensInv
    <2>2. \A m \in Alive' \ {Root} : tokens'[m] # NoKey => tokens'[m] = TextOf'[m]
      BY <1>3, <1>6, <1>9, <2>1 DEF PathInv, TokensInv
    <2>3. \A m \in Node : tokens'[m] # NoKey => m \in hasToken' /\ m \in nodes'
      BY <1>2, <1>3, <2>1 DEF PathInv, TokensInv
    <2> QED BY <1>3, <2>2, <2>3 DEF PathInv, TokensInv
  <1> QED BY <1>10, <1>11, <1>12, <1>13, <1>14, <1>15, <1>16, <1>0, <1>1, <1>2, <1>4, <1>6 DEF PathInv, Made

LEMMA PinnedIs ==
    ASSUME NEW n
    PROVE  /\ Pinned(n) \in Nat
           /\ \A t \in Thread : creating[t] # NoKey /\ creating[t][1] = n => Pinned(n) > 0
  <1> DEFINE S == {t \in Thread : creating[t] # NoKey /\ creating[t][1] = n}
  <1>1. S \in SUBSET Thread /\ Pinned(n) = Cardinality(S)
    BY DEF Pinned
  <1>2. \A t \in Thread : creating[t] # NoKey /\ creating[t][1] = n => S # {}
    OBVIOUS
  <1> HIDE DEF S
  <1>3. IsFiniteSet(S) /\ Cardinality(S) \in Nat
    BY <1>1, NodeConstants, FS_Subset, FS_CardinalityType
  <1>4. S # {} => Cardinality(S) # 0
    BY <1>3, FS_EmptySet
  <1> QED BY <1>1, <1>2, <1>3, <1>4

LEMMA DropInv ==
    ASSUME PathInv, NEW t \in Thread, NEW n \in AnyNode, Drop(t, n)
    PROVE  PathInv' /\ Lost(n)
  <1>0. /\ nodes' = nodes /\ key' = key /\ TextOf' = TextOf
        /\ hasToken' = hasToken /\ tokens' = tokens /\ table' = table
        /\ locked' = locked /\ creating' = creating
        /\ handles' = [handles EXCEPT ![n] = @ - 1]
        /\ count' = [count EXCEPT ![n] = @ - 1]
        /\ dying[t] = <<>>
        /\ handles[n] > Pinned(n) + (IF n = Root THEN 1 ELSE 0)
    BY UpToIs DEF Drop, memory, Idle
  <1>1. /\ handles[n] \in Nat /\ handles[n] > Pinned(n) /\ Pinned(n) \in Nat
        /\ n = Root => handles[n] > 1
        /\ n \in Alive /\ n \in nodes /\ n \notin Dying
    BY <1>0, PinnedIs DEF PathInv, TypeOK, NodesInv, Alive
  <1>2. count[n] = handles[n] + Cardinality(Children(n)) /\ count[n] > 0 /\ count[n] \in Nat
        /\ Cardinality(Children(n)) \in Nat
    BY <1>1, ChildrenFinite DEF PathInv, CountsExact, TypeOK
  <1>3. /\ handles' \in [AnyNode -> Nat] /\ handles'[n] = handles[n] - 1
        /\ \A m \in AnyNode : m # n => handles'[m] = handles[m]
        /\ count' \in [AnyNode -> Nat] /\ count'[n] = count[n] - 1
        /\ \A m \in AnyNode : m # n => count'[m] = count[m]
    BY <1>0, <1>1, <1>2 DEF PathInv, TypeOK
  <1>4. \A u \in Thread : creating[u] # NoKey =>
            creating[u][1] \in AnyNode /\ handles'[creating[u][1]] > 0
    <2> SUFFICES ASSUME NEW u \in Thread, creating[u] # NoKey
                 PROVE  creating[u][1] \in AnyNode /\ handles'[creating[u][1]] > 0
      OBVIOUS
    <2>1. creating[u][1] \in AnyNode /\ handles[creating[u][1]] > 0
      BY CreatingKeys, DyingNodes DEF PathInv, CreatingInv
    <2>2. creating[u][1] = n => Pinned(n) > 0
      BY PinnedIs
    <2> QED BY <2>1, <2>2, <1>1, <1>3
  <1>5. handles'[Root] > 0
    BY <1>1, <1>3 DEF PathInv, NodesInv, AnyNode
  <1>6. CASE count[n] # 1
    <2>1. dying' = dying
      BY <1>6 DEF Drop
    <2>2. /\ Alive' = Alive /\ Dying' = Dying
          /\ \A m : HasParent(m)' <=> HasParent(m)
          /\ \A m : Children(m)' = Children(m)
      BY <1>0, <2>1 DEF Alive, Dying, HasParent, Children
    <2>3. TypeOK'
      BY <1>0, <1>3, <2>1 DEF PathInv, TypeOK
    <2>4. DyingInv'
      <3>1. \A u \in Thread : \A i \in 1..Len(dying[u]) :
               dying[u][i].node \in AnyNode /\ dying[u][i].node # n
        BY <1>1, DyingNodes DEF AnyNode
      <3> QED BY <1>0, <1>3, <2>1, <2>2, <3>1 DEF PathInv, DyingInv
    <2>5. NodesInv'
      BY <1>0, <1>1, <1>3, <1>5, <2>2 DEF PathInv, NodesInv
    <2>6. TableInv'
      BY <1>0, <2>1, <2>2 DEF PathInv, TableInv
    <2>7. CreatingInv'
      <3>1. \A m \in Dying : count'[m] = count[m]
        BY <1>1, <1>3, DyingNodes DEF AnyNode
      <3> QED BY <1>0, <1>4, <2>2, <3>1 DEF PathInv, CreatingInv
    <2>8. CountsExact'
      <3> SUFFICES ASSUME NEW m \in Alive
                   PROVE  count'[m] > 0 /\ count'[m] = handles'[m] + Cardinality(Children(m)')
        BY <2>2 DEF CountsExact
      <3>1. count[m] > 0 /\ count[m] = handles[m] + Cardinality(Children(m)) /\ m \in AnyNode
        BY DyingNodes DEF PathInv, CountsExact
      <3>2. Children(m)' = Children(m)
        BY <2>2
      <3>3. CASE m = n
        BY <1>1, <1>2, <1>3, <1>6, <3>2, <3>3
      <3>4. CASE m # n
        BY <1>3, <3>1, <3>2, <3>4
      <3> QED BY <3>3, <3>4
    <2>9. TokensInv'
      BY <1>0, <2>1, <2>2 DEF PathInv, TokensInv
    <2>10. Lost(n)
      BY <1>0, <1>1, <2>2 DEF Lost, PathInv, NodesInv
    <2> QED BY <2>3, <2>4, <2>5, <2>6, <2>7, <2>8, <2>9, <2>10 DEF PathInv
  <1>7. CASE count[n] = 1
    <2>1. n # Root /\ handles'[n] = 0 /\ Cardinality(Children(n)) = 0 /\ count'[n] = 0
      BY <1>1, <1>2, <1>3, <1>7
    <2>2. Children(n) = {} /\ n \in Node
      BY <2>1, ChildrenFinite, FS_EmptySet DEF AnyNode
    <2>3. dying' = [dying EXCEPT ![t] = <<[node |-> n, step |-> "unlink"]>>]
      BY <1>7 DEF Drop
    <2>4. /\ Len(dying[t]) = 0 /\ Len(dying'[t]) = 1
          /\ dying'[t][1].node = n /\ dying'[t][1].step = "unlink"
          /\ \A u \in Thread : u # t => dying'[u] = dying[u]
          /\ \A u \in Thread : \A i \in 1..Len(dying'[u]) :
                \/ u = t /\ i = 1
                \/ u # t /\ i \in 1..Len(dying[u]) /\ dying'[u][i] = dying[u][i]
      BY <1>0, <2>3 DEF PathInv, TypeOK
    <2>5. Dying' = Dying \cup {n} /\ Alive' = Alive \ {n}
      <3>1. \A m : m \in Dying' <=> m \in Dying \/ m = n
        BY <2>4, DyingIs, DyingIsNext
      <3> QED BY <3>1, <1>0 DEF Alive
    <2>6. /\ \A m : HasParent(m)' <=> HasParent(m)
          /\ \A m : Children(m)' = Children(m)
      <3>1. \A m : HasParent(m)' <=> HasParent(m)
        BY <1>0, <2>4 DEF HasParent
      <3> QED BY <3>1, <1>0 DEF Children
    <2>7. TypeOK'
      <3>1. <<[node |-> n, step |-> "unlink"]>> \in Seq(Entry)
        BY DEF Entry
      <3>2. dying' \in [Thread -> Seq(Entry)]
        BY <2>3, <3>1 DEF PathInv, TypeOK, Entry
      <3> QED BY <1>0, <1>3, <3>2 DEF PathInv, TypeOK, Entry
    <2>8. DyingInv'
      <3>1. \A u, v \in Thread : \A i \in 1..Len(dying'[u]), j \in 1..Len(dying'[v]) :
               dying'[u][i].node = dying'[v][j].node => u = v /\ i = j
        <4>1. \A u \in Thread : \A i \in 1..Len(dying[u]) : dying[u][i].node # n
          BY <1>1, DyingNodes
        <4> QED BY <2>4, <4>1 DEF PathInv, DyingInv
      <3>2. \A u \in Thread : \A i \in 1..Len(dying'[u]) :
               /\ dying'[u][i].node \in nodes' \ {Root}
               /\ handles'[dying'[u][i].node] = 0
               /\ i < Len(dying'[u]) => dying'[u][i].step = "free"
        <4> SUFFICES ASSUME NEW u \in Thread, NEW i \in 1..Len(dying'[u])
                     PROVE  /\ dying'[u][i].node \in nodes' \ {Root}
                            /\ handles'[dying'[u][i].node] = 0
                            /\ i < Len(dying'[u]) => dying'[u][i].step = "free"
          OBVIOUS
        <4>1. CASE u = t
          <5>1. i = 1 /\ Len(dying'[u]) = 1
            BY <4>1, <2>4
          <5>2. dying'[u][i].node = n
            BY <4>1, <5>1, <2>4
          <5> QED BY <5>1, <5>2, <2>1, <1>0, <1>1
        <4>2. CASE u # t
          <5>1. i \in 1..Len(dying[u]) /\ dying'[u] = dying[u] /\ dying[u][i].node \in Dying
            BY <4>2, <2>4, DyingNodes
          <5>2. dying[u][i].node # n /\ dying[u][i].node \in AnyNode
            BY <5>1, <1>1, DyingNodes DEF AnyNode
          <5> QED BY <5>1, <5>2, <1>0, <1>3 DEF PathInv, DyingInv
        <4> QED BY <4>1, <4>2
      <3>3. \A c \in Node : HasParent(c)' => key'[c][1] \in Alive'
        BY <1>0, <2>2, <2>5, <2>6 DEF PathInv, DyingInv, Children
      <3> QED BY <3>1, <3>2, <3>3 DEF DyingInv
    <2>9. NodesInv'
      BY <1>0, <1>1, <1>3, <1>5, <2>1, <2>5 DEF PathInv, NodesInv
    <2>10. TableInv'
      <3>1. \A u \in Thread : \A i \in 1..Len(dying'[u]) :
               dying'[u][i].step # "unlink" => table'[key'[dying'[u][i].node]] # dying'[u][i].node
        BY <1>0, <2>4 DEF PathInv, TableInv
      <3> QED BY <1>0, <2>5, <3>1 DEF PathInv, TableInv
    <2>11. CreatingInv'
      <3>1. \A m \in Dying : count'[m] = count[m]
        BY <1>1, <1>3, DyingNodes DEF AnyNode
      <3>2. \A m \in Dying' : table'[key'[m]] = m /\ key'[m] \notin locked' => count'[m] = 0
        BY <1>0, <2>1, <2>5, <3>1 DEF PathInv, CreatingInv
      <3> QED BY <1>0, <1>4, <2>5, <3>2 DEF PathInv, CreatingInv
    <2>12. CountsExact'
      <3> SUFFICES ASSUME NEW m \in Alive \ {n}
                   PROVE  count'[m] > 0 /\ count'[m] = handles'[m] + Cardinality(Children(m)')
        BY <2>5 DEF CountsExact
      <3>1. count[m] > 0 /\ count[m] = handles[m] + Cardinality(Children(m)) /\ m \in AnyNode
        BY DyingNodes DEF PathInv, CountsExact
      <3>2. Children(m)' = Children(m)
        BY <2>6
      <3> QED BY <1>3, <3>1, <3>2
    <2>13. TokensInv'
      <3>1. \A u \in Thread : \A i \in 1..Len(dying'[u]) :
               dying'[u][i].step \in {"parent", "free"} => tokens'[dying'[u][i].node] = NoKey
        BY <1>0, <2>4 DEF PathInv, TokensInv
      <3> QED BY <1>0, <2>5, <3>1 DEF PathInv, TokensInv
    <2>14. Lost(n)
      BY <1>0, <1>1, <2>1, <2>5 DEF Lost, PathInv, NodesInv
    <2> QED BY <2>7, <2>8, <2>9, <2>10, <2>11, <2>12, <2>13, <2>14 DEF PathInv
  <1> QED BY <1>6, <1>7

\* What a step of the destruction under way in t does to the stacks: n is the
\* node it is about, i its place.
TopIs(t, i, n, step) ==
    /\ i = Len(dying[t]) /\ i \in 1..Len(dying[t])
    /\ dying[t][i].node = n /\ dying[t][i].step = step
    /\ n \in Dying /\ n \in Node /\ n # Root /\ key[n] \in Key

LEMMA TopOf ==
    ASSUME PathInv, NEW t \in Thread, NEW step, At(t, step)
    PROVE  \E i \in Nat, n \in Node : /\ TopIs(t, i, n, step) /\ Top(t).node = n
                                      /\ Len(dying[t]) = i /\ dying[t] \in Seq(Entry)
  <1> DEFINE i == Len(dying[t])
  <1>1. i \in 1..Len(dying[t]) /\ dying[t] \in Seq(Entry)
    BY Entries DEF At, PathInv
  <1>2. dying[t][i].node \in Dying /\ dying[t][i].step = step
    BY <1>1, DyingNodes DEF At, Top
  <1>3. dying[t][i].node \in Node /\ dying[t][i].node # Root /\ dying[t][i].node \in nodes
    BY <1>2, DyingNodes
  <1>4. key[dying[t][i].node] \in Key
    BY <1>3 DEF PathInv, NodesInv
  <1> QED BY <1>1, <1>2, <1>3, <1>4 DEF TopIs, Top

\* The destruction of n, the i-th of t, went on with step, the others did not.
WentOn(t, i, n, step) ==
    /\ dying' \in [Thread -> Seq(Entry)]
    /\ \A u \in Thread : Len(dying'[u]) = Len(dying[u])
    /\ \A u \in Thread : \A j \in 1..Len(dying[u]) :
          /\ dying'[u][j].node = dying[u][j].node
          /\ dying'[u][j].step = IF dying[u][j].node = n THEN step ELSE dying[u][j].step
          /\ dying[u][j].node = n <=> (u = t /\ j = i)
    /\ Dying' = Dying

\* The innermost destruction of t goes on.
LEMMA GoOnIs ==
    ASSUME PathInv, NEW t \in Thread, NEW i \in Nat, NEW n \in Node, NEW old, TopIs(t, i, n, old),
           NEW step \in {"unlink", "token", "parent", "free"},
           dying' = [dying EXCEPT ![t] = [dying[t] EXCEPT ![i].step = step]]
    PROVE  WentOn(t, i, n, step)
  <1>1. /\ dying \in [Thread -> Seq(Entry)] /\ dying[t] \in Seq(Entry)
        /\ i = Len(dying[t]) /\ i \in 1..Len(dying[t]) /\ dying[t][i].node = n
        /\ dying[t][i] \in Entry
    BY Entries DEF PathInv, TypeOK, TopIs, Entry
  <1> DEFINE e == [dying[t][i] EXCEPT !.step = step]
             s == [dying[t] EXCEPT ![i] = e]
  <1>2. e \in Entry /\ e.node = n /\ e.step = step
    BY <1>1 DEF Entry
  <1>3. s = [dying[t] EXCEPT ![i].step = step]
    OBVIOUS
  <1> HIDE DEF e
  <1>4. /\ s \in Seq(Entry) /\ Len(s) = Len(dying[t])
        /\ \A j \in 1..Len(dying[t]) : s[j] = IF j = i THEN e ELSE dying[t][j]
    BY <1>1, <1>2, ExceptSeq
  <1> HIDE DEF s
  <1>5. /\ dying' \in [Thread -> Seq(Entry)] /\ dying'[t] = s
        /\ \A u \in Thread : u # t => dying'[u] = dying[u]
    BY <1>1, <1>3, <1>4
  <1>6. \A u \in Thread : Len(dying'[u]) = Len(dying[u])
    BY <1>4, <1>5
  <1>7. \A u \in Thread : \A j \in 1..Len(dying[u]) : dying[u][j].node = n <=> (u = t /\ j = i)
    BY <1>1 DEF PathInv, DyingInv
  <1>8. \A u \in Thread : \A j \in 1..Len(dying[u]) :
           /\ dying'[u][j].node = dying[u][j].node
           /\ dying'[u][j].step = IF dying[u][j].node = n THEN step ELSE dying[u][j].step
    <2> SUFFICES ASSUME NEW u \in Thread, NEW j \in 1..Len(dying[u])
                 PROVE  /\ dying'[u][j].node = dying[u][j].node
                        /\ dying'[u][j].step = IF dying[u][j].node = n THEN step
                                               ELSE dying[u][j].step
      OBVIOUS
    <2>1. CASE u = t
      BY <2>1, <1>1, <1>2, <1>4, <1>5, <1>7
    <2>2. CASE u # t
      BY <2>2, <1>5, <1>7
    <2> QED BY <2>1, <2>2
  <1>9. Dying' = Dying
    <2>1. \A m : m \in Dying' <=> m \in Dying
      <3> SUFFICES ASSUME NEW m PROVE m \in Dying' <=> m \in Dying
        OBVIOUS
      <3>1. m \in Dying' <=> \E u \in Thread : \E j \in 1..Len(dying[u]) : dying'[u][j].node = m
        BY <1>6, DyingIsNext
      <3>2. m \in Dying <=> \E u \in Thread : \E j \in 1..Len(dying[u]) : dying[u][j].node = m
        BY DyingIs
      <3> QED BY <3>1, <3>2, <1>8
    <2> QED BY <2>1
  <1> QED BY <1>5, <1>6, <1>7, <1>8, <1>9 DEF WentOn

LEMMA UnlinkInv ==
    ASSUME PathInv, NEW t \in Thread, Unlink(t)
    PROVE  PathInv' /\ Stays
  <1>1. PICK i \in Nat, n \in Node : TopIs(t, i, n, "unlink") /\ Top(t).node = n
    BY TopOf DEF Unlink
  <1>2. /\ dying' = [dying EXCEPT ![t] = [dying[t] EXCEPT ![i].step = "token"]]
        /\ nodes' = nodes /\ key' = key /\ TextOf' = TextOf
        /\ hasToken' = hasToken /\ tokens' = tokens /\ handles' = handles
        /\ locked' = locked /\ creating' = creating /\ count' = count
    BY <1>1, UpToIs DEF Unlink, memory, GoOn, TopIs
  <1>3. /\ dying' \in [Thread -> Seq(Entry)]
        /\ \A u \in Thread : Len(dying'[u]) = Len(dying[u])
        /\ \A u \in Thread : \A j \in 1..Len(dying[u]) :
              /\ dying'[u][j].node = dying[u][j].node
              /\ dying'[u][j].step = IF dying[u][j].node = n THEN "token" ELSE dying[u][j].step
              /\ dying[u][j].node = n <=> (u = t /\ j = i)
        /\ Dying' = Dying
    <2>1. WentOn(t, i, n, "token")
      BY <1>1, <1>2, GoOnIs
    <2> QED BY <2>1 DEF WentOn
  <1>4. /\ dying[t][i].step = "unlink" /\ i \in 1..Len(dying[t]) /\ i = Len(dying[t])
        /\ n \in Dying /\ n \notin Alive /\ key[n] \in Key
    BY <1>1, DyingNodes DEF TopIs
  <1>5. /\ key[n] \notin locked
        /\ table' = IF table[key[n]] = n THEN [table EXCEPT ![key[n]] = NoNode] ELSE table
    BY <1>1 DEF Unlink
  <1>6. /\ table' \in [Key -> Node \cup {NoNode}] /\ table'[key[n]] # n
        /\ \A k \in Key : table'[k] = table[k] \/ (table[k] = n /\ k = key[n] /\ table'[k] = NoNode)
    BY <1>4, <1>5, NodeConstants DEF PathInv, TypeOK
  <1>7. /\ Alive' = Alive
        /\ \A m : HasParent(m)' <=> HasParent(m)
        /\ \A m : Children(m)' = Children(m)
    <2>1. \A m : HasParent(m)' <=> HasParent(m)
      BY <1>2, <1>3, <1>4 DEF HasParent
    <2> QED BY <1>2, <1>3, <2>1 DEF Alive, Children
  <1>8. TypeOK'
    BY <1>2, <1>3, <1>6 DEF PathInv, TypeOK, Entry
  <1>9. DyingInv'
    BY <1>2, <1>3, <1>4, <1>7 DEF PathInv, DyingInv
  <1>10. NodesInv'
    BY <1>2, <1>7 DEF PathInv, NodesInv
  <1>11. TableInv'
    <2>1. \A m \in Dying : m \in Node /\ key[m] \in Key
      BY DyingNodes DEF PathInv, NodesInv
    <2>2. \A k \in Key : table'[k] # NoNode => table'[k] \in nodes /\ key[table'[k]] = k
      BY <1>6 DEF PathInv, TableInv
    <2>3. \A m \in Alive \ {Root} : table'[key[m]] = m
      BY <1>4, <1>6, DyingNodes DEF PathInv, TableInv, NodesInv
    <2>4. ASSUME NEW u \in Thread, NEW j \in 1..Len(dying[u]), dying'[u][j].step # "unlink"
          PROVE  table'[key[dying[u][j].node]] # dying[u][j].node
      <3>1. CASE dying[u][j].node = n
        BY <3>1, <1>6
      <3>2. CASE dying[u][j].node # n
        <4>1. dying[u][j].step # "unlink" /\ dying[u][j].node \in Dying
          BY <3>2, <2>4, <1>3, DyingNodes
        <4>2. table[key[dying[u][j].node]] # dying[u][j].node
          BY <4>1 DEF PathInv, TableInv
        <4> QED BY <4>1, <4>2, <2>1, <1>6, NodeConstants
      <3> QED BY <3>1, <3>2
    <2>5. \A u \in Thread : \A j \in 1..Len(dying'[u]) :
             dying'[u][j].step # "unlink" => table'[key'[dying'[u][j].node]] # dying'[u][j].node
      <3> SUFFICES ASSUME NEW u \in Thread, NEW j \in 1..Len(dying'[u]),
                          dying'[u][j].step # "unlink"
                   PROVE  table'[key'[dying'[u][j].node]] # dying'[u][j].node
        OBVIOUS
      <3>1. j \in 1..Len(dying[u]) /\ dying'[u][j].node = dying[u][j].node /\ key' = key
        BY <1>2, <1>3
      <3> QED BY <3>1, <2>4
    <2> QED BY <1>2, <1>7, <2>2, <2>3, <2>5 DEF TableInv
  <1>12. CreatingInv'
    <2>1. \A m \in Dying : table'[key[m]] = m => table[key[m]] = m
      BY <1>6, DyingNodes, NodeConstants DEF PathInv, NodesInv
    <2> QED BY <1>2, <1>3, <1>7, <2>1 DEF PathInv, CreatingInv
  <1>13. CountsExact'
    BY <1>2, <1>7 DEF PathInv, CountsExact
  <1>14. TokensInv'
    BY <1>2, <1>3, <1>7 DEF PathInv, TokensInv
  <1> QED BY <1>8, <1>9, <1>10, <1>11, <1>12, <1>13, <1>14, <1>2, <1>7 DEF PathInv, Stays

LEMMA RemoveTokenInv ==
    ASSUME PathInv, NEW t \in Thread, RemoveToken(t)
    PROVE  PathInv' /\ Stays
  <1>1. PICK i \in Nat, n \in Node : TopIs(t, i, n, "token") /\ Top(t).node = n
    BY TopOf DEF RemoveToken
  <1>2. /\ dying' = [dying EXCEPT ![t] = [dying[t] EXCEPT ![i].step = "parent"]]
        /\ nodes' = nodes /\ key' = key /\ TextOf' = TextOf
        /\ hasToken' = hasToken /\ table' = table /\ handles' = handles
        /\ locked' = locked /\ creating' = creating /\ count' = count
    BY <1>1, UpToIs DEF RemoveToken, memory, GoOn, TopIs
  <1>3. /\ dying' \in [Thread -> Seq(Entry)]
        /\ \A u \in Thread : Len(dying'[u]) = Len(dying[u])
        /\ \A u \in Thread : \A j \in 1..Len(dying[u]) :
              /\ dying'[u][j].node = dying[u][j].node
              /\ dying'[u][j].step = IF dying[u][j].node = n THEN "parent" ELSE dying[u][j].step
              /\ dying[u][j].node = n <=> (u = t /\ j = i)
        /\ Dying' = Dying
    <2>1. WentOn(t, i, n, "parent")
      BY <1>1, <1>2, GoOnIs
    <2> QED BY <2>1 DEF WentOn
  <1>4. /\ dying[t][i].step = "token" /\ i \in 1..Len(dying[t]) /\ i = Len(dying[t])
        /\ n \in Dying /\ n \notin Alive
    BY <1>1, DyingNodes DEF TopIs
  <1>5. /\ tokens' \in [Node -> Seq(Name)] /\ tokens'[n] = NoKey
        /\ \A m \in Node : m # n => tokens'[m] = tokens[m]
    <2>1. tokens' = IF n \in hasToken THEN [tokens EXCEPT ![n] = NoKey] ELSE tokens
      BY <1>1 DEF RemoveToken
    <2>2. NoKey \in Seq(Name) /\ tokens \in [Node -> Seq(Name)]
      BY DEF NoKey, PathInv, TypeOK
    <2>3. n \notin hasToken => tokens[n] = NoKey
      BY DEF PathInv, TokensInv
    <2> QED BY <2>1, <2>2, <2>3
  <1>6. /\ Alive' = Alive
        /\ \A m : HasParent(m)' <=> HasParent(m)
        /\ \A m : Children(m)' = Children(m)
    <2>1. \A m : HasParent(m)' <=> HasParent(m)
      BY <1>2, <1>3, <1>4 DEF HasParent
    <2> QED BY <1>2, <1>3, <2>1 DEF Alive, Children
  <1>7. TypeOK'
    BY <1>2, <1>3, <1>5 DEF PathInv, TypeOK, Entry
  <1>8. DyingInv'
    BY <1>2, <1>3, <1>4, <1>6 DEF PathInv, DyingInv
  <1>9. NodesInv'
    BY <1>2, <1>6 DEF PathInv, NodesInv
  <1>10. TableInv'
    <2>1. \A u \in Thread : \A j \in 1..Len(dying'[u]) :
             dying'[u][j].step # "unlink" => table'[key'[dying'[u][j].node]] # dying'[u][j].node
      <3> SUFFICES ASSUME NEW u \in Thread, NEW j \in 1..Len(dying'[u]),
                          dying'[u][j].step # "unlink"
                   PROVE  table'[key'[dying'[u][j].node]] # dying'[u][j].node
        OBVIOUS
      <3>1. j \in 1..Len(dying[u]) /\ dying'[u][j].node = dying[u][j].node
            /\ key' = key /\ table' = table
        BY <1>2, <1>3
      <3>2. dying[u][j].step # "unlink"
        BY <3>1, <1>3, <1>4
      <3> QED BY <3>1, <3>2 DEF PathInv, TableInv
    <2> QED BY <1>2, <1>6, <2>1 DEF PathInv, TableInv
  <1>11. CreatingInv'
    BY <1>2, <1>3, <1>6 DEF PathInv, CreatingInv
  <1>12. CountsExact'
    BY <1>2, <1>6 DEF PathInv, CountsExact
  <1>13. TokensInv'
    <2>1. \A m \in Alive \ {Root} : tokens'[m] # NoKey => tokens'[m] = TextOf[m]
      BY <1>4, <1>5, DyingNodes DEF PathInv, TokensInv, AnyNode
    <2>2. \A m \in Node : tokens'[m] # NoKey => m \in hasToken /\ m \in nodes
      BY <1>5 DEF PathInv, TokensInv
    <2>3. \A u \in Thread : \A j \in 1..Len(dying[u]) :
             dying'[u][j].step \in {"parent", "free"} => tokens'[dying[u][j].node] = NoKey
      BY <1>3, <1>5, DyingNodes, ZenonT(30) DEF PathInv, TokensInv
    <2> QED BY <1>2, <1>3, <1>6, <2>1, <2>2, <2>3 DEF TokensInv
  <1> QED BY <1>7, <1>8, <1>9, <1>10, <1>11, <1>12, <1>13, <1>2, <1>6 DEF PathInv, Stays

LEMMA DropParentInv ==
    ASSUME PathInv, NEW t \in Thread, DropParent(t)
    PROVE  PathInv' /\ Stays
  <1>1. PICK i \in Nat, n \in Node : /\ TopIs(t, i, n, "parent") /\ Top(t).node = n
                                     /\ Len(dying[t]) = i /\ dying[t] \in Seq(Entry)
    BY TopOf DEF DropParent
  <1>2. PICK p \in AnyNode : p = key[n][1]
    BY <1>1 DEF TopIs, Key
  <1>3. /\ dying[t][i].step = "parent" /\ i \in 1..Len(dying[t]) /\ i = Len(dying[t])
        /\ n \in Dying /\ n \in nodes /\ n # Root /\ n \notin Alive /\ dying[t][i].node = n
        /\ \A u \in Thread : \A j \in 1..Len(dying[u]) :
              dying[u][j].node = n <=> (u = t /\ j = i)
    BY <1>1, DyingNodes DEF TopIs, PathInv, DyingInv
  <1>4. HasParent(n) /\ p \in Alive /\ n \in Children(p) /\ p # n /\ p \notin Dying /\ p \in nodes
    <2>1. HasParent(n)
      BY <1>3 DEF HasParent
    <2> QED BY <2>1, <1>2, <1>3, DyingNodes DEF PathInv, DyingInv, Children
  <1>5. /\ count[p] = handles[p] + Cardinality(Children(p)) /\ count[p] > 0 /\ count[p] \in Nat
        /\ handles[p] \in Nat /\ Cardinality(Children(p)) \in Nat
        /\ Cardinality(Children(p) \ {n}) = Cardinality(Children(p)) - 1
        /\ Cardinality(Children(p) \ {n}) \in Nat
    BY <1>4, ChildrenFinite, FS_RemoveElement, FS_CardinalityType
       DEF PathInv, CountsExact, TypeOK
  <1> DEFINE rest == [dying[t] EXCEPT ![i].step = "free"]
             both == Append(rest, [node |-> p, step |-> "unlink"])
  <1>6. /\ nodes' = nodes /\ key' = key /\ TextOf' = TextOf
        /\ hasToken' = hasToken /\ tokens' = tokens /\ table' = table
        /\ locked' = locked /\ creating' = creating /\ handles' = handles
        /\ count' = [count EXCEPT ![p] = @ - 1]
        /\ dying' = [dying EXCEPT ![t] = IF count[p] = 1 THEN both ELSE rest]
    BY <1>1, <1>2, UpToIs DEF DropParent, memory, At
  <1>7. /\ count' \in [AnyNode -> Nat] /\ count'[p] = count[p] - 1
        /\ \A m \in AnyNode : m # p => count'[m] = count[m]
    <2>1. count' = [count EXCEPT ![p] = @ - 1] /\ count \in [AnyNode -> Nat]
      BY <1>6 DEF PathInv, TypeOK
    <2> QED BY <1>5, <2>1
  <1>8. \A m \in Dying : count'[m] = count[m] /\ tokens[m] = tokens[m] /\ m \in AnyNode
    BY <1>4, <1>7, DyingNodes DEF AnyNode
  <1>9. tokens[n] = NoKey /\ table[key[n]] # n
    BY <1>3 DEF PathInv, TokensInv, TableInv
  <1>10. CASE count[p] # 1
    <2>1. dying' = [dying EXCEPT ![t] = rest]
      BY <1>6, <1>10
    <2>2. WentOn(t, i, n, "free")
      BY <1>1, <2>1, GoOnIs
    <2>3. /\ dying' \in [Thread -> Seq(Entry)]
          /\ \A u \in Thread : Len(dying'[u]) = Len(dying[u])
          /\ \A u \in Thread : \A j \in 1..Len(dying[u]) :
                /\ dying'[u][j].node = dying[u][j].node
                /\ dying'[u][j].step = IF dying[u][j].node = n THEN "free" ELSE dying[u][j].step
          /\ Dying' = Dying
      BY <2>2 DEF WentOn
    <2>4. Alive' = Alive
      BY <1>6, <2>3 DEF Alive
    <2>5. \A m : HasParent(m)' <=> (HasParent(m) /\ m # n)
      <3> SUFFICES ASSUME NEW m PROVE HasParent(m)' <=> (HasParent(m) /\ m # n)
        OBVIOUS
      <3>1. HasParent(m)' <=> m \in nodes \ {Root} /\ \A u \in Thread : \A j \in 1..Len(dying[u]) :
               dying[u][j].node = m => dying'[u][j].step # "free"
        BY <1>6, <2>3 DEF HasParent
      <3>2. CASE m = n
        BY <3>1, <3>2, <1>3, <2>3
      <3>3. CASE m # n
        <4>1. \A u \in Thread : \A j \in 1..Len(dying[u]) :
                 dying[u][j].node = m => dying'[u][j].step = dying[u][j].step
          BY <3>3, <2>3
        <4>2. HasParent(m) <=> m \in nodes \ {Root} /\ \A u \in Thread : \A j \in 1..Len(dying[u]) :
                 dying[u][j].node = m => dying[u][j].step # "free"
          BY DEF HasParent
        <4> QED BY <3>1, <3>3, <4>1, <4>2
      <3> QED BY <3>2, <3>3
    <2>6. \A m : Children(m)' = IF m = p THEN Children(p) \ {n} ELSE Children(m)
      BY <1>2, <1>4, <1>6, <2>5 DEF Children
    <2>7. TypeOK'
      BY <1>6, <1>7, <2>3 DEF PathInv, TypeOK, Entry
    <2>8. DyingInv'
      <3>1. \A u \in Thread : \A j \in 1..Len(dying[u]) :
               j < Len(dying[u]) => dying'[u][j].step = "free"
        BY <2>3 DEF PathInv, DyingInv
      <3> QED BY <1>6, <2>3, <2>4, <2>5, <3>1 DEF PathInv, DyingInv
    <2>9. NodesInv'
      BY <1>6, <2>4 DEF PathInv, NodesInv
    <2>10. TableInv'
      <3>1. \A u \in Thread : \A j \in 1..Len(dying'[u]) :
               dying'[u][j].step # "unlink" => table'[key'[dying'[u][j].node]] # dying'[u][j].node
        <4> SUFFICES ASSUME NEW u \in Thread, NEW j \in 1..Len(dying'[u]),
                            dying'[u][j].step # "unlink"
                     PROVE  table'[key'[dying'[u][j].node]] # dying'[u][j].node
          OBVIOUS
        <4>1. j \in 1..Len(dying[u]) /\ dying'[u][j].node = dying[u][j].node
              /\ key' = key /\ table' = table
          BY <1>6, <2>3
        <4>2. dying[u][j].step # "unlink"
          BY <4>1, <1>3, <2>3
        <4> QED BY <4>1, <4>2 DEF PathInv, TableInv
      <3> QED BY <1>6, <2>4, <3>1 DEF PathInv, TableInv
    <2>11. CreatingInv'
      BY <1>6, <1>8, <2>3, <2>4 DEF PathInv, CreatingInv
    <2>12. CountsExact'
      <3> SUFFICES ASSUME NEW m \in Alive
                   PROVE  count'[m] > 0 /\ count'[m] = handles'[m] + Cardinality(Children(m)')
        BY <2>4 DEF CountsExact
      <3>1. count[m] > 0 /\ count[m] = handles[m] + Cardinality(Children(m)) /\ m \in AnyNode
        BY DyingNodes DEF PathInv, CountsExact
      <3>2. CASE m = p
        <4>1. Children(m)' = Children(p) \ {n}
          BY <3>2, <2>6
        <4>2. count'[p] = count[p] - 1 /\ handles'[p] = handles[p]
          BY <1>6, <1>7
        <4>3. Cardinality(Children(m)') = Cardinality(Children(p)) - 1
          BY <4>1, <1>5
        <4> HIDE DEF rest, both
        <4> QED BY <3>2, <4>2, <4>3, <1>5, <1>10
      <3>3. CASE m # p
        BY <3>1, <3>3, <1>6, <1>7, <2>6
      <3> QED BY <3>2, <3>3
    <2>13. TokensInv'
      <3>1. \A u \in Thread : \A j \in 1..Len(dying[u]) :
               dying'[u][j].step \in {"parent", "free"} => tokens[dying[u][j].node] = NoKey
        BY <1>9, <2>3 DEF PathInv, TokensInv
      <3> QED BY <1>6, <2>3, <2>4, <3>1 DEF PathInv, TokensInv
    <2>14. Stays
      BY <1>6, <2>4 DEF Stays
    <2> QED BY <2>7, <2>8, <2>9, <2>10, <2>11, <2>12, <2>13, <2>14 DEF PathInv
  <1>11. CASE count[p] = 1
    <2>1. dying' = [dying EXCEPT ![t] = both]
      BY <1>6, <1>11
    <2>2. handles[p] = 0 /\ Cardinality(Children(p) \ {n}) = 0 /\ count'[p] = 0 /\ p # Root
      <3>1. Cardinality(Children(p)) >= 1
        BY <1>5
      <3> QED BY <3>1, <1>5, <1>7, <1>11 DEF PathInv, NodesInv
    <2>3. Children(p) \ {n} = {} /\ p \in Node
      BY <2>2, ChildrenFinite, FS_RemoveElement, FS_EmptySet DEF AnyNode
    <2>4. /\ rest \in Seq(Entry) /\ Len(rest) = i
          /\ \A j \in 1..i : /\ rest[j].node = dying[t][j].node
                             /\ rest[j].step = IF j = i THEN "free" ELSE dying[t][j].step
      <3> DEFINE e == [dying[t][i] EXCEPT !.step = "free"]
      <3>1. dying[t][i] \in Entry
        BY <1>1, <1>3, ElementOfSeq
      <3>2. e \in Entry /\ e.node = dying[t][i].node /\ e.step = "free"
        BY <3>1 DEF Entry
      <3>3. rest = [dying[t] EXCEPT ![i] = e]
        OBVIOUS
      <3> HIDE DEF e, rest
      <3>4. /\ rest \in Seq(Entry) /\ Len(rest) = i
            /\ \A j \in 1..i : rest[j] = IF j = i THEN e ELSE dying[t][j]
        BY <1>1, <1>3, <3>2, <3>3, ExceptSeq
      <3> QED BY <3>2, <3>4
    <2> HIDE DEF rest
    <2>5. /\ both \in Seq(Entry) /\ Len(both) = i + 1
          /\ \A j \in 1..i : both[j] = rest[j]
          /\ both[i + 1].node = p /\ both[i + 1].step = "unlink"
      <3>1. [node |-> p, step |-> "unlink"] \in Entry
        BY DEF Entry
      <3> QED BY <2>4, <3>1, AppendProperties
    <2> HIDE DEF both
    <2>6. /\ dying' \in [Thread -> Seq(Entry)] /\ dying'[t] = both
          /\ \A u \in Thread : u # t => dying'[u] = dying[u]
      BY <2>1, <2>5 DEF PathInv, TypeOK, Entry
    <2>7. /\ \A u \in Thread : \A j \in 1..Len(dying'[u]) :
                \/ /\ u = t /\ j = i + 1 /\ dying'[u][j].node = p /\ dying'[u][j].step = "unlink"
                   /\ j = Len(dying'[u])
                \/ /\ j \in 1..Len(dying[u]) /\ dying'[u][j].node = dying[u][j].node
                   /\ dying'[u][j].step = IF dying[u][j].node = n THEN "free" ELSE dying[u][j].step
          /\ \A u \in Thread : \A j \in 1..Len(dying[u]) :
                j \in 1..Len(dying'[u]) /\ dying'[u][j].node = dying[u][j].node
          /\ i + 1 \in 1..Len(dying'[t]) /\ dying'[t][i + 1].node = p
      <3>1. ASSUME NEW u \in Thread, NEW j \in 1..Len(dying'[u])
            PROVE  \/ /\ u = t /\ j = i + 1 /\ dying'[u][j].node = p /\ dying'[u][j].step = "unlink"
                      /\ j = Len(dying'[u])
                   \/ /\ j \in 1..Len(dying[u]) /\ dying'[u][j].node = dying[u][j].node
                      /\ dying'[u][j].step = IF dying[u][j].node = n THEN "free"
                                             ELSE dying[u][j].step
        <4>1. CASE u # t
          BY <4>1, <2>6, <1>3
        <4>2. CASE u = t /\ j = i + 1
          BY <4>2, <2>5, <2>6
        <4>3. CASE u = t /\ j # i + 1
          <5>1. j \in 1..i
            BY <4>3, <2>5, <2>6
          <5> QED BY <4>3, <5>1, <2>4, <2>5, <2>6, <1>3
        <4> QED BY <4>1, <4>2, <4>3
      <3>2. ASSUME NEW u \in Thread, NEW j \in 1..Len(dying[u])
            PROVE  j \in 1..Len(dying'[u]) /\ dying'[u][j].node = dying[u][j].node
        <4>1. CASE u # t
          BY <4>1, <2>6
        <4>2. CASE u = t
          BY <4>2, <2>4, <2>5, <2>6, <1>3
        <4> QED BY <4>1, <4>2
      <3>3. i + 1 \in 1..Len(dying'[t]) /\ dying'[t][i + 1].node = p
        BY <2>5, <2>6
      <3> QED BY <3>1, <3>2, <3>3
    <2>8. Dying' = Dying \cup {p} /\ Alive' = Alive \ {p}
      <3>1. \A m : m \in Dying' <=> m \in Dying \/ m = p
        <4> SUFFICES ASSUME NEW m PROVE m \in Dying' <=> m \in Dying \/ m = p
          OBVIOUS
        <4>1. m \in Dying' => m \in Dying \/ m = p
          BY <2>7, DyingIs, DyingIsNext, SMTT(30)
        <4>2. m \in Dying \/ m = p => m \in Dying'
          BY <2>7, DyingIs, DyingIsNext
        <4> QED BY <4>1, <4>2
      <3> QED BY <3>1, <1>6 DEF Alive
    <2>9. \A m : HasParent(m)' <=> (HasParent(m) /\ m # n)
      <3> SUFFICES ASSUME NEW m PROVE HasParent(m)' <=> (HasParent(m) /\ m # n)
        OBVIOUS
      <3>1. ASSUME HasParent(m), m # n PROVE HasParent(m)'
        BY <3>1, <1>6, <2>7 DEF HasParent
      <3>2. ASSUME HasParent(m)' PROVE HasParent(m) /\ m # n
        <4>1. m \in nodes \ {Root} /\ \A u \in Thread : \A j \in 1..Len(dying'[u]) :
                 dying'[u][j].node = m => dying'[u][j].step # "free"
          BY <3>2, <1>6 DEF HasParent
        <4>2. m # n
          <5>1. i \in 1..Len(dying'[t]) /\ dying'[t][i].node = n /\ dying'[t][i].step = "free"
            BY <1>3, <2>4, <2>5, <2>6, SMTT(30)
          <5> QED BY <5>1, <4>1
        <4>3. ASSUME NEW u \in Thread, NEW j \in 1..Len(dying[u]), dying[u][j].node = m
              PROVE  dying[u][j].step # "free"
          <5>1. j \in 1..Len(dying'[u]) /\ dying'[u][j].node = m
            BY <4>3, <2>7
          <5>2. dying'[u][j].step # "free" /\ m # p
            BY <4>1, <5>1, <4>3, <1>4, DyingNodes
          <5> QED BY <5>1, <5>2, <2>7, <4>3, <4>2
        <4> QED BY <4>1, <4>2, <4>3 DEF HasParent
      <3> QED BY <3>1, <3>2
    <2>10. \A m : Children(m)' = IF m = p THEN {} ELSE Children(m)
      <3>1. \A m : Children(m)' = IF m = p THEN Children(p) \ {n} ELSE Children(m)
        BY <1>2, <1>4, <1>6, <2>9 DEF Children
      <3> QED BY <3>1, <2>3
    <2>11. TypeOK'
      BY <1>6, <1>7, <2>6 DEF PathInv, TypeOK, Entry
    <2>12. DyingInv'
      <3>1. \A u, v \in Thread : \A j \in 1..Len(dying'[u]), l \in 1..Len(dying'[v]) :
               dying'[u][j].node = dying'[v][l].node => u = v /\ j = l
        <4>1. \A u \in Thread : \A j \in 1..Len(dying[u]) : dying[u][j].node # p
          BY <1>4, DyingNodes
        <4> SUFFICES ASSUME NEW u \in Thread, NEW v \in Thread,
                            NEW j \in 1..Len(dying'[u]), NEW l \in 1..Len(dying'[v]),
                            dying'[u][j].node = dying'[v][l].node
                     PROVE  u = v /\ j = l
          OBVIOUS
        <4>2. \/ u = t /\ j = i + 1 /\ dying'[u][j].node = p
              \/ j \in 1..Len(dying[u]) /\ dying'[u][j].node = dying[u][j].node
          BY <2>7
        <4>3. \/ v = t /\ l = i + 1 /\ dying'[v][l].node = p
              \/ l \in 1..Len(dying[v]) /\ dying'[v][l].node = dying[v][l].node
          BY <2>7
        <4> QED BY <4>1, <4>2, <4>3 DEF PathInv, DyingInv
      <3>2. \A u \in Thread : \A j \in 1..Len(dying'[u]) :
               /\ dying'[u][j].node \in nodes' \ {Root}
               /\ handles'[dying'[u][j].node] = 0
        BY <1>4, <1>6, <2>2, <2>7 DEF PathInv, DyingInv
      <3>3. ASSUME NEW u \in Thread, NEW j \in 1..Len(dying'[u]), j < Len(dying'[u])
            PROVE  dying'[u][j].step = "free"
        <4>1. j \in 1..Len(dying[u])
              /\ dying'[u][j].step = IF dying[u][j].node = n THEN "free" ELSE dying[u][j].step
          BY <3>3, <2>7
        <4>2. dying[u][j].node = n \/ j < Len(dying[u])
          <5>1. CASE u = t
            <6>1. j \in 1..i
              BY <5>1, <3>3, <2>5, <2>6
            <6> QED BY <6>1, <5>1, <1>3
          <5>2. CASE u # t
            BY <5>2, <3>3, <2>6
          <5> QED BY <5>1, <5>2
        <4> QED BY <4>1, <4>2 DEF PathInv, DyingInv
      <3>4. \A c \in Node : HasParent(c)' => key'[c][1] \in Alive'
        BY <1>2, <1>6, <2>3, <2>8, <2>9 DEF PathInv, DyingInv, Children
      <3> QED BY <3>1, <3>2, <3>3, <3>4 DEF DyingInv
    <2>13. NodesInv'
      BY <1>6, <2>2, <2>8 DEF PathInv, NodesInv
    <2>14. TableInv'
      <3>1. \A u \in Thread : \A j \in 1..Len(dying'[u]) :
               dying'[u][j].step # "unlink" => table'[key'[dying'[u][j].node]] # dying'[u][j].node
        <4> SUFFICES ASSUME NEW u \in Thread, NEW j \in 1..Len(dying'[u]),
                            dying'[u][j].step # "unlink"
                     PROVE  table'[key'[dying'[u][j].node]] # dying'[u][j].node
          OBVIOUS
        <4>1. /\ j \in 1..Len(dying[u]) /\ dying'[u][j].node = dying[u][j].node
              /\ dying'[u][j].step = IF dying[u][j].node = n THEN "free" ELSE dying[u][j].step
              /\ key' = key /\ table' = table
          BY <1>6, <2>7
        <4>2. dying[u][j].step # "unlink"
          BY <4>1, <1>3
        <4> QED BY <4>1, <4>2 DEF PathInv, TableInv
      <3> QED BY <1>6, <2>8, <3>1 DEF PathInv, TableInv
    <2>15. CreatingInv'
      <3>1. \A m \in Dying' : table'[key'[m]] = m /\ key'[m] \notin locked' => count'[m] = 0
        BY <1>6, <1>8, <2>2, <2>8 DEF PathInv, CreatingInv
      <3> QED BY <1>6, <2>8, <3>1 DEF PathInv, CreatingInv
    <2>16. CountsExact'
      <3> SUFFICES ASSUME NEW m \in Alive \ {p}
                   PROVE  count'[m] > 0 /\ count'[m] = handles'[m] + Cardinality(Children(m)')
        BY <2>8 DEF CountsExact
      <3>1. count[m] > 0 /\ count[m] = handles[m] + Cardinality(Children(m)) /\ m \in AnyNode
        BY DyingNodes DEF PathInv, CountsExact
      <3> QED BY <3>1, <1>6, <1>7, <2>10
    <2>17. TokensInv'
      <3>1. \A u \in Thread : \A j \in 1..Len(dying'[u]) :
               dying'[u][j].step \in {"parent", "free"} => tokens[dying'[u][j].node] = NoKey
        <4> SUFFICES ASSUME NEW u \in Thread, NEW j \in 1..Len(dying'[u]),
                            dying'[u][j].step \in {"parent", "free"}
                     PROVE  tokens[dying'[u][j].node] = NoKey
          OBVIOUS
        <4>1. /\ j \in 1..Len(dying[u]) /\ dying'[u][j].node = dying[u][j].node
              /\ dying'[u][j].step = IF dying[u][j].node = n THEN "free" ELSE dying[u][j].step
          BY <2>7
        <4> QED BY <4>1, <1>9 DEF PathInv, TokensInv
      <3> QED BY <1>6, <2>8, <3>1 DEF PathInv, TokensInv
    <2>18. Stays
      BY <1>6, <2>8 DEF Stays
    <2> QED BY <2>11, <2>12, <2>13, <2>14, <2>15, <2>16, <2>17, <2>18 DEF PathInv
  <1> QED BY <1>10, <1>11

LEMMA FreeMemoryInv ==
    ASSUME PathInv, NEW t \in Thread, FreeMemory(t)
    PROVE  PathInv' /\ Stays
  <1>1. PICK i \in Nat, n \in Node : /\ TopIs(t, i, n, "free") /\ Top(t).node = n
                                     /\ Len(dying[t]) = i /\ dying[t] \in Seq(Entry)
    BY TopOf DEF FreeMemory
  <1>2. /\ dying[t][i].step = "free" /\ i \in 1..Len(dying[t]) /\ i = Len(dying[t])
        /\ n \in Dying /\ n \in nodes /\ n # Root /\ n \notin Alive /\ dying[t][i].node = n
        /\ key[n] \in Key
        /\ \A u \in Thread : \A j \in 1..Len(dying[u]) :
              dying[u][j].node = n <=> (u = t /\ j = i)
    BY <1>1, DyingNodes, SMTT(30) DEF TopIs, PathInv, DyingInv
  <1>3. /\ nodes' = nodes \ {n} /\ key' = key /\ TextOf' = TextOf
        /\ hasToken' = hasToken /\ tokens' = tokens /\ table' = table
        /\ locked' = locked /\ creating' = creating /\ handles' = handles /\ count' = count
        /\ dying' = [dying EXCEPT ![t] = SubSeq(@, 1, Len(@) - 1)]
    BY <1>1, UpToIs DEF FreeMemory
  <1> DEFINE s == SubSeq(dying[t], 1, i - 1)
  <1>4. /\ s \in Seq(Entry) /\ Len(s) = i - 1
        /\ \A j \in 1..(i - 1) : s[j] = dying[t][j]
    <2>1. \A j \in 1..(i - 1) : dying[t][j] \in Entry
      BY <1>1, <1>2, ElementOfSeq
    <2> QED BY <1>2, <2>1, SubSeqProperties
  <1>5. /\ dying' \in [Thread -> Seq(Entry)] /\ dying'[t] = s
        /\ \A u \in Thread : u # t => dying'[u] = dying[u]
    <2>1. dying \in [Thread -> Seq(Entry)] /\ SubSeq(dying[t], 1, Len(dying[t]) - 1) = s
      BY <1>1 DEF PathInv, TypeOK, Entry
    <2> HIDE DEF s
    <2> QED BY <1>3, <1>4, <2>1
  <1> HIDE DEF s
  <1>6. /\ \A u \in Thread : \A j \in 1..Len(dying'[u]) :
              /\ j \in 1..Len(dying[u]) /\ dying'[u][j] = dying[u][j]
              /\ dying[u][j].node # n
              /\ j < Len(dying'[u]) => j < Len(dying[u])
        /\ \A u \in Thread : \A j \in 1..Len(dying[u]) :
              dying[u][j].node # n => j \in 1..Len(dying'[u]) /\ dying'[u][j] = dying[u][j]
    <2>1. ASSUME NEW u \in Thread, NEW j \in 1..Len(dying'[u])
          PROVE  /\ j \in 1..Len(dying[u]) /\ dying'[u][j] = dying[u][j]
                 /\ dying[u][j].node # n
                 /\ j < Len(dying'[u]) => j < Len(dying[u])
      <3>1. CASE u = t
        BY <3>1, <1>2, <1>4, <1>5
      <3>2. CASE u # t
        BY <3>2, <1>2, <1>5
      <3> QED BY <3>1, <3>2
    <2>2. ASSUME NEW u \in Thread, NEW j \in 1..Len(dying[u]), dying[u][j].node # n
          PROVE  j \in 1..Len(dying'[u]) /\ dying'[u][j] = dying[u][j]
      <3>1. CASE u = t
        <4>1. j # i
          BY <3>1, <2>2, <1>2
        <4>2. j \in 1..(i - 1)
          BY <3>1, <4>1, <1>2
        <4> QED BY <3>1, <4>2, <1>4, <1>5
      <3>2. CASE u # t
        BY <3>2, <1>5
      <3> QED BY <3>1, <3>2
    <2> QED BY <2>1, <2>2
  <1>7. Dying' = Dying \ {n} /\ Alive' = Alive
    <2>1. \A m : m \in Dying' <=> m \in Dying /\ m # n
      <3> SUFFICES ASSUME NEW m PROVE m \in Dying' <=> m \in Dying /\ m # n
        OBVIOUS
      <3>1. m \in Dying' => m \in Dying /\ m # n
        BY <1>6, DyingIs, DyingIsNext
      <3>2. m \in Dying /\ m # n => m \in Dying'
        BY <1>6, DyingIs, DyingIsNext
      <3> QED BY <3>1, <3>2
    <2> QED BY <2>1, <1>2, <1>3, DyingNodes DEF Alive
  <1>8. \A m : HasParent(m)' <=> HasParent(m)
    <2> SUFFICES ASSUME NEW m PROVE HasParent(m)' <=> HasParent(m)
      OBVIOUS
    <2>1. CASE m = n
      BY <2>1, <1>2, <1>3 DEF HasParent
    <2>2. CASE m # n
      <3>1. HasParent(m) => HasParent(m)'
        BY <2>2, <1>3, <1>6 DEF HasParent
      <3>2. HasParent(m)' => HasParent(m)
        BY <2>2, <1>3, <1>6 DEF HasParent
      <3> QED BY <3>1, <3>2
    <2> QED BY <2>1, <2>2
  <1>9. \A m : Children(m)' = Children(m)
    BY <1>3, <1>8 DEF Children
  <1>10. TypeOK'
    BY <1>3, <1>5 DEF PathInv, TypeOK, Entry
  <1>11. DyingInv'
    <2>1. \A u, v \in Thread : \A j \in 1..Len(dying'[u]), l \in 1..Len(dying'[v]) :
             dying'[u][j].node = dying'[v][l].node => u = v /\ j = l
      <3> SUFFICES ASSUME NEW u \in Thread, NEW v \in Thread,
                          NEW j \in 1..Len(dying'[u]), NEW l \in 1..Len(dying'[v]),
                          dying'[u][j].node = dying'[v][l].node
                   PROVE  u = v /\ j = l
        OBVIOUS
      <3>1. j \in 1..Len(dying[u]) /\ l \in 1..Len(dying[v])
            /\ dying[u][j].node = dying[v][l].node
        BY <1>6
      <3> QED BY <3>1 DEF PathInv, DyingInv
    <2>2. \A u \in Thread : \A j \in 1..Len(dying'[u]) :
             /\ dying'[u][j].node \in nodes' \ {Root}
             /\ handles'[dying'[u][j].node] = 0
             /\ j < Len(dying'[u]) => dying'[u][j].step = "free"
      BY <1>3, <1>6 DEF PathInv, DyingInv
    <2>3. \A c \in Node : HasParent(c)' => key'[c][1] \in Alive'
      BY <1>3, <1>7, <1>8 DEF PathInv, DyingInv
    <2> QED BY <2>1, <2>2, <2>3 DEF DyingInv
  <1>12. NodesInv'
    BY <1>3, <1>7 DEF PathInv, NodesInv
  <1>13. TableInv'
    <2>1. table[key[n]] # n
      BY <1>2 DEF PathInv, TableInv
    <2>2. \A k \in Key : table[k] # NoNode => table[k] # n /\ table[k] \in nodes /\ key[table[k]] = k
      BY <2>1 DEF PathInv, TableInv
    <2>3. \A u \in Thread : \A j \in 1..Len(dying'[u]) :
             dying'[u][j].step # "unlink" => table'[key'[dying'[u][j].node]] # dying'[u][j].node
      <3> SUFFICES ASSUME NEW u \in Thread, NEW j \in 1..Len(dying'[u]),
                          dying'[u][j].step # "unlink"
                   PROVE  table[key[dying'[u][j].node]] # dying'[u][j].node
        BY <1>3
      <3>1. j \in 1..Len(dying[u]) /\ dying'[u][j] = dying[u][j]
        BY <1>6
      <3> QED BY <3>1 DEF PathInv, TableInv
    <2> QED BY <1>3, <1>7, <2>2, <2>3 DEF PathInv, TableInv
  <1>14. CreatingInv'
    BY <1>3, <1>7 DEF PathInv, CreatingInv
  <1>15. CountsExact'
    BY <1>3, <1>7, <1>9 DEF PathInv, CountsExact
  <1>16. TokensInv'
    <2>1. tokens[n] = NoKey
      BY <1>2 DEF PathInv, TokensInv
    <2>2. \A u \in Thread : \A j \in 1..Len(dying'[u]) :
             dying'[u][j].step \in {"parent", "free"} => tokens'[dying'[u][j].node] = NoKey
      BY <1>3, <1>6 DEF PathInv, TokensInv
    <2> QED BY <1>3, <1>7, <2>1, <2>2 DEF PathInv, TokensInv
  <1> QED BY <1>10, <1>11, <1>12, <1>13, <1>14, <1>15, <1>16, <1>3, <1>7 DEF PathInv, Stays

-----------------------------------------------------------------------------
(* The theorems                                                            *)

LEMMA LiveParents ==
    ASSUME PathInv, NEW n \in Alive, n # Root
    PROVE  HasParent(n) /\ n \in Node /\ key[n] \in Key /\ key[n][1] \in Alive
  <1>1. HasParent(n) /\ n \in Node /\ n \in nodes
    BY DyingNodes DEF HasParent, Alive, AnyNode
  <1> QED BY <1>1 DEF PathInv, NodesInv, DyingInv

LEMMA FindLiveInv ==
    ASSUME PathInv, NEW t \in Thread, NEW p \in AnyNode, NEW a \in Name, FindLive(t, p, a)
    PROVE  PathInv' /\ \E n \in Alive : Got(n)
  <1> DEFINE n == table[<<p, a>>]
  <1>1. <<p, a>> \in Key /\ n # NoNode /\ count[n] > 0 /\ <<p, a>> \notin locked
    BY DEF FindLive, Key
  <1>2. n \in nodes /\ key[n] = <<p, a>>
    BY <1>1 DEF PathInv, TableInv
  <1>3. n \notin Dying
    BY <1>1, <1>2 DEF PathInv, CreatingInv
  <1>4. n \in Alive
    BY <1>2, <1>3 DEF Alive
  <1>5. /\ count' = [count EXCEPT ![n] = @ + 1] /\ AddHandle(n)
        /\ UNCHANGED <<memory, hasToken, tokens, table, locked, creating, dying>>
    BY DEF FindLive
  <1>6. PICK m \in Alive : m = n
    BY <1>4
  <1>7. PathInv' /\ Got(m)
    BY <1>5, <1>6, MoreHandles
  <1> QED BY <1>6, <1>7

LEMMA CopyInv ==
    ASSUME PathInv, NEW n \in AnyNode, Copy(n)
    PROVE  PathInv' /\ Got(n)
  <1>1. n \in Alive
    BY DEF Copy, PathInv, NodesInv
  <1> QED BY <1>1, MoreHandles DEF Copy

LEMMA GetParentPathInv ==
    ASSUME PathInv, NEW n \in AnyNode, GetParentPath(n)
    PROVE  PathInv' /\ \E p \in Alive : Got(p)
  <1>1. n \in Alive /\ n # Root
    BY DEF GetParentPath, PathInv, NodesInv
  <1>2. key[n][1] \in Alive
    BY <1>1, LiveParents
  <1>3. PICK p \in Alive : p = key[n][1]
    BY <1>2
  <1>4. /\ count' = [count EXCEPT ![p] = @ + 1] /\ AddHandle(p)
        /\ UNCHANGED <<memory, hasToken, tokens, table, locked, creating, dying>>
    BY <1>3 DEF GetParentPath, AddHandle
  <1> QED BY <1>4, MoreHandles

LEMMA InitPathInv == Init => PathInv
  <1> SUFFICES ASSUME Init PROVE PathInv
    OBVIOUS
  <1>1. /\ Dying = {} /\ Alive = {Root} /\ (\A m : ~ HasParent(m))
        /\ (\A m : Children(m) = {}) /\ (\A m \in Node : m # Root)
    BY NodeConstants DEF Init, Dying, Alive, HasParent, Children
  <1>2. /\ \A k \in Key : table[k] = NoNode
        /\ \A t \in Thread : creating[t] = NoKey /\ dying[t] = <<>>
        /\ \A n \in Node : tokens[n] = NoKey /\ handles[n] = 0
        /\ Root \in AnyNode /\ count[Root] = 1 /\ handles[Root] = 1 /\ nodes = {Root}
        /\ hasToken = {} /\ locked = {}
    BY <1>1 DEF Init, AnyNode
  <1>3. TypeOK
    <2>1. NoKey \in Seq(Name) /\ <<>> \in Seq(Entry)
      BY DEF NoKey
    <2> QED BY <2>1 DEF Init, TypeOK, AnyNode, Entry
  <1>4. DyingInv /\ NodesInv /\ TableInv
    BY <1>1, <1>2 DEF DyingInv, NodesInv, TableInv, AnyNode
  <1>5. CreatingInv /\ TokensInv
    BY <1>1, <1>2 DEF CreatingInv, TokensInv
  <1>6. CountsExact
    BY <1>1, <1>2, FS_EmptySet DEF CountsExact
  <1> QED BY <1>3, <1>4, <1>5, <1>6 DEF PathInv

\* A step of the nodes, as the tree and the handles see it.
TreeStep == Stays \/ \E n \in AnyNode : Lost(n) \/ Got(n) \/ Made(n)

LEMMA NextPathInv == PathInv /\ [Next]_vars => PathInv' /\ TreeStep
  <1> SUFFICES ASSUME PathInv, [Next]_vars PROVE PathInv' /\ TreeStep
    OBVIOUS
  <1>0. Alive \subseteq AnyNode /\ Node \subseteq AnyNode
    BY DyingNodes DEF AnyNode
  <1>1. ASSUME NEW t \in Thread, NEW p \in AnyNode, NEW a \in Name,
               FindLive(t, p, a) \/ FindNone(t, p, a)
        PROVE  PathInv' /\ TreeStep
    BY <1>0, <1>1, FindLiveInv, FindNoneInv DEF TreeStep
  <1>2. ASSUME NEW t \in Thread, NEW n \in AnyNode, Drop(t, n)
        PROVE  PathInv' /\ TreeStep
    BY <1>2, DropInv DEF TreeStep
  <1>3. ASSUME NEW t \in Thread, Working(t)
        PROVE  PathInv' /\ TreeStep
    BY <1>0, <1>3, CreateInv, UnlinkInv, RemoveTokenInv, DropParentInv, FreeMemoryInv
       DEF Working, TreeStep
  <1>4. ASSUME NEW n \in AnyNode, Copy(n) \/ GetParentPath(n) \/ GetPathToken(n)
        PROVE  PathInv' /\ TreeStep
    BY <1>0, <1>4, CopyInv, GetParentPathInv, GetPathTokenInv DEF TreeStep
  <1>5. ASSUME UNCHANGED vars
        PROVE  PathInv' /\ TreeStep
    <2>1. /\ UNCHANGED <<memory, dying>> /\ hasToken' = hasToken /\ tokens' = tokens
          /\ table' = table /\ locked' = locked /\ creating' = creating
          /\ handles' = handles /\ count' = count
      BY <1>5 DEF vars
    <2>2. /\ nodes' = nodes /\ key' = key /\ dying' = dying
          /\ Alive' = Alive /\ Dying' = Dying /\ TextOf' = TextOf
          /\ \A n : HasParent(n)' <=> HasParent(n)
          /\ \A n : Children(n)' = Children(n)
      BY <2>1, SameNodes
    <2>3. TypeOK' /\ NodesInv' /\ CreatingInv'
      BY <2>1, <2>2 DEF PathInv, TypeOK, NodesInv, CreatingInv
    <2>5. DyingInv'
      BY <2>1, <2>2 DEF PathInv, DyingInv
    <2>6. TableInv'
      BY <2>1, <2>2 DEF PathInv, TableInv
    <2>7. TokensInv'
      BY <2>1, <2>2 DEF PathInv, TokensInv
    <2>4. CountsExact'
      BY <2>1, <2>2 DEF PathInv, CountsExact
    <2> QED BY <2>3, <2>4, <2>1, <2>2, <2>5, <2>6, <2>7 DEF PathInv, TreeStep, Stays
  <1> QED BY <1>1, <1>2, <1>3, <1>4, <1>5 DEF Next

\* The invariant of the nodes, in every state of every run.
THEOREM PathSafety == Spec => []PathInv
  <1> QED BY InitPathInv, NextPathInv, PTL DEF Spec

LEMMA PathInvNodes == PathInv => NodesCounted
  BY DEF PathInv, NodesCounted, NoUseAfterFree, DyingInv, NodesInv, TableInv

\* No node dies early, late or twice, and no memory is used after it was freed,
\* whatever the threads look for, copy and drop.
THEOREM PathNodesCounted == Spec => []NodesCounted
  <1> QED BY PathSafety, PathInvNodes, PTL

LEMMA PathInvTokens == PathInv => TokensFresh
  BY DEF PathInv, TokensInv, TokensFresh

\* The cached text of a live node is its own.
THEOREM PathTokensFresh == Spec => []TokensFresh
  <1> QED BY PathSafety, PathInvTokens, PTL

-----------------------------------------------------------------------------
(* The interning of paths                                                  *)

\* The live nodes are a tree in which each is the only node of its key.
LEMMA LiveTree ==
    ASSUME PathInv, NEW d \in [AnyNode -> Nat], IsDepth(d)
    PROVE  Alive \in SUBSET AnyNode /\ key \in Keys /\ IsTree(key, Alive, d)
  <1>1. Alive \in SUBSET AnyNode /\ key \in Keys
    BY DyingNodes DEF PathInv, TypeOK, Keys
  <1>2. \A n \in Alive \ {Root} :
           key[n] \in Key /\ key[n][1] \in Alive /\ d[n] = d[key[n][1]] + 1
    BY LiveParents DEF IsDepth
  <1>3. \A m, n \in Alive \ {Root} : key[m] = key[n] => m = n
    BY DEF PathInv, TableInv
  <1> QED BY <1>1, <1>2, <1>3 DEF IsTree, IsDepth

\* Live nodes that differ have texts that differ.
LEMMA TextsUnique ==
    PathInv /\ DepthInv => \A m, n \in Alive : TextOf[m] = TextOf[n] => m = n
  <1> SUFFICES ASSUME PathInv, DepthInv, NEW m \in Alive, NEW n \in Alive,
                      TextOf[m] = TextOf[n]
               PROVE  m = n
    OBVIOUS
  <1>1. PICK d \in [AnyNode -> Nat] : IsDepth(d)
    BY DEF DepthInv
  <1>2. Alive \in SUBSET AnyNode /\ key \in Keys /\ IsTree(key, Alive, d)
    BY <1>1, LiveTree
  <1>3. d[m] <= Cardinality(Node) /\ d[n] <= Cardinality(Node) /\ Cardinality(Node) \in Depths
    BY <1>2, DepthsAreSmall, Finite DEF Depths
  <1>4. TextsOf(key)[Cardinality(Node)][m] = TextsOf(key)[Cardinality(Node)][n]
    BY UpToIs
  <1> QED BY <1>2, <1>3, <1>4, TextsDiffer

LEMMA InitDepth == Init => DepthInv
  <1> SUFFICES ASSUME Init PROVE DepthInv
    OBVIOUS
  <1> DEFINE d == [n \in AnyNode |-> 0]
  <1>1. d \in [AnyNode -> Nat] /\ IsDepth(d)
    BY DEF IsDepth, Init, Alive, AnyNode
  <1> QED BY <1>1 DEF DepthInv

\* A node is made one deeper than its parent, and a node that is dropped leaves
\* the depths of the others alone.
LEMMA NextDepth ==
    ASSUME PathInv, DepthInv, TreeStep
    PROVE  DepthInv' /\ \A n \in Alive : TextOf'[n] = TextOf[n]
  <1>1. PICK d \in [AnyNode -> Nat] : IsDepth(d)
    BY DEF DepthInv
  <1>2. Alive \in SUBSET AnyNode /\ Cardinality(Node) \in Depths
    BY DyingNodes, Finite DEF Depths
  <1>3. CASE key' = key /\ Alive' \subseteq Alive
    <2>1. IsDepth(d)'
      BY <1>1, <1>3 DEF IsDepth
    <2> QED BY <2>1, <1>3, UpToIs DEF DepthInv
  <1>4. ASSUME NEW n \in AnyNode, Made(n)
        PROVE  DepthInv' /\ \A m \in Alive : TextOf'[m] = TextOf[m]
    <2>1. PICK k \in Key : k[1] \in Alive /\ key' = [key EXCEPT ![n] = k]
      BY <1>4 DEF Made
    <2>2. n \in Node /\ n \notin Alive /\ Alive' = Alive \cup {n}
      BY <1>4 DEF Made
    <2>3. key'[n] = k /\ \A m \in Node : m # n => key'[m] = key[m]
      BY <2>1, <2>2 DEF PathInv, TypeOK
    <2>4. \A m \in Alive \ {Root} : key'[m] = key[m] /\ key[m][1] \in Alive
      BY <2>2, <2>3, LiveParents
    <2> DEFINE e == [d EXCEPT ![n] = d[k[1]] + 1]
    <2>5. e \in [AnyNode -> Nat] /\ e[n] = d[k[1]] + 1 /\ \A m \in Alive : e[m] = d[m]
      BY <1>2, <2>1, <2>2
    <2>6. d[Root] = 0 /\ \A m \in Alive \ {Root} : d[m] = d[key[m][1]] + 1
      BY <1>1 DEF IsDepth
    <2>7. Root \in Alive
      BY RootAlive
    <2> HIDE DEF e
    <2>8. \A m \in Alive' \ {Root} : e[m] = e[key'[m][1]] + 1
      BY <2>1, <2>2, <2>3, <2>4, <2>5, <2>6
    <2>9. IsDepth(e)'
      BY <2>5, <2>6, <2>7, <2>8 DEF IsDepth
    <2>10. \A m \in Alive : TextsOf(key)[Cardinality(Node)][m] = TextsOf(key')[Cardinality(Node)][m]
      BY <1>2, <2>4, TextsStay
    <2> QED BY <2>5, <2>9, <2>10, UpToIs DEF DepthInv
  <1> QED BY <1>3, <1>4 DEF TreeStep, Stays, Lost, Got

\* The pairs of paths and nodes the clients hold.
Held == {<<TextOf[n], n>> : n \in {m \in Node : handles[m] > 0}}

LEMMA HeldIs ==
    /\ \A p, n : <<p, n>> \in Held <=> n \in Node /\ handles[n] > 0 /\ p = TextOf[n]
    /\ \A x \in Held : x = <<x[1], x[2]>>
  BY DEF Held

LEMMA HeldIsNext ==
    /\ \A p, n : <<p, n>> \in Held' <=> n \in Node /\ handles'[n] > 0 /\ p = TextOf'[n]
    /\ \A x \in Held' : x = <<x[1], x[2]>>
  BY DEF Held

\* A node gets its first handle: its path was interned.
LEMMA InternStep ==
    ASSUME NEW n \in Node, ~ (handles[n] > 0), handles'[n] > 0,
           \A m \in Node : m # n => handles'[m] = handles[m],
           \A m \in Node : handles[m] > 0 => TextOf'[m] = TextOf[m] /\ TextOf[m] # TextOf'[n]
    PROVE  /\ \A q : <<q, n>> \notin Held
           /\ \A m : <<TextOf'[n], m>> \notin Held
           /\ Held' = Held \cup {<<TextOf'[n], n>>}
  <1>1. \A q, m : <<q, m>> \in Held' <=> <<q, m>> \in Held \/ (q = TextOf'[n] /\ m = n)
    <2> SUFFICES ASSUME NEW q, NEW m
                 PROVE  <<q, m>> \in Held' <=> <<q, m>> \in Held \/ (q = TextOf'[n] /\ m = n)
      OBVIOUS
    <2>1. <<q, m>> \in Held <=> m \in Node /\ handles[m] > 0 /\ q = TextOf[m]
      BY HeldIs
    <2>2. <<q, m>> \in Held' <=> m \in Node /\ handles'[m] > 0 /\ q = TextOf'[m]
      BY HeldIsNext
    <2>3. CASE m = n
      BY <2>1, <2>2, <2>3
    <2>4. CASE m # n
      BY <2>1, <2>2, <2>4
    <2> QED BY <2>3, <2>4
  <1>2. Held' = Held \cup {<<TextOf'[n], n>>}
    <2>1. \A x : x \in Held' <=> x \in Held \/ x = <<TextOf'[n], n>>
      BY <1>1, HeldIs, HeldIsNext
    <2> QED BY <2>1
  <1> QED BY <1>2, HeldIs

\* A node loses its last handle: its path is released.
LEMMA ReleaseStep ==
    ASSUME NEW n \in Node, handles[n] > 0, ~ (handles'[n] > 0),
           \A m \in Node : m # n => handles'[m] = handles[m],
           \A m \in Node : handles[m] > 0 => TextOf'[m] = TextOf[m]
    PROVE  <<TextOf[n], n>> \in Held /\ Held' = Held \ {<<TextOf[n], n>>}
  <1>1. \A x : x \in Held' <=> x \in Held /\ x # <<TextOf[n], n>>
    BY HeldIs, HeldIsNext
  <1> QED BY <1>1, HeldIs

LEMMA HeldStays ==
    ASSUME \A m \in Node : handles'[m] > 0 <=> handles[m] > 0,
           \A m \in Node : handles[m] > 0 => TextOf'[m] = TextOf[m]
    PROVE  Held' = Held
  <1>1. \A x : x \in Held' <=> x \in Held
    BY HeldIs, HeldIsNext
  <1> QED BY <1>1

LEMMA TextRange == TypeOK => \A n \in AnyNode : TextOf[n] \in Texts(Cardinality(Node))
  BY TextTypes

LEMMA HeldStep ==
    ASSUME PathInv, DepthInv, [Next]_vars
    PROVE  \/ Held' = Held
           \/ \E n \in Node, p \in Texts(Cardinality(Node)) :
                 \/ /\ \A q : <<q, n>> \notin Held
                    /\ \A m : <<p, m>> \notin Held
                    /\ Held' = Held \cup {<<p, n>>}
                 \/ <<p, n>> \in Held /\ Held' = Held \ {<<p, n>>}
  <1>1. PathInv' /\ TreeStep
    BY NextPathInv
  <1>2. DepthInv' /\ \A n \in Alive : TextOf'[n] = TextOf[n]
    BY <1>1, NextDepth
  <1>3. \A m, n \in Alive : TextOf[m] = TextOf[n] => m = n
    BY TextsUnique
  <1>4. \A m, n \in Alive' : TextOf'[m] = TextOf'[n] => m = n
    <2>1. (PathInv /\ DepthInv => \A m, n \in Alive : TextOf[m] = TextOf[n] => m = n)'
      BY TextsUnique, PTL
    <2> QED BY <2>1, <1>1, <1>2
  <1>5. \A m \in Node : handles[m] > 0 => m \in Alive /\ TextOf'[m] = TextOf[m]
    BY <1>2 DEF PathInv, NodesInv, AnyNode
  <1>6. handles \in [AnyNode -> Nat] /\ Node \subseteq AnyNode /\ Alive \subseteq AnyNode
    BY DyingNodes DEF PathInv, TypeOK, AnyNode
  <1>7. \A n \in AnyNode : TextOf[n] \in Texts(Cardinality(Node))
    BY TextTypes DEF PathInv
  <1>8. \A n \in AnyNode : TextOf'[n] \in Texts(Cardinality(Node))
    <2>1. (TypeOK => \A n \in AnyNode : TextOf[n] \in Texts(Cardinality(Node)))'
      BY TextRange, PTL
    <2> QED BY <2>1, <1>1 DEF PathInv
  <1>9. CASE Stays
    BY <1>9, <1>5, HeldStays DEF Stays
  <1>10. ASSUME NEW n \in AnyNode, Lost(n)
         PROVE  \/ Held' = Held
                \/ \E m \in Node, p \in Texts(Cardinality(Node)) :
                      <<p, m>> \in Held /\ Held' = Held \ {<<p, m>>}
    <2>1. /\ handles[n] \in Nat /\ handles[n] > 0 /\ handles'[n] = handles[n] - 1
          /\ \A m \in AnyNode : m # n => handles'[m] = handles[m]
      BY <1>6, <1>10 DEF Lost
    <2>2. CASE n \in Node /\ handles[n] = 1
      BY <2>1, <2>2, <1>5, <1>6, <1>7, ReleaseStep
    <2>3. CASE ~ (n \in Node /\ handles[n] = 1)
      <3>1. \A m \in Node : handles'[m] > 0 <=> handles[m] > 0
        BY <2>1, <2>3, <1>6
      <3> QED BY <3>1, <1>5, HeldStays
    <2> QED BY <2>2, <2>3
  <1>11. ASSUME NEW n \in AnyNode, Got(n) \/ Made(n)
         PROVE  \/ Held' = Held
                \/ \E m \in Node, p \in Texts(Cardinality(Node)) :
                      /\ \A q : <<q, m>> \notin Held
                      /\ \A o : <<p, o>> \notin Held
                      /\ Held' = Held \cup {<<p, m>>}
    <2>1. /\ handles[n] \in Nat /\ handles'[n] = handles[n] + 1
          /\ \A m \in AnyNode : m # n => handles'[m] = handles[m]
          /\ n \in Alive' /\ Alive \subseteq Alive'
      BY <1>6, <1>11 DEF Got, Made
    <2>2. CASE n \in Node /\ handles[n] = 0
      <3>1. ASSUME NEW m \in Node, handles[m] > 0
            PROVE  TextOf'[m] = TextOf[m] /\ TextOf[m] # TextOf'[n]
        BY <3>1, <2>1, <2>2, <1>4, <1>5
      <3>2. ~ (handles[n] > 0) /\ handles'[n] > 0
        BY <2>1, <2>2
      <3> QED BY <2>1, <2>2, <3>1, <3>2, <1>6, <1>8, InternStep
    <2>3. CASE ~ (n \in Node /\ handles[n] = 0)
      <3>1. \A m \in Node : handles'[m] > 0 <=> handles[m] > 0
        BY <2>1, <2>3, <1>6
      <3> QED BY <3>1, <1>5, HeldStays
    <2> QED BY <2>2, <2>3
  <1> QED BY <1>1, <1>9, <1>10, <1>11 DEF TreeStep

\* What the clients hold changes the way Interning allows: a path is interned
\* with one node, which nobody has for another path, until it is released.
THEOREM PathNodesIntern == Spec => ImplementsInterning
  <1>1. Init => Abstract!Init
    <2> SUFFICES ASSUME Init PROVE Abstract!Init
      OBVIOUS
    <2>1. \A m \in Node : handles[m] = 0
      BY NodeConstants DEF Init, AnyNode
    <2>2. {m \in Node : handles[m] > 0} = {}
      BY <2>1
    <2> QED BY <2>2 DEF Abstract!Init
  <1>2. ASSUME PathInv, DepthInv, [Next]_vars
        PROVE  [Abstract!Next]_Held
    <2> DEFINE P == UNION {[1..i -> Name] : i \in 0..Cardinality(Node)}
    <2>1. P = Texts(Cardinality(Node))
      BY DEF Texts
    <2>2. CASE Held' = Held
      BY <2>2
    <2>3. ASSUME NEW n \in Node, NEW p \in P,
                 \A q : <<q, n>> \notin Held, \A m : <<p, m>> \notin Held,
                 Held' = Held \cup {<<p, n>>}
          PROVE  Abstract!Next
      BY <2>3 DEF Abstract!Next, Abstract!Intern, Held
    <2>4. ASSUME NEW n \in Node, NEW p \in P,
                 <<p, n>> \in Held, Held' = Held \ {<<p, n>>}
          PROVE  Abstract!Next
      BY <2>4 DEF Abstract!Next, Abstract!Release, Held
    <2> QED BY <1>2, <2>1, <2>2, <2>3, <2>4, HeldStep
  <1>3. PathInv /\ DepthInv /\ [Next]_vars => DepthInv'
    BY NextPathInv, NextDepth
  <1> QED
    BY <1>1, <1>2, <1>3, PathSafety, InitDepth, PTL
       DEF Spec, ImplementsInterning, Abstract!Spec, Held

-----------------------------------------------------------------------------
(* The table keyed by paths (PathTable), on constants and variables of its *)
(* own.                                                                    *)
(*                                                                         *)
(* The invariant: every entry is once in the bucket of its hash, and there *)
(* is an order of the entries, in which those below an entry come right    *)
(* after it, that the links follow.  What the recursion, the iteration and *)
(* the range of a path go through is then found by going along the order,  *)
(* and each operation is shown to leave such an order.                     *)

CONSTANTS TableNames, TableDepth, TableValues, TableDefault, TableHash(_), TableMask
VARIABLES entries, buckets, content

Table == INSTANCE PathTable WITH
    Names <- TableNames, MaxDepth <- TableDepth, Values <- TableValues, Default <- TableDefault,
    Hash <- TableHash, FirstMask <- TableMask, nodes <- entries

\* What is assumed of the constants: names are positive numbers, and hashes numbers.
TableConstants ==
    /\ TableNames \subseteq Nat \ {0}
    /\ TableDepth \in Nat
    /\ TableMask \in Nat
    /\ \A p \in Table!TablePaths : TableHash(p) \in Nat

HasPrefix(path, prefix) == Table!IsPrefix(prefix, path)
ReplacePrefix(path, from, to) == Table!ReplacePrefix(path, from, to)
TableRoot == Table!Root
Front(path) == Table!Front(path)
Last(path) == Table!Last(path)
AnyPath == Seq(Nat)

-----------------------------------------------------------------------------
(* Paths and their prefixes.                                               *)

\* A path has a prefix when its names begin with those of the prefix.
LEMMA PrefixNames ==
    ASSUME NEW p \in AnyPath, NEW q \in AnyPath
    PROVE  HasPrefix(q, p) <=> /\ Len(p) <= Len(q)
                               /\ \A i \in 1 .. Len(p) : q[i] = p[i]
  <1>1. SubSeq(p, 1, Len(p)) = p
    BY DEF AnyPath
  <1>2. ASSUME Len(p) <= Len(q)
        PROVE  /\ SubSeq(q, 1, Len(p)) \in AnyPath /\ Len(SubSeq(q, 1, Len(p))) = Len(p)
               /\ \A i \in 1 .. Len(p) : SubSeq(q, 1, Len(p))[i] = q[i]
    BY <1>2 DEF AnyPath
  <1>3. ASSUME Len(p) <= Len(q), \A i \in 1 .. Len(p) : q[i] = p[i]
        PROVE  SubSeq(q, 1, Len(p)) = p
    BY <1>2, <1>3, SeqEqual DEF AnyPath
  <1> QED BY <1>1, <1>2, <1>3 DEF HasPrefix, Table!IsPrefix

\* A path is a prefix of itself, and the root is one of every path.
LEMMA PrefixSelf ==
    ASSUME NEW p \in AnyPath
    PROVE  HasPrefix(p, p) /\ HasPrefix(p, TableRoot) /\ TableRoot \in AnyPath
  <1>1. TableRoot \in AnyPath /\ Len(TableRoot) = 0
    BY DEF AnyPath, TableRoot, Table!Root
  <1>2. Len(p) \in Nat
    BY DEF AnyPath
  <1>3. HasPrefix(p, p)
    BY <1>2, PrefixNames
  <1>4. HasPrefix(p, TableRoot)
    BY <1>1, <1>2, PrefixNames
  <1> QED BY <1>1, <1>3, <1>4

\* A prefix of a prefix is a prefix.
LEMMA PrefixTransitive ==
    ASSUME NEW p \in AnyPath, NEW q \in AnyPath, NEW r \in AnyPath,
           HasPrefix(r, q), HasPrefix(q, p)
    PROVE  HasPrefix(r, p)
  <1>1. Len(p) \in Nat /\ Len(q) \in Nat /\ Len(r) \in Nat
    BY DEF AnyPath
  <1> QED BY <1>1, PrefixNames

\* Paths that are prefixes of each other are equal.
LEMMA PrefixBoth ==
    ASSUME NEW p \in AnyPath, NEW q \in AnyPath, HasPrefix(p, q), HasPrefix(q, p)
    PROVE  p = q
  <1>1. Len(p) \in Nat /\ Len(q) \in Nat
    BY DEF AnyPath
  <1>2. Len(p) = Len(q) /\ \A i \in 1 .. Len(p) : p[i] = q[i]
    BY <1>1, PrefixNames
  <1> QED BY <1>2, SeqEqual DEF AnyPath

\* Of two prefixes of a path one is a prefix of the other.
LEMMA PrefixCompare ==
    ASSUME NEW p \in AnyPath, NEW q \in AnyPath, NEW r \in AnyPath,
           HasPrefix(r, p), HasPrefix(r, q)
    PROVE  /\ HasPrefix(p, q) \/ HasPrefix(q, p)
           /\ Len(p) <= Len(q) => HasPrefix(q, p)
  <1>1. Len(p) \in Nat /\ Len(q) \in Nat
    BY DEF AnyPath
  <1> QED BY <1>1, PrefixNames

\* A path that goes on from another.
LEMMA Joined ==
    ASSUME NEW p \in AnyPath, NEW s \in AnyPath
    PROVE  /\ p \o s \in AnyPath /\ Len(p \o s) = Len(p) + Len(s)
           /\ HasPrefix(p \o s, p)
           /\ \A i \in 1 .. Len(p) : (p \o s)[i] = p[i]
           /\ \A i \in 1 .. Len(s) : (p \o s)[Len(p) + i] = s[i]
  <1>1. Len(p) \in Nat /\ Len(s) \in Nat
    BY DEF AnyPath
  <1>2. p \o s \in AnyPath /\ Len(p \o s) = Len(p) + Len(s)
    BY DEF AnyPath
  <1>3. \A i \in 1 .. Len(p) : (p \o s)[i] = p[i]
    BY DEF AnyPath
  <1>4. ASSUME NEW i \in 1 .. Len(s)
        PROVE  (p \o s)[Len(p) + i] = s[i]
    <2>1. Len(p) + i \in 1 .. Len(p) + Len(s) /\ ~ (Len(p) + i <= Len(p))
             /\ (Len(p) + i) - Len(p) = i
      BY <1>1
    <2>2. \A k \in 1 .. Len(p) + Len(s) :
             (p \o s)[k] = IF k <= Len(p) THEN p[k] ELSE s[k - Len(p)]
      <3>1. p \in Seq(Nat) /\ s \in Seq(Nat)
        BY DEF AnyPath
      <3> QED BY <3>1, ConcatProperties, Zenon
    <2>3. (p \o s)[Len(p) + i] = s[(Len(p) + i) - Len(p)]
      BY <2>1, <2>2, Zenon
    <2> QED BY <2>1, <2>3
  <1>5. HasPrefix(p \o s, p)
    <2>1. Len(p) <= Len(p \o s)
      BY <1>1, <1>2
    <2> QED BY <1>2, <1>3, <2>1, PrefixNames, Zenon
  <1> QED BY <1>2, <1>3, <1>4, <1>5

\* Three paths joined.
LEMMA JoinedTwice ==
    \A a, b, c \in AnyPath : (a \o b) \o c = a \o (b \o c)
  <1>1. \A a, b, c \in Seq(Nat) : (a \o b) \o c = a \o (b \o c)
    BY ConcatAssociative, SMTT(60)
  <1> QED BY <1>1 DEF AnyPath

\* Nothing joined.
LEMMA JoinedRoot ==
    ASSUME NEW a \in Seq(Nat)
    PROVE  a \o TableRoot = a
  BY ConcatEmptySeq DEF TableRoot, Table!Root

\* The beginning of a path.
LEMMA Beginning ==
    ASSUME NEW q \in Seq(Nat), NEW n \in Nat, n <= Len(q)
    PROVE  /\ SubSeq(q, 1, n) \in Seq(Nat) /\ Len(SubSeq(q, 1, n)) = n
           /\ \A i \in 1 .. n : SubSeq(q, 1, n)[i] = q[i]
  OBVIOUS

\* What is left of a path after a prefix.
LEMMA Rest ==
    ASSUME NEW p \in AnyPath, NEW q \in AnyPath, HasPrefix(q, p)
    PROVE  \E s \in AnyPath : q = p \o s
  <1> DEFINE s == SubSeq(q, Len(p) + 1, Len(q))
  <1>1. Len(p) \in Nat /\ Len(q) \in Nat /\ Len(p) <= Len(q)
    BY PrefixNames DEF AnyPath
  <1>2. /\ s \in AnyPath /\ Len(s) = Len(q) - Len(p)
        /\ \A i \in 1 .. Len(s) : s[i] = q[Len(p) + i]
    BY <1>1 DEF AnyPath
  <1> HIDE DEF s
  <1>3. p \o s \in AnyPath /\ Len(p \o s) = Len(q)
    <2>1. p \o s \in AnyPath /\ Len(p \o s) = Len(p) + Len(s)
      BY <1>2, Joined
    <2> QED BY <1>1, <1>2, <2>1
  <1>4. ASSUME NEW i \in 1 .. Len(q)
        PROVE  (p \o s)[i] = q[i]
    <2>1. CASE i <= Len(p)
      <3>1. i \in 1 .. Len(p)
        BY <1>1, <2>1
      <3>2. (p \o s)[i] = p[i]
        BY <1>2, <3>1, Joined
      <3>3. q[i] = p[i]
        BY <3>1, PrefixNames
      <3> QED BY <3>2, <3>3
    <2>2. CASE i > Len(p)
      <3>1. PICK j \in 1 .. Len(s) : i = Len(p) + j
        <4>1. i - Len(p) \in 1 .. Len(s) /\ Len(p) + (i - Len(p)) = i
          BY <1>1, <1>2, <2>2
        <4> QED BY <4>1
      <3>2. (p \o s)[Len(p) + j] = s[j]
        BY <1>2, Joined, Zenon
      <3>3. s[j] = q[Len(p) + j]
        BY <1>2, Zenon
      <3> QED BY <3>1, <3>2, <3>3, Zenon
    <2>3. i <= Len(p) \/ i > Len(p)
      BY <1>1
    <2> QED BY <2>1, <2>2, <2>3, Zenon
  <1>5. p \o s = q
    BY <1>3, <1>4, SeqEqual DEF AnyPath
  <1> QED BY <1>2, <1>5

\* Replacing a prefix keeps the rest.
LEMMA Replaced ==
    ASSUME NEW p \in AnyPath, NEW s \in AnyPath, NEW t
    PROVE  ReplacePrefix(p \o s, p, t) = t \o s
  <1>1. Len(p) \in Nat /\ Len(s) \in Nat
    BY DEF AnyPath
  <1>2. p \o s \in AnyPath /\ Len(p \o s) = Len(p) + Len(s)
    BY Joined
  <1> DEFINE r == SubSeq(p \o s, Len(p) + 1, Len(p \o s))
  <1>3. /\ r \in AnyPath /\ Len(r) = Len(s)
        /\ \A i \in 1 .. Len(s) : r[i] = (p \o s)[Len(p) + i]
    BY <1>1, <1>2 DEF AnyPath
  <1> HIDE DEF r
  <1>4. \A i \in 1 .. Len(s) : r[i] = s[i]
    BY <1>3, Joined
  <1>5. r = s
    BY <1>3, <1>4, SeqEqual DEF AnyPath
  <1> QED BY <1>5 DEF ReplacePrefix, Table!ReplacePrefix, r

\* The parent of a path.
LEMMA Parents ==
    ASSUME NEW q \in AnyPath, q # TableRoot
    PROVE  /\ Front(q) \in AnyPath /\ Len(Front(q)) = Len(q) - 1 /\ Last(q) \in Nat
           /\ q = Append(Front(q), Last(q)) /\ Len(q) \in Nat \ {0}
           /\ HasPrefix(q, Front(q))
           /\ \A p \in AnyPath : HasPrefix(q, p) => p = q \/ HasPrefix(Front(q), p)
  <1>1. Len(q) \in Nat \ {0} /\ Last(q) \in Nat
    <2>1. Len(q) \in Nat \ {0}
      BY EmptySeq DEF AnyPath, TableRoot, Table!Root
    <2>2. Len(q) \in 1 .. Len(q)
      BY <2>1
    <2> QED BY <2>1, <2>2, ElementOfSeq DEF AnyPath, Last, Table!Last
  <1>2. /\ Front(q) \in AnyPath /\ Len(Front(q)) = Len(q) - 1
        /\ \A i \in 1 .. Len(q) - 1 : Front(q)[i] = q[i]
    <2>1. Len(q) - 1 \in Nat /\ Len(q) - 1 <= Len(q)
      BY <1>1
    <2> QED BY <2>1, Beginning DEF AnyPath, Front, Table!Front
  <1>3. q = Append(Front(q), Last(q))
    <2>1. /\ Append(Front(q), Last(q)) \in AnyPath
          /\ Len(Append(Front(q), Last(q))) = Len(q)
          /\ \A i \in 1 .. Len(q) - 1 : Append(Front(q), Last(q))[i] = Front(q)[i]
          /\ Append(Front(q), Last(q))[Len(q)] = Last(q)
      BY <1>1, <1>2, AppendProperties DEF AnyPath
    <2>2. \A i \in 1 .. Len(q) : Append(Front(q), Last(q))[i] = q[i]
      BY <1>1, <1>2, <2>1 DEF Last, Table!Last
    <2> QED BY <2>1, <2>2, SeqEqual DEF AnyPath
  <1>4. HasPrefix(q, Front(q))
    BY <1>1, <1>2, PrefixNames
  <1>5. ASSUME NEW p \in AnyPath, HasPrefix(q, p), p # q
        PROVE  HasPrefix(Front(q), p)
    <2>1. Len(p) \in Nat /\ Len(p) <= Len(q)
          /\ \A i \in 1 .. Len(p) : q[i] = p[i]
      BY <1>5, PrefixNames DEF AnyPath
    <2>2. Len(p) # Len(q)
      BY <1>5, <2>1, SeqEqual DEF AnyPath
    <2>3. Len(p) <= Len(Front(q)) /\ \A i \in 1 .. Len(p) : Front(q)[i] = p[i]
      BY <1>1, <1>2, <2>1, <2>2
    <2> QED BY <1>2, <2>3, PrefixNames
  <1> QED BY <1>1, <1>2, <1>3, <1>4, <1>5

\* A child of a path.
LEMMA Child ==
    ASSUME NEW p \in AnyPath, NEW n \in Nat
    PROVE  /\ Append(p, n) \in AnyPath /\ Append(p, n) # TableRoot
           /\ Front(Append(p, n)) = p /\ Last(Append(p, n)) = n
           /\ Append(p, n) = p \o <<n>> /\ <<n>> \in AnyPath
           /\ Len(Append(p, n)) = Len(p) + 1
  <1>1. Len(p) \in Nat
    BY DEF AnyPath
  <1>2. /\ Append(p, n) \in AnyPath /\ Len(Append(p, n)) = Len(p) + 1
        /\ \A i \in 1 .. Len(p) : Append(p, n)[i] = p[i]
        /\ Append(p, n)[Len(p) + 1] = n
    BY AppendProperties DEF AnyPath
  <1>3. Append(p, n) # TableRoot
    BY <1>1, <1>2 DEF TableRoot, Table!Root
  <1>4. Front(Append(p, n)) = p
    <2>1. /\ Front(Append(p, n)) \in AnyPath /\ Len(Front(Append(p, n))) = Len(p)
          /\ \A i \in 1 .. Len(p) : Front(Append(p, n))[i] = Append(p, n)[i]
      BY <1>1, <1>2 DEF AnyPath, Front, Table!Front
    <2> QED BY <1>2, <2>1, SeqEqual DEF AnyPath
  <1>5. Last(Append(p, n)) = n
    BY <1>2 DEF Last, Table!Last
  <1>6. <<n>> \in AnyPath /\ Len(<<n>>) = 1 /\ <<n>>[1] = n
    BY DEF AnyPath
  <1>7. Append(p, n) = p \o <<n>>
    <2>1. p \o <<n>> \in AnyPath /\ Len(p \o <<n>>) = Len(p) + 1
      BY <1>6, Joined
    <2>2. \A i \in 1 .. Len(p) + 1 : (p \o <<n>>)[i] = Append(p, n)[i]
      BY <1>1, <1>2, <1>6, Joined
    <2> QED BY <1>2, <2>1, <2>2, SeqEqual DEF AnyPath
  <1> QED BY <1>2, <1>3, <1>4, <1>5, <1>6, <1>7

\* The parent of a joined path.
LEMMA JoinedParent ==
    ASSUME NEW p \in AnyPath, NEW s \in AnyPath, s # TableRoot
    PROVE  Front(p \o s) = p \o Front(s) /\ Front(s) \in AnyPath
  <1>1. Front(s) \in AnyPath /\ Last(s) \in Nat /\ s = Append(Front(s), Last(s))
    BY Parents
  <1>2. s = Front(s) \o <<Last(s)>> /\ <<Last(s)>> \in AnyPath
    <2>1. Append(Front(s), Last(s)) = Front(s) \o <<Last(s)>> /\ <<Last(s)>> \in AnyPath
      BY <1>1, Child, Zenon
    <2> QED BY <1>1, <2>1, Zenon
  <1>3. (p \o Front(s)) \o <<Last(s)>> = p \o (Front(s) \o <<Last(s)>>)
    BY <1>1, <1>2, JoinedTwice, ZenonT(60)
  <1>4. p \o Front(s) \in AnyPath
    BY <1>1, Joined, Zenon
  <1>5. Append(p \o Front(s), Last(s)) = (p \o Front(s)) \o <<Last(s)>>
        /\ Front(Append(p \o Front(s), Last(s))) = p \o Front(s)
    BY <1>1, <1>4, Child, Zenon
  <1>6. Append(p \o Front(s), Last(s)) = p \o s
    BY <1>2, <1>3, <1>5, Zenon
  <1> QED BY <1>1, <1>5, <1>6, Zenon

-----------------------------------------------------------------------------
(* What a fold over a list is.                                            *)

\* What is so of 0 and of each number after one of which it is so, up to n.
LEMMA StepByStep ==
    ASSUME NEW n \in Nat, NEW T, 0 \in T, \A k \in 1 .. n : k - 1 \in T => k \in T
    PROVE  0 .. n \subseteq T
  <1> DEFINE Bad == {k \in 0 .. n : k \notin T}
  <1> SUFFICES ASSUME Bad # {}
               PROVE  FALSE
    OBVIOUS
  <1>1. Bad \subseteq Nat
    OBVIOUS
  <1>2. PICK k \in Bad : \A j \in Bad : k <= j
    <2> HIDE DEF Bad
    <2> QED BY <1>1, LeastNumber
  <1>3. k \in 1 .. n /\ k - 1 \in 0 .. n /\ k - 1 \notin Bad
    BY <1>2
  <1> QED BY <1>2, <1>3

\* The greatest number of a set (FiniteSetsExt, Max).
LEMMA LargestIs ==
    ASSUME NEW n \in Nat, NEW t \in SUBSET (1 .. n), t # {}
    PROVE  Table!Max(t) \in t /\ \A k \in t : k <= Table!Max(t)
  <1> DEFINE T == {n - k : k \in t}
  <1>1. T \subseteq Nat /\ T # {}
    <2>1. PICK k \in t : TRUE
      OBVIOUS
    <2>2. n - k \in T
      BY <2>1
    <2>3. \A j \in t : n - j \in Nat
      OBVIOUS
    <2> QED BY <2>2, <2>3
  <1>2. PICK m \in T : \A j \in T : m <= j
    <2> HIDE DEF T
    <2> QED BY <1>1, LeastNumber
  <1>3. PICK k \in t : m = n - k
    BY <1>2
  <1>4. ASSUME NEW j \in t
        PROVE  k >= j
    <2>1. n - j \in T /\ j \in Int /\ k \in Int
      OBVIOUS
    <2>2. m <= n - j
      BY <1>2, <2>1
    <2> QED BY <1>3, <2>1, <2>2
  <1>5. \E x \in t : \A y \in t : x >= y
    BY <1>4
  <1>6. Table!Max(t) \in t /\ \A y \in t : Table!Max(t) >= y
    <2>1. Table!Max(t) = CHOOSE x \in t : \A y \in t : x >= y
      BY DEF Table!Max
    <2> QED BY <1>5, <2>1
  <1>7. \A y \in t : y \in Int
    OBVIOUS
  <1> QED BY <1>6, <1>7

LEMMA UpToLargest ==
    ASSUME NEW n \in Nat, NEW k \in 1 .. n
    PROVE  /\ 1 .. k \in SUBSET (1 .. n) /\ 1 .. k # {} /\ Table!Max(1 .. k) = k
           /\ (1 .. k) \ {Table!Max(1 .. k)} = 1 .. (k - 1)
  <1>1. 1 .. k \in SUBSET (1 .. n) /\ k \in 1 .. k
    OBVIOUS
  <1>2. Table!Max(1 .. k) \in 1 .. k /\ \A j \in 1 .. k : j <= Table!Max(1 .. k)
    BY <1>1, LargestIs
  <1>3. Table!Max(1 .. k) = k
    BY <1>1, <1>2
  <1> QED BY <1>1, <1>3

\* The table of a fold of s over sets of places: g is what is done with an element.
FoldOf(f, b, n, s, g) ==
    \A t \in SUBSET (1 .. n) :
       f[t] = IF t = {} THEN b ELSE g[<<f[t \ {Table!Max(t)}], s[Table!Max(t)]>>]

LEMMA FoldExists ==
    ASSUME NEW X, NEW I, NEW b \in X, NEW n \in Nat, NEW s \in [1 .. n -> I],
           NEW g \in [X \X I -> X]
    PROVE  \E f \in [SUBSET (1 .. n) -> X] : FoldOf(f, b, n, s, g)
  <1> DEFINE T == {k \in 0 .. n : \E f \in [SUBSET (1 .. k) -> X] : FoldOf(f, b, k, s, g)}
  <1>1. 0 \in T
    <2> DEFINE f == [t \in SUBSET (1 .. 0) |-> b]
    <2>1. \A t \in SUBSET (1 .. 0) : t = {}
      OBVIOUS
    <2>2. f \in [SUBSET (1 .. 0) -> X] /\ FoldOf(f, b, 0, s, g)
      BY <2>1 DEF FoldOf
    <2> QED BY <2>2
  <1>2. ASSUME NEW k \in 1 .. n, k - 1 \in T
        PROVE  k \in T
    <2>1. PICK f \in [SUBSET (1 .. (k - 1)) -> X] : FoldOf(f, b, k - 1, s, g)
      BY <1>2
    <2> DEFINE h == [t \in SUBSET (1 .. k) |-> IF k \in t THEN g[<<f[t \ {k}], s[k]>>] ELSE f[t]]
    <2>2. h \in [SUBSET (1 .. k) -> X]
      <3>1. ASSUME NEW t \in SUBSET (1 .. k)
            PROVE  (IF k \in t THEN g[<<f[t \ {k}], s[k]>>] ELSE f[t]) \in X
        <4>1. CASE k \in t
          <5>1. t \ {k} \in SUBSET (1 .. (k - 1)) /\ s[k] \in I
            OBVIOUS
          <5>2. <<f[t \ {k}], s[k]>> \in X \X I
            BY <5>1
          <5> QED BY <4>1, <5>2
        <4>2. CASE k \notin t
          <5>1. t \in SUBSET (1 .. (k - 1))
            BY <4>2
          <5> QED BY <4>2, <5>1
        <4> QED BY <4>1, <4>2
      <3> QED BY <3>1
    <2>3. ASSUME NEW t \in SUBSET (1 .. k)
          PROVE  h[t] = IF t = {} THEN b ELSE g[<<h[t \ {Table!Max(t)}], s[Table!Max(t)]>>]
      <3>0. k \in Nat /\ k - 1 \in Nat
        OBVIOUS
      <3>1. CASE k \in t
        <4>1. Table!Max(t) \in t /\ \A j \in t : j <= Table!Max(t)
          BY <3>0, <3>1, LargestIs
        <4>2. Table!Max(t) = k
          <5>1. Table!Max(t) \in 1 .. k /\ k <= Table!Max(t)
            BY <3>1, <4>1
          <5> QED BY <5>1
        <4>3. t \ {k} \in SUBSET (1 .. k) /\ k \notin t \ {k}
          OBVIOUS
        <4>4. h[t \ {k}] = f[t \ {k}]
          BY <4>3
        <4>5. h[t] = g[<<f[t \ {k}], s[k]>>]
          BY <3>1
        <4> HIDE DEF h
        <4> QED BY <3>1, <4>2, <4>4, <4>5
      <3>2. CASE k \notin t
        <4>1. t \in SUBSET (1 .. (k - 1)) /\ h[t] = f[t]
          BY <3>2
        <4>2. CASE t = {}
          <5>1. f[t] = b
            BY <2>1, <4>1, <4>2 DEF FoldOf
          <5> HIDE DEF h
          <5> QED BY <4>1, <4>2, <5>1
        <4>3. CASE t # {}
          <5>1. Table!Max(t) \in t
            BY <3>0, <4>1, <4>3, LargestIs
          <5>2. t \ {Table!Max(t)} \in SUBSET (1 .. k) /\ k \notin t \ {Table!Max(t)}
            BY <3>2
          <5>3. h[t \ {Table!Max(t)}] = f[t \ {Table!Max(t)}]
            BY <5>2
          <5>4. f[t] = g[<<f[t \ {Table!Max(t)}], s[Table!Max(t)]>>]
            BY <2>1, <4>1, <4>3 DEF FoldOf
          <5> HIDE DEF h
          <5> QED BY <4>1, <4>3, <5>3, <5>4
        <4> QED BY <4>2, <4>3
      <3> QED BY <3>1, <3>2
    <2>4. FoldOf(h, b, k, s, g)
      <3> HIDE DEF h
      <3> QED BY <2>3 DEF FoldOf
    <2> HIDE DEF h
    <2> QED BY <2>2, <2>4
  <1> HIDE DEF T
  <1>3. n \in T
    <2>1. 0 .. n \subseteq T
      BY <1>1, <1>2, StepByStep
    <2>2. n \in 0 .. n
      OBVIOUS
    <2> QED BY <2>1, <2>2
  <1> QED BY <1>3 DEF T

-----------------------------------------------------------------------------
(* Paths of the table.                                                     *)

TablePaths == Table!TablePaths
Under(p, q) == Table!IsPrefix(p, q)
ParentOf(p) == Table!Parent(p)
Nobody == Table!Nobody

\* What is under a path, as for the paths above.
LEMMA UnderIs ==
    ASSUME NEW p, NEW q
    PROVE  /\ Under(p, q) <=> HasPrefix(q, p)
           /\ ParentOf(p) = Front(p) /\ TableRoot = Table!Root
  BY DEF Under, HasPrefix, Table!IsPrefix, Table!IsPrefix, ParentOf,
         Table!Parent, Table!Front, Front, Table!Front, TableRoot, Table!Root, Table!Root

\* The prefixes of a path are in an order.
LEMMA UnderOrder ==
    ASSUME NEW p \in AnyPath, NEW q \in AnyPath, NEW r \in AnyPath
    PROVE  /\ Under(p, p)
           /\ Under(p, q) /\ Under(q, r) => Under(p, r)
           /\ Under(p, q) /\ Under(q, p) => p = q
           /\ Under(p, r) /\ Under(q, r) => Under(p, q) \/ Under(q, p)
           /\ Under(p, r) /\ Under(q, r) /\ Len(p) = Len(q) => p = q
           /\ Under(p, q) => Len(p) <= Len(q)
  <1>1. HasPrefix(p, p)
    BY PrefixSelf
  <1>2. HasPrefix(q, p) /\ HasPrefix(r, q) => HasPrefix(r, p)
    BY PrefixTransitive
  <1>3. HasPrefix(q, p) /\ HasPrefix(p, q) => p = q
    BY PrefixBoth
  <1>4. HasPrefix(r, p) /\ HasPrefix(r, q) =>
            /\ HasPrefix(p, q) \/ HasPrefix(q, p)
            /\ Len(p) <= Len(q) => HasPrefix(q, p)
            /\ Len(q) <= Len(p) => HasPrefix(p, q)
    BY PrefixCompare
  <1>5. HasPrefix(q, p) => Len(p) <= Len(q)
    BY PrefixNames
  <1>6. Len(p) = Len(q) => Len(p) <= Len(q) /\ Len(q) <= Len(p)
    BY DEF AnyPath
  <1> QED BY <1>1, <1>2, <1>3, <1>4, <1>5, <1>6, UnderIs, Zenon

\* The prefixes of a path are itself and those of its parent.
LEMMA UnderParent ==
    ASSUME NEW q \in AnyPath
    PROVE  /\ TableRoot \in AnyPath /\ Under(TableRoot, q)
           /\ Under(q, TableRoot) => q = TableRoot
           /\ q # TableRoot => /\ ParentOf(q) \in AnyPath /\ ParentOf(q) # q /\ Under(ParentOf(q), q)
                          /\ Len(ParentOf(q)) = Len(q) - 1 /\ Len(q) \in Nat \ {0}
                          /\ \A p \in AnyPath : Under(p, q) => p = q \/ Under(p, ParentOf(q))
  <1>1. TableRoot \in AnyPath /\ HasPrefix(q, TableRoot)
    BY PrefixSelf
  <1>2. Under(q, TableRoot) => q = TableRoot
    BY <1>1, UnderIs, UnderOrder, Zenon
  <1>3. ASSUME q # TableRoot
        PROVE  /\ Front(q) \in AnyPath /\ Len(Front(q)) = Len(q) - 1 /\ Len(q) \in Nat \ {0}
               /\ HasPrefix(q, Front(q))
               /\ \A p \in AnyPath : HasPrefix(q, p) => p = q \/ HasPrefix(Front(q), p)
    BY <1>3, Parents
  <1>4. ASSUME q # TableRoot
        PROVE  Front(q) # q
    BY <1>3, <1>4
  <1>5. \A p \in AnyPath : Under(p, q) <=> HasPrefix(q, p)
    BY UnderIs, Zenon
  <1>6. \A p \in AnyPath : Under(p, ParentOf(q)) <=> HasPrefix(Front(q), p)
    BY UnderIs, Zenon
  <1>7. ParentOf(q) = Front(q)
    BY UnderIs, Zenon
  <1> QED BY <1>1, <1>2, <1>3, <1>4, <1>5, <1>6, <1>7

\* The paths of a table are the prefixes of such paths.
LEMMA TablePathsAre ==
    ASSUME TableConstants
    PROVE  /\ TablePaths \subseteq AnyPath /\ TableRoot \in TablePaths /\ Nobody \notin TablePaths
           /\ \A q \in TablePaths : Len(q) <= TableDepth
           /\ \A q \in AnyPath : q \in TablePaths <=>
                 Len(q) <= TableDepth /\ \A i \in 1 .. Len(q) : q[i] \in TableNames
  <1>1. TablePaths = UNION {[1 .. n -> TableNames] : n \in 0 .. TableDepth}
    BY DEF TablePaths, Table!TablePaths
  <1>2. TableNames \subseteq Nat /\ 0 \notin TableNames /\ TableDepth \in Nat
    BY DEF TableConstants
  <1>3. ASSUME NEW q \in TablePaths
        PROVE  q \in AnyPath /\ Len(q) <= TableDepth /\ \A i \in 1 .. Len(q) : q[i] \in TableNames
    <2>1. PICK n \in 0 .. TableDepth : q \in [1 .. n -> TableNames]
      BY <1>1
    <2>2. q \in Seq(TableNames) /\ Len(q) = n
      BY <1>2, <2>1
    <2>3. Seq(TableNames) \subseteq Seq(Nat)
      BY <1>2, SeqMonotonic
    <2> QED BY <1>2, <2>1, <2>2, <2>3 DEF AnyPath
  <1>4. ASSUME NEW q \in AnyPath, Len(q) <= TableDepth, \A i \in 1 .. Len(q) : q[i] \in TableNames
        PROVE  q \in TablePaths
    <2>1. Len(q) \in 0 .. TableDepth /\ DOMAIN q = 1 .. Len(q)
      BY <1>2, <1>4 DEF AnyPath
    <2>2. q \in [1 .. Len(q) -> TableNames]
      BY <1>4, <2>1 DEF AnyPath
    <2> QED BY <1>1, <2>1, <2>2
  <1>5. TableRoot \in AnyPath /\ Len(TableRoot) = 0
    BY DEF TableRoot, Table!Root, AnyPath
  <1>6. Nobody \notin TablePaths
    <2>1. Nobody = <<0>> /\ Len(Nobody) = 1 /\ Nobody[1] = 0
      BY DEF Nobody, Table!Nobody
    <2> QED BY <1>2, <1>3, <2>1
  <1>7. TableRoot \in TablePaths
    BY <1>2, <1>4, <1>5
  <1> QED BY <1>3, <1>4, <1>6, <1>7

\* The prefixes of a path of the table are paths of the table.
LEMMA PrefixesInTable ==
    ASSUME TableConstants, NEW q \in TablePaths
    PROVE  /\ \A p \in AnyPath : Under(p, q) => p \in TablePaths
           /\ q # TableRoot => ParentOf(q) \in TablePaths
  <1>1. q \in AnyPath /\ Len(q) <= TableDepth /\ \A i \in 1 .. Len(q) : q[i] \in TableNames
    BY TablePathsAre
  <1>2. ASSUME NEW p \in AnyPath, Under(p, q)
        PROVE  p \in TablePaths
    <2>1. /\ Len(p) <= Len(q) /\ Len(p) \in Nat /\ Len(q) \in Nat
          /\ \A i \in 1 .. Len(p) : q[i] = p[i]
      BY <1>1, <1>2, UnderIs, PrefixNames DEF AnyPath
    <2>2. Len(p) <= TableDepth /\ \A i \in 1 .. Len(p) : p[i] \in TableNames
      BY <1>1, <2>1 DEF TableConstants
    <2> QED BY <2>2, TablePathsAre
  <1> QED BY <1>1, <1>2, UnderParent

-----------------------------------------------------------------------------
(* The folds of the table.                                                 *)

\* The steps of the folds.
Kept(erased, chain, q) == IF q \in erased THEN chain ELSE Append(chain, q)
Pushed(size, chains, p) == Table!Push(chains, (TableHash(p) % size) + 1, p)
MadeIn(p, value, u, q) == Table!InsertInTable(u, q, IF q = p THEN value ELSE TableDefault)
Joining(u, q) == IF q = Table!Root THEN u ELSE Table!AddChild(u, Table!Parent(q), q)
RenamedIn(old, new, u, p) ==
    Table!Insert(u, Table!ReplacePrefix(p, old, new), u.nodes[p].value)

\* What is left of a chain is taken over one by one.
RemainingSteps(c, X, b, s, erased) ==
    /\ c \in [0 .. Len(s) -> X]
    /\ c[0] = b /\ Table!Remaining(s, erased) = c[Len(s)]
    /\ \A k \in 1 .. Len(s) : c[k] = Kept(erased, c[k - 1], s[k])

LEMMA RemainingFold ==
    ASSUME NEW erased, NEW X, NEW I, NEW b \in X, b = <<>>, NEW s \in Seq(I),
           \A x \in X, i \in I : Kept(erased, x, i) \in X
    PROVE  \E c : RemainingSteps(c, X, b, s, erased)
  <1> DEFINE n == Len(s)
             g == [y \in X \X I |-> Kept(erased, y[1], y[2])]
             IsFold(f) == f = [u \in SUBSET (DOMAIN s) |->
                 IF u = {} THEN b
                 ELSE Kept(erased, f[u \ {Table!Max(u)}], s[Table!Max(u)])]
             iter == CHOOSE f : IsFold(f)
  <1>1. Table!Remaining(s, erased) = iter[DOMAIN s]
    BY DEF Table!Remaining, Kept, Table!FoldLeft, Table!MapThenFoldSet, Table!Max
  <1>2. n \in Nat /\ DOMAIN s = 1 .. n /\ s \in [1 .. n -> I]
    OBVIOUS
  <1>3. g \in [X \X I -> X] /\ \A x \in X, i \in I : g[<<x, i>>] = Kept(erased, x, i)
    OBVIOUS
  <1> HIDE DEF n, g, IsFold, iter
  <1>4. PICK h \in [SUBSET (1 .. n) -> X] : FoldOf(h, b, n, s, g)
    BY <1>2, <1>3, FoldExists
  <1>5. IsFold(h)
    <2>1. ASSUME NEW u \in SUBSET (1 .. n)
          PROVE  h[u] = IF u = {} THEN b
                        ELSE Kept(erased, h[u \ {Table!Max(u)}], s[Table!Max(u)])
      <3>1. CASE u = {}
        BY <1>4, <3>1 DEF FoldOf
      <3>2. CASE u # {}
        <4>1. Table!Max(u) \in 1 .. n /\ u \ {Table!Max(u)} \in SUBSET (1 .. n)
          BY <1>2, <3>2, LargestIs
        <4>2. h[u \ {Table!Max(u)}] \in X /\ s[Table!Max(u)] \in I
          BY <1>2, <1>4, <4>1
        <4>3. h[u] = g[<<h[u \ {Table!Max(u)}], s[Table!Max(u)]>>]
          BY <1>4, <3>2 DEF FoldOf
        <4> QED BY <1>3, <3>2, <4>2, <4>3
      <3> QED BY <3>1, <3>2
    <2> QED BY <1>2, <1>4, <2>1 DEF IsFold
  <1>6. IsFold(iter)
    BY <1>5 DEF iter
  <1>7. ASSUME NEW u \in SUBSET (1 .. n)
        PROVE  iter[u] = IF u = {} THEN b
                         ELSE Kept(erased, iter[u \ {Table!Max(u)}], s[Table!Max(u)])
    BY <1>2, <1>6 DEF IsFold
  <1>8. ASSUME NEW k \in 1 .. n, iter[1 .. (k - 1)] \in X
        PROVE  iter[1 .. k] = g[<<iter[1 .. (k - 1)], s[k]>>]
    <2>1. iter[1 .. k] = Kept(erased, iter[1 .. (k - 1)], s[k])
      BY <1>2, <1>7, UpToLargest
    <2> QED BY <1>2, <1>3, <1>8, <2>1
  <1>9. iter[1 .. 0] = b
    <2>1. 1 .. 0 = {} /\ {} \in SUBSET (1 .. n)
      OBVIOUS
    <2> QED BY <1>7, <2>1
  <1> DEFINE T == {k \in 0 .. n : iter[1 .. k] \in X}
             c == [k \in 0 .. n |-> iter[1 .. k]]
  <1>10. 0 .. n \subseteq T
    <2>1. 0 \in T
      BY <1>2, <1>9
    <2>2. ASSUME NEW k \in 1 .. n, k - 1 \in T
          PROVE  k \in T
      <3>1. iter[1 .. (k - 1)] \in X /\ s[k] \in I /\ k \in 0 .. n
        BY <1>2, <2>2
      <3> QED BY <1>3, <1>8, <3>1
    <2> HIDE DEF T
    <2> QED BY <1>2, <2>1, <2>2, StepByStep
  <1>11. ASSUME NEW k \in 1 .. n
         PROVE  c[k] = Kept(erased, c[k - 1], s[k])
    <2>1. c[k - 1] = iter[1 .. (k - 1)] /\ c[k] = iter[1 .. k] /\ iter[1 .. (k - 1)] \in X
      BY <1>2, <1>10
    <2>2. s[k] \in I
      BY <1>2
    <2> HIDE DEF c
    <2> QED BY <1>3, <1>8, <2>1, <2>2
  <1>12. c \in [0 .. n -> X] /\ c[0] = b /\ c[n] = iter[DOMAIN s]
    BY <1>2, <1>9, <1>10
  <1> HIDE DEF c
  <1>13. RemainingSteps(c, X, b, s, erased)
    BY <1>1, <1>2, <1>11, <1>12 DEF RemainingSteps, n
  <1> QED BY <1>13

\* The entries go into the new buckets one by one.
RehashedSteps(c, X, b, s, size) ==
    /\ c \in [0 .. Len(s) -> X]
    /\ c[0] = b /\ Table!Rehashed(s, size) = c[Len(s)]
    /\ \A k \in 1 .. Len(s) : c[k] = Pushed(size, c[k - 1], s[k])

LEMMA RehashedFold ==
    ASSUME NEW size, NEW X, NEW I, NEW b \in X, b = [i \in 1 .. size |-> <<>>], NEW s \in Seq(I),
           \A x \in X, i \in I : Pushed(size, x, i) \in X
    PROVE  \E c : RehashedSteps(c, X, b, s, size)
  <1> DEFINE n == Len(s)
             g == [y \in X \X I |-> Pushed(size, y[1], y[2])]
             IsFold(f) == f = [u \in SUBSET (DOMAIN s) |->
                 IF u = {} THEN b
                 ELSE Pushed(size, f[u \ {Table!Max(u)}], s[Table!Max(u)])]
             iter == CHOOSE f : IsFold(f)
  <1>1. Table!Rehashed(s, size) = iter[DOMAIN s]
    BY DEF Table!Rehashed, Pushed, Table!FoldLeft, Table!MapThenFoldSet, Table!Max
  <1>2. n \in Nat /\ DOMAIN s = 1 .. n /\ s \in [1 .. n -> I]
    OBVIOUS
  <1>3. g \in [X \X I -> X] /\ \A x \in X, i \in I : g[<<x, i>>] = Pushed(size, x, i)
    OBVIOUS
  <1> HIDE DEF n, g, IsFold, iter
  <1>4. PICK h \in [SUBSET (1 .. n) -> X] : FoldOf(h, b, n, s, g)
    BY <1>2, <1>3, FoldExists
  <1>5. IsFold(h)
    <2>1. ASSUME NEW u \in SUBSET (1 .. n)
          PROVE  h[u] = IF u = {} THEN b
                        ELSE Pushed(size, h[u \ {Table!Max(u)}], s[Table!Max(u)])
      <3>1. CASE u = {}
        BY <1>4, <3>1 DEF FoldOf
      <3>2. CASE u # {}
        <4>1. Table!Max(u) \in 1 .. n /\ u \ {Table!Max(u)} \in SUBSET (1 .. n)
          BY <1>2, <3>2, LargestIs
        <4>2. h[u \ {Table!Max(u)}] \in X /\ s[Table!Max(u)] \in I
          BY <1>2, <1>4, <4>1
        <4>3. h[u] = g[<<h[u \ {Table!Max(u)}], s[Table!Max(u)]>>]
          BY <1>4, <3>2 DEF FoldOf
        <4> QED BY <1>3, <3>2, <4>2, <4>3
      <3> QED BY <3>1, <3>2
    <2> QED BY <1>2, <1>4, <2>1 DEF IsFold
  <1>6. IsFold(iter)
    BY <1>5 DEF iter
  <1>7. ASSUME NEW u \in SUBSET (1 .. n)
        PROVE  iter[u] = IF u = {} THEN b
                         ELSE Pushed(size, iter[u \ {Table!Max(u)}], s[Table!Max(u)])
    BY <1>2, <1>6 DEF IsFold
  <1>8. ASSUME NEW k \in 1 .. n, iter[1 .. (k - 1)] \in X
        PROVE  iter[1 .. k] = g[<<iter[1 .. (k - 1)], s[k]>>]
    <2>1. iter[1 .. k] = Pushed(size, iter[1 .. (k - 1)], s[k])
      BY <1>2, <1>7, UpToLargest
    <2> QED BY <1>2, <1>3, <1>8, <2>1
  <1>9. iter[1 .. 0] = b
    <2>1. 1 .. 0 = {} /\ {} \in SUBSET (1 .. n)
      OBVIOUS
    <2> QED BY <1>7, <2>1
  <1> DEFINE T == {k \in 0 .. n : iter[1 .. k] \in X}
             c == [k \in 0 .. n |-> iter[1 .. k]]
  <1>10. 0 .. n \subseteq T
    <2>1. 0 \in T
      BY <1>2, <1>9
    <2>2. ASSUME NEW k \in 1 .. n, k - 1 \in T
          PROVE  k \in T
      <3>1. iter[1 .. (k - 1)] \in X /\ s[k] \in I /\ k \in 0 .. n
        BY <1>2, <2>2
      <3> QED BY <1>3, <1>8, <3>1
    <2> HIDE DEF T
    <2> QED BY <1>2, <2>1, <2>2, StepByStep
  <1>11. ASSUME NEW k \in 1 .. n
         PROVE  c[k] = Pushed(size, c[k - 1], s[k])
    <2>1. c[k - 1] = iter[1 .. (k - 1)] /\ c[k] = iter[1 .. k] /\ iter[1 .. (k - 1)] \in X
      BY <1>2, <1>10
    <2>2. s[k] \in I
      BY <1>2
    <2> HIDE DEF c
    <2> QED BY <1>3, <1>8, <2>1, <2>2
  <1>12. c \in [0 .. n -> X] /\ c[0] = b /\ c[n] = iter[DOMAIN s]
    BY <1>2, <1>9, <1>10
  <1> HIDE DEF c
  <1>13. RehashedSteps(c, X, b, s, size)
    BY <1>1, <1>2, <1>11, <1>12 DEF RehashedSteps, n
  <1> QED BY <1>13

\* The entries of a path and its ancestors are made one by one.
MakeEntriesSteps(c, X, b, s, p, value) ==
    /\ c \in [0 .. Len(s) -> X]
    /\ c[0] = b /\ Table!MakeEntries(b, s, p, value) = c[Len(s)]
    /\ \A k \in 1 .. Len(s) : c[k] = MadeIn(p, value, c[k - 1], s[k])

LEMMA MakeEntriesFold ==
    ASSUME NEW p, NEW value, NEW X, NEW I, NEW b \in X, NEW s \in Seq(I),
           \A x \in X, i \in I : MadeIn(p, value, x, i) \in X
    PROVE  \E c : MakeEntriesSteps(c, X, b, s, p, value)
  <1> DEFINE n == Len(s)
             g == [y \in X \X I |-> MadeIn(p, value, y[1], y[2])]
             IsFold(f) == f = [u \in SUBSET (DOMAIN s) |->
                 IF u = {} THEN b
                 ELSE MadeIn(p, value, f[u \ {Table!Max(u)}], s[Table!Max(u)])]
             iter == CHOOSE f : IsFold(f)
  <1>1. Table!MakeEntries(b, s, p, value) = iter[DOMAIN s]
    BY DEF Table!MakeEntries, MadeIn, Table!FoldLeft, Table!MapThenFoldSet, Table!Max
  <1>2. n \in Nat /\ DOMAIN s = 1 .. n /\ s \in [1 .. n -> I]
    OBVIOUS
  <1>3. g \in [X \X I -> X] /\ \A x \in X, i \in I : g[<<x, i>>] = MadeIn(p, value, x, i)
    OBVIOUS
  <1> HIDE DEF n, g, IsFold, iter
  <1>4. PICK h \in [SUBSET (1 .. n) -> X] : FoldOf(h, b, n, s, g)
    BY <1>2, <1>3, FoldExists
  <1>5. IsFold(h)
    <2>1. ASSUME NEW u \in SUBSET (1 .. n)
          PROVE  h[u] = IF u = {} THEN b
                        ELSE MadeIn(p, value, h[u \ {Table!Max(u)}], s[Table!Max(u)])
      <3>1. CASE u = {}
        BY <1>4, <3>1 DEF FoldOf
      <3>2. CASE u # {}
        <4>1. Table!Max(u) \in 1 .. n /\ u \ {Table!Max(u)} \in SUBSET (1 .. n)
          BY <1>2, <3>2, LargestIs
        <4>2. h[u \ {Table!Max(u)}] \in X /\ s[Table!Max(u)] \in I
          BY <1>2, <1>4, <4>1
        <4>3. h[u] = g[<<h[u \ {Table!Max(u)}], s[Table!Max(u)]>>]
          BY <1>4, <3>2 DEF FoldOf
        <4> QED BY <1>3, <3>2, <4>2, <4>3
      <3> QED BY <3>1, <3>2
    <2> QED BY <1>2, <1>4, <2>1 DEF IsFold
  <1>6. IsFold(iter)
    BY <1>5 DEF iter
  <1>7. ASSUME NEW u \in SUBSET (1 .. n)
        PROVE  iter[u] = IF u = {} THEN b
                         ELSE MadeIn(p, value, iter[u \ {Table!Max(u)}], s[Table!Max(u)])
    BY <1>2, <1>6 DEF IsFold
  <1>8. ASSUME NEW k \in 1 .. n, iter[1 .. (k - 1)] \in X
        PROVE  iter[1 .. k] = g[<<iter[1 .. (k - 1)], s[k]>>]
    <2>1. iter[1 .. k] = MadeIn(p, value, iter[1 .. (k - 1)], s[k])
      BY <1>2, <1>7, UpToLargest
    <2> QED BY <1>2, <1>3, <1>8, <2>1
  <1>9. iter[1 .. 0] = b
    <2>1. 1 .. 0 = {} /\ {} \in SUBSET (1 .. n)
      OBVIOUS
    <2> QED BY <1>7, <2>1
  <1> DEFINE T == {k \in 0 .. n : iter[1 .. k] \in X}
             c == [k \in 0 .. n |-> iter[1 .. k]]
  <1>10. 0 .. n \subseteq T
    <2>1. 0 \in T
      BY <1>2, <1>9
    <2>2. ASSUME NEW k \in 1 .. n, k - 1 \in T
          PROVE  k \in T
      <3>1. iter[1 .. (k - 1)] \in X /\ s[k] \in I /\ k \in 0 .. n
        BY <1>2, <2>2
      <3> QED BY <1>3, <1>8, <3>1
    <2> HIDE DEF T
    <2> QED BY <1>2, <2>1, <2>2, StepByStep
  <1>11. ASSUME NEW k \in 1 .. n
         PROVE  c[k] = MadeIn(p, value, c[k - 1], s[k])
    <2>1. c[k - 1] = iter[1 .. (k - 1)] /\ c[k] = iter[1 .. k] /\ iter[1 .. (k - 1)] \in X
      BY <1>2, <1>10
    <2>2. s[k] \in I
      BY <1>2
    <2> HIDE DEF c
    <2> QED BY <1>3, <1>8, <2>1, <2>2
  <1>12. c \in [0 .. n -> X] /\ c[0] = b /\ c[n] = iter[DOMAIN s]
    BY <1>2, <1>9, <1>10
  <1> HIDE DEF c
  <1>13. MakeEntriesSteps(c, X, b, s, p, value)
    BY <1>1, <1>2, <1>11, <1>12 DEF MakeEntriesSteps, n
  <1> QED BY <1>13

\* They are joined one by one.
JoinEntriesSteps(c, X, b, s) ==
    /\ c \in [0 .. Len(s) -> X]
    /\ c[0] = b /\ Table!JoinEntries(b, s) = c[Len(s)]
    /\ \A k \in 1 .. Len(s) : c[k] = Joining(c[k - 1], s[k])

LEMMA JoinEntriesFold ==
    ASSUME NEW X, NEW I, NEW b \in X, NEW s \in Seq(I),
           \A x \in X, i \in I : Joining(x, i) \in X
    PROVE  \E c : JoinEntriesSteps(c, X, b, s)
  <1> DEFINE n == Len(s)
             g == [y \in X \X I |-> Joining(y[1], y[2])]
             IsFold(f) == f = [u \in SUBSET (DOMAIN s) |->
                 IF u = {} THEN b
                 ELSE Joining(f[u \ {Table!Max(u)}], s[Table!Max(u)])]
             iter == CHOOSE f : IsFold(f)
  <1>1. Table!JoinEntries(b, s) = iter[DOMAIN s]
    BY DEF Table!JoinEntries, Joining, Table!FoldLeft, Table!MapThenFoldSet, Table!Max
  <1>2. n \in Nat /\ DOMAIN s = 1 .. n /\ s \in [1 .. n -> I]
    OBVIOUS
  <1>3. g \in [X \X I -> X] /\ \A x \in X, i \in I : g[<<x, i>>] = Joining(x, i)
    OBVIOUS
  <1> HIDE DEF n, g, IsFold, iter
  <1>4. PICK h \in [SUBSET (1 .. n) -> X] : FoldOf(h, b, n, s, g)
    BY <1>2, <1>3, FoldExists
  <1>5. IsFold(h)
    <2>1. ASSUME NEW u \in SUBSET (1 .. n)
          PROVE  h[u] = IF u = {} THEN b
                        ELSE Joining(h[u \ {Table!Max(u)}], s[Table!Max(u)])
      <3>1. CASE u = {}
        BY <1>4, <3>1 DEF FoldOf
      <3>2. CASE u # {}
        <4>1. Table!Max(u) \in 1 .. n /\ u \ {Table!Max(u)} \in SUBSET (1 .. n)
          BY <1>2, <3>2, LargestIs
        <4>2. h[u \ {Table!Max(u)}] \in X /\ s[Table!Max(u)] \in I
          BY <1>2, <1>4, <4>1
        <4>3. h[u] = g[<<h[u \ {Table!Max(u)}], s[Table!Max(u)]>>]
          BY <1>4, <3>2 DEF FoldOf
        <4> QED BY <1>3, <3>2, <4>2, <4>3
      <3> QED BY <3>1, <3>2
    <2> QED BY <1>2, <1>4, <2>1 DEF IsFold
  <1>6. IsFold(iter)
    BY <1>5 DEF iter
  <1>7. ASSUME NEW u \in SUBSET (1 .. n)
        PROVE  iter[u] = IF u = {} THEN b
                         ELSE Joining(iter[u \ {Table!Max(u)}], s[Table!Max(u)])
    BY <1>2, <1>6 DEF IsFold
  <1>8. ASSUME NEW k \in 1 .. n, iter[1 .. (k - 1)] \in X
        PROVE  iter[1 .. k] = g[<<iter[1 .. (k - 1)], s[k]>>]
    <2>1. iter[1 .. k] = Joining(iter[1 .. (k - 1)], s[k])
      BY <1>2, <1>7, UpToLargest
    <2> QED BY <1>2, <1>3, <1>8, <2>1
  <1>9. iter[1 .. 0] = b
    <2>1. 1 .. 0 = {} /\ {} \in SUBSET (1 .. n)
      OBVIOUS
    <2> QED BY <1>7, <2>1
  <1> DEFINE T == {k \in 0 .. n : iter[1 .. k] \in X}
             c == [k \in 0 .. n |-> iter[1 .. k]]
  <1>10. 0 .. n \subseteq T
    <2>1. 0 \in T
      BY <1>2, <1>9
    <2>2. ASSUME NEW k \in 1 .. n, k - 1 \in T
          PROVE  k \in T
      <3>1. iter[1 .. (k - 1)] \in X /\ s[k] \in I /\ k \in 0 .. n
        BY <1>2, <2>2
      <3> QED BY <1>3, <1>8, <3>1
    <2> HIDE DEF T
    <2> QED BY <1>2, <2>1, <2>2, StepByStep
  <1>11. ASSUME NEW k \in 1 .. n
         PROVE  c[k] = Joining(c[k - 1], s[k])
    <2>1. c[k - 1] = iter[1 .. (k - 1)] /\ c[k] = iter[1 .. k] /\ iter[1 .. (k - 1)] \in X
      BY <1>2, <1>10
    <2>2. s[k] \in I
      BY <1>2
    <2> HIDE DEF c
    <2> QED BY <1>3, <1>8, <2>1, <2>2
  <1>12. c \in [0 .. n -> X] /\ c[0] = b /\ c[n] = iter[DOMAIN s]
    BY <1>2, <1>9, <1>10
  <1> HIDE DEF c
  <1>13. JoinEntriesSteps(c, X, b, s)
    BY <1>1, <1>2, <1>11, <1>12 DEF JoinEntriesSteps, n
  <1> QED BY <1>13

\* The renamed paths are inserted one by one.
InsertRenamedSteps(c, X, b, s, old, new) ==
    /\ c \in [0 .. Len(s) -> X]
    /\ c[0] = b /\ Table!InsertRenamed(b, s, old, new) = c[Len(s)]
    /\ \A k \in 1 .. Len(s) : c[k] = RenamedIn(old, new, c[k - 1], s[k])

LEMMA InsertRenamedFold ==
    ASSUME NEW old, NEW new, NEW X, NEW I, NEW b \in X, NEW s \in Seq(I),
           \A x \in X, i \in I : RenamedIn(old, new, x, i) \in X
    PROVE  \E c : InsertRenamedSteps(c, X, b, s, old, new)
  <1> DEFINE n == Len(s)
             g == [y \in X \X I |-> RenamedIn(old, new, y[1], y[2])]
             IsFold(f) == f = [u \in SUBSET (DOMAIN s) |->
                 IF u = {} THEN b
                 ELSE RenamedIn(old, new, f[u \ {Table!Max(u)}], s[Table!Max(u)])]
             iter == CHOOSE f : IsFold(f)
  <1>1. Table!InsertRenamed(b, s, old, new) = iter[DOMAIN s]
    BY DEF Table!InsertRenamed, RenamedIn, Table!FoldLeft, Table!MapThenFoldSet, Table!Max
  <1>2. n \in Nat /\ DOMAIN s = 1 .. n /\ s \in [1 .. n -> I]
    OBVIOUS
  <1>3. g \in [X \X I -> X] /\ \A x \in X, i \in I : g[<<x, i>>] = RenamedIn(old, new, x, i)
    OBVIOUS
  <1> HIDE DEF n, g, IsFold, iter
  <1>4. PICK h \in [SUBSET (1 .. n) -> X] : FoldOf(h, b, n, s, g)
    BY <1>2, <1>3, FoldExists
  <1>5. IsFold(h)
    <2>1. ASSUME NEW u \in SUBSET (1 .. n)
          PROVE  h[u] = IF u = {} THEN b
                        ELSE RenamedIn(old, new, h[u \ {Table!Max(u)}], s[Table!Max(u)])
      <3>1. CASE u = {}
        BY <1>4, <3>1 DEF FoldOf
      <3>2. CASE u # {}
        <4>1. Table!Max(u) \in 1 .. n /\ u \ {Table!Max(u)} \in SUBSET (1 .. n)
          BY <1>2, <3>2, LargestIs
        <4>2. h[u \ {Table!Max(u)}] \in X /\ s[Table!Max(u)] \in I
          BY <1>2, <1>4, <4>1
        <4>3. h[u] = g[<<h[u \ {Table!Max(u)}], s[Table!Max(u)]>>]
          BY <1>4, <3>2 DEF FoldOf
        <4> QED BY <1>3, <3>2, <4>2, <4>3
      <3> QED BY <3>1, <3>2
    <2> QED BY <1>2, <1>4, <2>1 DEF IsFold
  <1>6. IsFold(iter)
    BY <1>5 DEF iter
  <1>7. ASSUME NEW u \in SUBSET (1 .. n)
        PROVE  iter[u] = IF u = {} THEN b
                         ELSE RenamedIn(old, new, iter[u \ {Table!Max(u)}], s[Table!Max(u)])
    BY <1>2, <1>6 DEF IsFold
  <1>8. ASSUME NEW k \in 1 .. n, iter[1 .. (k - 1)] \in X
        PROVE  iter[1 .. k] = g[<<iter[1 .. (k - 1)], s[k]>>]
    <2>1. iter[1 .. k] = RenamedIn(old, new, iter[1 .. (k - 1)], s[k])
      BY <1>2, <1>7, UpToLargest
    <2> QED BY <1>2, <1>3, <1>8, <2>1
  <1>9. iter[1 .. 0] = b
    <2>1. 1 .. 0 = {} /\ {} \in SUBSET (1 .. n)
      OBVIOUS
    <2> QED BY <1>7, <2>1
  <1> DEFINE T == {k \in 0 .. n : iter[1 .. k] \in X}
             c == [k \in 0 .. n |-> iter[1 .. k]]
  <1>10. 0 .. n \subseteq T
    <2>1. 0 \in T
      BY <1>2, <1>9
    <2>2. ASSUME NEW k \in 1 .. n, k - 1 \in T
          PROVE  k \in T
      <3>1. iter[1 .. (k - 1)] \in X /\ s[k] \in I /\ k \in 0 .. n
        BY <1>2, <2>2
      <3> QED BY <1>3, <1>8, <3>1
    <2> HIDE DEF T
    <2> QED BY <1>2, <2>1, <2>2, StepByStep
  <1>11. ASSUME NEW k \in 1 .. n
         PROVE  c[k] = RenamedIn(old, new, c[k - 1], s[k])
    <2>1. c[k - 1] = iter[1 .. (k - 1)] /\ c[k] = iter[1 .. k] /\ iter[1 .. (k - 1)] \in X
      BY <1>2, <1>10
    <2>2. s[k] \in I
      BY <1>2
    <2> HIDE DEF c
    <2> QED BY <1>3, <1>8, <2>1, <2>2
  <1>12. c \in [0 .. n -> X] /\ c[0] = b /\ c[n] = iter[DOMAIN s]
    BY <1>2, <1>9, <1>10
  <1> HIDE DEF c
  <1>13. InsertRenamedSteps(c, X, b, s, old, new)
    BY <1>1, <1>2, <1>11, <1>12 DEF InsertRenamedSteps, n
  <1> QED BY <1>13

\* The entries are copied one by one.
CopyEntriesSteps(c, X, b, s, t) ==
    /\ c \in [0 .. Len(s) -> X]
    /\ c[0] = b /\ Table!CopyEntries(t, b, s) = c[Len(s)]
    /\ \A k \in 1 .. Len(s) : c[k] = Table!CopyEntry(t, c[k - 1], s[k])

LEMMA CopyEntriesFold ==
    ASSUME NEW t, NEW X, NEW I, NEW b \in X, NEW s \in Seq(I),
           \A x \in X, i \in I : Table!CopyEntry(t, x, i) \in X
    PROVE  \E c : CopyEntriesSteps(c, X, b, s, t)
  <1> DEFINE n == Len(s)
             g == [y \in X \X I |-> Table!CopyEntry(t, y[1], y[2])]
             IsFold(f) == f = [u \in SUBSET (DOMAIN s) |->
                 IF u = {} THEN b
                 ELSE Table!CopyEntry(t, f[u \ {Table!Max(u)}], s[Table!Max(u)])]
             iter == CHOOSE f : IsFold(f)
  <1>1. Table!CopyEntries(t, b, s) = iter[DOMAIN s]
    BY DEF Table!CopyEntries, Table!FoldLeft, Table!MapThenFoldSet, Table!Max
  <1>2. n \in Nat /\ DOMAIN s = 1 .. n /\ s \in [1 .. n -> I]
    OBVIOUS
  <1>3. g \in [X \X I -> X] /\ \A x \in X, i \in I : g[<<x, i>>] = Table!CopyEntry(t, x, i)
    OBVIOUS
  <1> HIDE DEF n, g, IsFold, iter
  <1>4. PICK h \in [SUBSET (1 .. n) -> X] : FoldOf(h, b, n, s, g)
    BY <1>2, <1>3, FoldExists
  <1>5. IsFold(h)
    <2>1. ASSUME NEW u \in SUBSET (1 .. n)
          PROVE  h[u] = IF u = {} THEN b
                        ELSE Table!CopyEntry(t, h[u \ {Table!Max(u)}], s[Table!Max(u)])
      <3>1. CASE u = {}
        BY <1>4, <3>1 DEF FoldOf
      <3>2. CASE u # {}
        <4>1. Table!Max(u) \in 1 .. n /\ u \ {Table!Max(u)} \in SUBSET (1 .. n)
          BY <1>2, <3>2, LargestIs
        <4>2. h[u \ {Table!Max(u)}] \in X /\ s[Table!Max(u)] \in I
          BY <1>2, <1>4, <4>1
        <4>3. h[u] = g[<<h[u \ {Table!Max(u)}], s[Table!Max(u)]>>]
          BY <1>4, <3>2 DEF FoldOf
        <4> QED BY <1>3, <3>2, <4>2, <4>3
      <3> QED BY <3>1, <3>2
    <2> QED BY <1>2, <1>4, <2>1 DEF IsFold
  <1>6. IsFold(iter)
    BY <1>5 DEF iter
  <1>7. ASSUME NEW u \in SUBSET (1 .. n)
        PROVE  iter[u] = IF u = {} THEN b
                         ELSE Table!CopyEntry(t, iter[u \ {Table!Max(u)}], s[Table!Max(u)])
    BY <1>2, <1>6 DEF IsFold
  <1>8. ASSUME NEW k \in 1 .. n, iter[1 .. (k - 1)] \in X
        PROVE  iter[1 .. k] = g[<<iter[1 .. (k - 1)], s[k]>>]
    <2>1. iter[1 .. k] = Table!CopyEntry(t, iter[1 .. (k - 1)], s[k])
      BY <1>2, <1>7, UpToLargest
    <2> QED BY <1>2, <1>3, <1>8, <2>1
  <1>9. iter[1 .. 0] = b
    <2>1. 1 .. 0 = {} /\ {} \in SUBSET (1 .. n)
      OBVIOUS
    <2> QED BY <1>7, <2>1
  <1> DEFINE T == {k \in 0 .. n : iter[1 .. k] \in X}
             c == [k \in 0 .. n |-> iter[1 .. k]]
  <1>10. 0 .. n \subseteq T
    <2>1. 0 \in T
      BY <1>2, <1>9
    <2>2. ASSUME NEW k \in 1 .. n, k - 1 \in T
          PROVE  k \in T
      <3>1. iter[1 .. (k - 1)] \in X /\ s[k] \in I /\ k \in 0 .. n
        BY <1>2, <2>2
      <3> QED BY <1>3, <1>8, <3>1
    <2> HIDE DEF T
    <2> QED BY <1>2, <2>1, <2>2, StepByStep
  <1>11. ASSUME NEW k \in 1 .. n
         PROVE  c[k] = Table!CopyEntry(t, c[k - 1], s[k])
    <2>1. c[k - 1] = iter[1 .. (k - 1)] /\ c[k] = iter[1 .. k] /\ iter[1 .. (k - 1)] \in X
      BY <1>2, <1>10
    <2>2. s[k] \in I
      BY <1>2
    <2> HIDE DEF c
    <2> QED BY <1>3, <1>8, <2>1, <2>2
  <1>12. c \in [0 .. n -> X] /\ c[0] = b /\ c[n] = iter[DOMAIN s]
    BY <1>2, <1>9, <1>10
  <1> HIDE DEF c
  <1>13. CopyEntriesSteps(c, X, b, s, t)
    BY <1>1, <1>2, <1>11, <1>12 DEF CopyEntriesSteps, n
  <1> QED BY <1>13

-----------------------------------------------------------------------------
(* The hash table.                                                         *)

HeldIn(s) == Table!ToSet(s)
Once(s) == Table!IsInjective(s)

TableEntry == [value : TableValues \cup {TableDefault}, first : TablePaths \cup {Nobody},
          next : TablePaths \cup {Nobody}, sibling : BOOLEAN]
Blank(value) == Table!Entry(value)
EntryMaps == UNION {[D -> TableEntry] : D \in SUBSET TablePaths}
Chains == Seq(Seq(TablePaths))

\* The chains hold each path of D once, in the bucket of its hash.
Place(B, p) == (TableHash(p) % Len(B)) + 1
Filed(B, D) ==
    /\ B = <<>> => D = {}
    /\ \A i \in 1 .. Len(B) : Once(B[i]) /\ HeldIn(B[i]) = {p \in D : Place(B, p) = i}

WellFiled(t) ==
    /\ t \in [nodes : EntryMaps, buckets : Chains]
    /\ Filed(t.buckets, DOMAIN t.nodes)
FiledTables == {t \in [nodes : EntryMaps, buckets : Chains] : WellFiled(t)}

\* Functions from paths to entries.
LEMMA EntryMapsAre ==
    /\ \A N \in EntryMaps : /\ DOMAIN N \in SUBSET TablePaths /\ N \in [DOMAIN N -> TableEntry]
                            /\ \A p \in DOMAIN N : N[p] \in TableEntry
    /\ \A D \in SUBSET TablePaths : [D -> TableEntry] \subseteq EntryMaps
  BY DEF EntryMaps

\* A path has a bucket.
LEMMA PlaceIs ==
    ASSUME TableConstants, NEW B \in Chains, B # <<>>, NEW p \in TablePaths
    PROVE  Place(B, p) \in 1 .. Len(B) /\ Len(B) \in Nat \ {0}
  <1>1. Len(B) \in Nat \ {0}
    BY DEF Chains
  <1>2. TableHash(p) \in Nat
    BY DEF TableConstants, TablePaths
  <1>3. TableHash(p) % Len(B) \in 0 .. Len(B) - 1
    BY <1>1, <1>2
  <1> QED BY <1>1, <1>3 DEF Place

\* Find finds the paths that have entries.
LEMMA FoundIs ==
    ASSUME TableConstants, NEW t, WellFiled(t), NEW p \in TablePaths
    PROVE  /\ Table!Find(t, p) <=> p \in DOMAIN t.nodes
           /\ Table!BucketOf(t, p) = Place(t.buckets, p)
           /\ t.buckets = <<>> => t.nodes = <<>>
  <1>1. t.buckets \in Chains /\ t.nodes \in EntryMaps /\ Filed(t.buckets, DOMAIN t.nodes)
    BY DEF WellFiled
  <1>2. Table!BucketOf(t, p) = Place(t.buckets, p)
    BY DEF Table!BucketOf, Place
  <1>3. CASE t.buckets = <<>>
    <2>1. DOMAIN t.nodes = {} /\ t.nodes \in [{} -> TableEntry]
      BY <1>1, <1>3, EntryMapsAre DEF Filed
    <2>2. t.nodes = <<>>
      BY <2>1
    <2> QED BY <1>2, <1>3, <2>1, <2>2 DEF Table!Find
  <1>4. CASE t.buckets # <<>>
    <2>1. Place(t.buckets, p) \in 1 .. Len(t.buckets)
      BY <1>1, <1>4, PlaceIs
    <2>2. HeldIn(t.buckets[Place(t.buckets, p)]) =
              {q \in DOMAIN t.nodes : Place(t.buckets, q) = Place(t.buckets, p)}
      BY <1>1, <2>1 DEF Filed
    <2>3. Table!Find(t, p) <=> p \in HeldIn(t.buckets[Place(t.buckets, p)])
      BY <1>2, <1>4 DEF Table!Find, HeldIn
    <2> QED BY <1>2, <1>4, <2>2, <2>3
  <1> QED BY <1>3, <1>4

\* Lists joined, and items at the end and in front of a list.
LEMMA BothHeld ==
    ASSUME NEW S, NEW a \in Seq(S), NEW b \in Seq(S)
    PROVE  /\ a \o b \in Seq(S) /\ HeldIn(a \o b) = HeldIn(a) \cup HeldIn(b)
           /\ Once(a) /\ Once(b) /\ HeldIn(a) \cap HeldIn(b) = {} => Once(a \o b)
  <1> DEFINE c == a \o b
  <1>1. /\ c \in Seq(S) /\ Len(c) = Len(a) + Len(b) /\ Len(a) \in Nat /\ Len(b) \in Nat
        /\ DOMAIN a = 1 .. Len(a) /\ DOMAIN b = 1 .. Len(b) /\ DOMAIN c = 1 .. Len(c)
        /\ \A i \in 1 .. Len(c) : c[i] = IF i <= Len(a) THEN a[i] ELSE b[i - Len(a)]
    OBVIOUS
  <1> HIDE DEF c
  <1>2. ASSUME NEW i \in DOMAIN c
        PROVE  \/ i \in DOMAIN a /\ c[i] = a[i]
               \/ i > Len(a) /\ i - Len(a) \in DOMAIN b /\ c[i] = b[i - Len(a)]
    BY <1>1
  <1>3. \A i \in DOMAIN a : i \in DOMAIN c /\ c[i] = a[i]
    BY <1>1
  <1>4. ASSUME NEW i \in DOMAIN b
        PROVE  Len(a) + i \in DOMAIN c /\ c[Len(a) + i] = b[i]
    <2>1. Len(a) + i \in 1 .. Len(c) /\ ~ (Len(a) + i <= Len(a)) /\ (Len(a) + i) - Len(a) = i
      BY <1>1
    <2> QED BY <1>1, <2>1
  <1>5. HeldIn(c) = HeldIn(a) \cup HeldIn(b)
    BY <1>2, <1>3, <1>4 DEF HeldIn, Table!ToSet
  <1>6. ASSUME Once(a), Once(b), HeldIn(a) \cap HeldIn(b) = {}
        PROVE  Once(c)
    <2> SUFFICES ASSUME NEW i \in DOMAIN c, NEW j \in DOMAIN c, c[i] = c[j]
                 PROVE  i = j
      BY DEF Once, Table!IsInjective
    <2>1. \A x \in DOMAIN a, y \in DOMAIN b : a[x] # b[y]
      BY <1>6 DEF HeldIn, Table!ToSet
    <2>2. CASE i \in DOMAIN a /\ c[i] = a[i]
      <3>1. j \in DOMAIN a /\ c[j] = a[j]
        BY <1>2, <2>1, <2>2
      <3> QED BY <1>6, <2>2, <3>1 DEF Once, Table!IsInjective
    <2>3. CASE i > Len(a) /\ i - Len(a) \in DOMAIN b /\ c[i] = b[i - Len(a)]
      <3>1. j > Len(a) /\ j - Len(a) \in DOMAIN b /\ c[j] = b[j - Len(a)]
        BY <1>2, <2>1, <2>3
      <3>2. i - Len(a) = j - Len(a)
        BY <1>6, <2>3, <3>1 DEF Once, Table!IsInjective
      <3> QED BY <1>1, <2>3, <3>1, <3>2
    <2> QED BY <1>2, <2>2, <2>3
  <1> QED BY <1>1, <1>5, <1>6 DEF c

\* A list of one item.
LEMMA OneHeld ==
    ASSUME NEW S, NEW x \in S
    PROVE  /\ <<x>> \in Seq(S) /\ HeldIn(<<x>>) = {x} /\ Once(<<x>>)
           /\ <<>> \in Seq(S) /\ HeldIn(<<>>) = {} /\ Once(<<>>)
  <1>1. DOMAIN <<x>> = {1} /\ <<x>>[1] = x /\ <<x>> \in Seq(S)
    OBVIOUS
  <1>2. HeldIn(<<x>>) = {x} /\ Once(<<x>>)
    BY <1>1 DEF HeldIn, Once, Table!ToSet, Table!IsInjective
  <1>3. HeldIn(<<>>) = {} /\ Once(<<>>)
    BY DEF HeldIn, Once, Table!ToSet, Table!IsInjective
  <1> QED BY <1>1, <1>2, <1>3

\* The empty list.
LEMMA NoneHeld ==
    ASSUME NEW S
    PROVE  <<>> \in Seq(S) /\ HeldIn(<<>>) = {} /\ Once(<<>>)
  BY DEF HeldIn, Once, Table!ToSet, Table!IsInjective

\* FlattenSeq of the community modules, of the chains of a table.
LEMMA FlattenIs ==
    ASSUME TableConstants, NEW B \in Chains, NEW D \in SUBSET TablePaths, Filed(B, D)
    PROVE  /\ Table!FlattenSeq(B) \in Seq(TablePaths) /\ Once(Table!FlattenSeq(B))
           /\ HeldIn(Table!FlattenSeq(B)) = D
  <1> DEFINE n == Len(B)
             IsFlat(f) == f = [i \in 1 .. n |-> IF i = 1 THEN B[i] ELSE f[i - 1] \o B[i]]
             flat == CHOOSE f : IsFlat(f)
             Upto(i) == {p \in D : Place(B, p) \in 1 .. i}
             Right(s, i) == s \in Seq(TablePaths) /\ Once(s) /\ HeldIn(s) = Upto(i)
  <1>1. Table!FlattenSeq(B) = IF n = 0 THEN B ELSE flat[n]
    BY DEF Table!FlattenSeq
  <1>2. n \in Nat /\ \A i \in 1 .. n : B[i] \in Seq(TablePaths)
    BY DEF Chains
  <1>3. \A i \in 1 .. n : Once(B[i]) /\ HeldIn(B[i]) = {p \in D : Place(B, p) = i}
    BY DEF Filed
  <1> HIDE DEF n, IsFlat, flat
  <1>4. CASE n = 0
    <2>1. B = <<>> /\ D = {}
      BY <1>4 DEF n, Filed, Chains
    <2> QED BY <1>1, <1>4, <2>1, NoneHeld
  <1>5. CASE n # 0
    <2> DEFINE Upon(k, f) ==
                   \A i \in 1 .. k : f[i] = IF i = 1 THEN B[i] ELSE f[i - 1] \o B[i]
               T == {k \in 0 .. n : \E f \in [1 .. k -> Seq(TablePaths)] : Upon(k, f)}
    <2>1. 0 \in T
      <3> DEFINE f == [i \in 1 .. 0 |-> <<>>]
      <3>1. f \in [1 .. 0 -> Seq(TablePaths)] /\ Upon(0, f)
        OBVIOUS
      <3> HIDE DEF f, Upon
      <3>2. \E e \in [1 .. 0 -> Seq(TablePaths)] : Upon(0, e)
        BY <3>1, Zenon
      <3>3. 0 \in 0 .. n
        BY <1>2
      <3> QED BY <3>2, <3>3, Zenon
    <2>2. ASSUME NEW k \in 1 .. n, k - 1 \in T
          PROVE  k \in T
      <3>1. PICK f \in [1 .. (k - 1) -> Seq(TablePaths)] : Upon(k - 1, f)
        BY <2>2
      <3> DEFINE last == IF k = 1 THEN B[k] ELSE f[k - 1] \o B[k]
                 h == [i \in 1 .. k |-> IF i = k THEN last ELSE f[i]]
      <3>2. last \in Seq(TablePaths)
        <4>1. B[k] \in Seq(TablePaths)
          BY <1>2
        <4>2. CASE k = 1
          BY <4>1, <4>2
        <4>3. CASE k # 1
          <5>1. f[k - 1] \in Seq(TablePaths)
            BY <1>2, <4>3
          <5> QED BY <4>1, <4>3, <5>1
        <4> QED BY <4>2, <4>3
      <3>3. h \in [1 .. k -> Seq(TablePaths)]
        <4> HIDE DEF last
        <4>1. \A i \in 1 .. k : i # k => i \in 1 .. k - 1
          BY <1>2
        <4> QED BY <3>2, <4>1
      <3>4. ASSUME NEW i \in 1 .. k
            PROVE  h[i] = IF i = 1 THEN B[i] ELSE h[i - 1] \o B[i]
        <4>1. CASE i = k
          <5>1. k # 1 => h[k - 1] = f[k - 1]
            BY <1>2
          <5> QED BY <4>1, <5>1
        <4>2. CASE i # k
          <5>1. i \in 1 .. k - 1 /\ h[i] = f[i]
            BY <1>2, <4>2
          <5>2. i # 1 => h[i - 1] = f[i - 1]
            BY <1>2, <4>2
          <5> HIDE DEF h
          <5> QED BY <3>1, <5>1, <5>2
        <4> QED BY <4>1, <4>2
      <3>5. Upon(k, h)
        <4> HIDE DEF h
        <4> QED BY <3>4
      <3> HIDE DEF h, Upon
      <3> QED BY <1>2, <3>3, <3>5
    <2>3. n \in T
      <3> HIDE DEF T
      <3>1. 0 .. n \subseteq T
        BY <1>2, <2>1, <2>2, StepByStep
      <3> QED BY <1>2, <3>1
    <2>4. PICK f \in [1 .. n -> Seq(TablePaths)] : Upon(n, f)
      BY <2>3
    <2>5. IsFlat(f)
      BY <2>4 DEF IsFlat
    <2>6. IsFlat(flat)
      BY <2>5 DEF flat
    <2>7. \A i \in 1 .. n : flat[i] = IF i = 1 THEN B[i] ELSE flat[i - 1] \o B[i]
      BY <2>6 DEF IsFlat
    <2> DEFINE U == {k \in 0 .. n : k # 0 => Right(flat[k], k)}
    <2>8. ASSUME NEW k \in 1 .. n, k - 1 \in U
          PROVE  k \in U
      <3>1. B[k] \in Seq(TablePaths) /\ Once(B[k]) /\ HeldIn(B[k]) = {p \in D : Place(B, p) = k}
        BY <1>2, <1>3
      <3>2. CASE k = 1
        <4>1. HeldIn(B[k]) = Upto(k)
          <5>1. \A i : i \in 1 .. 1 <=> i = 1
            OBVIOUS
          <5> QED BY <3>1, <3>2, <5>1
        <4>2. flat[k] = B[k]
          BY <2>7, <3>2
        <4> QED BY <1>2, <3>1, <4>1, <4>2
      <3>3. CASE k # 1
        <4>1. Right(flat[k - 1], k - 1)
          BY <1>2, <2>8, <3>3
        <4>2. flat[k] = flat[k - 1] \o B[k]
          BY <2>7, <3>3
        <4>3. \A i : i \in 1 .. k <=> i = k \/ i \in 1 .. k - 1
          BY <1>2
        <4>4. Upto(k) = Upto(k - 1) \cup {p \in D : Place(B, p) = k}
          BY <4>3
        <4>5. Upto(k - 1) \cap {p \in D : Place(B, p) = k} = {}
          BY <1>2
        <4> HIDE DEF Upto
        <4>6. Right(flat[k], k)
          BY <3>1, <4>1, <4>2, <4>4, <4>5, BothHeld
        <4> QED BY <1>2, <4>6
      <3> QED BY <3>2, <3>3
    <2>9. Right(flat[n], n)
      <3>1. 0 \in U
        BY <1>2
      <3>2. 0 .. n \subseteq U
        <4> HIDE DEF U
        <4> QED BY <1>2, <2>8, <3>1, StepByStep
      <3> QED BY <1>2, <1>5, <3>2
    <2>10. Upto(n) = D
      <3>1. B # <<>>
        BY <1>5 DEF n
      <3>2. \A p \in D : Place(B, p) \in 1 .. n
        BY <3>1, PlaceIs DEF n
      <3> QED BY <3>2
    <2> QED BY <1>1, <1>5, <2>9, <2>10
  <1> QED BY <1>4, <1>5

\* Pushing puts a path in front of one chain.
LEMMA PushIs ==
    ASSUME TableConstants, NEW B \in Chains, NEW D \in SUBSET TablePaths, Filed(B, D), B # <<>>,
           NEW p \in TablePaths, p \notin D
    PROVE  /\ Table!Push(B, Place(B, p), p) \in Chains
           /\ Len(Table!Push(B, Place(B, p), p)) = Len(B)
           /\ Filed(Table!Push(B, Place(B, p), p), D \cup {p})
  <1> DEFINE i == Place(B, p)
             C == Table!Push(B, i, p)
  <1>1. i \in 1 .. Len(B) /\ Len(B) \in Nat \ {0} /\ DOMAIN B = 1 .. Len(B)
    BY PlaceIs DEF Chains
  <1>2. B[i] \in Seq(TablePaths) /\ <<p>> \in Seq(TablePaths)
    BY <1>1 DEF Chains
  <1> HIDE DEF i
  <1>3. C = [B EXCEPT ![i] = <<p>> \o B[i]]
    BY DEF Table!Push
  <1>4. <<p>> \o B[i] \in Seq(TablePaths)
    BY <1>2, BothHeld
  <1> HIDE DEF C
  <1>5. C \in Chains /\ Len(C) = Len(B)
    BY <1>1, <1>3, <1>4 DEF Chains
  <1>6. \A j \in 1 .. Len(B) : C[j] = IF j = i THEN <<p>> \o B[i] ELSE B[j]
    BY <1>1, <1>3
  <1>7. \A q : Place(C, q) = Place(B, q)
    BY <1>5 DEF Place
  <1>8. \A j \in 1 .. Len(B) : Once(B[j]) /\ HeldIn(B[j]) = {q \in D : Place(B, q) = j}
    BY DEF Filed
  <1>9. ASSUME NEW j \in 1 .. Len(B)
        PROVE  Once(C[j]) /\ HeldIn(C[j]) = {q \in D \cup {p} : Place(B, q) = j}
    <2>1. CASE j = i
      <3>1. HeldIn(<<p>>) = {p} /\ Once(<<p>>)
        BY OneHeld
      <3>2. p \notin HeldIn(B[i]) /\ Once(B[i])
        BY <1>1, <1>8
      <3>5. HeldIn(<<p>>) \cap HeldIn(B[i]) = {}
        BY <3>1, <3>2, Zenon
      <3>6. /\ HeldIn(<<p>> \o B[i]) = HeldIn(<<p>>) \cup HeldIn(B[i])
            /\ Once(<<p>>) /\ Once(B[i]) /\ HeldIn(<<p>>) \cap HeldIn(B[i]) = {} => Once(<<p>> \o B[i])
        BY <1>2, BothHeld, ZenonT(30)
      <3>3. Once(<<p>> \o B[i]) /\ HeldIn(<<p>> \o B[i]) = {p} \cup HeldIn(B[i])
        BY <3>1, <3>2, <3>5, <3>6, Zenon
      <3>4. Place(B, p) = i
        BY DEF i
      <3> QED BY <1>1, <1>6, <1>8, <2>1, <3>3, <3>4
    <2>2. CASE j # i
      <3>1. Place(B, p) # j
        BY <2>2 DEF i
      <3> QED BY <1>6, <1>8, <2>2, <3>1
    <2> QED BY <2>1, <2>2
  <1>10. C # <<>>
    BY <1>1, <1>5
  <1>11. Filed(C, D \cup {p})
    BY <1>5, <1>7, <1>9, <1>10 DEF Filed
  <1> QED BY <1>5, <1>11 DEF C, i

\* Empty chains hold nothing.
LEMMA EmptyChains ==
    ASSUME NEW size \in Nat
    PROVE  /\ [i \in 1 .. size |-> <<>>] \in Chains /\ Len([i \in 1 .. size |-> <<>>]) = size
           /\ Filed([i \in 1 .. size |-> <<>>], {})
  <1> DEFINE B == [i \in 1 .. size |-> <<>>]
  <1>1. B \in Chains /\ Len(B) = size /\ \A i \in 1 .. size : B[i] = <<>>
    BY DEF Chains
  <1>2. Once(<<>>) /\ HeldIn(<<>>) = {}
    BY NoneHeld
  <1> HIDE DEF B
  <1>3. Filed(B, {})
    BY <1>1, <1>2 DEF Filed
  <1> QED BY <1>1, <1>3 DEF B

\* The entries of a list in new buckets.
LEMMA RehashedIs ==
    ASSUME TableConstants, NEW s \in Seq(TablePaths), Once(s), NEW size \in Nat \ {0}
    PROVE  /\ Table!Rehashed(s, size) \in Chains /\ Len(Table!Rehashed(s, size)) = size
           /\ Filed(Table!Rehashed(s, size), HeldIn(s))
  <1> DEFINE X == {B \in Chains : Len(B) = size}
             b == [i \in 1 .. size |-> <<>>]
             Done(k) == {s[j] : j \in 1 .. k}
  <1>1. b \in X /\ Filed(b, {})
    BY EmptyChains
  <1>2. ASSUME NEW B \in X, NEW p \in TablePaths
        PROVE  Pushed(size, B, p) \in X /\ Pushed(size, B, p) = Table!Push(B, Place(B, p), p)
    <2>1. Len(B) = size /\ B \in Chains /\ B # <<>>
      OBVIOUS
    <2>2. Pushed(size, B, p) = Table!Push(B, Place(B, p), p)
      BY <2>1 DEF Pushed, Place
    <2>3. Place(B, p) \in 1 .. Len(B) /\ DOMAIN B = 1 .. Len(B) /\ B[Place(B, p)] \in Seq(TablePaths)
      BY <2>1, PlaceIs DEF Chains
    <2>4. <<p>> \o B[Place(B, p)] \in Seq(TablePaths)
      BY <2>3
    <2>5. Table!Push(B, Place(B, p), p) = [B EXCEPT ![Place(B, p)] = <<p>> \o B[Place(B, p)]]
      BY DEF Table!Push
    <2>6. Table!Push(B, Place(B, p), p) \in X
      BY <2>1, <2>3, <2>4, <2>5 DEF Chains
    <2> QED BY <2>2, <2>6
  <1>3. PICK c : RehashedSteps(c, X, b, s, size)
    <2>1. \A B \in X, p \in TablePaths : Pushed(size, B, p) \in X
      BY <1>2
    <2> HIDE DEF X
    <2> DEFINE b0 == b
    <2>2. b0 = [i \in 1 .. size |-> <<>>] /\ b0 \in X
      BY <1>1
    <2> HIDE DEF b0, b
    <2>3. \E c : RehashedSteps(c, X, b0, s, size)
      BY <2>1, <2>2, RehashedFold
    <2> QED BY <2>3 DEF b0
  <1>10. /\ c \in [0 .. Len(s) -> X] /\ c[0] = b /\ Table!Rehashed(s, size) = c[Len(s)]
         /\ \A k \in 1 .. Len(s) : c[k] = Pushed(size, c[k - 1], s[k])
    BY <1>3 DEF RehashedSteps
  <1> HIDE DEF b
  <1> DEFINE T == {k \in 0 .. Len(s) : Filed(c[k], Done(k))}
  <1>4. Len(s) \in Nat /\ \A k \in 1 .. Len(s) : s[k] \in TablePaths
    OBVIOUS
  <1>5. 0 \in T
    <2>1. Done(0) = {}
      OBVIOUS
    <2>2. 0 \in 0 .. Len(s)
      BY <1>4
    <2> HIDE DEF Done
    <2>3. Filed(c[0], Done(0))
      BY <1>1, <1>10, <2>1, Zenon
    <2> QED BY <2>2, <2>3, Zenon
  <1>6. ASSUME NEW k \in 1 .. Len(s), k - 1 \in T
        PROVE  k \in T
    <2>1. c[k - 1] \in X /\ Filed(c[k - 1], Done(k - 1)) /\ k \in 0 .. Len(s)
      BY <1>10, <1>4, <1>6
    <2>2. c[k - 1] \in Chains /\ c[k - 1] # <<>>
      BY <2>1
    <2>3. c[k] = Table!Push(c[k - 1], Place(c[k - 1], s[k]), s[k])
      BY <1>2, <1>10, <1>4, <2>1
    <2>4. \A j : j \in 1 .. k <=> j = k \/ j \in 1 .. (k - 1)
      BY <1>4
    <2>5. Done(k) = Done(k - 1) \cup {s[k]}
      BY <2>4
    <2>6. Done(k - 1) \in SUBSET TablePaths
      BY <1>4
    <2>7. s[k] \notin Done(k - 1)
      <3>1. ASSUME NEW j \in 1 .. (k - 1)
            PROVE  s[j] # s[k]
        <4>1. j \in DOMAIN s /\ k \in DOMAIN s /\ j # k
          BY <1>4
        <4> QED BY <4>1 DEF Once, Table!IsInjective
      <3> QED BY <3>1
    <2> HIDE DEF Done, X
    <2>8. Filed(c[k], Done(k))
      BY <1>4, <2>1, <2>2, <2>3, <2>5, <2>6, <2>7, PushIs
    <2> QED BY <2>1, <2>8
  <1>7. Filed(c[Len(s)], Done(Len(s)))
    <2> HIDE DEF T
    <2>1. 0 .. Len(s) \subseteq T
      BY <1>4, <1>5, <1>6, StepByStep
    <2>2. Len(s) \in T
      BY <1>4, <2>1
    <2> QED BY <2>2 DEF T
  <1>8. Done(Len(s)) = HeldIn(s)
    BY DEF HeldIn, Table!ToSet
  <1>9. c[Len(s)] \in X
    BY <1>10, <1>4
  <1> QED BY <1>10, <1>7, <1>8, <1>9

TableRecords == [nodes : EntryMaps, buckets : Chains]

\* Growing keeps the entries and files each by its hash.
LEMMA GrowIs ==
    ASSUME TableConstants, NEW t, WellFiled(t)
    PROVE  /\ WellFiled(Table!Grow(t)) /\ Table!Grow(t).nodes = t.nodes
           /\ Table!Grow(t).buckets # <<>>
  <1> DEFINE size == IF t.buckets = <<>> THEN TableMask + 1 ELSE 2 * Len(t.buckets)
             D == DOMAIN t.nodes
             s == Table!FlattenSeq(t.buckets)
             B == Table!Rehashed(s, size)
  <1>1. t \in TableRecords /\ t.buckets \in Chains /\ Filed(t.buckets, D) /\ t.nodes \in EntryMaps
    BY DEF WellFiled, TableRecords
  <1>2. size \in Nat \ {0}
    <2>1. CASE t.buckets = <<>>
      BY <2>1 DEF TableConstants
    <2>2. CASE t.buckets # <<>>
      BY <1>1, <2>2 DEF Chains
    <2> QED BY <2>1, <2>2
  <1>3. D \in SUBSET TablePaths
    BY <1>1, EntryMapsAre
  <1> HIDE DEF D
  <1>4. s \in Seq(TablePaths) /\ Once(s) /\ HeldIn(s) = D
    BY <1>1, <1>3, FlattenIs
  <1>5. Table!Grow(t) = [t EXCEPT !.buckets = B]
    BY DEF Table!Grow
  <1> HIDE DEF size, s
  <1>6. B \in Chains /\ Len(B) = size /\ Filed(B, D)
    BY <1>2, <1>4, RehashedIs
  <1> HIDE DEF B
  <1>7. /\ Table!Grow(t) \in TableRecords /\ Table!Grow(t).nodes = t.nodes
        /\ Table!Grow(t).buckets = B
    BY <1>1, <1>5, <1>6 DEF TableRecords
  <1>8. B # <<>>
    BY <1>2, <1>6 DEF Chains
  <1> QED BY <1>6, <1>7, <1>8 DEF WellFiled, TableRecords, D

\* The entries with a new one.
Added(N, p, value) == [q \in DOMAIN N \cup {p} |-> IF q = p THEN Blank(value) ELSE N[q]]

\* _InsertInTable makes an entry of a path that has none.
LEMMA InsertInTableIs ==
    ASSUME TableConstants, NEW t, WellFiled(t), NEW p \in TablePaths,
           NEW value \in TableValues \cup {TableDefault}
    PROVE  /\ WellFiled(Table!InsertInTable(t, p, value))
           /\ Table!InsertInTable(t, p, value).nodes =
                 IF p \in DOMAIN t.nodes THEN t.nodes ELSE Added(t.nodes, p, value)
  <1> DEFINE there == IF t.buckets = <<>> THEN Table!Grow(t) ELSE t
             roomy == Table!MakeRoom(there)
             made == Table!PutEntry(roomy, p, value)
  <1>1. Table!InsertInTable(t, p, value) = IF Table!Find(there, p) THEN there ELSE made
    BY DEF Table!InsertInTable
  <1>2. WellFiled(there) /\ there.nodes = t.nodes /\ there.buckets # <<>>
    BY GrowIs
  <1> HIDE DEF there
  <1>3. WellFiled(roomy) /\ roomy.nodes = t.nodes /\ roomy.buckets # <<>>
    BY <1>2, GrowIs DEF Table!MakeRoom
  <1>6. made = [nodes |-> Added(roomy.nodes, p, value),
                buckets |-> Table!Push(roomy.buckets, Table!BucketOf(roomy, p), p)]
    BY DEF Table!PutEntry, Added, Blank
  <1> HIDE DEF roomy, made
  <1>4. Table!Find(there, p) <=> p \in DOMAIN t.nodes
    BY <1>2, FoundIs
  <1>5. ASSUME p \notin DOMAIN t.nodes
        PROVE  WellFiled(made) /\ made.nodes = Added(t.nodes, p, value)
    <2>1. roomy.buckets \in Chains /\ roomy.nodes \in EntryMaps /\ Filed(roomy.buckets, DOMAIN t.nodes)
      BY <1>3 DEF WellFiled
    <2>2. DOMAIN t.nodes \in SUBSET TablePaths /\ t.nodes \in [DOMAIN t.nodes -> TableEntry]
      BY <1>3, <2>1, EntryMapsAre
    <2>3. Table!BucketOf(roomy, p) = Place(roomy.buckets, p)
      BY <1>3, FoundIs
    <2>4. /\ made.buckets \in Chains /\ Filed(made.buckets, DOMAIN t.nodes \cup {p})
      BY <1>3, <1>5, <1>6, <2>1, <2>2, <2>3, PushIs
    <2>5. made.nodes = Added(t.nodes, p, value)
      BY <1>3, <1>6
    <2>6. Blank(value) \in TableEntry
      BY DEF Blank, TableEntry, Table!Entry, Nobody
    <2>7. Added(t.nodes, p, value) \in [DOMAIN t.nodes \cup {p} -> TableEntry]
      BY <2>2, <2>6 DEF Added
    <2>8. DOMAIN t.nodes \cup {p} \in SUBSET TablePaths
      BY <2>2
    <2>9. Added(t.nodes, p, value) \in EntryMaps /\ DOMAIN Added(t.nodes, p, value) = DOMAIN t.nodes \cup {p}
      BY <2>7, <2>8, EntryMapsAre
    <2>10. made = [nodes |-> made.nodes, buckets |-> made.buckets]
      BY <1>6
    <2> QED BY <2>4, <2>5, <2>9, <2>10 DEF WellFiled
  <1> QED BY <1>1, <1>2, <1>4, <1>5

\* What is left of a chain.
LEMMA RemainingIs ==
    ASSUME NEW s \in Seq(TablePaths), Once(s), NEW erased
    PROVE  /\ Table!Remaining(s, erased) \in Seq(TablePaths) /\ Once(Table!Remaining(s, erased))
           /\ HeldIn(Table!Remaining(s, erased)) = HeldIn(s) \ erased
  <1> DEFINE X == Seq(TablePaths)
             none == <<>>
             Done(k) == {s[j] : j \in 1 .. k}
  <1>1. none \in X /\ HeldIn(none) = {} /\ Once(none) /\ none = <<>>
    BY NoneHeld
  <1>2. \A x \in X, q \in TablePaths : Kept(erased, x, q) \in X
    BY DEF Kept
  <1>3. PICK c : RemainingSteps(c, X, none, s, erased)
    <2> HIDE DEF X, none
    <2> QED BY <1>1, <1>2, RemainingFold
  <1>4. /\ c \in [0 .. Len(s) -> X] /\ c[0] = none /\ Table!Remaining(s, erased) = c[Len(s)]
        /\ \A k \in 1 .. Len(s) : c[k] = Kept(erased, c[k - 1], s[k])
    BY <1>3 DEF RemainingSteps
  <1> HIDE DEF none
  <1> DEFINE Good(k) == Once(c[k]) /\ HeldIn(c[k]) = Done(k) \ erased
             T == {k \in 0 .. Len(s) : Good(k)}
  <1>5. Len(s) \in Nat /\ \A k \in 1 .. Len(s) : s[k] \in TablePaths
    OBVIOUS
  <1>6. 0 \in T
    <2>1. Done(0) = {}
      OBVIOUS
    <2>2. 0 \in 0 .. Len(s)
      BY <1>5
    <2> HIDE DEF Done
    <2>3. Good(0)
      BY <1>1, <1>4, <2>1, Zenon
    <2> QED BY <2>2, <2>3, Zenon
  <1>7. ASSUME NEW k \in 1 .. Len(s), k - 1 \in T
        PROVE  k \in T
    <2> DEFINE a == c[k - 1]
               q == s[k]
    <2>1. a \in X /\ Once(a) /\ HeldIn(a) = Done(k - 1) \ erased /\ k \in 0 .. Len(s) /\ q \in TablePaths
      BY <1>4, <1>5, <1>7
    <2>2. c[k] = IF q \in erased THEN a ELSE Append(a, q)
      BY <1>4 DEF Kept
    <2>3. \A j : j \in 1 .. k <=> j = k \/ j \in 1 .. (k - 1)
      BY <1>5
    <2>4. Done(k) = Done(k - 1) \cup {q}
      BY <2>3
    <2>5. q \notin Done(k - 1)
      <3>1. ASSUME NEW j \in 1 .. (k - 1)
            PROVE  s[j] # s[k]
        <4>1. j \in DOMAIN s /\ k \in DOMAIN s /\ j # k
          BY <1>5
        <4> QED BY <4>1 DEF Once, Table!IsInjective
      <3> QED BY <3>1
    <2> HIDE DEF Done, a, q
    <2>6. CASE q \in erased
      <3>1. Good(k)
        BY <2>1, <2>2, <2>4, <2>6
      <3> QED BY <2>1, <3>1
    <2>7. CASE q \notin erased
      <3>1. c[k] = a \o <<q>>
        <4>1. Append(a, q) = a \o <<q>>
          BY <2>1
        <4> QED BY <2>2, <2>7, <4>1
      <3>2. <<q>> \in Seq(TablePaths) /\ HeldIn(<<q>>) = {q} /\ Once(<<q>>)
        BY <2>1, OneHeld
      <3>3. HeldIn(a) \cap HeldIn(<<q>>) = {}
        BY <2>1, <2>5, <3>2, Zenon
      <3>4. /\ HeldIn(a \o <<q>>) = HeldIn(a) \cup HeldIn(<<q>>)
            /\ Once(a) /\ Once(<<q>>) /\ HeldIn(a) \cap HeldIn(<<q>>) = {} => Once(a \o <<q>>)
        BY <2>1, <3>2, BothHeld, Zenon
      <3>5. Once(c[k])
        BY <2>1, <3>1, <3>2, <3>3, <3>4, Zenon
      <3>6. HeldIn(c[k]) = HeldIn(a) \cup {q}
        BY <3>1, <3>2, <3>4, Zenon
      <3>7. HeldIn(c[k]) = Done(k) \ erased
        BY <2>1, <2>4, <2>7, <3>6
      <3> QED BY <2>1, <3>5, <3>7
    <2> QED BY <2>6, <2>7
  <1>8. Good(Len(s))
    <2> HIDE DEF T
    <2>1. 0 .. Len(s) \subseteq T
      BY <1>5, <1>6, <1>7, StepByStep
    <2>2. Len(s) \in T
      BY <1>5, <2>1
    <2> QED BY <2>2 DEF T
  <1>9. Done(Len(s)) = HeldIn(s)
    BY DEF HeldIn, Table!ToSet
  <1>10. c[Len(s)] \in X
    BY <1>4, <1>5
  <1> QED BY <1>4, <1>8, <1>9, <1>10

\* The entries without some.
Without(N, erased) == [q \in DOMAIN N \ erased |-> N[q]]

\* _EraseFromTable takes entries out of their buckets.
LEMMA EraseFromTableIs ==
    ASSUME NEW t, WellFiled(t), NEW erased
    PROVE  /\ WellFiled(Table!EraseFromTable(t, erased))
           /\ Table!EraseFromTable(t, erased).nodes = Without(t.nodes, erased)
  <1> DEFINE D == DOMAIN t.nodes
             B == t.buckets
             C == [i \in DOMAIN B |-> Table!Remaining(B[i], erased)]
             N == Without(t.nodes, erased)
  <1>1. B \in Chains /\ Filed(B, D) /\ t.nodes \in EntryMaps /\ Len(B) \in Nat /\ DOMAIN B = 1 .. Len(B)
    BY DEF WellFiled, Chains
  <1>2. D \in SUBSET TablePaths /\ t.nodes \in [D -> TableEntry]
    BY <1>1, EntryMapsAre
  <1>3. Table!EraseFromTable(t, erased) = [nodes |-> N, buckets |-> C]
    BY DEF Table!EraseFromTable, Without
  <1>4. N \in [D \ erased -> TableEntry] /\ D \ erased \in SUBSET TablePaths
    BY <1>2 DEF Without
  <1>5. N \in EntryMaps /\ DOMAIN N = D \ erased
    BY <1>4, EntryMapsAre
  <1>6. ASSUME NEW i \in 1 .. Len(B)
        PROVE  /\ C[i] \in Seq(TablePaths) /\ Once(C[i])
               /\ HeldIn(C[i]) = {p \in D \ erased : Place(B, p) = i}
    <2>1. B[i] \in Seq(TablePaths) /\ Once(B[i]) /\ HeldIn(B[i]) = {p \in D : Place(B, p) = i}
      BY <1>1 DEF Chains, Filed
    <2>2. C[i] = Table!Remaining(B[i], erased)
      BY <1>1
    <2> HIDE DEF C, D, B
    <2>3. C[i] \in Seq(TablePaths) /\ Once(C[i]) /\ HeldIn(C[i]) = HeldIn(B[i]) \ erased
      BY <2>1, <2>2, RemainingIs
    <2> QED BY <2>1, <2>3
  <1>7. C \in Chains /\ Len(C) = Len(B) /\ (C = <<>> => B = <<>>)
    <2>1. C \in [1 .. Len(B) -> Seq(TablePaths)]
      BY <1>1, <1>6
    <2> HIDE DEF C
    <2> QED BY <1>1, <2>1 DEF Chains
  <1> HIDE DEF B, C, D, N
  <1>8. \A q : Place(C, q) = Place(B, q)
    BY <1>7 DEF Place
  <1>9. Filed(C, D \ erased)
    <2>1. C = <<>> => D \ erased = {}
      BY <1>1, <1>7 DEF Filed
    <2> QED BY <1>6, <1>7, <1>8, <2>1 DEF Filed
  <1>10. /\ Table!EraseFromTable(t, erased) \in [nodes : EntryMaps, buckets : Chains]
         /\ Table!EraseFromTable(t, erased).nodes = N /\ Table!EraseFromTable(t, erased).buckets = C
    BY <1>3, <1>5, <1>7
  <1> QED BY <1>5, <1>9, <1>10 DEF WellFiled, N

-----------------------------------------------------------------------------
(* The tree of the entries.                                                *)

\* The ancestors of entries are entries.
Rooted(J) == J \subseteq TablePaths /\ \A q \in J, p \in AnyPath : Under(p, q) => p \in J

\* R numbers the entries J in the order of the iteration: those below an entry come right
\* after it.
Numbered(J, R, K) ==
    /\ R \in [J -> 0 .. K]
    /\ \A p \in J, q \in J : R[p] = R[q] => p = q
    /\ \A p \in J, q \in J : Under(p, q) => R[p] <= R[q]
    /\ \A p \in J, q \in J, x \in J : Under(p, q) /\ R[p] <= R[x] /\ R[x] <= R[q] => Under(p, x)

\* The links of an entry: to its first child, and to its next sibling or its parent.
LinkedDown(N, J, R, p) ==
    IF N[p].first = Nobody THEN \A x \in J : Under(p, x) => x = p
    ELSE /\ N[p].first \in J /\ N[p].first # TableRoot /\ ParentOf(N[p].first) = p
         /\ \A x \in J : Under(p, x) => x = p \/ R[N[p].first] <= R[x]
LinkedOn(N, J, R, p) ==
    IF N[p].sibling
    THEN /\ p # TableRoot
         /\ N[p].next \in J /\ N[p].next # TableRoot /\ ParentOf(N[p].next) = ParentOf(p)
         /\ R[p] < R[N[p].next]
         /\ \A x \in J : R[p] <= R[x] /\ R[x] < R[N[p].next] => Under(p, x)
    ELSE IF p = TableRoot THEN N[p].next = Nobody
         ELSE /\ N[p].next = ParentOf(p)
              /\ \A x \in J : Under(ParentOf(p), x) /\ R[p] <= R[x] => Under(p, x)
Ordered(N, J, R, K) ==
    /\ Numbered(J, R, K)
    /\ \A p \in J : LinkedDown(N, J, R, p) /\ LinkedOn(N, J, R, p)

\* What the proofs use of the paths of a tree.
LEMMA TreeOrder ==
    ASSUME TableConstants, NEW J, Rooted(J)
    PROVE  /\ J \subseteq TablePaths /\ J \subseteq AnyPath /\ Nobody \notin J
           /\ J # {} => TableRoot \in J
           /\ \A p \in J : Under(p, p) /\ Under(TableRoot, p)
           /\ \A p \in J : p # TableRoot => ParentOf(p) \in J /\ ParentOf(p) # p /\ Under(ParentOf(p), p)
           /\ \A p \in J, q \in J : Under(p, q) /\ Under(q, p) => p = q
           /\ \A p \in J, q \in J, x \in J : Under(p, q) /\ Under(q, x) => Under(p, x)
           /\ \A p \in J, q \in J, x \in J : Under(p, x) /\ Under(q, x) => Under(p, q) \/ Under(q, p)
           /\ \A p \in J, q \in J : Under(p, q) /\ q # TableRoot => p = q \/ Under(p, ParentOf(q))
           /\ \A p \in J, q \in J :
                 p # TableRoot /\ q # TableRoot /\ ParentOf(p) = ParentOf(q) /\ Under(p, q) => p = q
  <1>1. J \subseteq TablePaths /\ J \subseteq AnyPath /\ Nobody \notin J
    BY TablePathsAre DEF Rooted
  <1>2. \A p \in J : Under(p, p) /\ Under(TableRoot, p) /\ TableRoot \in AnyPath
    BY <1>1, UnderOrder, UnderParent
  <1>3. J # {} => TableRoot \in J
    BY <1>2 DEF Rooted
  <1>4. ASSUME NEW p \in J, p # TableRoot
        PROVE  /\ ParentOf(p) \in AnyPath /\ ParentOf(p) \in J /\ ParentOf(p) # p
               /\ Under(ParentOf(p), p) /\ Len(p) = Len(ParentOf(p)) + 1
    BY <1>1, <1>4, UnderParent DEF Rooted
  <1>5. \A p \in J, q \in J : Under(p, q) /\ Under(q, p) => p = q
    BY <1>1, UnderOrder
  <1>6. \A p \in J, q \in J, x \in J : Under(p, q) /\ Under(q, x) => Under(p, x)
    BY <1>1, UnderOrder
  <1>7. \A p \in J, q \in J, x \in J : Under(p, x) /\ Under(q, x) => Under(p, q) \/ Under(q, p)
    BY <1>1, UnderOrder
  <1>8. \A p \in J, q \in J : Under(p, q) /\ q # TableRoot => p = q \/ Under(p, ParentOf(q))
    BY <1>1, UnderParent
  <1>9. ASSUME NEW p \in J, NEW q \in J, p # TableRoot, q # TableRoot, ParentOf(p) = ParentOf(q), Under(p, q)
        PROVE  p = q
    <2>1. Len(p) = Len(q)
      BY <1>4, <1>9
    <2> QED BY <1>1, <1>2, <1>9, <2>1, UnderOrder
  <1> QED BY <1>1, <1>2, <1>3, <1>4, <1>5, <1>6, <1>7, <1>8, <1>9

\* A first child comes after its parent.
LEMMA ChildAfter ==
    ASSUME NEW J, Rooted(J), NEW R, NEW K \in Nat, Numbered(J, R, K), NEW p \in J, NEW q \in J
    PROVE  /\ R[p] \in Nat /\ R[p] <= K
           /\ Under(p, q) /\ p # q => R[p] < R[q]
  <1>1. R[p] \in 0 .. K /\ R[q] \in 0 .. K
    BY DEF Numbered
  <1>2. Under(p, q) /\ p # q => R[p] <= R[q] /\ R[p] # R[q]
    BY DEF Numbered
  <1> QED BY <1>1, <1>2

\* The order of the entries with a child right after its parent.
Shifted(J, R, p, c) ==
    [x \in J \cup {c} |-> IF x = c THEN R[p] + 1 ELSE IF R[x] <= R[p] THEN R[x] ELSE R[x] + 1]
WithChild(N, p, c) ==
    [N EXCEPT ![p].first = c, ![c].sibling = N[p].first # Nobody,
              ![c].next = IF N[p].first # Nobody THEN N[p].first ELSE p]

\* In the order S of J and c, c comes right after its parent p.
RightAfter(J, R, K, p, c, S) ==
    /\ Rooted(J \cup {c}) /\ Numbered(J \cup {c}, S, K + 1)
    /\ Under(c, c)
    /\ \A x \in J : Under(x, c) <=> Under(x, p)
    /\ \A x \in J : ~ Under(c, x)
    /\ \A x \in J : S[x] <= S[c] <=> R[x] <= R[p]
    /\ \A x \in J : S[c] <= S[x] <=> R[p] < R[x]
    /\ \A x \in J : S[c] < S[x] <=> R[p] < R[x]
    /\ \A x \in J, y \in J : S[x] <= S[y] <=> R[x] <= R[y]
    /\ \A x \in J, y \in J : S[x] < S[y] <=> R[x] < R[y]

\* The ranks when one is put in.
LEMMA ShiftedIs ==
    ASSUME TableConstants, NEW J, Rooted(J), NEW R, NEW K \in Nat, Numbered(J, R, K), NEW p \in J,
           NEW c \in TablePaths, c \notin J, c # TableRoot, ParentOf(c) = p
    PROVE  RightAfter(J, R, K, p, c, Shifted(J, R, p, c))
  <1> DEFINE S == Shifted(J, R, p, c)
             I == J \cup {c}
  <1>1. \A x \in J : R[x] \in Nat /\ R[x] <= K
    BY DEF Numbered
  <1>2. /\ S \in [I -> 0 .. K + 1] /\ S[c] = R[p] + 1
        /\ \A x \in J : S[x] = IF R[x] <= R[p] THEN R[x] ELSE R[x] + 1
    <2>1. \A x \in J : x # c
      OBVIOUS
    <2> QED BY <1>1, <2>1 DEF Shifted
  <1> HIDE DEF S
  <1>3. /\ \A x \in J : S[x] <= S[c] <=> R[x] <= R[p]
        /\ \A x \in J : S[c] <= S[x] <=> R[p] < R[x]
        /\ \A x \in J : S[c] < S[x] <=> R[p] < R[x]
        /\ \A x \in J, y \in J : S[x] <= S[y] <=> R[x] <= R[y]
        /\ \A x \in J, y \in J : S[x] < S[y] <=> R[x] < R[y]
        /\ \A x \in J : S[x] # S[c]
        /\ \A x \in J, y \in J : S[x] = S[y] => R[x] = R[y]
    BY <1>1, <1>2
  <1>4. J \subseteq AnyPath /\ c \in AnyPath /\ p \in AnyPath
    BY TreeOrder, TablePathsAre
  <1>5. ASSUME NEW x \in J
        PROVE  Under(x, c) <=> Under(x, p)
    <2>1. Under(p, c) /\ (Under(x, c) => x = c \/ Under(x, p))
      BY <1>4, UnderParent
    <2> QED BY <1>4, <2>1, UnderOrder
  <1>6. \A x \in J : ~ Under(c, x)
    BY <1>4 DEF Rooted
  <1>7. Under(c, c)
    BY <1>4, UnderOrder
  <1>8. Rooted(I)
    <2>1. ASSUME NEW q \in AnyPath, Under(q, c)
          PROVE  q \in I
      <3>1. q = c \/ Under(q, p)
        BY <1>4, <2>1, UnderParent
      <3> QED BY <3>1 DEF Rooted
    <2> QED BY <2>1 DEF Rooted
  <1>9. \A x \in I, y \in I : S[x] = S[y] => x = y
    BY <1>3 DEF Numbered
  <1>10. ASSUME NEW x \in I, NEW y \in I, Under(x, y)
         PROVE  S[x] <= S[y]
    <2>1. S[c] \in Nat
      BY <1>2
    <2>2. CASE y = c
      <3>1. x # c => R[x] <= R[p]
        BY <1>5, <1>10, <2>2 DEF Numbered
      <3> QED BY <1>3, <2>1, <2>2, <3>1
    <2>3. CASE y # c
      <3>1. x \in J /\ y \in J
        BY <1>6, <1>10, <2>3
      <3> QED BY <1>3, <1>10, <3>1 DEF Numbered
    <2> QED BY <2>2, <2>3
  <1>11. ASSUME NEW a \in I, NEW b \in I, NEW x \in I, Under(a, b), S[a] <= S[x], S[x] <= S[b]
         PROVE  Under(a, x)
    <2>1. CASE a = c
      <3>1. b = c
        BY <1>6, <1>11, <2>1
      <3>2. S[x] = S[c]
        BY <1>2, <1>11, <2>1, <3>1
      <3> QED BY <1>7, <1>9, <2>1, <3>2
    <2>2. CASE a # c /\ x = c
      <3>1. R[a] <= R[p] /\ a \in J
        BY <1>3, <1>11, <2>2
      <3>2. CASE b = c
        BY <1>11, <2>2, <3>2
      <3>3. CASE b # c
        <4>1. b \in J /\ R[p] <= R[b]
          BY <1>1, <1>3, <1>11, <2>2, <3>3
        <4>2. Under(a, p)
          BY <1>11, <3>1, <4>1 DEF Numbered
        <4> QED BY <1>5, <2>2, <3>1, <4>2
      <3> QED BY <3>2, <3>3
    <2>3. CASE a # c /\ x # c
      <3>1. a \in J /\ x \in J /\ R[a] <= R[x]
        BY <1>3, <1>11, <2>3
      <3>2. CASE b = c
        <4>1. Under(a, p) /\ R[x] <= R[p]
          BY <1>3, <1>5, <1>11, <3>1, <3>2
        <4> QED BY <3>1, <4>1 DEF Numbered
      <3>3. CASE b # c
        <4>1. b \in J /\ R[x] <= R[b]
          BY <1>3, <1>11, <3>1, <3>3
        <4> QED BY <1>11, <3>1, <4>1 DEF Numbered
      <3> QED BY <3>2, <3>3
    <2> QED BY <2>1, <2>2, <2>3
  <1>12. Numbered(I, S, K + 1)
    BY <1>2, <1>9, <1>10, <1>11 DEF Numbered
  <1>13. RightAfter(J, R, K, p, c, S)
    BY <1>3, <1>5, <1>6, <1>7, <1>8, <1>12 DEF RightAfter
  <1> QED BY <1>13 DEF S

\* AddChild puts the child first.
LEMMA AddChildKeepsOrder ==
    ASSUME TableConstants, NEW N \in EntryMaps, NEW J, Rooted(J), J \subseteq DOMAIN N, NEW R,
           NEW K \in Nat,
           Ordered(N, J, R, K), NEW p \in J, NEW c \in DOMAIN N, c \notin J, c # TableRoot,
           ParentOf(c) = p, N[c].first = Nobody
    PROVE  /\ Rooted(J \cup {c})
           /\ Ordered(WithChild(N, p, c), J \cup {c}, Shifted(J, R, p, c), K + 1)
  <1> DEFINE S == Shifted(J, R, p, c)
             I == J \cup {c}
             M == WithChild(N, p, c)
  <1>1. c \in TablePaths /\ p \in TablePaths /\ p # c /\ p \in DOMAIN N /\ N \in [DOMAIN N -> TableEntry]
    BY EntryMapsAre
  <1>2. Numbered(J, R, K) /\ \A x \in J : LinkedDown(N, J, R, x) /\ LinkedOn(N, J, R, x)
    BY DEF Ordered
  <1>3. /\ Rooted(I) /\ Numbered(I, S, K + 1)
        /\ \A x \in J : Under(x, c) <=> Under(x, p)
        /\ \A x \in J : ~ Under(c, x)
        /\ Under(c, c)
        /\ \A x \in J : S[x] <= S[c] <=> R[x] <= R[p]
        /\ \A x \in J : S[c] <= S[x] <=> R[p] < R[x]
        /\ \A x \in J : S[c] < S[x] <=> R[p] < R[x]
        /\ \A x \in J, y \in J : S[x] <= S[y] <=> R[x] <= R[y]
        /\ \A x \in J, y \in J : S[x] < S[y] <=> R[x] < R[y]
    <2>1. RightAfter(J, R, K, p, c, Shifted(J, R, p, c))
      BY <1>1, <1>2, ShiftedIs
    <2>2. RightAfter(J, R, K, p, c, S)
      BY <2>1
    <2> HIDE DEF S
    <2> QED BY <2>2 DEF RightAfter
  <1>4. /\ M[p].first = c /\ M[c].first = Nobody
        /\ M[c].sibling = (N[p].first # Nobody)
        /\ M[c].next = IF N[p].first # Nobody THEN N[p].first ELSE p
        /\ M[p].sibling = N[p].sibling /\ M[p].next = N[p].next
        /\ \A x \in J : x # p => M[x] = N[x]
    BY <1>1, ZenonT(30) DEF WithChild, TableEntry
  <1>5. Nobody \notin TablePaths /\ c # Nobody /\ p # Nobody
    BY <1>1, TablePathsAre
  <1>6. /\ \A x \in J : x # TableRoot => ParentOf(x) \in J
        /\ \A x \in J, y \in J : Under(x, y) /\ Under(y, x) => x = y
        /\ \A x \in J : Under(x, x)
    BY TreeOrder
  <1>7. /\ \A x \in J : R[x] \in Nat
        /\ \A x \in J, y \in J : Under(x, y) /\ x # y => R[x] < R[y]
    BY <1>2, ChildAfter
  <1> HIDE DEF S, M
  <1>8. ASSUME NEW y \in J
        PROVE  LinkedDown(M, I, S, y)
    <2>1. CASE y = p
      <3>1. \A x \in J : Under(p, x) => x = p \/ S[c] <= S[x]
        BY <1>3, <1>7
      <3>2. S[c] <= S[c]
        BY <1>3 DEF Numbered
      <3> QED BY <1>4, <1>5, <2>1, <3>1, <3>2 DEF LinkedDown
    <2>2. CASE y # p /\ N[y].first = Nobody
      <3>1. \A x \in J : Under(y, x) => x = y
        BY <1>2, <2>2 DEF LinkedDown
      <3>2. ~ Under(y, c)
        BY <1>3, <2>2, <3>1
      <3> QED BY <1>4, <2>2, <3>1, <3>2 DEF LinkedDown
    <2>3. CASE y # p /\ N[y].first # Nobody
      <3> DEFINE f == N[y].first
      <3>1. /\ f \in J /\ f # TableRoot /\ ParentOf(f) = y
            /\ \A x \in J : Under(y, x) => x = y \/ R[f] <= R[x]
        BY <1>2, <2>3 DEF LinkedDown
      <3> HIDE DEF f
      <3>2. Under(y, c) => S[f] <= S[c]
        BY <1>3, <2>3, <3>1
      <3>3. \A x \in J : Under(y, x) => x = y \/ S[f] <= S[x]
        BY <1>3, <3>1
      <3>4. M[y].first = f /\ f # Nobody
        BY <1>4, <2>3 DEF f
      <3> QED BY <3>1, <3>2, <3>3, <3>4 DEF LinkedDown
    <2> QED BY <2>1, <2>2, <2>3
  <1>9. ASSUME NEW y \in J
        PROVE  LinkedOn(M, I, S, y)
    <2>1. M[y].sibling = N[y].sibling /\ M[y].next = N[y].next
      BY <1>4
    <2>2. CASE N[y].sibling
      <3> DEFINE s == N[y].next
      <3>1. /\ y # TableRoot /\ s \in J /\ s # TableRoot /\ ParentOf(s) = ParentOf(y) /\ R[y] < R[s]
            /\ \A x \in J : R[y] <= R[x] /\ R[x] < R[s] => Under(y, x)
        BY <1>2, <2>2 DEF LinkedOn
      <3> HIDE DEF s
      <3>2. \A x \in J : S[y] <= S[x] /\ S[x] < S[s] => Under(y, x)
        BY <1>3, <3>1
      <3>3. S[y] <= S[c] /\ S[c] < S[s] => Under(y, c)
        BY <1>3, <3>1
      <3>4. S[y] < S[s]
        BY <1>3, <3>1
      <3>5. M[y].next = s /\ M[y].sibling
        BY <2>1, <2>2 DEF s
      <3> QED BY <3>1, <3>2, <3>3, <3>4, <3>5 DEF LinkedOn
    <2>3. CASE ~ N[y].sibling /\ y = TableRoot
      BY <1>2, <2>1, <2>3 DEF LinkedOn
    <2>4. CASE ~ N[y].sibling /\ y # TableRoot
      <3>1. /\ N[y].next = ParentOf(y)
            /\ \A x \in J : Under(ParentOf(y), x) /\ R[y] <= R[x] => Under(y, x)
        BY <1>2, <2>4 DEF LinkedOn
      <3>2. \A x \in J : Under(ParentOf(y), x) /\ S[y] <= S[x] => Under(y, x)
        BY <1>3, <3>1
      <3>3. Under(ParentOf(y), c) /\ S[y] <= S[c] => Under(y, c)
        BY <1>3, <1>6, <2>4, <3>1
      <3> QED BY <2>1, <2>4, <3>1, <3>2, <3>3 DEF LinkedOn
    <2> QED BY <2>2, <2>3, <2>4
  <1>10. LinkedDown(M, I, S, c)
    BY <1>3, <1>4 DEF LinkedDown
  <1>11. LinkedOn(M, I, S, c)
    <2>1. LinkedDown(N, J, R, p)
      BY <1>2
    <2>2. CASE N[p].first = Nobody
      <3>1. \A x \in J : Under(p, x) => x = p
        BY <2>1, <2>2 DEF LinkedDown
      <3>2. ~ (S[c] <= S[p])
        BY <1>3, <1>7
      <3> QED BY <1>3, <1>4, <2>2, <3>1, <3>2 DEF LinkedOn
    <2>3. CASE N[p].first # Nobody
      <3> DEFINE f == N[p].first
      <3>1. /\ f \in J /\ f # TableRoot /\ ParentOf(f) = p
            /\ \A x \in J : Under(p, x) => x = p \/ R[f] <= R[x]
        BY <2>1, <2>3 DEF LinkedDown
      <3> HIDE DEF f
      <3>2. Under(p, f) /\ p # f
        BY <3>1, TreeOrder
      <3>3. S[c] < S[f]
        BY <1>3, <1>7, <3>1, <3>2
      <3>4. ASSUME NEW x \in J, S[c] <= S[x], S[x] < S[f]
            PROVE  Under(c, x)
        <4>1. R[p] < R[x] /\ R[x] < R[f]
          BY <1>3, <3>1, <3>4
        <4>2. Under(p, x)
          BY <1>2, <1>7, <3>1, <3>2, <4>1 DEF Numbered
        <4>3. x # p /\ R[f] <= R[x]
          BY <1>7, <3>1, <4>1, <4>2
        <4> QED BY <1>7, <3>1, <4>1, <4>3
      <3>5. M[c].next = f /\ M[c].sibling
        BY <1>4, <2>3 DEF f
      <3> QED BY <1>3, <3>1, <3>3, <3>4, <3>5 DEF LinkedOn
    <2> QED BY <2>2, <2>3
  <1>12. Ordered(M, I, S, K + 1)
    <2>1. \A y \in I : LinkedDown(M, I, S, y) /\ LinkedOn(M, I, S, y)
      BY <1>8, <1>9, <1>10, <1>11
    <2> QED BY <1>3, <2>1 DEF Ordered
  <1> QED BY <1>3, <1>12 DEF S, M

\* Of some entries one comes first and one last.
LEMMA Extremes ==
    ASSUME NEW J, NEW K \in Nat, NEW R \in [J -> 0 .. K], NEW T \in SUBSET J, T # {}
    PROVE  /\ \E x \in T : \A y \in T : R[x] <= R[y]
           /\ \E x \in T : \A y \in T : R[y] <= R[x]
  <1>1. \A x \in T : R[x] \in Nat /\ K - R[x] \in Nat
    OBVIOUS
  <1>2. \E x \in T : \A y \in T : R[x] <= R[y]
    <2> DEFINE L == {R[x] : x \in T}
    <2>1. L \subseteq Nat /\ L # {}
      BY <1>1
    <2> HIDE DEF L
    <2>2. PICK l \in L : \A m \in L : l <= m
      BY <2>1, LeastNumber
    <2> QED BY <2>2 DEF L
  <1>3. \E x \in T : \A y \in T : R[y] <= R[x]
    <2> DEFINE L == {K - R[x] : x \in T}
    <2>1. L \subseteq Nat /\ L # {}
      BY <1>1
    <2> HIDE DEF L
    <2>2. PICK l \in L : \A m \in L : l <= m
      BY <2>1, LeastNumber
    <2>3. PICK x \in T : l = K - R[x]
      BY <2>2 DEF L
    <2>4. ASSUME NEW y \in T
          PROVE  R[y] <= R[x]
      <3>1. K - R[y] \in L
        BY DEF L
      <3>2. K - R[x] <= K - R[y]
        BY <2>2, <2>3, <3>1
      <3> QED BY <1>1, <3>2
    <2> QED BY <2>4
  <1> QED BY <1>2, <1>3

\* The child before another.
Before(N, q, p) == N[q].sibling /\ N[q].next = p

\* A child that is not the first has one before it.
LEMMA SiblingBefore ==
    ASSUME TableConstants, NEW N \in EntryMaps, NEW J, Rooted(J), J \subseteq DOMAIN N, NEW R,
           NEW K \in Nat,
           Ordered(N, J, R, K), NEW p \in J, p # TableRoot
    PROVE  /\ N[ParentOf(p)].first # Nobody
           /\ N[ParentOf(p)].first # p => \E q \in J : Before(N, q, p)
           /\ \A q \in J : Before(N, q, p) =>
                 /\ N[ParentOf(p)].first # p /\ R[q] < R[p] /\ ParentOf(q) = ParentOf(p) /\ q # TableRoot
                 /\ ~ Under(p, q) /\ ~ Under(q, p) /\ q # p
                 /\ \A x \in J : R[q] <= R[x] /\ R[x] < R[p] => Under(q, x)
           /\ \A q \in J, r \in J : Before(N, q, p) /\ Before(N, r, p) => q = r
  <1> DEFINE par == ParentOf(p)
             f == N[par].first
  <1>1. Numbered(J, R, K) /\ \A x \in J : LinkedDown(N, J, R, x) /\ LinkedOn(N, J, R, x)
    BY DEF Ordered
  <1>2. par \in J /\ par # p /\ Under(par, p) /\ p # Nobody
    BY TreeOrder
  <1>3. /\ \A x \in J : R[x] \in Nat /\ R[x] \in 0 .. K
        /\ \A x \in J, y \in J : Under(x, y) => R[x] <= R[y]
        /\ \A x \in J, y \in J : R[x] = R[y] => x = y
        /\ R \in [J -> 0 .. K]
    BY <1>1 DEF Numbered
  <1>4. /\ \A x \in J : Under(x, x)
        /\ \A x \in J, y \in J :
              x # TableRoot /\ y # TableRoot /\ ParentOf(x) = ParentOf(y) /\ Under(x, y) => x = y
    BY TreeOrder
  <1>5. LinkedDown(N, J, R, par)
    BY <1>1, <1>2
  <1>6. f # Nobody /\ f \in J /\ f # TableRoot /\ ParentOf(f) = par /\ R[f] <= R[p]
    BY <1>2, <1>5 DEF LinkedDown
  <1>7. ASSUME NEW q \in J, Before(N, q, p)
        PROVE  /\ f # p /\ R[q] < R[p] /\ ParentOf(q) = par /\ q # TableRoot
               /\ ~ Under(p, q) /\ ~ Under(q, p) /\ q # p
               /\ \A x \in J : R[q] <= R[x] /\ R[x] < R[p] => Under(q, x)
    <2>1. /\ q # TableRoot /\ par = ParentOf(q) /\ R[q] < R[p]
          /\ \A x \in J : R[q] <= R[x] /\ R[x] < R[p] => Under(q, x)
      BY <1>1, <1>7 DEF LinkedOn, Before
    <2>2. q # p
      BY <1>3, <2>1
    <2>3. ~ Under(p, q) /\ ~ Under(q, p)
      BY <1>4, <2>1, <2>2
    <2>4. Under(par, q) /\ q # par
      BY <2>1, TreeOrder
    <2>5. R[f] <= R[q]
      BY <1>5, <1>6, <2>4 DEF LinkedDown
    <2>6. f # p
      BY <1>3, <2>1, <2>5
    <2> QED BY <2>1, <2>2, <2>3, <2>6
  <1>8. ASSUME NEW q \in J, NEW r \in J, Before(N, q, p), Before(N, r, p), R[q] <= R[r]
        PROVE  q = r
    <2>1. Under(q, r)
      BY <1>7, <1>8
    <2> QED BY <1>4, <1>7, <1>8, <2>1
  <1>9. ASSUME f # p
        PROVE  \E q \in J : Before(N, q, p)
    <2> DEFINE T == {x \in J : x # TableRoot /\ ParentOf(x) = par /\ R[x] < R[p]}
    <2>1. f \in T
      BY <1>3, <1>6, <1>9
    <2>2. PICK q \in T : \A y \in T : R[y] <= R[q]
      <3> HIDE DEF f
      <3>1. T \in SUBSET J /\ T # {}
        BY <2>1
      <3> HIDE DEF T
      <3> QED BY <1>3, <3>1, Extremes
    <2>3. q \in J /\ q # TableRoot /\ ParentOf(q) = par /\ R[q] < R[p] /\ LinkedOn(N, J, R, q)
      BY <1>1, <2>2
    <2>4. ~ Under(q, p) /\ q # p
      BY <1>3, <1>4, <2>3
    <2>5. N[q].sibling
      BY <1>2, <1>3, <2>3, <2>4 DEF LinkedOn
    <2> DEFINE s == N[q].next
    <2>6. /\ s \in J /\ s # TableRoot /\ ParentOf(s) = par /\ R[q] < R[s]
          /\ \A x \in J : R[q] <= R[x] /\ R[x] < R[s] => Under(q, x)
      BY <2>3, <2>5 DEF LinkedOn
    <2> HIDE DEF s
    <2>7. R[s] <= R[p]
      BY <1>3, <2>3, <2>4, <2>6
    <2>8. ~ (R[s] < R[p])
      BY <1>3, <2>2, <2>3, <2>6
    <2>9. s = p
      BY <1>3, <2>6, <2>7, <2>8
    <2> QED BY <2>3, <2>5, <2>9 DEF Before, s
  <1>10. \A q \in J, r \in J : Before(N, q, p) /\ Before(N, r, p) => q = r
    BY <1>3, <1>8
  <1> QED BY <1>6, <1>7, <1>9, <1>10

\* The entries that stay when those below p go.
Left(J, p) == {x \in J : ~ Under(p, x)}
Ranks(R, I) == [x \in I |-> R[x]]

\* The links of the entries that stay.
Unlinked(N, M, p, I) ==
    \A x \in I :
       /\ M[x].first = IF x = ParentOf(p) /\ N[x].first = p
                       THEN IF N[p].sibling THEN N[p].next ELSE Nobody
                       ELSE N[x].first
       /\ M[x].sibling = IF Before(N, x, p) THEN N[p].sibling ELSE N[x].sibling
       /\ M[x].next = IF Before(N, x, p) THEN N[p].next ELSE N[x].next

\* RemoveChild takes a child out of the list of the children.
LEMMA RemovalKeepsOrder ==
    ASSUME TableConstants, NEW N \in EntryMaps, NEW J, Rooted(J), J \subseteq DOMAIN N, NEW R,
           NEW K \in Nat,
           Ordered(N, J, R, K), NEW p \in J, p # TableRoot, NEW M, Unlinked(N, M, p, Left(J, p))
    PROVE  Rooted(Left(J, p)) /\ Ordered(M, Left(J, p), Ranks(R, Left(J, p)), K)
  <1> DEFINE I == Left(J, p)
             par == ParentOf(p)
             s == N[p].next
  <1>1. Numbered(J, R, K) /\ \A x \in J : LinkedDown(N, J, R, x) /\ LinkedOn(N, J, R, x)
    BY DEF Ordered
  <1>2. I \subseteq J /\ \A x \in J : x \in I <=> ~ Under(p, x)
    BY DEF Left
  <1>3. Rooted(I)
    <2>1. ASSUME NEW q \in I, NEW a \in AnyPath, Under(a, q)
          PROVE  a \in I
      <3>1. a \in J
        BY <1>2, <2>1 DEF Rooted
      <3> QED BY <1>2, <2>1, <3>1, TreeOrder
    <2> QED BY <1>2, <2>1 DEF Rooted
  <1> DEFINE S == Ranks(R, I)
  <1>4. \A x \in I : S[x] = R[x]
    BY DEF Ranks
  <1>5. Numbered(I, S, K)
    <2>1. S \in [I -> 0 .. K]
      BY <1>1, <1>2 DEF Numbered, Ranks
    <2> HIDE DEF S
    <2> QED BY <1>1, <1>2, <1>4, <2>1 DEF Numbered
  <1>6. /\ \A x \in J : R[x] \in Nat
        /\ \A x \in J, y \in J : R[x] = R[y] => x = y
    BY <1>1 DEF Numbered
  <1>7. /\ par \in J /\ par # p /\ Under(par, p) /\ p \notin I /\ Nobody \notin J
        /\ \A x \in J : x # TableRoot => ParentOf(x) \in J /\ Under(ParentOf(x), x)
        /\ \A x \in J, y \in J, z \in J : Under(x, y) /\ Under(y, z) => Under(x, z)
        /\ \A y \in J : Under(p, y) /\ y # TableRoot => p = y \/ Under(p, ParentOf(y))
        /\ \A x \in J, y \in J :
              x # TableRoot /\ y # TableRoot /\ ParentOf(x) = ParentOf(y) /\ Under(x, y) => x = y
    BY <1>2, TreeOrder
  <1>8. /\ N[par].first # Nobody
        /\ \A q \in J : Before(N, q, p) =>
              /\ N[par].first # p /\ R[q] < R[p] /\ ParentOf(q) = par /\ q # TableRoot
              /\ \A x \in J : R[q] <= R[x] /\ R[x] < R[p] => Under(q, x)
    BY SiblingBefore
  <1> HIDE DEF I, S
  <1>9. ASSUME N[p].sibling
        PROVE  /\ s \in I /\ s # TableRoot /\ ParentOf(s) = par /\ R[p] < R[s]
               /\ \A x \in J : R[p] <= R[x] /\ R[x] < R[s] => Under(p, x)
    <2>1. /\ s \in J /\ s # TableRoot /\ ParentOf(s) = par /\ R[p] < R[s]
          /\ \A x \in J : R[p] <= R[x] /\ R[x] < R[s] => Under(p, x)
      BY <1>1, <1>9 DEF LinkedOn
    <2> HIDE DEF s
    <2>2. ~ Under(p, s)
      BY <1>6, <1>7, <2>1
    <2> QED BY <1>2, <2>1, <2>2
  <1>10. ASSUME ~ N[p].sibling
         PROVE  s = par /\ \A x \in J : Under(par, x) /\ R[p] <= R[x] => Under(p, x)
    BY <1>1, <1>10 DEF LinkedOn
  <1> HIDE DEF s, par
  <1>11. ASSUME NEW x \in I
         PROVE  LinkedDown(M, I, S, x)
    <2>1. x \in J /\ LinkedDown(N, J, R, x)
      BY <1>1, <1>2
    <2>2. CASE x = par /\ N[x].first = p /\ N[p].sibling
      <3>1. M[x].first = s
        BY <2>2 DEF Unlinked, I, par, s
      <3>2. ASSUME NEW y \in I, Under(x, y), y # x
            PROVE  R[s] <= R[y]
        <4>1. R[p] <= R[y]
          BY <1>2, <1>7, <2>1, <2>2, <3>2 DEF LinkedDown
        <4> QED BY <1>2, <1>6, <1>9, <2>2, <3>2, <4>1
      <3>3. s # Nobody
        BY <1>2, <1>7, <1>9, <2>2
      <3> QED BY <1>4, <1>9, <2>2, <3>1, <3>2, <3>3 DEF LinkedDown
    <2>3. CASE x = par /\ N[x].first = p /\ ~ N[p].sibling
      <3>1. M[x].first = Nobody
        BY <2>3 DEF Unlinked, I, par
      <3>2. ASSUME NEW y \in I, Under(x, y), y # x
            PROVE  FALSE
        <4>1. R[p] <= R[y]
          BY <1>2, <1>7, <2>1, <2>3, <3>2 DEF LinkedDown
        <4> QED BY <1>2, <1>10, <2>3, <3>2, <4>1
      <3> QED BY <3>1, <3>2 DEF LinkedDown
    <2>4. CASE ~ (x = par /\ N[x].first = p)
      <3> DEFINE f == N[x].first
      <3>1. M[x].first = f
        BY <2>4 DEF Unlinked, I, par
      <3>2. CASE f = Nobody
        BY <1>2, <2>1, <3>1, <3>2 DEF LinkedDown
      <3>3. CASE f # Nobody
        <4>1. /\ f \in J /\ f # TableRoot /\ ParentOf(f) = x
              /\ \A y \in J : Under(x, y) => y = x \/ R[f] <= R[y]
          BY <2>1, <3>3 DEF LinkedDown
        <4>2. p # f
          BY <2>4, <4>1 DEF par
        <4> HIDE DEF f
        <4>3. f \in I
          BY <1>2, <1>7, <4>1, <4>2
        <4> QED BY <1>2, <1>4, <3>1, <3>3, <4>1, <4>3 DEF LinkedDown
      <3> QED BY <3>2, <3>3
    <2> QED BY <2>2, <2>3, <2>4
  <1>12. ASSUME NEW x \in I
         PROVE  LinkedOn(M, I, S, x)
    <2>1. x \in J /\ LinkedOn(N, J, R, x)
      BY <1>1, <1>2
    <2>2. CASE Before(N, x, p) /\ N[p].sibling
      <3>1. M[x].sibling /\ M[x].next = s
        BY <2>2 DEF Unlinked, I, s
      <3>2. ASSUME NEW y \in I, R[x] <= R[y], R[y] < R[s]
            PROVE  Under(x, y)
        BY <1>2, <1>6, <1>8, <1>9, <2>1, <2>2, <3>2
      <3>3. R[x] < R[s] /\ x # TableRoot /\ ParentOf(s) = ParentOf(x)
        BY <1>2, <1>6, <1>8, <1>9, <2>1, <2>2
      <3> QED BY <1>4, <1>9, <2>2, <3>1, <3>2, <3>3 DEF LinkedOn
    <2>3. CASE Before(N, x, p) /\ ~ N[p].sibling
      <3>1. ~ M[x].sibling /\ M[x].next = s
        BY <2>3 DEF Unlinked, I, s
      <3>2. x # TableRoot /\ ParentOf(x) = par /\ s = par
        BY <1>8, <1>10, <2>1, <2>3
      <3>3. ASSUME NEW y \in I, R[x] <= R[y], Under(par, y)
            PROVE  Under(x, y)
        BY <1>2, <1>6, <1>8, <1>10, <2>1, <2>3, <3>3
      <3> QED BY <1>4, <3>1, <3>2, <3>3 DEF LinkedOn
    <2>4. CASE ~ Before(N, x, p) /\ N[x].sibling
      <3> DEFINE n == N[x].next
      <3>1. M[x].sibling /\ M[x].next = n
        BY <2>4 DEF Unlinked, I
      <3>2. /\ x # TableRoot /\ n \in J /\ n # TableRoot /\ ParentOf(n) = ParentOf(x) /\ R[x] < R[n]
            /\ \A y \in J : R[x] <= R[y] /\ R[y] < R[n] => Under(x, y)
        BY <2>1, <2>4 DEF LinkedOn
      <3>3. n # p
        BY <2>4 DEF Before
      <3> HIDE DEF n
      <3>4. ~ Under(p, n)
        <4>1. Under(p, n) => Under(p, ParentOf(x))
          BY <1>7, <3>2, <3>3
        <4>2. Under(p, ParentOf(x)) => Under(p, x)
          BY <1>7, <2>1, <3>2
        <4> QED BY <1>2, <2>1, <4>1, <4>2
      <3>5. n \in I
        BY <1>2, <3>2, <3>4
      <3> QED BY <1>2, <1>4, <3>1, <3>2, <3>5 DEF LinkedOn
    <2>5. CASE ~ Before(N, x, p) /\ ~ N[x].sibling
      <3>1. ~ M[x].sibling /\ M[x].next = N[x].next
        BY <2>5 DEF Unlinked, I
      <3> QED BY <1>2, <1>4, <2>1, <2>5, <3>1 DEF LinkedOn
    <2> QED BY <2>2, <2>3, <2>4, <2>5
  <1>13. Ordered(M, I, S, K)
    BY <1>5, <1>11, <1>12 DEF Ordered
  <1> QED BY <1>3, <1>13 DEF I, S

\* What holds of an entry when it holds of all that come later, or of all that come before.
LEMMA ByRank ==
    ASSUME NEW J, NEW K \in Nat, NEW R \in [J -> 0 .. K], NEW T
    PROVE  /\ (\A q \in J : (\A x \in J : R[q] < R[x] => x \in T) => q \in T) => J \subseteq T
           /\ (\A q \in J : (\A x \in J : R[x] < R[q] => x \in T) => q \in T) => J \subseteq T
  <1> DEFINE Others == J \ T
  <1>1. \A x \in J : R[x] \in Nat
    OBVIOUS
  <1>2. Others \in SUBSET J
    OBVIOUS
  <1>3. Others # {} => /\ \E x \in Others : \A y \in Others : R[x] <= R[y]
                      /\ \E x \in Others : \A y \in Others : R[y] <= R[x]
    <2> HIDE DEF Others
    <2> QED BY <1>2, Extremes
  <1>4. ASSUME \A q \in J : (\A x \in J : R[q] < R[x] => x \in T) => q \in T
        PROVE  Others = {}
    <2> SUFFICES ASSUME Others # {} PROVE FALSE
      OBVIOUS
    <2>1. PICK q \in Others : \A y \in Others : R[y] <= R[q]
      BY <1>3
    <2>2. \A x \in J : R[q] < R[x] => x \in T
      BY <1>1, <2>1
    <2> QED BY <1>4, <2>1, <2>2
  <1>5. ASSUME \A q \in J : (\A x \in J : R[x] < R[q] => x \in T) => q \in T
        PROVE  Others = {}
    <2> SUFFICES ASSUME Others # {} PROVE FALSE
      OBVIOUS
    <2>1. PICK q \in Others : \A y \in Others : R[q] <= R[y]
      BY <1>3
    <2>2. \A x \in J : R[x] < R[q] => x \in T
      BY <1>1, <2>1
    <2> QED BY <1>5, <2>1, <2>2
  <1>6. Others = {} => J \subseteq T
    OBVIOUS
  <1> QED BY <1>4, <1>5, <1>6

\* A table whose entries are in the order R.
InOrder(t, R, K) ==
    /\ t.nodes \in EntryMaps /\ K \in Nat
    /\ Rooted(DOMAIN t.nodes)
    /\ Ordered(t.nodes, DOMAIN t.nodes, R, K)

\* The entries from q on among the descendants of its parent.
Later(J, R, q) == {x \in J : R[q] <= R[x] /\ (q # TableRoot => Under(ParentOf(q), x))}
Strictly(J, p) == {x \in J : Under(p, x) /\ x # p}

\* What comes later among the descendants of the parent is what the links reach.
LEMMA LaterIs ==
    ASSUME TableConstants, NEW t, NEW R, NEW K, InOrder(t, R, K), NEW q \in DOMAIN t.nodes
    PROVE  /\ Later(DOMAIN t.nodes, R, q) =
                 {q} \cup (IF t.nodes[q].first = Nobody THEN {}
                           ELSE Later(DOMAIN t.nodes, R, t.nodes[q].first))
                     \cup (IF Table!NextSibling(t, q) = Nobody THEN {}
                           ELSE Later(DOMAIN t.nodes, R, Table!NextSibling(t, q)))
           /\ t.nodes[q].first # Nobody => t.nodes[q].first \in DOMAIN t.nodes /\ R[q] < R[t.nodes[q].first]
           /\ Table!NextSibling(t, q) # Nobody =>
                 Table!NextSibling(t, q) \in DOMAIN t.nodes /\ R[q] < R[Table!NextSibling(t, q)]
           /\ Strictly(DOMAIN t.nodes, q) = IF t.nodes[q].first = Nobody THEN {}
                                            ELSE Later(DOMAIN t.nodes, R, t.nodes[q].first)
  <1> DEFINE J == DOMAIN t.nodes
             N == t.nodes
             f == N[q].first
             s == Table!NextSibling(t, q)
  <1>1. /\ Rooted(J) /\ Numbered(J, R, K) /\ K \in Nat
        /\ LinkedDown(N, J, R, q) /\ LinkedOn(N, J, R, q)
    BY DEF InOrder, Ordered
  <1>2. /\ \A x \in J : R[x] \in Nat
        /\ \A x \in J, y \in J : Under(x, y) /\ x # y => R[x] < R[y]
    BY <1>1, ChildAfter
  <1>3. /\ Nobody \notin J
        /\ \A x \in J : Under(x, x) /\ Under(TableRoot, x)
        /\ \A x \in J : x # TableRoot => ParentOf(x) \in J /\ ParentOf(x) # x /\ Under(ParentOf(x), x)
        /\ \A x \in J, y \in J, z \in J : Under(x, y) /\ Under(y, z) => Under(x, z)
    BY <1>1, TreeOrder
  <1>4. ASSUME f # Nobody
        PROVE  /\ f \in J /\ f # TableRoot /\ ParentOf(f) = q /\ R[q] < R[f]
               /\ \A x \in J : Under(q, x) => x = q \/ R[f] <= R[x]
    BY <1>1, <1>2, <1>3, <1>4 DEF LinkedDown
  <1>5. ASSUME f = Nobody
        PROVE  \A x \in J : Under(q, x) => x = q
    BY <1>1, <1>5 DEF LinkedDown
  <1>6. ASSUME s # Nobody
        PROVE  /\ q # TableRoot /\ s \in J /\ s # TableRoot /\ ParentOf(s) = ParentOf(q) /\ R[q] < R[s]
               /\ \A x \in J : R[q] <= R[x] /\ R[x] < R[s] => Under(q, x)
    BY <1>1, <1>6 DEF LinkedOn, Table!NextSibling, Nobody
  <1>7. ASSUME s = Nobody, q # TableRoot
        PROVE  \A x \in J : Under(ParentOf(q), x) /\ R[q] <= R[x] => Under(q, x)
    <2>1. ~ N[q].sibling
      BY <1>1, <1>3, <1>7 DEF LinkedOn, Table!NextSibling, Nobody
    <2> QED BY <1>1, <1>7, <2>1 DEF LinkedOn
  <1> DEFINE Down == IF f = Nobody THEN {} ELSE Later(J, R, f)
             On == IF s = Nobody THEN {} ELSE Later(J, R, s)
  <1>8. Strictly(J, q) = Down
    <2> HIDE DEF f, s
    <2>1. CASE f = Nobody
      BY <1>5, <2>1 DEF Strictly
    <2>2. CASE f # Nobody
      <3>1. ASSUME NEW x \in J
            PROVE  x \in Strictly(J, q) <=> x \in Later(J, R, f)
        <4>1. x \in Strictly(J, q) => x \in Later(J, R, f)
          BY <1>4, <2>2 DEF Strictly, Later
        <4>2. ASSUME x \in Later(J, R, f)
              PROVE  x \in Strictly(J, q)
          <5>1. Under(q, x) /\ R[f] <= R[x] /\ R[q] < R[f]
            BY <1>4, <2>2, <4>2 DEF Later
          <5>2. x # q
            BY <1>2, <1>4, <2>2, <5>1
          <5> QED BY <5>1, <5>2 DEF Strictly
        <4> QED BY <4>1, <4>2
      <3> QED BY <2>2, <3>1 DEF Strictly, Later
    <2> QED BY <2>1, <2>2
  <1>9. Later(J, R, q) = {q} \cup Down \cup On
    <2> HIDE DEF f, s
    <2>1. ASSUME NEW x \in J, x \in Later(J, R, q)
          PROVE  x \in {q} \cup Down \cup On
      <3>1. R[q] <= R[x] /\ (q # TableRoot => Under(ParentOf(q), x))
        BY <2>1 DEF Later
      <3>2. CASE Under(q, x)
        BY <1>8, <3>2 DEF Strictly
      <3>3. CASE ~ Under(q, x)
        <4>1. q # TableRoot
          BY <1>3, <3>3
        <4>2. s # Nobody
          BY <1>7, <3>1, <3>3, <4>1
        <4>3. R[s] <= R[x] /\ Under(ParentOf(s), x)
          BY <1>2, <1>6, <3>1, <3>3, <4>1, <4>2
        <4> QED BY <4>2, <4>3 DEF Later
      <3> QED BY <3>2, <3>3
    <2>2. ASSUME NEW x \in J, x \in {q} \cup Down \cup On
          PROVE  x \in Later(J, R, q)
      <3>1. CASE x = q
        BY <1>2, <1>3, <3>1 DEF Later
      <3>2. CASE x \in Down
        <4>1. Under(q, x) /\ x # q
          BY <1>8, <3>2 DEF Strictly
        <4>2. R[q] <= R[x]
          BY <1>2, <4>1
        <4>3. q # TableRoot => Under(ParentOf(q), x)
          BY <1>3, <4>1
        <4> QED BY <4>2, <4>3 DEF Later
      <3>3. CASE x \in On
        <4>1. s # Nobody /\ R[s] <= R[x] /\ (s # TableRoot => Under(ParentOf(s), x))
          BY <3>3 DEF Later
        <4>2. q # TableRoot /\ Under(ParentOf(q), x) /\ R[q] <= R[x]
          BY <1>2, <1>6, <4>1
        <4> QED BY <4>2 DEF Later
      <3> QED BY <2>2, <3>1, <3>2, <3>3
    <2>3. {q} \cup Down \cup On \subseteq J
      BY DEF Later
    <2> QED BY <2>1, <2>2, <2>3 DEF Later
  <1> QED BY <1>4, <1>6, <1>8, <1>9

\* _EraseSubtree: what the links reach is what is below.
LEMMA SubtreeIs ==
    ASSUME TableConstants, NEW t, NEW R, NEW K, InOrder(t, R, K), NEW p \in DOMAIN t.nodes
    PROVE  Table!Subtree(t, p) = Strictly(DOMAIN t.nodes, p)
  <1> DEFINE J == DOMAIN t.nodes
             On(f, q) == {q} \cup (IF t.nodes[q].first = Nobody THEN {} ELSE f[t.nodes[q].first])
                             \cup (IF Table!NextSibling(t, q) = Nobody THEN {}
                                   ELSE f[Table!NextSibling(t, q)])
             IsBelow(f) == f = [q \in J |-> On(f, q)]
             below == CHOOSE f : IsBelow(f)
             F == [q \in J |-> Later(J, R, q)]
  <1>1. Table!Subtree(t, p) = IF t.nodes[p].first = Nobody THEN {} ELSE below[t.nodes[p].first]
    BY DEF Table!Subtree, Nobody
  <1>2. ASSUME NEW q \in J
        PROVE  /\ Later(J, R, q) =
                      {q} \cup (IF t.nodes[q].first = Nobody THEN {} ELSE Later(J, R, t.nodes[q].first))
                          \cup (IF Table!NextSibling(t, q) = Nobody THEN {}
                                ELSE Later(J, R, Table!NextSibling(t, q)))
               /\ t.nodes[q].first # Nobody => t.nodes[q].first \in J /\ R[q] < R[t.nodes[q].first]
               /\ Table!NextSibling(t, q) # Nobody =>
                     Table!NextSibling(t, q) \in J /\ R[q] < R[Table!NextSibling(t, q)]
    BY LaterIs
  <1>3. IsBelow(F)
    <2>1. ASSUME NEW q \in J
          PROVE  F[q] = On(F, q)
      BY <1>2
    <2> HIDE DEF On
    <2> QED BY <2>1
  <1>4. IsBelow(below)
    <2> HIDE DEF IsBelow
    <2> QED BY <1>3 DEF below
  <1> HIDE DEF below
  <1> DEFINE T == {q \in J : below[q] = Later(J, R, q)}
  <1>5. J \subseteq T
    <2>1. ASSUME NEW q \in J, \A x \in J : R[q] < R[x] => x \in T
          PROVE  q \in T
      <3>1. below[q] = On(below, q)
        BY <1>4
      <3> QED BY <1>2, <2>1, <3>1
    <2>2. R \in [J -> 0 .. K] /\ K \in Nat
      BY DEF InOrder, Ordered, Numbered
    <2> HIDE DEF T, J
    <2> QED BY <2>1, <2>2, ByRank
  <1> QED BY <1>1, <1>2, <1>5, LaterIs

\* v is the first entry after those below q, Nobody when there is none.
IsNext(J, R, q, v) ==
    IF v = Nobody THEN \A x \in J : R[q] < R[x] => Under(q, x)
    ELSE /\ v \in J /\ R[q] < R[v] /\ ~ Under(q, v)
         /\ \A x \in J : R[q] < R[x] /\ R[x] < R[v] => Under(q, x)

\* It is the next sibling of q, or comes after the parent of q.
LEMMA NextIs ==
    ASSUME TableConstants, NEW t, NEW R, NEW K, InOrder(t, R, K), NEW q \in DOMAIN t.nodes
    PROVE  /\ Table!NextSibling(t, q) # Nobody =>
                 IsNext(DOMAIN t.nodes, R, q, Table!NextSibling(t, q))
           /\ Table!NextSibling(t, q) = Nobody =>
                 IF q = TableRoot THEN Table!ParentLink(t, q) = Nobody /\ IsNext(DOMAIN t.nodes, R, q, Nobody)
                 ELSE /\ Table!ParentLink(t, q) # Nobody
                      /\ Table!ParentLink(t, q) \in DOMAIN t.nodes
                      /\ R[Table!ParentLink(t, q)] < R[q]
                      /\ \A v : IsNext(DOMAIN t.nodes, R, Table!ParentLink(t, q), v) =>
                                   IsNext(DOMAIN t.nodes, R, q, v)
           /\ \E v : IsNext(DOMAIN t.nodes, R, q, v)
           /\ \A v, w : IsNext(DOMAIN t.nodes, R, q, v) /\ IsNext(DOMAIN t.nodes, R, q, w) => v = w
  <1> DEFINE J == DOMAIN t.nodes
             N == t.nodes
             s == Table!NextSibling(t, q)
             par == Table!ParentLink(t, q)
  <1>1. /\ Rooted(J) /\ Numbered(J, R, K) /\ K \in Nat /\ LinkedOn(N, J, R, q)
    BY DEF InOrder, Ordered
  <1>2. /\ \A x \in J : R[x] \in Nat
        /\ \A x \in J, y \in J : Under(x, y) /\ x # y => R[x] < R[y]
        /\ \A x \in J, y \in J : R[x] = R[y] => x = y
        /\ \A x \in J, y \in J, z \in J : Under(x, y) /\ R[x] <= R[z] /\ R[z] <= R[y] => Under(x, z)
        /\ R \in [J -> 0 .. K]
    BY <1>1, ChildAfter DEF Numbered
  <1>3. /\ Nobody \notin J
        /\ \A x \in J : Under(x, x) /\ Under(TableRoot, x)
        /\ \A x \in J : x # TableRoot => ParentOf(x) \in J /\ ParentOf(x) # x /\ Under(ParentOf(x), x)
        /\ \A x \in J, y \in J, z \in J : Under(x, y) /\ Under(y, z) => Under(x, z)
        /\ \A x \in J, y \in J :
              x # TableRoot /\ y # TableRoot /\ ParentOf(x) = ParentOf(y) /\ Under(x, y) => x = y
    BY <1>1, TreeOrder
  <1>4. ASSUME s # Nobody
        PROVE  IsNext(J, R, q, s)
    <2>1. /\ q # TableRoot /\ s \in J /\ s # TableRoot /\ ParentOf(s) = ParentOf(q) /\ R[q] < R[s]
          /\ \A x \in J : R[q] <= R[x] /\ R[x] < R[s] => Under(q, x)
      BY <1>1, <1>4 DEF LinkedOn, Table!NextSibling, Nobody
    <2> HIDE DEF s
    <2>2. ~ Under(q, s)
      BY <1>2, <1>3, <2>1
    <2> QED BY <1>2, <1>4, <2>1, <2>2 DEF IsNext
  <1>5. ASSUME s = Nobody
        PROVE  ~ N[q].sibling
    BY <1>1, <1>3, <1>5 DEF LinkedOn, Table!NextSibling, Nobody
  <1>6. ASSUME s = Nobody, q = TableRoot
        PROVE  par = Nobody /\ IsNext(J, R, q, Nobody)
    <2>1. par = Nobody
      BY <1>1, <1>5, <1>6 DEF LinkedOn, Table!ParentLink
    <2>2. IsNext(J, R, q, Nobody)
      BY <1>3, <1>6 DEF IsNext
    <2> QED BY <2>1, <2>2
  <1>7. ASSUME s = Nobody, q # TableRoot
        PROVE  /\ par = ParentOf(q) /\ par # Nobody /\ par \in J /\ R[par] < R[q]
               /\ \A v : IsNext(J, R, par, v) => IsNext(J, R, q, v)
    <2>1. par = ParentOf(q) /\ \A x \in J : Under(ParentOf(q), x) /\ R[q] <= R[x] => Under(q, x)
      BY <1>1, <1>5, <1>7 DEF LinkedOn, Table!ParentLink
    <2> HIDE DEF par
    <2>2. par # Nobody /\ par \in J /\ R[par] < R[q]
      BY <1>2, <1>3, <1>7, <2>1
    <2>3. ASSUME NEW v, IsNext(J, R, par, v)
          PROVE  IsNext(J, R, q, v)
      <3>1. CASE v = Nobody
        <4>1. \A x \in J : R[q] < R[x] => Under(par, x)
          BY <1>2, <2>2, <2>3, <3>1 DEF IsNext
        <4> QED BY <1>2, <2>1, <3>1, <4>1 DEF IsNext
      <3>2. CASE v # Nobody
        <4>1. /\ v \in J /\ R[par] < R[v] /\ ~ Under(par, v)
              /\ \A x \in J : R[par] < R[x] /\ R[x] < R[v] => Under(par, x)
          BY <2>3, <3>2 DEF IsNext
        <4>2. ~ Under(q, v)
          BY <1>3, <1>7, <2>1, <2>2, <4>1
        <4>3. R[q] < R[v]
          <5>1. ~ (R[v] <= R[q])
            BY <1>2, <1>3, <1>7, <2>1, <2>2, <4>1
          <5> QED BY <1>2, <4>1, <5>1
        <4>4. \A x \in J : R[q] < R[x] /\ R[x] < R[v] => Under(q, x)
          BY <1>2, <2>1, <2>2, <4>1
        <4> QED BY <3>2, <4>1, <4>2, <4>3, <4>4 DEF IsNext
      <3> QED BY <3>1, <3>2
    <2> QED BY <2>1, <2>2, <2>3
  <1>8. \E v : IsNext(J, R, q, v)
    <2> DEFINE A == {x \in J : R[q] < R[x] /\ ~ Under(q, x)}
    <2>1. CASE A = {}
      <3>1. IsNext(J, R, q, Nobody)
        BY <2>1 DEF IsNext
      <3> QED BY <3>1
    <2>2. CASE A # {}
      <3>1. PICK v \in A : \A x \in A : R[v] <= R[x]
        <4>1. A \in SUBSET J
          OBVIOUS
        <4> HIDE DEF A
        <4> QED BY <1>1, <1>2, <2>2, <4>1, Extremes
      <3>2. IsNext(J, R, q, v)
        BY <1>2, <1>3, <3>1 DEF IsNext
      <3> QED BY <3>2
    <2> QED BY <2>1, <2>2
  <1>9. ASSUME NEW v, NEW w, IsNext(J, R, q, v), IsNext(J, R, q, w)
        PROVE  v = w
    <2>1. v = Nobody => w = Nobody
      BY <1>9 DEF IsNext
    <2>2. w = Nobody => v = Nobody
      BY <1>9 DEF IsNext
    <2>3. CASE v # Nobody /\ w # Nobody
      <3>1. v \in J /\ w \in J /\ ~ (R[v] < R[w]) /\ ~ (R[w] < R[v])
        BY <1>9, <2>3 DEF IsNext
      <3> QED BY <1>2, <3>1
    <2> QED BY <2>1, <2>2, <2>3
  <1> QED BY <1>4, <1>6, <1>7, <1>8, <1>9

\* GetNextSubtree.
LEMMA NextSubtreeIs ==
    ASSUME TableConstants, NEW t, NEW R, NEW K, InOrder(t, R, K), NEW p \in DOMAIN t.nodes
    PROVE  IsNext(DOMAIN t.nodes, R, p, Table!NextSubtree(t, p))
  <1> DEFINE J == DOMAIN t.nodes
             On(f, q) == IF Table!NextSibling(t, q) # Nobody THEN Table!NextSibling(t, q)
                         ELSE IF Table!ParentLink(t, q) = Nobody THEN Nobody
                              ELSE f[Table!ParentLink(t, q)]
             IsUp(f) == f = [q \in J |-> On(f, q)]
             up == CHOOSE f : IsUp(f)
             F == [q \in J |-> CHOOSE v : IsNext(J, R, q, v)]
  <1>1. Table!NextSubtree(t, p) = up[p]
    BY DEF Table!NextSubtree, Nobody
  <1>2. ASSUME NEW q \in J
        PROVE  IsNext(J, R, q, F[q])
    <2>1. \E v : IsNext(J, R, q, v)
      BY NextIs
    <2> QED BY <2>1
  <1> HIDE DEF F
  <1>3. ASSUME NEW q \in J
        PROVE  F[q] = On(F, q)
    <2>1. CASE Table!NextSibling(t, q) # Nobody
      BY <1>2, <2>1, NextIs
    <2>2. CASE Table!NextSibling(t, q) = Nobody /\ q = TableRoot
      BY <1>2, <2>2, NextIs
    <2>3. CASE Table!NextSibling(t, q) = Nobody /\ q # TableRoot
      <3> DEFINE a == Table!ParentLink(t, q)
      <3>1. a # Nobody /\ a \in J /\ \A v : IsNext(J, R, a, v) => IsNext(J, R, q, v)
        BY <2>3, NextIs
      <3>2. IsNext(J, R, q, F[a])
        BY <1>2, <3>1
      <3>3. F[q] = F[a]
        BY <1>2, <3>2, NextIs
      <3> QED BY <2>3, <3>1, <3>3
    <2> QED BY <2>1, <2>2, <2>3
  <1>4. IsUp(F)
    <2>1. F = [q \in J |-> F[q]]
      BY DEF F
    <2> HIDE DEF On
    <2> QED BY <1>3, <2>1
  <1>5. IsUp(up)
    <2> HIDE DEF IsUp
    <2> QED BY <1>4 DEF up
  <1> HIDE DEF up
  <1> DEFINE T == {q \in J : IsNext(J, R, q, up[q])}
  <1>6. J \subseteq T
    <2>1. ASSUME NEW q \in J, \A x \in J : R[x] < R[q] => x \in T
          PROVE  q \in T
      <3>1. up[q] = On(up, q)
        BY <1>5
      <3>2. CASE Table!NextSibling(t, q) # Nobody
        BY <3>1, <3>2, NextIs
      <3>3. CASE Table!NextSibling(t, q) = Nobody /\ q = TableRoot
        BY <3>1, <3>3, NextIs
      <3>4. CASE Table!NextSibling(t, q) = Nobody /\ q # TableRoot
        <4> DEFINE a == Table!ParentLink(t, q)
        <4>1. /\ a # Nobody /\ a \in J /\ R[a] < R[q]
              /\ \A v : IsNext(J, R, a, v) => IsNext(J, R, q, v)
          BY <3>4, NextIs
        <4>2. IsNext(J, R, a, up[a])
          BY <2>1, <4>1
        <4>3. IsNext(J, R, q, up[q])
          BY <3>1, <3>4, <4>1, <4>2
        <4> QED BY <4>3
      <3> QED BY <3>2, <3>3, <3>4
    <2>2. R \in [J -> 0 .. K] /\ K \in Nat
      BY DEF InOrder, Ordered, Numbered
    <2> HIDE DEF T, J
    <2> QED BY <2>1, <2>2, ByRank
  <1> QED BY <1>1, <1>6

\* v is the entry after q in the order.
IsAfter(J, R, q, v) ==
    IF v = Nobody THEN \A x \in J : R[x] <= R[q]
    ELSE v \in J /\ R[q] < R[v] /\ \A x \in J : R[q] < R[x] => R[v] <= R[x]

\* The iterator goes on to the next entry of the order.
LEMMA IncrementIs ==
    ASSUME TableConstants, NEW t, NEW R, NEW K, InOrder(t, R, K), NEW p \in DOMAIN t.nodes
    PROVE  IsAfter(DOMAIN t.nodes, R, p, Table!Increment(t, p))
  <1> DEFINE J == DOMAIN t.nodes
             f == t.nodes[p].first
             v == Table!NextSubtree(t, p)
  <1>1. Rooted(J) /\ Numbered(J, R, K) /\ K \in Nat /\ LinkedDown(t.nodes, J, R, p)
    BY DEF InOrder, Ordered
  <1>2. /\ \A x \in J : R[x] \in Nat
        /\ \A x \in J, y \in J : Under(x, y) /\ x # y => R[x] < R[y]
        /\ \A x \in J, y \in J, z \in J : Under(x, y) /\ R[x] <= R[z] /\ R[z] <= R[y] => Under(x, z)
    BY <1>1, ChildAfter DEF Numbered
  <1>3. Table!Increment(t, p) = IF f # Nobody THEN f ELSE v
    BY DEF Table!Increment, Nobody
  <1>4. CASE f # Nobody
    <2>1. /\ f \in J /\ f # TableRoot /\ ParentOf(f) = p
          /\ \A x \in J : Under(p, x) => x = p \/ R[f] <= R[x]
      BY <1>1, <1>4 DEF LinkedDown
    <2>2. Under(p, f) /\ R[p] < R[f]
      BY <1>1, <1>2, <2>1, TreeOrder
    <2>3. \A x \in J : R[p] < R[x] => R[f] <= R[x]
      BY <1>2, <2>1, <2>2
    <2> QED BY <1>3, <1>4, <2>1, <2>2, <2>3 DEF IsAfter
  <1>5. CASE f = Nobody
    <2>1. \A x \in J : Under(p, x) => x = p
      BY <1>1, <1>5 DEF LinkedDown
    <2>2. IsNext(J, R, p, v)
      BY NextSubtreeIs
    <2> HIDE DEF v, f
    <2>3. CASE v = Nobody
      BY <1>2, <1>3, <1>5, <2>1, <2>2, <2>3 DEF IsAfter, IsNext
    <2>4. CASE v # Nobody
      <3>1. v \in J /\ R[p] < R[v] /\ \A x \in J : R[p] < R[x] /\ R[x] < R[v] => Under(p, x)
        BY <2>2, <2>4 DEF IsNext
      <3>2. \A x \in J : R[p] < R[x] => R[v] <= R[x]
        BY <1>2, <2>1, <3>1
      <3> QED BY <1>3, <1>5, <2>4, <3>1, <3>2 DEF IsAfter
    <2> QED BY <2>3, <2>4
  <1> QED BY <1>4, <1>5

\* A list in the order R.
InRankOrder(s, R) == \A i \in 1 .. Len(s), j \in 1 .. Len(s) : i < j => R[s[i]] < R[s[j]]

\* An entry in front of a list of later ones.
LEMMA InFront ==
    ASSUME NEW J, NEW R, \A x \in J : R[x] \in Nat, NEW q \in J, NEW s \in Seq(J),
           InRankOrder(s, R), \A x \in HeldIn(s) : R[q] < R[x]
    PROVE  /\ <<q>> \o s \in Seq(J) /\ InRankOrder(<<q>> \o s, R)
           /\ HeldIn(<<q>> \o s) = {q} \cup HeldIn(s)
  <1> DEFINE u == <<q>> \o s
  <1>1. <<q>> \in Seq(J) /\ HeldIn(<<q>>) = {q}
    BY OneHeld
  <1>2. u \in Seq(J) /\ HeldIn(u) = {q} \cup HeldIn(s)
    <2>1. <<q>> \o s \in Seq(J) /\ HeldIn(<<q>> \o s) = HeldIn(<<q>>) \cup HeldIn(s)
      BY <1>1, BothHeld, ZenonT(30)
    <2> QED BY <1>1, <2>1
  <1>3. /\ Len(u) = Len(s) + 1 /\ Len(s) \in Nat /\ u[1] = q
        /\ \A i \in 1 .. Len(u) : i # 1 => i - 1 \in 1 .. Len(s) /\ u[i] = s[i - 1]
    BY <1>1
  <1> HIDE DEF u
  <1>4. ASSUME NEW i \in 1 .. Len(u), NEW j \in 1 .. Len(u), i < j
        PROVE  R[u[i]] < R[u[j]]
    <2>1. j # 1 /\ j - 1 \in 1 .. Len(s) /\ u[j] = s[j - 1]
      BY <1>3, <1>4
    <2>2. CASE i = 1
      <3>1. s[j - 1] \in HeldIn(s)
        BY <2>1 DEF HeldIn, Table!ToSet
      <3> QED BY <1>3, <2>1, <2>2, <3>1
    <2>3. CASE i # 1
      <3>1. i - 1 \in 1 .. Len(s) /\ u[i] = s[i - 1] /\ i - 1 < j - 1
        BY <1>3, <1>4, <2>3
      <3> QED BY <2>1, <3>1 DEF InRankOrder
    <2> QED BY <2>2, <2>3
  <1>5. InRankOrder(u, R)
    BY <1>4 DEF InRankOrder
  <1> QED BY <1>2, <1>5 DEF u

\* A list in the order has no entry twice.
LEMMA OrderedOnce ==
    ASSUME NEW J, NEW R, \A x \in J : R[x] \in Nat, NEW s \in Seq(J), InRankOrder(s, R)
    PROVE  Once(s)
  <1> SUFFICES ASSUME NEW i \in DOMAIN s, NEW j \in DOMAIN s, s[i] = s[j]
               PROVE  i = j
    BY DEF Once, Table!IsInjective
  <1>1. i \in 1 .. Len(s) /\ j \in 1 .. Len(s) /\ s[i] \in J
    OBVIOUS
  <1>2. ~ (R[s[i]] < R[s[j]]) /\ ~ (R[s[j]] < R[s[i]])
    BY <1>1
  <1>3. ~ (i < j) /\ ~ (j < i)
    BY <1>1, <1>2 DEF InRankOrder
  <1> QED BY <1>1, <1>3

\* The iteration from an entry goes through those that come later, up to another.
LEMMA IteratedIs ==
    ASSUME TableConstants, NEW t, NEW R, NEW K, InOrder(t, R, K), NEW from, NEW to,
           to = Nobody \/ to \in DOMAIN t.nodes,
           from = Nobody \/ from \in DOMAIN t.nodes,
           from # Nobody /\ to # Nobody => R[from] <= R[to]
    PROVE  /\ Table!Iterated(t, from, to) \in Seq(DOMAIN t.nodes)
           /\ InRankOrder(Table!Iterated(t, from, to), R)
           /\ HeldIn(Table!Iterated(t, from, to)) =
                 IF from = Nobody THEN {}
                 ELSE {x \in DOMAIN t.nodes : R[from] <= R[x] /\ (to # Nobody => R[x] < R[to])}
  <1> DEFINE J == DOMAIN t.nodes
             I == J \cup {Nobody}
             Inc(q) == Table!Increment(t, q)
             On(f, q) == IF q \in {to, Nobody} THEN <<>> ELSE <<q>> \o f[Inc(q)]
             IsFrom(f) == f = [q \in I |-> On(f, q)]
             iter == CHOOSE f : IsFrom(f)
             Up(q) == {x \in J : R[q] <= R[x]} \cup {Nobody}
             Part(q, g) == DOMAIN g = Up(q) /\ \A x \in Up(q) : g[x] = On(g, x)
  <1>1. Table!Iterated(t, from, to) = iter[from]
    BY DEF Table!Iterated, Nobody
  <1>2. ASSUME NEW q \in J
        PROVE  IsAfter(J, R, q, Inc(q))
    BY IncrementIs
  <1>3. /\ R \in [J -> 0 .. K] /\ K \in Nat /\ \A x \in J : R[x] \in Nat
        /\ \A x \in J, y \in J : R[x] = R[y] => x = y
        /\ Rooted(J) /\ Numbered(J, R, K)
    BY DEF InOrder, Ordered, Numbered
  <1>4. Nobody \notin J
    BY <1>3, TreeOrder
  <1> HIDE DEF J, Inc
  <1>5. \E f : IsFrom(f)
    <2> DEFINE T == {q \in J : \E g : Part(q, g)}
    <2>1. ASSUME NEW q \in J, \A x \in J : R[q] < R[x] => x \in T
          PROVE  q \in T
      <3>1. CASE Inc(q) = Nobody
        <4> DEFINE g == [x \in Up(q) |-> IF x = q /\ q # to THEN <<q>> \o <<>> ELSE <<>>]
        <4>1. Up(q) = {q, Nobody}
          BY <1>2, <1>3, <3>1 DEF IsAfter
        <4>2. /\ g[Nobody] = <<>> /\ g[q] = IF q # to THEN <<q>> \o <<>> ELSE <<>>
              /\ DOMAIN g = Up(q)
          BY <1>4, <4>1
        <4> HIDE DEF g
        <4>3. \A x \in Up(q) : g[x] = On(g, x)
          BY <1>4, <3>1, <4>1, <4>2
        <4>4. Part(q, g)
          BY <4>2, <4>3
        <4> QED BY <4>4
      <3>2. CASE Inc(q) # Nobody
        <4> DEFINE v == Inc(q)
        <4>1. v \in J /\ R[q] < R[v] /\ \A x \in J : R[q] < R[x] => R[v] <= R[x]
          BY <1>2, <3>2 DEF IsAfter
        <4>2. PICK h : Part(v, h)
          BY <2>1, <4>1
        <4> DEFINE g == [x \in Up(q) |-> IF x = q THEN On(h, q) ELSE h[x]]
        <4>3. \A x \in Up(q) : x = q \/ x \in Up(v)
          BY <1>3, <4>1
        <4>4. q \in Up(q) /\ q \notin Up(v) /\ Up(v) \subseteq Up(q)
          BY <1>3, <1>4, <4>1
        <4>5. ASSUME NEW x \in Up(v)
              PROVE  x \notin {to, Nobody} => Inc(x) \in Up(v)
          <5>1. x \in J => Inc(x) = Nobody \/ (Inc(x) \in J /\ R[x] < R[Inc(x)])
            BY <1>2 DEF IsAfter
          <5> QED BY <1>3, <4>1, <5>1
        <4>6. DOMAIN g = Up(q) /\ g[q] = On(h, q) /\ \A x \in Up(v) : g[x] = h[x]
          BY <4>4
        <4> HIDE DEF g
        <4>7. v \in Up(v)
          BY <1>3, <4>1
        <4> HIDE DEF v, Up
        <4>8. g[q] = On(g, q)
          BY <4>6, <4>7 DEF v
        <4>9. ASSUME NEW x \in Up(v)
              PROVE  g[x] = On(g, x)
          BY <4>2, <4>5, <4>6, <4>9
        <4>10. Part(q, g)
          BY <4>3, <4>6, <4>8, <4>9
        <4> QED BY <4>10
      <3> QED BY <3>1, <3>2
    <2>2. J \subseteq T
      <3> HIDE DEF T
      <3> QED BY <1>3, <2>1, ByRank
    <2>3. CASE J = {}
      <3> DEFINE g == [x \in I |-> <<>>]
      <3>1. IsFrom(g)
        BY <2>3
      <3> QED BY <3>1
    <2>4. CASE J # {}
      <3>1. TableRoot \in J /\ \A x \in J : Under(TableRoot, x)
        BY <1>3, <2>4, TreeOrder
      <3>2. Up(TableRoot) = I
        BY <1>3, <3>1 DEF Numbered
      <3>3. PICK g : Part(TableRoot, g)
        BY <2>2, <3>1
      <3>4. DOMAIN g = I /\ \A x \in I : g[x] = On(g, x)
        BY <3>2, <3>3
      <3> DEFINE h == [x \in I |-> g[x]]
      <3>5. ASSUME NEW x \in I
            PROVE  On(g, x) = On(h, x)
        <4>1. x \notin {to, Nobody} => Inc(x) \in I
          BY <1>2 DEF IsAfter
        <4> QED BY <4>1
      <3> HIDE DEF On
      <3>6. h = [x \in I |-> On(h, x)]
        BY <3>4, <3>5
      <3> QED BY <3>6
    <2> QED BY <2>3, <2>4
  <1>6. IsFrom(iter)
    <2> HIDE DEF IsFrom
    <2> QED BY <1>5 DEF iter
  <1> HIDE DEF iter
  <1> DEFINE Span(q) == {x \in J : R[q] <= R[x] /\ (to # Nobody => R[x] < R[to])}
             Right(q) == /\ iter[q] \in Seq(J) /\ InRankOrder(iter[q], R)
                         /\ HeldIn(iter[q]) = Span(q)
             U == {q \in J : (to # Nobody => R[q] <= R[to]) => Right(q)}
  <1>7. <<>> \in Seq(J) /\ InRankOrder(<<>>, R) /\ HeldIn(<<>>) = {}
    BY NoneHeld DEF InRankOrder
  <1>8. ASSUME NEW q \in J, \A x \in J : R[q] < R[x] => x \in U, to # Nobody => R[q] <= R[to]
        PROVE  Right(q)
    <2>1. iter[q] = On(iter, q)
      BY <1>6
    <2>2. CASE q = to
      <3>1. Span(q) = {}
        BY <1>3, <1>4, <2>2
      <3> HIDE DEF Span
      <3> QED BY <1>7, <2>1, <2>2, <3>1
    <2>3. CASE q # to
      <3> DEFINE v == Inc(q)
      <3>1. iter[q] = <<q>> \o iter[v]
        BY <1>4, <2>1, <2>3
      <3>2. IsAfter(J, R, q, v)
        BY <1>2
      <3> HIDE DEF v
      <3>3. CASE v = Nobody
        <4>1. iter[v] = <<>>
          BY <1>6, <3>3
        <4>2. \A x \in J : R[x] <= R[q]
          BY <3>2, <3>3 DEF IsAfter
        <4>3. to = Nobody
          BY <1>3, <1>8, <2>3, <4>2 DEF J
        <4>4. Span(q) = {q}
          BY <1>3, <4>2, <4>3
        <4>5. <<q>> \o <<>> = <<q>>
          OBVIOUS
        <4>6. iter[q] = <<q>>
          BY <3>1, <4>1, <4>5
        <4>7. <<q>> \in Seq(J) /\ HeldIn(<<q>>) = {q} /\ InRankOrder(<<q>>, R)
          BY OneHeld DEF InRankOrder
        <4> HIDE DEF Span
        <4> QED BY <4>4, <4>6, <4>7
      <3>4. CASE v # Nobody
        <4>1. v \in J /\ R[q] < R[v] /\ \A x \in J : R[q] < R[x] => R[v] <= R[x]
          BY <3>2, <3>4 DEF IsAfter
        <4>2. to # Nobody => to \in J /\ R[q] < R[to]
          <5>1. to # Nobody => to \in J
            BY DEF J
          <5> QED BY <1>3, <1>8, <2>3, <5>1
        <4>3. to # Nobody => R[v] <= R[to]
          BY <4>1, <4>2
        <4>4. Right(v)
          BY <1>8, <4>1, <4>3
        <4>5. \A x \in HeldIn(iter[v]) : R[q] < R[x]
          BY <1>3, <4>1, <4>4
        <4>6. Span(q) = {q} \cup Span(v)
          BY <1>3, <4>1, <4>2
        <4> HIDE DEF Span
        <4>7. /\ <<q>> \o iter[v] \in Seq(J) /\ InRankOrder(<<q>> \o iter[v], R)
              /\ HeldIn(<<q>> \o iter[v]) = {q} \cup HeldIn(iter[v])
          BY <1>3, <4>4, <4>5, InFront
        <4> QED BY <3>1, <4>4, <4>6, <4>7
      <3> QED BY <3>3, <3>4
    <2> QED BY <2>2, <2>3
  <1>9. J \subseteq U
    <2>1. \A q \in J : (\A x \in J : R[q] < R[x] => x \in U) => q \in U
      <3> HIDE DEF Right
      <3> SUFFICES ASSUME NEW q \in J, \A x \in J : R[q] < R[x] => x \in U
                   PROVE  q \in U
        OBVIOUS
      <3>1. (to # Nobody => R[q] <= R[to]) => Right(q)
        BY <1>8
      <3> QED BY <3>1
    <2> HIDE DEF U
    <2> QED BY <1>3, <2>1, ByRank
  <1>10. CASE from = Nobody
    <2>1. iter[from] = <<>>
      BY <1>6, <1>10
    <2> QED BY <1>1, <1>7, <1>10, <2>1 DEF J
  <1>11. CASE from # Nobody
    <2>1. from \in J
      BY <1>11 DEF J
    <2>2. Right(from)
      BY <1>9, <1>11, <2>1
    <2> QED BY <1>1, <1>11, <2>2 DEF J
  <1> QED BY <1>10, <1>11

\* Links can change without the hash table.
LEMMA RelinkedIs ==
    ASSUME NEW t, WellFiled(t), NEW M \in [DOMAIN t.nodes -> TableEntry]
    PROVE  WellFiled([t EXCEPT !.nodes = M])
  <1>1. t \in [nodes : EntryMaps, buckets : Chains] /\ Filed(t.buckets, DOMAIN t.nodes)
    BY DEF WellFiled
  <1>2. M \in EntryMaps /\ DOMAIN M = DOMAIN t.nodes
    <2>1. DOMAIN t.nodes \in SUBSET TablePaths
      BY <1>1, EntryMapsAre
    <2> QED BY <2>1, EntryMapsAre
  <1> DEFINE u == [t EXCEPT !.nodes = M]
  <1>3. u \in [nodes : EntryMaps, buckets : Chains] /\ u.nodes = M /\ u.buckets = t.buckets
    BY <1>1, <1>2
  <1> HIDE DEF u
  <1>4. WellFiled(u)
    BY <1>1, <1>2, <1>3 DEF WellFiled
  <1> QED BY <1>4 DEF u

\* Where a child is in the list of its parent, and the table without it.
ChildIn(t, N, p, par) ==
    /\ p # Nobody
    /\ \A x \in DOMAIN t.nodes : t.nodes[x] = N[x]
    /\ N[par].first # p => \E q \in DOMAIN t.nodes : Before(N, q, p)
    /\ \A q \in DOMAIN t.nodes : Before(N, q, p) => N[par].first # p
    /\ \A q \in DOMAIN t.nodes, r \in DOMAIN t.nodes : Before(N, q, p) /\ Before(N, r, p) => q = r
WithoutChild(t, u, N, p, par) ==
    /\ WellFiled(u) /\ DOMAIN u.nodes = DOMAIN t.nodes
    /\ \A x \in DOMAIN t.nodes :
          /\ u.nodes[x].first = IF x = par /\ N[x].first = p
                                THEN IF N[p].sibling THEN N[p].next ELSE Nobody
                                ELSE N[x].first
          /\ u.nodes[x].sibling = IF Before(N, x, p) THEN N[p].sibling ELSE N[x].sibling
          /\ u.nodes[x].next = IF Before(N, x, p) THEN N[p].next ELSE N[x].next
          /\ u.nodes[x].value = N[x].value

\* RemoveChild.
LEMMA RemoveChildIs ==
    ASSUME NEW t, WellFiled(t), NEW N, NEW p \in DOMAIN t.nodes, NEW par \in DOMAIN t.nodes,
           ChildIn(t, N, p, par)
    PROVE  WithoutChild(t, Table!RemoveChild(t, par, p), N, p, par)
  <1> DEFINE D == DOMAIN t.nodes
             M == Table!RemoveChild(t, par, p).nodes
  <1>1. t \in [nodes : EntryMaps, buckets : Chains]
    BY DEF WellFiled
  <1>2. t.nodes \in [D -> TableEntry]
    BY <1>1, EntryMapsAre
  <1>6. /\ p # Nobody /\ \A x \in D : t.nodes[x] = N[x]
        /\ N[par].first # p => \E q \in D : Before(N, q, p)
        /\ \A q \in D : Before(N, q, p) => N[par].first # p
        /\ \A q \in D, r \in D : Before(N, q, p) /\ Before(N, r, p) => q = r
    BY DEF ChildIn
  <1>3. \A x \in D : t.nodes[x] \in TableEntry /\ N[x] \in TableEntry
    BY <1>2, <1>6
  <1>4. CASE N[par].first = p
    <2> DEFINE f == Table!NextSibling(t, p)
               G == [t.nodes EXCEPT ![par].first = f]
    <2>1. f = IF N[p].sibling THEN N[p].next ELSE Nobody
      BY <1>6 DEF Table!NextSibling, Nobody
    <2>2. f \in TablePaths \cup {Nobody}
      BY <1>3, <2>1 DEF TableEntry
    <2>3. Table!RemoveChild(t, par, p) = [t EXCEPT !.nodes = G]
      BY <1>1, <1>4, <1>6 DEF Table!RemoveChild
    <2> HIDE DEF f
    <2>4. /\ G \in [D -> TableEntry]
          /\ \A x \in D : /\ G[x].first = IF x = par THEN f ELSE N[x].first
                          /\ G[x].sibling = N[x].sibling /\ G[x].next = N[x].next
                          /\ G[x].value = N[x].value
      BY <1>2, <1>3, <1>6, <2>2 DEF TableEntry
    <2>5. M = G
      BY <1>1, <2>3
    <2> HIDE DEF G, M
    <2>6. WellFiled(Table!RemoveChild(t, par, p))
      BY <2>3, <2>4, RelinkedIs
    <2>7. \A x \in D : ~ Before(N, x, p)
      BY <1>4, <1>6
    <2>8. DOMAIN M = D
      BY <2>4, <2>5
    <2>9. \A x \in D :
                /\ M[x].first = IF x = par /\ N[x].first = p
                                THEN IF N[p].sibling THEN N[p].next ELSE Nobody
                                ELSE N[x].first
                /\ M[x].sibling = IF Before(N, x, p) THEN N[p].sibling ELSE N[x].sibling
                /\ M[x].next = IF Before(N, x, p) THEN N[p].next ELSE N[x].next
                /\ M[x].value = N[x].value
      BY <1>4, <2>1, <2>4, <2>5, <2>7
    <2> QED BY <2>6, <2>8, <2>9 DEF M, WithoutChild
  <1>5. CASE N[par].first # p
    <2> DEFINE prev == CHOOSE q \in D : Table!NextSibling(t, q) = p
               G == [t.nodes EXCEPT ![prev].next = t.nodes[p].next, ![prev].sibling = t.nodes[p].sibling]
    <2>1. \A q \in D : Table!NextSibling(t, q) = p <=> Before(N, q, p)
      BY <1>6 DEF Table!NextSibling, Before, Nobody
    <2>2. prev \in D /\ Before(N, prev, p)
      <3>1. \E q \in D : Table!NextSibling(t, q) = p
        BY <1>5, <1>6, <2>1
      <3> QED BY <2>1, <3>1
    <2>10. t.nodes[par].first # p
      BY <1>5, <1>6
    <2>11. Table!RemoveChild(t, par, p) = [t EXCEPT !.nodes[prev].next = t.nodes[p].next,
                                                    !.nodes[prev].sibling = t.nodes[p].sibling]
      BY <2>10 DEF Table!RemoveChild
    <2> HIDE DEF prev
    <2>3. Table!RemoveChild(t, par, p) = [t EXCEPT !.nodes = G]
      BY <1>1, <2>11
    <2>4. /\ G \in [D -> TableEntry]
          /\ \A x \in D : /\ G[x].first = N[x].first /\ G[x].value = N[x].value
                          /\ G[x].sibling = IF x = prev THEN N[p].sibling ELSE N[x].sibling
                          /\ G[x].next = IF x = prev THEN N[p].next ELSE N[x].next
      BY <1>2, <1>3, <1>6, <2>2 DEF TableEntry
    <2>5. M = G
      BY <1>1, <2>3
    <2> HIDE DEF G, M
    <2>6. WellFiled(Table!RemoveChild(t, par, p))
      BY <2>3, <2>4, RelinkedIs
    <2>7. \A x \in D : Before(N, x, p) <=> x = prev
      BY <1>6, <2>2
    <2>8. DOMAIN M = D
      BY <2>4, <2>5
    <2>9. \A x \in D :
                /\ M[x].first = IF x = par /\ N[x].first = p
                                THEN IF N[p].sibling THEN N[p].next ELSE Nobody
                                ELSE N[x].first
                /\ M[x].sibling = IF Before(N, x, p) THEN N[p].sibling ELSE N[x].sibling
                /\ M[x].next = IF Before(N, x, p) THEN N[p].next ELSE N[x].next
                /\ M[x].value = N[x].value
      BY <1>5, <2>4, <2>5, <2>7
    <2> QED BY <2>6, <2>8, <2>9 DEF M, WithoutChild
  <1> QED BY <1>4, <1>5

\* Erase takes out a path and what is below it.
LEMMA EraseIs ==
    ASSUME TableConstants, NEW t, WellFiled(t), NEW R, NEW K, InOrder(t, R, K),
           NEW p \in DOMAIN t.nodes
    PROVE  /\ WellFiled(Table!Erase(t, p))
           /\ DOMAIN Table!Erase(t, p).nodes = Left(DOMAIN t.nodes, p)
           /\ InOrder(Table!Erase(t, p), Ranks(R, Left(DOMAIN t.nodes, p)), K)
           /\ \A x \in Left(DOMAIN t.nodes, p) : Table!Erase(t, p).nodes[x].value = t.nodes[x].value
  <1> DEFINE N == t.nodes
             D == DOMAIN N
             L == Left(D, p)
             par == ParentOf(p)
             cut == Table!EraseFromTable(t, Strictly(D, p))
             off == IF p = TableRoot THEN cut ELSE Table!RemoveChild(cut, par, p)
             end == Table!EraseFromTable(off, {p})
  <1>1. Rooted(D) /\ N \in EntryMaps /\ K \in Nat /\ Ordered(N, D, R, K)
    BY DEF InOrder
  <1>2. Table!Erase(t, p) = end
    <2>1. Table!Subtree(t, p) = Strictly(D, p)
      BY SubtreeIs
    <2> QED BY <2>1, UnderIs DEF Table!Erase, ParentOf
  <1>3. p \in TablePaths /\ p # Nobody /\ Under(p, p) /\ \A x \in D : Under(TableRoot, x)
    BY <1>1, TreeOrder
  <1>4. WellFiled(cut) /\ DOMAIN cut.nodes = D \ Strictly(D, p) /\ \A x \in DOMAIN cut.nodes : cut.nodes[x] = N[x]
    <2>1. WellFiled(cut) /\ cut.nodes = Without(N, Strictly(D, p))
      BY EraseFromTableIs
    <2> HIDE DEF cut
    <2> QED BY <2>1 DEF Without
  <1>5. L = (D \ Strictly(D, p)) \ {p} /\ p \in D \ Strictly(D, p) /\ L \subseteq D /\ p \notin L
    BY <1>3 DEF Left, Strictly
  <1> HIDE DEF cut
  <1>6. CASE p = TableRoot
    <2>1. L = {}
      BY <1>3, <1>6 DEF Left
    <2>2. WellFiled(end) /\ end.nodes = Without(cut.nodes, {p})
      BY <1>4, <1>6, EraseFromTableIs
    <2>3. DOMAIN end.nodes = L
      BY <1>4, <1>5, <2>2 DEF Without
    <2>4. Rooted(L) /\ Ordered(end.nodes, L, Ranks(R, L), K)
      BY <2>1 DEF Rooted, Ordered, Numbered, Ranks
    <2>5. end.nodes \in EntryMaps
      BY <2>2 DEF WellFiled
    <2> HIDE DEF end, L
    <2> QED BY <1>1, <1>2, <2>1, <2>2, <2>3, <2>4, <2>5 DEF InOrder, L
  <1>7. CASE p # TableRoot
    <2>1. /\ par \in D /\ ~ Under(p, par)
      BY <1>1, <1>7, TreeOrder
    <2>2. par \in DOMAIN cut.nodes /\ p \in DOMAIN cut.nodes /\ DOMAIN cut.nodes \subseteq D
      BY <1>4, <1>5, <2>1 DEF Strictly
    <2>3. /\ N[par].first # p => \E q \in D : Before(N, q, p)
          /\ \A q \in D : Before(N, q, p) => N[par].first # p /\ ~ Under(p, q)
          /\ \A q \in D, r \in D : Before(N, q, p) /\ Before(N, r, p) => q = r
      BY <1>1, <1>7, SiblingBefore
    <2>4. N[par].first # p => \E q \in DOMAIN cut.nodes : Before(N, q, p)
      BY <1>4, <2>3 DEF Strictly
    <2> DEFINE M == off.nodes
    <2>5. off = Table!RemoveChild(cut, par, p)
      BY <1>7
    <2> HIDE DEF par, off
    <2>12. ChildIn(cut, N, p, par)
      BY <1>3, <1>4, <2>2, <2>3, <2>4 DEF ChildIn
    <2>13. WithoutChild(cut, off, N, p, par)
      BY <1>4, <2>2, <2>5, <2>12, RemoveChildIs
    <2>6. /\ WellFiled(off) /\ DOMAIN M = DOMAIN cut.nodes
          /\ \A x \in DOMAIN cut.nodes :
                /\ M[x].first = IF x = par /\ N[x].first = p
                                THEN IF N[p].sibling THEN N[p].next ELSE Nobody
                                ELSE N[x].first
                /\ M[x].sibling = IF Before(N, x, p) THEN N[p].sibling ELSE N[x].sibling
                /\ M[x].next = IF Before(N, x, p) THEN N[p].next ELSE N[x].next
                /\ M[x].value = N[x].value
      BY <2>13 DEF WithoutChild
    <2>7. WellFiled(end) /\ end.nodes = Without(M, {p})
      BY <2>6, EraseFromTableIs
    <2>8. DOMAIN end.nodes = L /\ \A x \in L : x \in DOMAIN cut.nodes /\ end.nodes[x] = M[x]
      BY <1>4, <1>5, <2>6, <2>7 DEF Without
    <2>9. Unlinked(N, end.nodes, p, L)
      BY <2>6, <2>8 DEF Unlinked, par
    <2> HIDE DEF end, L, M
    <2>10. Rooted(L) /\ Ordered(end.nodes, L, Ranks(R, L), K)
      BY <1>1, <1>7, <2>9, RemovalKeepsOrder DEF L
    <2>11. end.nodes \in EntryMaps
      BY <2>7 DEF WellFiled
    <2>14. InOrder(end, Ranks(R, L), K)
      BY <1>1, <2>8, <2>10, <2>11 DEF InOrder
    <2> QED BY <1>2, <2>6, <2>7, <2>8, <2>14 DEF L
  <1> QED BY <1>6, <1>7

\* A path and its ancestors.
Prefixes(p) == {q \in TablePaths : Under(q, p)}

\* Each has its length.
LEMMA PrefixesAre ==
    ASSUME TableConstants, NEW p \in TablePaths
    PROVE  /\ Len(p) \in Nat
           /\ \A n \in 0 .. Len(p) :
                 SubSeq(p, 1, Len(p) - n) \in Prefixes(p) /\ Len(SubSeq(p, 1, Len(p) - n)) = Len(p) - n
           /\ \A q \in Prefixes(p) :
                 /\ Len(q) \in Nat /\ Len(q) <= Len(p)
                 /\ Len(p) - Len(q) \in 0 .. Len(p) /\ q = SubSeq(p, 1, Len(p) - (Len(p) - Len(q)))
           /\ \A q \in Prefixes(p), r \in Prefixes(p) : Len(q) = Len(r) => q = r
           /\ \A q \in Prefixes(p), r \in Prefixes(p) : Len(q) <= Len(r) => Under(q, r)
           /\ p \in Prefixes(p)
  <1>1. p \in AnyPath /\ Len(p) \in Nat /\ TablePaths \subseteq AnyPath
    BY TablePathsAre DEF AnyPath
  <1>2. ASSUME NEW n \in 0 .. Len(p)
        PROVE  /\ SubSeq(p, 1, Len(p) - n) \in Prefixes(p)
               /\ Len(SubSeq(p, 1, Len(p) - n)) = Len(p) - n
    <2> DEFINE m == Len(p) - n
               q == SubSeq(p, 1, m)
    <2>1. m \in Nat /\ m <= Len(p)
      BY <1>1
    <2> HIDE DEF m
    <2>2. q \in AnyPath /\ Len(q) = m /\ \A i \in 1 .. m : q[i] = p[i]
      BY <1>1, <2>1, Beginning DEF AnyPath
    <2> HIDE DEF q
    <2>3. HasPrefix(p, q)
      BY <1>1, <2>1, <2>2, PrefixNames
    <2>4. Under(q, p)
      BY <2>3, UnderIs
    <2>5. q \in TablePaths
      BY <2>2, <2>4, PrefixesInTable
    <2> QED BY <2>2, <2>4, <2>5 DEF Prefixes, q, m
  <1>3. \A q \in Prefixes(p) : q \in AnyPath /\ Under(q, p)
    BY <1>1 DEF Prefixes
  <1>4. ASSUME NEW q \in Prefixes(p), NEW r \in Prefixes(p)
        PROVE  /\ Len(q) \in Nat /\ Len(r) \in Nat
               /\ Len(q) = Len(r) => q = r
               /\ Len(q) <= Len(r) => Under(q, r)
    <2>1. q \in AnyPath /\ r \in AnyPath /\ Under(q, p) /\ Under(r, p)
      BY <1>3
    <2>2. Len(q) \in Nat /\ Len(r) \in Nat
      BY <2>1 DEF AnyPath
    <2>3. Len(q) = Len(r) => q = r
      BY <1>1, <2>1, UnderOrder
    <2>4. Under(q, r) \/ Under(r, q)
      BY <1>1, <2>1, UnderOrder
    <2>5. Under(r, q) => Len(r) <= Len(q)
      BY <2>1, UnderOrder
    <2>6. Under(q, q)
      BY <2>1, UnderOrder
    <2> QED BY <2>2, <2>3, <2>4, <2>5, <2>6
  <1>5. ASSUME NEW q \in Prefixes(p)
        PROVE  /\ Len(q) \in Nat /\ Len(q) <= Len(p)
               /\ Len(p) - Len(q) \in 0 .. Len(p) /\ q = SubSeq(p, 1, Len(p) - (Len(p) - Len(q)))
    <2>1. Len(q) \in Nat /\ Len(q) <= Len(p)
      BY <1>1, <1>3, <1>4, UnderOrder
    <2> DEFINE n == Len(p) - Len(q)
    <2>2. n \in 0 .. Len(p) /\ Len(p) - n = Len(q)
      BY <1>1, <2>1
    <2> HIDE DEF n
    <2>3. q = SubSeq(p, 1, Len(p) - n)
      BY <1>2, <1>4, <2>2
    <2> QED BY <2>1, <2>2, <2>3 DEF n
  <1>6. p \in Prefixes(p)
    BY <1>1, UnderOrder DEF Prefixes
  <1> QED BY <1>1, <1>2, <1>4, <1>5, <1>6

\* The entries an insertion makes.
LEMMA MissingIs ==
    ASSUME TableConstants, NEW t, WellFiled(t), Rooted(DOMAIN t.nodes), NEW p \in TablePaths
    PROVE  /\ Table!Missing(t, p) \in Seq(TablePaths) /\ Once(Table!Missing(t, p))
           /\ HeldIn(Table!Missing(t, p)) = Prefixes(p) \ DOMAIN t.nodes
           /\ \A i \in 1 .. Len(Table!Missing(t, p)) : Len(Table!Missing(t, p)[i]) = Len(p) - i + 1
  <1> DEFINE D == DOMAIN t.nodes
             Part(n) == SubSeq(p, 1, Len(p) - n)
             found == {n \in 0 .. Len(p) : Table!Find(t, Part(n))}
             m == IF found = {} THEN Len(p) + 1 ELSE Table!Min(found)
             s == Table!Missing(t, p)
  <1>1. s = [i \in 1 .. m |-> Part(i - 1)]
    BY DEF Table!Missing
  <1>2. /\ Len(p) \in Nat
        /\ \A n \in 0 .. Len(p) : Part(n) \in Prefixes(p) /\ Len(Part(n)) = Len(p) - n
        /\ \A q \in Prefixes(p) : Len(q) \in Nat /\ Len(p) - Len(q) \in 0 .. Len(p) /\ q = Part(Len(p) - Len(q))
        /\ \A q \in Prefixes(p), r \in Prefixes(p) : Len(q) <= Len(r) => Under(q, r)
    BY PrefixesAre
  <1>3. Prefixes(p) \subseteq TablePaths /\ TablePaths \subseteq AnyPath
    BY TablePathsAre DEF Prefixes
  <1> HIDE DEF Part
  <1>4. ASSUME NEW n \in 0 .. Len(p)
        PROVE  n \in found <=> Part(n) \in D
    BY <1>2, <1>3, FoundIs
  <1>5. ASSUME found # {}
        PROVE  m \in found /\ \A n \in found : m <= n
    <2>1. found \subseteq Nat
      OBVIOUS
    <2> HIDE DEF found
    <2>2. \E n \in found : \A k \in found : n <= k
      BY <1>5, <2>1, LeastNumber
    <2> QED BY <1>5, <2>2 DEF Table!Min
  <1>6. m \in Nat /\ m <= Len(p) + 1
    <2>1. CASE found = {}
      BY <1>2, <2>1
    <2>2. CASE found # {}
      <3>1. m \in 0 .. Len(p)
        BY <1>5, <2>2
      <3> HIDE DEF m
      <3> QED BY <1>2, <3>1
    <2> QED BY <2>1, <2>2
  <1>7. ASSUME NEW n \in 0 .. Len(p)
        PROVE  n < m <=> Part(n) \notin D
    <2>3. n \in found <=> Part(n) \in D
      BY <1>4
    <2>1. CASE found = {}
      <3>1. m = Len(p) + 1
        BY <2>1
      <3> HIDE DEF m, found
      <3> QED BY <1>2, <2>1, <2>3, <3>1
    <2>2. CASE found # {}
      <3>1. m \in 0 .. Len(p) /\ Part(m) \in D /\ (n \in found => m <= n)
        BY <1>4, <1>5, <2>2
      <3> HIDE DEF m, found
      <3>2. n < m => Part(n) \notin D
        <4>1. n \in Nat /\ m \in Nat /\ (n < m => ~ (m <= n))
          BY <1>2, <3>1
        <4> QED BY <2>3, <3>1, <4>1
      <3>3. ASSUME ~ (n < m)
            PROVE  Part(n) \in D
        <4>1. Len(Part(n)) <= Len(Part(m))
          BY <1>2, <3>1, <3>3
        <4>2. Under(Part(n), Part(m)) /\ Part(n) \in AnyPath
          BY <1>2, <1>3, <3>1, <4>1
        <4> QED BY <3>1, <4>2 DEF Rooted
      <3> QED BY <3>2, <3>3
    <2> QED BY <2>1, <2>2
  <1> HIDE DEF m, found, s, D
  <1>8. /\ \A i \in 1 .. m : i - 1 \in 0 .. Len(p) /\ i - 1 < m
        /\ DOMAIN s = 1 .. m /\ Len(s) = m
        /\ \A i \in 1 .. m : s[i] = Part(i - 1) /\ s[i] \in Prefixes(p) /\ Len(s[i]) = Len(p) - i + 1
    <2>1. \A i \in 1 .. m : i - 1 \in 0 .. Len(p) /\ i - 1 < m
      BY <1>2, <1>6
    <2>2. DOMAIN s = 1 .. m /\ Len(s) = m
      BY <1>1, <1>6
    <2>3. ASSUME NEW i \in 1 .. m
          PROVE  s[i] = Part(i - 1) /\ s[i] \in Prefixes(p) /\ Len(s[i]) = Len(p) - i + 1
      <3>1. s[i] = Part(i - 1)
        BY <1>1
      <3>2. Part(i - 1) \in Prefixes(p) /\ Len(Part(i - 1)) = Len(p) - (i - 1)
        BY <1>2, <2>1
      <3>3. Len(p) - (i - 1) = Len(p) - i + 1
        BY <1>2, <1>6
      <3> QED BY <3>1, <3>2, <3>3
    <2> QED BY <2>1, <2>2, <2>3
  <1>9. s \in Seq(TablePaths)
    BY <1>1, <1>2, <1>3, <1>6, <1>8
  <1>10. Once(s)
    <2>1. ASSUME NEW i \in 1 .. m, NEW j \in 1 .. m, s[i] = s[j]
          PROVE  i = j
      <3>1. Len(p) - i + 1 = Len(p) - j + 1
        BY <1>8, <2>1
      <3> QED BY <1>2, <1>6, <3>1
    <2> QED BY <1>8, <2>1 DEF Once, Table!IsInjective
  <1>11. HeldIn(s) = Prefixes(p) \ D
    <2>1. ASSUME NEW i \in 1 .. m
          PROVE  s[i] \in Prefixes(p) \ D
      BY <1>7, <1>8
    <2>2. ASSUME NEW q \in Prefixes(p), q \notin D
          PROVE  \E i \in 1 .. m : q = s[i]
      <3> DEFINE n == Len(p) - Len(q)
      <3>1. n \in 0 .. Len(p) /\ q = Part(n)
        BY <1>2
      <3> HIDE DEF n
      <3>2. n < m
        BY <1>7, <2>2, <3>1
      <3>3. n + 1 \in 1 .. m /\ (n + 1) - 1 = n
        BY <1>6, <3>1, <3>2
      <3>4. s[n + 1] = Part((n + 1) - 1)
        BY <1>8, <3>3, Zenon
      <3>5. q = s[n + 1]
        BY <3>1, <3>3, <3>4, Zenon
      <3> QED BY <3>3, <3>5, Zenon
    <2>3. DOMAIN s = 1 .. m
      BY <1>8
    <2>4. HeldIn(s) = {s[i] : i \in 1 .. m}
      BY <2>3 DEF HeldIn, Table!ToSet
    <2> QED BY <2>1, <2>2, <2>4, Zenon
  <1> QED BY <1>8, <1>9, <1>10, <1>11 DEF s, D

\* The entries of a list, each with a value, none linked.
LEMMA MakeEntriesIs ==
    ASSUME TableConstants, NEW t, WellFiled(t), NEW s \in Seq(TablePaths), NEW p,
           NEW value \in TableValues \cup {TableDefault}
    PROVE  /\ WellFiled(Table!MakeEntries(t, s, p, value))
           /\ DOMAIN Table!MakeEntries(t, s, p, value).nodes = DOMAIN t.nodes \cup HeldIn(s)
           /\ \A x \in DOMAIN t.nodes : Table!MakeEntries(t, s, p, value).nodes[x] = t.nodes[x]
           /\ \A x \in HeldIn(s) \ DOMAIN t.nodes :
                 Table!MakeEntries(t, s, p, value).nodes[x] = Blank(IF x = p THEN value ELSE TableDefault)
  <1> DEFINE X == FiledTables
             D == DOMAIN t.nodes
             Done(k) == {s[j] : j \in 1 .. k}
  <1>1. \A u \in X : WellFiled(u) /\ u.nodes \in EntryMaps
    BY DEF FiledTables, WellFiled
  <1>2. \A u : WellFiled(u) => u \in X
    BY DEF FiledTables, WellFiled
  <1> DEFINE val(q) == IF q = p THEN value ELSE TableDefault
  <1>3. ASSUME NEW u \in X, NEW q \in TablePaths
        PROVE  /\ MadeIn(p, value, u, q) \in X
               /\ MadeIn(p, value, u, q).nodes =
                     IF q \in DOMAIN u.nodes THEN u.nodes ELSE Added(u.nodes, q, val(q))
    <2>1. val(q) \in TableValues \cup {TableDefault}
      OBVIOUS
    <2>2. MadeIn(p, value, u, q) = Table!InsertInTable(u, q, val(q))
      BY DEF MadeIn
    <2> HIDE DEF val
    <2>3. /\ WellFiled(Table!InsertInTable(u, q, val(q)))
          /\ Table!InsertInTable(u, q, val(q)).nodes =
                IF q \in DOMAIN u.nodes THEN u.nodes ELSE Added(u.nodes, q, val(q))
      BY <1>1, <2>1, InsertInTableIs
    <2> QED BY <1>2, <2>2, <2>3
  <1> HIDE DEF val
  <1>4. PICK c : MakeEntriesSteps(c, X, t, s, p, value)
    <2>1. t \in X
      BY <1>2
    <2>2. \A u \in X, q \in TablePaths : MadeIn(p, value, u, q) \in X
      BY <1>3
    <2> HIDE DEF X
    <2> QED BY <2>1, <2>2, MakeEntriesFold
  <1>5. /\ c \in [0 .. Len(s) -> X] /\ c[0] = t /\ Table!MakeEntries(t, s, p, value) = c[Len(s)]
        /\ \A k \in 1 .. Len(s) : c[k] = MadeIn(p, value, c[k - 1], s[k])
    BY <1>4 DEF MakeEntriesSteps
  <1> HIDE DEF X
  <1> DEFINE Good(k) ==
                 /\ DOMAIN c[k].nodes = D \cup Done(k)
                 /\ \A x \in D : c[k].nodes[x] = t.nodes[x]
                 /\ \A x \in Done(k) \ D : c[k].nodes[x] = Blank(val(x))
             T == {k \in 0 .. Len(s) : Good(k)}
  <1>6. Len(s) \in Nat /\ \A k \in 1 .. Len(s) : s[k] \in TablePaths
    OBVIOUS
  <1>7. 0 \in T
    <2>1. Done(0) = {}
      OBVIOUS
    <2> HIDE DEF Done
    <2>2. Good(0)
      BY <1>5, <2>1
    <2>3. 0 \in 0 .. Len(s)
      BY <1>6
    <2> HIDE DEF Good
    <2> QED BY <2>2, <2>3
  <1>8. ASSUME NEW k \in 1 .. Len(s), k - 1 \in T
        PROVE  k \in T
    <2> DEFINE u == c[k - 1]
               q == s[k]
    <2>1. u \in X /\ Good(k - 1) /\ k \in 0 .. Len(s) /\ q \in TablePaths
      <3>1. Good(k - 1)
        BY <1>8
      <3>2. k - 1 \in 0 .. Len(s) /\ k \in 0 .. Len(s) /\ q \in TablePaths
        BY <1>6
      <3>3. u \in X
        BY <1>5, <3>2
      <3> HIDE DEF Good
      <3> QED BY <3>1, <3>2, <3>3, Zenon
    <2>2. \A j : j \in 1 .. k <=> j = k \/ j \in 1 .. (k - 1)
      BY <1>6
    <2>3. Done(k) = Done(k - 1) \cup {q}
      BY <2>2
    <2>4. c[k].nodes = IF q \in DOMAIN u.nodes THEN u.nodes ELSE Added(u.nodes, q, val(q))
      <3>1. c[k] = MadeIn(p, value, u, q)
        BY <1>5
      <3> HIDE DEF u, q
      <3>2. MadeIn(p, value, u, q).nodes =
                IF q \in DOMAIN u.nodes THEN u.nodes ELSE Added(u.nodes, q, val(q))
        BY <1>3, <2>1, Zenon
      <3> QED BY <3>1, <3>2, Zenon
    <2> HIDE DEF Done, q
    <2>5. Good(k)
      <3>1. CASE q \in DOMAIN u.nodes
        BY <2>1, <2>3, <2>4, <3>1
      <3>2. CASE q \notin DOMAIN u.nodes
        <4>1. u.nodes \in EntryMaps
          BY <1>1, <2>1
        <4>2. /\ DOMAIN c[k].nodes = DOMAIN u.nodes \cup {q}
              /\ c[k].nodes[q] = Blank(val(q))
              /\ \A x \in DOMAIN u.nodes : x # q => c[k].nodes[x] = u.nodes[x]
          <5> DEFINE N == u.nodes
          <5>1. c[k].nodes = Added(N, q, val(q)) /\ N \in EntryMaps
            BY <2>4, <3>2, <4>1
          <5> HIDE DEF N
          <5>2. /\ DOMAIN Added(N, q, val(q)) = DOMAIN N \cup {q}
                /\ Added(N, q, val(q))[q] = Blank(val(q))
                /\ \A x \in DOMAIN N : x # q => Added(N, q, val(q))[x] = N[x]
            BY DEF Added
          <5> QED BY <5>1, <5>2 DEF N
        <4>3. q \notin D /\ q \notin Done(k - 1)
          BY <2>1, <3>2
        <4> QED BY <2>1, <2>3, <4>2, <4>3
      <3> QED BY <3>1, <3>2
    <2> QED BY <2>1, <2>5
  <1>9. Good(Len(s))
    <2> HIDE DEF T
    <2>1. 0 .. Len(s) \subseteq T
      BY <1>6, <1>7, <1>8, StepByStep
    <2>2. Len(s) \in T
      BY <1>6, <2>1
    <2> QED BY <2>2 DEF T
  <1>10. Done(Len(s)) = HeldIn(s)
    BY DEF HeldIn, Table!ToSet
  <1>11. WellFiled(c[Len(s)])
    BY <1>1, <1>5, <1>6
  <1> QED BY <1>5, <1>9, <1>10, <1>11 DEF val

\* AddChild.
LEMMA AddChildIs ==
    ASSUME NEW t, WellFiled(t), NEW p \in DOMAIN t.nodes, NEW c \in DOMAIN t.nodes, p # c
    PROVE  /\ WellFiled(Table!AddChild(t, p, c))
           /\ Table!AddChild(t, p, c).nodes = WithChild(t.nodes, p, c)
           /\ DOMAIN WithChild(t.nodes, p, c) = DOMAIN t.nodes
           /\ \A x \in DOMAIN t.nodes : /\ WithChild(t.nodes, p, c)[x].value = t.nodes[x].value
                                        /\ x \notin {p, c} => WithChild(t.nodes, p, c)[x] = t.nodes[x]
  <1> DEFINE N == t.nodes
             f == N[p].first
             G == [N EXCEPT ![p].first = c, ![c].sibling = f # Nobody,
                            ![c].next = IF f # Nobody THEN f ELSE p]
  <1>1. t \in [nodes : EntryMaps, buckets : Chains]
    BY DEF WellFiled
  <1>2. N \in [DOMAIN N -> TableEntry] /\ DOMAIN N \subseteq TablePaths
    BY <1>1, EntryMapsAre
  <1>3. f \in TablePaths \cup {Nobody} /\ N[c] \in TableEntry /\ N[p] \in TableEntry
    BY <1>2 DEF TableEntry
  <1>4. Table!AddChild(t, p, c) = [t EXCEPT !.nodes[p].first = c, !.nodes[c].sibling = f # Nobody,
                                            !.nodes[c].next = IF f # Nobody THEN f ELSE p]
    BY DEF Table!AddChild, Nobody
  <1>5. WithChild(N, p, c) = G
    BY DEF WithChild
  <1>6. p \in DOMAIN N /\ c \in DOMAIN N /\ (f # Nobody) \in BOOLEAN
    OBVIOUS
  <1> HIDE DEF f
  <1>7. Table!AddChild(t, p, c) = [t EXCEPT !.nodes = G]
    BY <1>1, <1>2, <1>4, <1>6
  <1>8. G \in [DOMAIN N -> TableEntry] /\ \A x \in DOMAIN N : G[x].value = N[x].value /\ (x \notin {p, c} => G[x] = N[x])
    BY <1>2, <1>3, <1>6 DEF TableEntry
  <1> HIDE DEF G
  <1>9. WellFiled([t EXCEPT !.nodes = G])
    BY <1>8, RelinkedIs
  <1>10. [t EXCEPT !.nodes = G].nodes = G
    BY <1>1
  <1> QED BY <1>5, <1>7, <1>8, <1>9, <1>10

\* Reverse of the community modules.
LEMMA ReverseIs ==
    ASSUME NEW S, NEW s \in Seq(S)
    PROVE  /\ Table!Reverse(s) \in Seq(HeldIn(s)) /\ Len(Table!Reverse(s)) = Len(s)
           /\ HeldIn(Table!Reverse(s)) = HeldIn(s)
           /\ \A i \in 1 .. Len(s) : Len(s) - i + 1 \in 1 .. Len(s) /\ Table!Reverse(s)[i] = s[Len(s) - i + 1]
  <1> DEFINE r == Table!Reverse(s)
             n == Len(s)
  <1>1. n \in Nat /\ r = [i \in 1 .. n |-> s[(n - i) + 1]] /\ DOMAIN s = 1 .. n
    BY DEF Table!Reverse
  <1>2. \A i \in 1 .. n : n - i + 1 \in 1 .. n
    BY <1>1
  <1>3. DOMAIN r = 1 .. n /\ Len(r) = n /\ \A i \in 1 .. n : r[i] = s[n - i + 1]
    BY <1>1
  <1>4. \A i \in 1 .. n : s[i] \in HeldIn(s)
    BY <1>1 DEF HeldIn, Table!ToSet
  <1>5. r \in Seq(HeldIn(s))
    BY <1>1, <1>2, <1>3, <1>4
  <1>6. ASSUME NEW i \in 1 .. n
        PROVE  \E j \in 1 .. n : r[j] = s[i]
    <2>1. n - i + 1 \in 1 .. n /\ n - (n - i + 1) + 1 = i
      BY <1>1, <1>2
    <2> QED BY <1>3, <2>1
  <1> HIDE DEF r, n
  <1>7. HeldIn(r) = HeldIn(s)
    <2>1. HeldIn(r) \subseteq HeldIn(s)
      BY <1>2, <1>3, <1>4 DEF HeldIn, Table!ToSet
    <2>2. HeldIn(s) \subseteq HeldIn(r)
      <3>1. \A i \in 1 .. n : \E j \in DOMAIN r : r[j] = s[i]
        BY <1>3, <1>6
      <3>2. HeldIn(s) = {s[i] : i \in 1 .. n} /\ HeldIn(r) = {r[j] : j \in DOMAIN r}
        BY <1>1 DEF HeldIn, Table!ToSet
      <3> QED BY <3>1, <3>2
    <2> QED BY <2>1, <2>2
  <1> QED BY <1>2, <1>3, <1>5, <1>7 DEF r, n

\* The entries of a new path and its ancestors, which are made but not linked.
Unjoined(u, J, p, s) ==
    /\ WellFiled(u) /\ p \in TablePaths /\ s \in Seq(TablePaths)
    /\ Once(s) /\ HeldIn(s) = Prefixes(p) \ J /\ DOMAIN u.nodes = J \cup HeldIn(s)
    /\ \A i \in 1 .. Len(s) : Len(s[i]) = Len(p) - i + 1
    /\ \A x \in HeldIn(s) : \E v : u.nodes[x] = Blank(v)

\* They are linked from the shortest down.
LEMMA JoinEntriesIs ==
    ASSUME TableConstants, NEW u, NEW J, NEW p, NEW s, Unjoined(u, J, p, s), Rooted(J),
           NEW R, NEW K \in Nat, Ordered(u.nodes, J, R, K)
    PROVE  /\ WellFiled(Table!JoinEntries(u, Table!Reverse(s)))
           /\ DOMAIN Table!JoinEntries(u, Table!Reverse(s)).nodes = DOMAIN u.nodes
           /\ \A x \in DOMAIN u.nodes :
                 Table!JoinEntries(u, Table!Reverse(s)).nodes[x].value = u.nodes[x].value
           /\ \E S, M : InOrder(Table!JoinEntries(u, Table!Reverse(s)), S, M)
  <1> DEFINE E == DOMAIN u.nodes
             New == HeldIn(s)
             X == {w \in FiledTables : DOMAIN w.nodes = E}
             r == Table!Reverse(s)
             n == Len(s)
             Done(k) == {r[j] : j \in 1 .. k}
  <1>1. /\ WellFiled(u) /\ p \in TablePaths /\ s \in Seq(TablePaths) /\ n \in Nat
        /\ Once(s) /\ New = Prefixes(p) \ J /\ E = J \cup New
        /\ \A i \in 1 .. n : Len(s[i]) = Len(p) - i + 1
        /\ \A x \in New : \E v : u.nodes[x] = Blank(v)
    BY DEF Unjoined
  <1>2. \A w \in X : WellFiled(w) /\ w.nodes \in EntryMaps /\ DOMAIN w.nodes = E
    BY DEF FiledTables, WellFiled
  <1>3. \A w : WellFiled(w) /\ DOMAIN w.nodes = E => w \in X
    BY DEF FiledTables, WellFiled
  <1>4. /\ r \in Seq(New) /\ Len(r) = n /\ HeldIn(r) = New
        /\ \A i \in 1 .. n : n - i + 1 \in 1 .. n /\ r[i] = s[n - i + 1]
    BY <1>1, ReverseIs
  <1> HIDE DEF X, r, n, E
  <1>5. ASSUME NEW q \in New, q # TableRoot
        PROVE  /\ ParentOf(q) \in E /\ ParentOf(q) # q /\ ParentOf(q) \in J \cup New
               /\ ParentOf(q) \in Prefixes(p) /\ Len(ParentOf(q)) = Len(q) - 1 /\ q \in E
    <2>1. q \in AnyPath /\ q \in TablePaths /\ Under(q, p) /\ p \in AnyPath
      BY <1>1, TablePathsAre DEF Prefixes
    <2>2. /\ ParentOf(q) \in TablePaths /\ ParentOf(q) # q /\ Under(ParentOf(q), q)
          /\ Len(ParentOf(q)) = Len(q) - 1 /\ ParentOf(q) \in AnyPath
      BY <1>5, <2>1, UnderParent, PrefixesInTable
    <2>3. Under(ParentOf(q), p)
      BY <2>1, <2>2, UnderOrder
    <2> QED BY <1>1, <2>2, <2>3 DEF Prefixes
  <1> HIDE DEF New
  <1>6. ASSUME NEW w \in X, NEW q \in New
        PROVE  /\ Joining(w, q) \in X
               /\ Joining(w, q).nodes = IF q = TableRoot THEN w.nodes ELSE WithChild(w.nodes, ParentOf(q), q)
               /\ \A x \in E : Joining(w, q).nodes[x].value = w.nodes[x].value
               /\ \A x \in E : x # q /\ (q # TableRoot => x # ParentOf(q)) => Joining(w, q).nodes[x] = w.nodes[x]
    <2>1. TableRoot = Table!Root /\ ParentOf(q) = Table!Parent(q)
      BY UnderIs DEF ParentOf
    <2>2. CASE q = TableRoot
      BY <2>1, <2>2 DEF Joining
    <2>3. CASE q # TableRoot
      <3>1. Joining(w, q) = Table!AddChild(w, ParentOf(q), q)
        BY <2>1, <2>3 DEF Joining
      <3> DEFINE a == ParentOf(q)
      <3>2. a \in DOMAIN w.nodes /\ q \in DOMAIN w.nodes /\ a # q /\ WellFiled(w)
        BY <1>2, <1>5, <2>3
      <3> HIDE DEF a
      <3>3. /\ WellFiled(Table!AddChild(w, a, q))
            /\ Table!AddChild(w, a, q).nodes = WithChild(w.nodes, a, q)
            /\ DOMAIN WithChild(w.nodes, a, q) = DOMAIN w.nodes
            /\ \A x \in DOMAIN w.nodes : /\ WithChild(w.nodes, a, q)[x].value = w.nodes[x].value
                                         /\ x \notin {a, q} => WithChild(w.nodes, a, q)[x] = w.nodes[x]
        BY <3>2, AddChildIs
      <3> QED BY <1>2, <1>3, <2>3, <3>1, <3>3 DEF a
    <2> QED BY <2>2, <2>3
  <1>7. PICK c : JoinEntriesSteps(c, X, u, r)
    <2>1. u \in X
      BY <1>1, <1>3 DEF E
    <2>2. \A w \in X, q \in New : Joining(w, q) \in X
      BY <1>6
    <2> QED BY <1>4, <2>1, <2>2, JoinEntriesFold
  <1>8. /\ c \in [0 .. n -> X] /\ c[0] = u /\ Table!JoinEntries(u, r) = c[n]
        /\ \A k \in 1 .. n : c[k] = Joining(c[k - 1], r[k])
    BY <1>4, <1>7 DEF JoinEntriesSteps
  <1> DEFINE Good(k) ==
                 /\ \A x \in E : c[k].nodes[x].value = u.nodes[x].value
                 /\ \A x \in E : x \notin J \cup Done(k) => c[k].nodes[x] = u.nodes[x]
                 /\ Rooted(J \cup Done(k))
                 /\ \E S, M : M \in Nat /\ Ordered(c[k].nodes, J \cup Done(k), S, M)
             T == {k \in 0 .. n : Good(k)}
  <1>9. 0 \in T
    <2>1. J \cup Done(0) = J
      OBVIOUS
    <2> HIDE DEF Done
    <2>2. Good(0)
      BY <1>8, <2>1
    <2>3. 0 \in 0 .. n
      BY <1>1
    <2> QED BY <2>2, <2>3
  <1>10. ASSUME NEW k \in 1 .. n, k - 1 \in T
         PROVE  k \in T
    <2> DEFINE w == c[k - 1]
               q == r[k]
               I == J \cup Done(k - 1)
    <2>1. w \in X /\ Good(k - 1) /\ k \in 0 .. n /\ q \in New /\ q = s[n - k + 1] /\ n - k + 1 \in 1 .. n
      <3>1. Good(k - 1)
        BY <1>10
      <3>2. k \in 0 .. n /\ k - 1 \in 0 .. n
        BY <1>1
      <3>3. w \in X
        BY <1>8, <3>2
      <3>4. q \in New
        BY <1>4
      <3>5. q = s[n - k + 1] /\ n - k + 1 \in 1 .. n
        BY <1>4
      <3> QED BY <3>1, <3>2, <3>3, <3>4, <3>5, Zenon
    <2>2. \A j : j \in 1 .. k <=> j = k \/ j \in 1 .. (k - 1)
      BY <1>1
    <2>3. J \cup Done(k) = I \cup {q}
      BY <2>2
    <2>4. Len(q) = Len(p) - n + k /\ Len(p) \in Nat
      <3>1. Len(p) \in Nat
        BY <1>1, PrefixesAre
      <3>2. Len(q) = Len(p) - (n - k + 1) + 1
        BY <1>1, <2>1
      <3> QED BY <1>1, <3>1, <3>2
    <2>5. ASSUME NEW j \in 1 .. (k - 1)
          PROVE  r[j] # q /\ r[j] \in New
      <3>1. j \in 1 .. n /\ n - j + 1 # n - k + 1
        BY <1>1
      <3>3. n - j + 1 \in 1 .. n /\ r[j] = s[n - j + 1] /\ r[j] \in New
        BY <1>4, <3>1
      <3>2. DOMAIN s = 1 .. n
        BY <1>1 DEF n
      <3> QED BY <1>1, <2>1, <3>1, <3>2, <3>3 DEF Once, Table!IsInjective
    <2>6. q \notin I /\ q \in E /\ I \subseteq E
      <3>1. q \notin J /\ q \in E
        BY <1>1, <2>1
      <3> QED BY <1>1, <2>5, <3>1
    <2>7. PICK S, M : M \in Nat /\ Ordered(w.nodes, I, S, M)
      BY <2>1
    <2>8. w.nodes \in EntryMaps /\ DOMAIN w.nodes = E /\ w.nodes[q] = u.nodes[q]
      BY <1>2, <2>1, <2>6
    <2>9. PICK v : u.nodes[q] = Blank(v)
      BY <1>1, <2>1
    <2>10. c[k] = Joining(w, q)
      BY <1>8
    <2>11. Rooted(I)
      BY <2>1
    <2>12. q # TableRoot => ParentOf(q) \in I
      <3> SUFFICES ASSUME q # TableRoot, ParentOf(q) \notin J PROVE ParentOf(q) \in Done(k - 1)
        OBVIOUS
      <3> DEFINE a == ParentOf(q)
      <3>1. a \in New /\ a \in Prefixes(p) /\ Len(a) = Len(q) - 1
        BY <1>5, <2>1
      <3> HIDE DEF a
      <3>2. PICK j \in 1 .. n : a = r[j]
        BY <1>4, <3>1 DEF HeldIn, Table!ToSet
      <3>3. Len(a) = Len(p) - n + j
        <4>1. n - j + 1 \in 1 .. n /\ a = s[n - j + 1]
          BY <1>4, <3>2
        <4>2. Len(a) = Len(p) - (n - j + 1) + 1
          BY <1>1, <4>1
        <4> QED BY <1>1, <2>4, <4>2
      <3>4. j = k - 1
        BY <1>1, <2>4, <3>1, <3>3
      <3>5. j \in 1 .. (k - 1)
        BY <3>4
      <3> QED BY <3>2, <3>5 DEF a
    <2> HIDE DEF Done, w, q
    <2> HIDE DEF I
    <2>13. \A x \in E : c[k].nodes[x].value = u.nodes[x].value
      BY <1>6, <2>1, <2>10 DEF w
    <2>14. ASSUME NEW x \in E, x \notin I \cup {q}
           PROVE  c[k].nodes[x] = u.nodes[x]
      <3>1. x # q /\ (q # TableRoot => x # ParentOf(q))
        BY <2>12, <2>14
      <3>2. c[k].nodes[x] = w.nodes[x]
        BY <1>6, <2>1, <2>10, <3>1
      <3> QED BY <2>1, <2>14, <3>2 DEF w, I
    <2>15. Rooted(I \cup {q}) /\ \E P, L : L \in Nat /\ Ordered(c[k].nodes, I \cup {q}, P, L)
      <3>1. CASE q = TableRoot
        <4>1. I = {}
          BY <2>6, <2>11, <3>1, TreeOrder
        <4>2. q \in TablePaths /\ Under(q, q) /\ \A x \in AnyPath : Under(x, q) => x = q
          <5>1. TableRoot \in TablePaths /\ TableRoot \in AnyPath
            BY TablePathsAre
          <5> QED BY <3>1, <5>1, UnderParent, UnderOrder
        <4>3. Rooted({q})
          BY <4>2 DEF Rooted
        <4>4. c[k].nodes = w.nodes
          BY <1>6, <2>1, <2>10, <3>1
        <4>5. /\ c[k].nodes[q].first = Nobody /\ c[k].nodes[q].next = Nobody
              /\ ~ c[k].nodes[q].sibling
          BY <2>8, <2>9, <4>4 DEF Blank, Table!Entry, Nobody
        <4> DEFINE P == [x \in {q} |-> 0]
        <4>6. Numbered({q}, P, 0)
          BY <4>2 DEF Numbered
        <4> HIDE DEF P
        <4>7. LinkedDown(c[k].nodes, {q}, P, q) /\ LinkedOn(c[k].nodes, {q}, P, q)
          BY <3>1, <4>5 DEF LinkedDown, LinkedOn
        <4>8. Ordered(c[k].nodes, {q}, P, 0)
          BY <4>6, <4>7 DEF Ordered
        <4> QED BY <4>1, <4>3, <4>8
      <3>2. CASE q # TableRoot
        <4> DEFINE a == ParentOf(q)
        <4>1. a \in I /\ c[k].nodes = WithChild(w.nodes, a, q)
          BY <1>6, <2>1, <2>10, <2>12, <3>2
        <4>2. w.nodes[q].first = Nobody
          BY <2>8, <2>9 DEF Blank, Table!Entry, Nobody
        <4> DEFINE P == Shifted(I, S, a, q)
        <4>3. ParentOf(q) = a
          OBVIOUS
        <4> HIDE DEF a
        <4>4. Rooted(I \cup {q}) /\ Ordered(WithChild(w.nodes, a, q), I \cup {q}, P, M + 1)
          BY <2>6, <2>7, <2>8, <2>11, <3>2, <4>1, <4>2, <4>3, AddChildKeepsOrder
        <4>5. M + 1 \in Nat
          BY <2>7
        <4> QED BY <4>1, <4>4, <4>5
      <3> QED BY <3>1, <3>2
    <2>16. Good(k)
      <3>1. J \cup Done(k) = I \cup {q}
        BY <2>3
      <3> QED BY <2>13, <2>14, <2>15, <3>1
    <2> QED BY <2>1, <2>16
  <1>11. Good(n)
    <2> HIDE DEF T
    <2>1. 0 .. n \subseteq T
      BY <1>1, <1>9, <1>10, StepByStep
    <2>2. n \in T
      BY <1>1, <2>1
    <2> QED BY <2>2 DEF T
  <1>12. J \cup Done(n) = E
    <2>1. Done(n) = New
      BY <1>4 DEF HeldIn, Table!ToSet
    <2> QED BY <1>1, <2>1
  <1>13. c[n] \in X
    BY <1>1, <1>8
  <1> HIDE DEF Done
  <1>14. \E S, M : InOrder(c[n], S, M)
    BY <1>2, <1>11, <1>12, <1>13 DEF InOrder
  <1> QED BY <1>2, <1>8, <1>11, <1>13, <1>14 DEF r, E

\* Insert makes the entries of a path and of its ancestors.
Inserted(t, u, p, value) ==
    /\ WellFiled(u)
    /\ DOMAIN u.nodes = DOMAIN t.nodes \cup Prefixes(p)
    /\ \A x \in DOMAIN t.nodes : u.nodes[x].value = t.nodes[x].value
    /\ \A x \in Prefixes(p) \ DOMAIN t.nodes :
          u.nodes[x].value = IF x = p THEN value ELSE TableDefault
    /\ \E S, M : InOrder(u, S, M)

\* Insert keeps the table filed and its tree in order.
LEMMA InsertIs ==
    ASSUME TableConstants, NEW t, WellFiled(t), NEW R, NEW K, InOrder(t, R, K),
           NEW p \in TablePaths,
           NEW value \in TableValues \cup {TableDefault}
    PROVE  Inserted(t, Table!Insert(t, p, value), p, value)
  <1> DEFINE D == DOMAIN t.nodes
             s == Table!Missing(t, p)
             u == Table!MakeEntries(t, s, p, value)
             w == Table!JoinEntries(u, Table!Reverse(s))
  <1>1. Table!Insert(t, p, value) = w
    BY DEF Table!Insert
  <1>2. Rooted(D) /\ K \in Nat /\ Ordered(t.nodes, D, R, K) /\ t.nodes \in EntryMaps
    BY DEF InOrder
  <1>3. /\ s \in Seq(TablePaths) /\ Once(s) /\ HeldIn(s) = Prefixes(p) \ D
        /\ \A i \in 1 .. Len(s) : Len(s[i]) = Len(p) - i + 1
    BY <1>2, MissingIs
  <1> HIDE DEF s
  <1>4. /\ WellFiled(u) /\ DOMAIN u.nodes = D \cup HeldIn(s)
        /\ \A x \in D : u.nodes[x] = t.nodes[x]
        /\ \A x \in HeldIn(s) \ D : u.nodes[x] = Blank(IF x = p THEN value ELSE TableDefault)
    BY <1>3, MakeEntriesIs
  <1> HIDE DEF u, D
  <1>5. \A x \in HeldIn(s) : u.nodes[x] = Blank(IF x = p THEN value ELSE TableDefault)
    BY <1>3, <1>4
  <1>6. Unjoined(u, D, p, s)
    BY <1>3, <1>4, <1>5 DEF Unjoined
  <1>7. Ordered(u.nodes, D, R, K)
    <2>1. \A x \in D : LinkedDown(t.nodes, D, R, x) /\ LinkedOn(t.nodes, D, R, x)
      BY <1>2 DEF Ordered
    <2>2. \A x \in D : LinkedDown(u.nodes, D, R, x) /\ LinkedOn(u.nodes, D, R, x)
      BY <1>4, <2>1 DEF LinkedDown, LinkedOn
    <2> QED BY <1>2, <2>2 DEF Ordered
  <1>8. /\ WellFiled(w) /\ DOMAIN w.nodes = DOMAIN u.nodes
        /\ \A x \in DOMAIN u.nodes : w.nodes[x].value = u.nodes[x].value
        /\ \E S, M : InOrder(w, S, M)
    BY <1>2, <1>6, <1>7, JoinEntriesIs
  <1> HIDE DEF w
  <1>9. DOMAIN w.nodes = D \cup Prefixes(p)
    BY <1>3, <1>4, <1>8
  <1>10. \A x \in D : w.nodes[x].value = t.nodes[x].value
    BY <1>4, <1>8
  <1>11. ASSUME NEW x \in Prefixes(p) \ D
         PROVE  w.nodes[x].value = IF x = p THEN value ELSE TableDefault
    <2>1. x \in HeldIn(s) /\ x \in DOMAIN u.nodes
      BY <1>3, <1>4
    <2>2. u.nodes[x].value = IF x = p THEN value ELSE TableDefault
      <3>1. \A v : Blank(v).value = v
        BY DEF Blank, Table!Entry
      <3> QED BY <1>5, <2>1, <3>1
    <2> QED BY <1>8, <2>1, <2>2
  <1> QED BY <1>1, <1>8, <1>9, <1>10, <1>11 DEF Inserted, D

\* GetNextSubtree bounds what is at and below a path (_FindSubtreeRange).
LEMMA SubtreeRangeIs ==
    ASSUME TableConstants, NEW t, WellFiled(t), NEW R, NEW K, InOrder(t, R, K),
           NEW p \in DOMAIN t.nodes
    PROVE  /\ Table!SubtreeRange(t, p) \in Seq(DOMAIN t.nodes)
           /\ InRankOrder(Table!SubtreeRange(t, p), R)
           /\ HeldIn(Table!SubtreeRange(t, p)) = {x \in DOMAIN t.nodes : Under(p, x)}
           /\ Once(Table!SubtreeRange(t, p))
  <1> DEFINE D == DOMAIN t.nodes
             v == Table!NextSubtree(t, p)
             s == Table!Iterated(t, p, v)
  <1>1. /\ Rooted(D) /\ R \in [D -> 0 .. K] /\ K \in Nat
        /\ \A x \in D : R[x] \in Nat
        /\ \A x \in D, y \in D : Under(x, y) => R[x] <= R[y]
        /\ \A x \in D, y \in D : R[x] = R[y] => x = y
        /\ \A x \in D, y \in D, z \in D : Under(x, y) /\ R[x] <= R[z] /\ R[z] <= R[y] => Under(x, z)
    BY DEF InOrder, Ordered, Numbered
  <1>2. /\ D \subseteq TablePaths /\ Nobody \notin D
        /\ \A x \in D : Under(x, x)
        /\ \A x \in D, y \in D, z \in D : Under(x, y) /\ Under(y, z) => Under(x, z)
    BY <1>1, TreeOrder
  <1>3. Table!SubtreeRange(t, p) = s
    BY <1>2, FoundIs DEF Table!SubtreeRange
  <1>4. IsNext(D, R, p, v)
    BY NextSubtreeIs
  <1> HIDE DEF v
  <1>5. v = Nobody \/ (v \in D /\ R[p] <= R[v])
    BY <1>1, <1>4 DEF IsNext
  <1>6. p # Nobody
    BY <1>2
  <1>7. /\ s \in Seq(D) /\ InRankOrder(s, R)
        /\ HeldIn(s) = IF p = Nobody THEN {}
                     ELSE {x \in D : R[p] <= R[x] /\ (v # Nobody => R[x] < R[v])}
    BY <1>5, IteratedIs
  <1> HIDE DEF s
  <1>8. ASSUME NEW x \in D
        PROVE  R[p] <= R[x] /\ (v # Nobody => R[x] < R[v]) <=> Under(p, x)
    <2>1. ASSUME R[p] <= R[x], v # Nobody => R[x] < R[v]
          PROVE  Under(p, x)
      <3>1. x = p \/ R[p] < R[x]
        BY <1>1, <2>1
      <3> QED BY <1>2, <1>4, <2>1, <3>1 DEF IsNext
    <2>2. ASSUME Under(p, x), v # Nobody
          PROVE  R[x] < R[v]
      <3>1. v \in D /\ R[p] < R[v] /\ ~ Under(p, v)
        BY <1>4, <2>2 DEF IsNext
      <3>2. ~ (R[v] <= R[x])
        BY <1>1, <2>2, <3>1
      <3> QED BY <1>1, <3>1, <3>2
    <2> QED BY <1>1, <2>1, <2>2
  <1>9. HeldIn(s) = {x \in D : Under(p, x)}
    BY <1>6, <1>7, <1>8
  <1>10. Once(s)
    BY <1>1, <1>7, OrderedOnce
  <1> QED BY <1>3, <1>7, <1>9, <1>10

\* A path below one that is renamed.
NewName(q, old, new) == Table!ReplacePrefix(q, old, new)

\* The path it gets is below the new one, and is renamed back by the same rule.
LEMMA NewNameIs ==
    ASSUME TableConstants, NEW old \in TablePaths, NEW new \in TablePaths, old # TableRoot, new # TableRoot,
           ParentOf(old) = ParentOf(new), NEW q \in TablePaths, Under(old, q)
    PROVE  /\ NewName(q, old, new) \in TablePaths /\ Under(new, NewName(q, old, new))
           /\ NewName(NewName(q, old, new), new, old) = q
           /\ q = old => NewName(q, old, new) = new
           /\ q # old => /\ NewName(q, old, new) # TableRoot /\ Under(old, ParentOf(q))
                         /\ ParentOf(NewName(q, old, new)) = NewName(ParentOf(q), old, new)
           /\ Under(old, NewName(q, old, new)) => old = new
  <1>1. TablePaths \subseteq AnyPath /\ old \in AnyPath /\ new \in AnyPath /\ q \in AnyPath
    BY TablePathsAre
  <1>2. Len(old) = Len(new) /\ Len(old) \in Nat
    <2>1. Len(ParentOf(old)) = Len(old) - 1 /\ Len(ParentOf(new)) = Len(new) - 1
          /\ Len(old) \in Nat /\ Len(new) \in Nat
      BY <1>1, UnderParent
    <2> QED BY <2>1
  <1>3. PICK r \in AnyPath : q = old \o r
    BY <1>1, UnderIs, Rest
  <1>4. ASSUME NEW a \in AnyPath, NEW b \in AnyPath, NEW s \in AnyPath
        PROVE  NewName(a \o s, a, b) = b \o s
    <2>1. ReplacePrefix(a \o s, a, b) = b \o s
      BY Replaced
    <2>2. NewName(a \o s, a, b) = ReplacePrefix(a \o s, a, b)
      BY DEF NewName, Table!ReplacePrefix, ReplacePrefix
    <2> QED BY <2>1, <2>2
  <1> DEFINE n == new \o r
  <1>5. NewName(q, old, new) = n /\ NewName(n, new, old) = q
    BY <1>1, <1>3, <1>4, SMTT(30)
  <1>6. /\ q \in AnyPath /\ n \in AnyPath /\ Len(q) = Len(old) + Len(r) /\ Len(n) = Len(new) + Len(r)
        /\ Len(r) \in Nat
        /\ HasPrefix(n, new)
        /\ \A i \in 1 .. Len(new) : n[i] = new[i]
        /\ \A i \in 1 .. Len(r) : n[Len(new) + i] = r[i] /\ q[Len(old) + i] = r[i]
    BY <1>1, <1>3, Joined DEF AnyPath
  <1>7. n \in TablePaths
    <2>1. /\ Len(q) <= TableDepth /\ \A i \in 1 .. Len(q) : q[i] \in TableNames
          /\ \A i \in 1 .. Len(new) : new[i] \in TableNames
      BY <1>1, TablePathsAre
    <2>2. ASSUME NEW i \in 1 .. Len(n)
          PROVE  n[i] \in TableNames
      <3>1. CASE i \in 1 .. Len(new)
        BY <1>6, <2>1, <3>1
      <3>2. CASE i \notin 1 .. Len(new)
        <4> DEFINE j == i - Len(new)
        <4>1. j \in 1 .. Len(r) /\ Len(new) + j = i /\ Len(old) + j \in 1 .. Len(q)
          BY <1>2, <1>6, <3>2
        <4> HIDE DEF j
        <4>2. n[i] = q[Len(old) + j]
          BY <1>6, <4>1
        <4> QED BY <2>1, <4>1, <4>2
      <3> QED BY <3>1, <3>2
    <2>3. Len(n) <= TableDepth
      BY <1>2, <1>6, <2>1
    <2> HIDE DEF n
    <2> QED BY <1>6, <2>2, <2>3, TablePathsAre
  <1>8. Under(new, n)
    BY <1>6, UnderIs
  <1>9. q = old => n = new
    <2> SUFFICES ASSUME q = old PROVE n = new
      OBVIOUS
    <2>1. Len(r) = 0
      BY <1>2, <1>6
    <2>2. r = <<>>
      BY <2>1 DEF AnyPath
    <2> QED BY <1>1, <2>2 DEF AnyPath
  <1>10. ASSUME q # old
         PROVE  n # TableRoot /\ Under(old, ParentOf(q)) /\ ParentOf(n) = NewName(ParentOf(q), old, new)
    <2>1. r # TableRoot
      <3> SUFFICES ASSUME r = TableRoot PROVE FALSE
        OBVIOUS
      <3>1. old \o r = old
        BY <1>1, JoinedRoot DEF AnyPath
      <3> QED BY <1>3, <1>10, <3>1
    <2>2. Front(q) = old \o Front(r) /\ Front(n) = new \o Front(r) /\ Front(r) \in AnyPath
      BY <1>1, <1>3, <2>1, JoinedParent
    <2>3. ParentOf(q) = old \o Front(r) /\ ParentOf(n) = new \o Front(r)
      BY <2>2, UnderIs
    <2>4. NewName(ParentOf(q), old, new) = new \o Front(r)
      <3>1. NewName(old \o Front(r), old, new) = new \o Front(r)
        BY <1>1, <1>4, <2>2, Zenon
      <3> QED BY <2>3, <3>1, Zenon
    <2>5. q # TableRoot
      BY <1>1, UnderParent
    <2>6. Under(old, ParentOf(q))
      BY <1>1, <1>10, <2>5, UnderParent
    <2>7. n # TableRoot
      BY <1>1, <1>8, UnderParent
    <2> QED BY <2>3, <2>4, <2>6, <2>7
  <1> HIDE DEF n
  <1>11. Under(old, n) => old = new
    BY <1>1, <1>2, <1>6, <1>8, UnderOrder
  <1> QED BY <1>5, <1>7, <1>8, <1>9, <1>10, <1>11

\* UpdateForRename moves what is at and below a path to another place.
Moved(t, u, old, new) ==
    /\ WellFiled(u) /\ \E S, M : InOrder(u, S, M)
    /\ DOMAIN u.nodes = {x \in DOMAIN t.nodes : ~ Under(old, x)}
                           \cup {NewName(x, old, new) : x \in {x \in DOMAIN t.nodes : Under(old, x)}}
    /\ \A x \in DOMAIN t.nodes : ~ Under(old, x) => u.nodes[x].value = t.nodes[x].value
    /\ \A x \in DOMAIN t.nodes :
          Under(old, x) => u.nodes[NewName(x, old, new)].value = t.nodes[x].value

\* UpdateForRename inserts the renamed paths and erases the old ones.
LEMMA UpdateForRenameIs ==
    ASSUME TableConstants, NEW t, WellFiled(t), NEW R, NEW K, InOrder(t, R, K),
           NEW old \in DOMAIN t.nodes, old # TableRoot,
           NEW new \in TablePaths, new \notin DOMAIN t.nodes, new # TableRoot, ParentOf(new) = ParentOf(old)
    PROVE  Moved(t, Table!UpdateForRename(t, old, new), old, new)
  <1> DEFINE D == DOMAIN t.nodes
             B == {x \in D : Under(old, x)}
             Ren(x) == NewName(x, old, new)
             s == Table!SubtreeRange(t, old)
             n == Len(s)
             Values == TableValues \cup {TableDefault}
             X == {w \in FiledTables :
                      /\ \E S, M : InOrder(w, S, M)
                      /\ D \subseteq DOMAIN w.nodes
                      /\ \A x \in D : w.nodes[x].value = t.nodes[x].value}
             New(k) == {Ren(s[j]) : j \in 1 .. k}
  <1>1. /\ s \in Seq(D) /\ InRankOrder(s, R) /\ HeldIn(s) = B /\ Once(s)
    BY SubtreeRangeIs
  <1>2. /\ Rooted(D) /\ Numbered(D, R, K) /\ K \in Nat /\ t.nodes \in EntryMaps
    BY DEF InOrder, Ordered
  <1>3. /\ D \subseteq TablePaths /\ D \subseteq AnyPath
        /\ Under(old, old)
        /\ \A x \in D : x # TableRoot => ParentOf(x) \in D /\ ParentOf(x) # x /\ Under(ParentOf(x), x)
    BY <1>2, TreeOrder
  <1>4. /\ \A x \in D : R[x] \in Nat
        /\ \A x \in D, y \in D : Under(x, y) /\ x # y => R[x] < R[y]
    BY <1>2, ChildAfter
  <1>5. ParentOf(new) \in D /\ old \in TablePaths /\ new \in AnyPath
    BY <1>3, TablePathsAre
  <1>6. ASSUME NEW q \in B
        PROVE  /\ Ren(q) \in TablePaths /\ Under(new, Ren(q))
               /\ NewName(Ren(q), new, old) = q
               /\ q = old => Ren(q) = new
               /\ q # old => /\ Ren(q) # TableRoot /\ ParentOf(q) \in B /\ R[ParentOf(q)] < R[q]
                             /\ ParentOf(Ren(q)) = Ren(ParentOf(q))
               /\ ~ Under(old, Ren(q)) /\ Ren(q) \notin D
    <2>1. q \in TablePaths /\ Under(old, q) /\ old # new
      BY <1>3
    <2>2. /\ NewName(q, old, new) \in TablePaths /\ Under(new, NewName(q, old, new))
          /\ NewName(NewName(q, old, new), new, old) = q
          /\ q = old => NewName(q, old, new) = new
          /\ q # old => /\ NewName(q, old, new) # TableRoot /\ Under(old, ParentOf(q))
                        /\ ParentOf(NewName(q, old, new)) = NewName(ParentOf(q), old, new)
          /\ Under(old, NewName(q, old, new)) => old = new
      BY <1>5, <2>1, NewNameIs
    <2>3. q # TableRoot
      BY <1>3, <1>5, <2>1, UnderParent, TablePathsAre
    <2>4. Ren(q) \notin D
      BY <1>5, <2>2 DEF Rooted, InOrder
    <2>5. q # old => ParentOf(q) \in B /\ R[ParentOf(q)] < R[q]
      BY <1>3, <1>4, <2>2, <2>3
    <2> QED BY <2>1, <2>2, <2>4, <2>5
  <1> HIDE DEF Ren
  <1>7. \A q \in B, r \in B : Ren(q) = Ren(r) => q = r
    BY <1>6
  <1>8. \A w \in X : /\ WellFiled(w) /\ (\E S, M : InOrder(w, S, M)) /\ D \subseteq DOMAIN w.nodes
                     /\ \A x \in D : w.nodes[x].value = t.nodes[x].value
    BY DEF FiledTables
  <1>9. t \in X
    BY DEF FiledTables, WellFiled
  <1>10. \A x \in D : t.nodes[x].value \in Values
    BY <1>2, EntryMapsAre DEF TableEntry
  <1>11. ASSUME NEW w \in X, NEW q \in B
         PROVE  /\ RenamedIn(old, new, w, q) \in X
                /\ DOMAIN RenamedIn(old, new, w, q).nodes = DOMAIN w.nodes \cup Prefixes(Ren(q))
                /\ \A x \in DOMAIN w.nodes :
                      RenamedIn(old, new, w, q).nodes[x].value = w.nodes[x].value
                /\ Ren(q) \notin DOMAIN w.nodes =>
                      RenamedIn(old, new, w, q).nodes[Ren(q)].value = t.nodes[q].value
    <2> DEFINE u == RenamedIn(old, new, w, q)
               a == Ren(q)
               v == t.nodes[q].value
    <2>1. WellFiled(w) /\ D \subseteq DOMAIN w.nodes /\ w.nodes[q].value = v
          /\ \A x \in D : w.nodes[x].value = t.nodes[x].value
      BY <1>8
    <2>2. PICK S, M : InOrder(w, S, M)
      BY <1>8
    <2>3. a \in TablePaths /\ v \in Values
      BY <1>6, <1>10
    <2>4. u = Table!Insert(w, a, v)
      BY <2>1 DEF RenamedIn, Ren, NewName
    <2> HIDE DEF a, v, X, u
    <2>5. Inserted(w, Table!Insert(w, a, v), a, v)
      BY <2>1, <2>2, <2>3, InsertIs
    <2>6. /\ WellFiled(u) /\ DOMAIN u.nodes = DOMAIN w.nodes \cup Prefixes(a)
          /\ \A x \in DOMAIN w.nodes : u.nodes[x].value = w.nodes[x].value
          /\ \A x \in Prefixes(a) \ DOMAIN w.nodes :
                u.nodes[x].value = IF x = a THEN v ELSE TableDefault
          /\ \E P, L : InOrder(u, P, L)
      BY <2>4, <2>5 DEF Inserted
    <2>7. a \in Prefixes(a)
      BY <2>3, PrefixesAre
    <2>8. u \in X
      <3>1. u \in FiledTables
        BY <2>6 DEF FiledTables, WellFiled
      <3> QED BY <2>1, <2>6, <3>1 DEF X
    <2>9. a \notin DOMAIN w.nodes => u.nodes[a].value = v
      BY <2>6, <2>7
    <2> QED BY <2>6, <2>8, <2>9 DEF u, a, v
  <1> HIDE DEF X
  <1>12. PICK c : InsertRenamedSteps(c, X, t, s, old, new)
    <2>1. s \in Seq(B)
      <3>1. n \in Nat /\ s \in [1 .. n -> D] /\ \A i \in 1 .. n : s[i] \in HeldIn(s)
        BY <1>1 DEF HeldIn, Table!ToSet
      <3> HIDE DEF s, B
      <3>2. s \in [1 .. n -> B]
        BY <1>1, <3>1
      <3> QED BY <3>1, <3>2
    <2>2. \A w \in X, q \in B : RenamedIn(old, new, w, q) \in X
      BY <1>11
    <2> HIDE DEF s, B
    <2> QED BY <1>9, <2>1, <2>2, InsertRenamedFold
  <1>13. /\ c \in [0 .. n -> X] /\ c[0] = t /\ Table!InsertRenamed(t, s, old, new) = c[n]
         /\ \A k \in 1 .. n : c[k] = RenamedIn(old, new, c[k - 1], s[k])
    BY <1>12 DEF InsertRenamedSteps
  <1> DEFINE Good(k) ==
                 /\ DOMAIN c[k].nodes = D \cup New(k)
                 /\ \A j \in 1 .. k : c[k].nodes[Ren(s[j])].value = t.nodes[s[j]].value
             T == {k \in 0 .. n : Good(k)}
  <1>14. n \in Nat /\ DOMAIN s = 1 .. n /\ \A k \in 1 .. n : s[k] \in D /\ s[k] \in B
    BY <1>1 DEF HeldIn, Table!ToSet
  <1>15. 0 \in T
    <2>1. D \cup New(0) = D
      OBVIOUS
    <2>2. 0 \in 0 .. n /\ \A j \in 1 .. 0 : FALSE
      BY <1>14
    <2> HIDE DEF New
    <2>3. Good(0)
      BY <1>13, <2>1, <2>2
    <2> QED BY <2>2, <2>3
  <1>16. ASSUME NEW k \in 1 .. n, k - 1 \in T
         PROVE  k \in T
    <2> DEFINE w == c[k - 1]
               q == s[k]
               a == Ren(q)
    <2>1. w \in X /\ q \in B /\ k \in 0 .. n /\ Good(k - 1)
      <3>1. k \in 0 .. n /\ k - 1 \in 0 .. n
        BY <1>14
      <3>2. w \in X
        BY <1>13, <3>1
      <3> QED BY <1>14, <1>16, <3>1, <3>2
    <2>2. \A j : j \in 1 .. k <=> j = k \/ j \in 1 .. (k - 1)
      BY <1>14
    <2>3. New(k) = New(k - 1) \cup {a}
      BY <2>2
    <2>4. DOMAIN w.nodes = D \cup New(k - 1) /\ Rooted(DOMAIN w.nodes)
      <3>1. PICK S, M : InOrder(w, S, M)
        BY <1>8, <2>1
      <3> QED BY <2>1, <3>1 DEF InOrder
    <2>5. a \notin DOMAIN w.nodes
      <3>1. ASSUME NEW j \in 1 .. (k - 1)
            PROVE  Ren(s[j]) # a
        <4>1. j \in 1 .. n /\ j # k
          BY <1>14
        <4>2. s[j] # s[k]
          BY <1>1, <1>14, <4>1 DEF Once, Table!IsInjective
        <4>3. s[j] \in B
          BY <1>14, <4>1
        <4> QED BY <1>7, <2>1, <4>2, <4>3
      <3> HIDE DEF q, B
      <3>2. a \notin D
        BY <1>6, <2>1
      <3> QED BY <2>4, <3>1, <3>2
    <2>6. a \in TablePaths /\ a # TableRoot /\ ParentOf(a) \in DOMAIN w.nodes
      <3>1. CASE q = old
        BY <1>5, <1>6, <2>1, <2>4, <3>1
      <3>2. CASE q # old
        <4> DEFINE r == ParentOf(q)
        <4>1. r \in B /\ R[r] < R[q] /\ ParentOf(a) = Ren(r) /\ a \in TablePaths /\ a # TableRoot
          BY <1>6, <2>1, <3>2
        <4> HIDE DEF r
        <4>2. PICK j \in 1 .. n : r = s[j]
          BY <1>1, <1>14, <4>1 DEF HeldIn, Table!ToSet
        <4>3. j < k
          <5>1. ~ (k < j) /\ k # j
            BY <1>1, <1>4, <1>14, <4>1, <4>2 DEF InRankOrder
          <5> QED BY <1>14, <5>1
        <4>4. j \in 1 .. (k - 1)
          BY <1>14, <4>3
        <4> QED BY <2>4, <4>1, <4>2, <4>4
      <3> QED BY <3>1, <3>2
    <2> HIDE DEF q, w
    <2> HIDE DEF a, New, B
    <2>7. Prefixes(a) \subseteq DOMAIN w.nodes \cup {a} /\ a \in Prefixes(a)
      <3>1. a \in Prefixes(a)
        BY <2>6, PrefixesAre
      <3>2. ASSUME NEW x \in Prefixes(a), x # a
            PROVE  x \in DOMAIN w.nodes
        <4>1. x \in AnyPath /\ a \in AnyPath /\ Under(x, a)
          BY <2>6, TablePathsAre DEF Prefixes
        <4>2. Under(x, ParentOf(a))
          BY <2>6, <3>2, <4>1, UnderParent
        <4> QED BY <2>4, <2>6, <4>1, <4>2 DEF Rooted
      <3> QED BY <3>1, <3>2
    <2>8. c[k] = RenamedIn(old, new, w, q)
      BY <1>13 DEF w, q
    <2>9. /\ DOMAIN c[k].nodes = DOMAIN w.nodes \cup Prefixes(a)
          /\ \A x \in DOMAIN w.nodes : c[k].nodes[x].value = w.nodes[x].value
          /\ c[k].nodes[a].value = t.nodes[q].value
      BY <1>11, <2>1, <2>5, <2>8 DEF a
    <2>10. DOMAIN c[k].nodes = D \cup New(k)
      BY <2>3, <2>4, <2>7, <2>9
    <2>11. ASSUME NEW j \in 1 .. k
           PROVE  c[k].nodes[Ren(s[j])].value = t.nodes[s[j]].value
      <3>1. CASE j = k
        BY <2>9, <3>1 DEF a, q
      <3>2. CASE j # k
        <4>1. j \in 1 .. (k - 1)
          BY <2>2, <3>2
        <4>2. Ren(s[j]) \in DOMAIN w.nodes
          BY <2>4, <4>1 DEF New
        <4> QED BY <2>1, <2>9, <4>1, <4>2 DEF w
      <3> QED BY <3>1, <3>2
    <2> QED BY <2>1, <2>10, <2>11
  <1>17. Good(n)
    <2> HIDE DEF T
    <2>1. 0 .. n \subseteq T
      BY <1>14, <1>15, <1>16, StepByStep
    <2>2. n \in T
      BY <1>14, <2>1
    <2> QED BY <2>2 DEF T
  <1> DEFINE w == c[n]
             e == Table!Erase(w, old)
  <1>18. w \in X
    BY <1>13, <1>14
  <1>19. PICK S, M : InOrder(w, S, M)
    BY <1>8, <1>18
  <1>20. /\ WellFiled(w) /\ D \subseteq DOMAIN w.nodes
         /\ \A x \in D : w.nodes[x].value = t.nodes[x].value
    BY <1>8, <1>18
  <1>21. Table!UpdateForRename(t, old, new) = e
    <2>1. s # <<>>
      <3>1. old \in HeldIn(s)
        BY <1>1, <1>3
      <3> HIDE DEF s
      <3> QED BY <3>1, NoneHeld
    <2> QED BY <1>13, <2>1 DEF Table!UpdateForRename
  <1>22. /\ DOMAIN w.nodes = D \cup {Ren(x) : x \in B}
         /\ \A x \in B : w.nodes[Ren(x)].value = t.nodes[x].value
    <2>1. \A x \in B : \E j \in 1 .. n : x = s[j]
      BY <1>1, <1>14 DEF HeldIn, Table!ToSet
    <2>2. New(n) = {Ren(x) : x \in B}
      BY <1>14, <2>1
    <2> QED BY <1>17, <2>1, <2>2, ZenonT(30)
  <1> HIDE DEF w
  <1>23. old \in DOMAIN w.nodes
    BY <1>20
  <1>24. /\ WellFiled(e) /\ DOMAIN e.nodes = Left(DOMAIN w.nodes, old)
         /\ InOrder(e, Ranks(S, Left(DOMAIN w.nodes, old)), M)
         /\ \A x \in Left(DOMAIN w.nodes, old) : e.nodes[x].value = w.nodes[x].value
    BY <1>19, <1>20, <1>23, EraseIs
  <1> HIDE DEF e
  <1>25. Left(DOMAIN w.nodes, old) = {x \in D : ~ Under(old, x)} \cup {Ren(x) : x \in B}
    BY <1>6, <1>22 DEF Left
  <1>26. \A x \in D : ~ Under(old, x) => e.nodes[x].value = t.nodes[x].value
    BY <1>20, <1>24, <1>25
  <1>27. \A x \in D : Under(old, x) => e.nodes[Ren(x)].value = t.nodes[x].value
    BY <1>22, <1>24, <1>25
  <1> QED BY <1>21, <1>24, <1>25, <1>26, <1>27 DEF Moved, Ren

-----------------------------------------------------------------------------
(* The copy of a table.                                                    *)

\* The links of an entry that is being copied are there or not yet.
PartOf(e, f) ==
    /\ f.value = e.value
    /\ f.first = e.first \/ f.first = Nobody
    /\ (f.next = e.next /\ f.sibling = e.sibling) \/ (f.next = Nobody /\ f.sibling = FALSE)
CopiedSoFar(t, u) ==
    /\ WellFiled(u)
    /\ DOMAIN u.nodes \subseteq DOMAIN t.nodes
    /\ \A x \in DOMAIN u.nodes : PartOf(t.nodes[x], u.nodes[x])

\* The links of a table lead to its entries.
Linked(t) ==
    \A x \in DOMAIN t.nodes :
       /\ t.nodes[x].first = Nobody \/ t.nodes[x].first \in DOMAIN t.nodes
       /\ t.nodes[x].next = Nobody \/ t.nodes[x].next \in DOMAIN t.nodes
       /\ t.nodes[x].next = Nobody => t.nodes[x].sibling = FALSE

\* The links of a table in order do.
LEMMA OrderLinks ==
    ASSUME TableConstants, NEW t, NEW R, NEW K, InOrder(t, R, K)
    PROVE  Linked(t)
  <1> DEFINE D == DOMAIN t.nodes
  <1>1. /\ Rooted(D) /\ t.nodes \in EntryMaps
        /\ \A x \in D : LinkedDown(t.nodes, D, R, x) /\ LinkedOn(t.nodes, D, R, x)
    BY DEF InOrder, Ordered
  <1>2. /\ Nobody \notin D /\ \A x \in D : x # TableRoot => ParentOf(x) \in D
    BY <1>1, TreeOrder
  <1>3. \A x \in D : t.nodes[x].sibling \in BOOLEAN
    BY <1>1, EntryMapsAre DEF TableEntry
  <1>4. ASSUME NEW x \in D
        PROVE  /\ t.nodes[x].first = Nobody \/ t.nodes[x].first \in D
               /\ t.nodes[x].next = Nobody \/ t.nodes[x].next \in D
               /\ t.nodes[x].next = Nobody => t.nodes[x].sibling = FALSE
    <2>1. LinkedDown(t.nodes, D, R, x) /\ LinkedOn(t.nodes, D, R, x)
      BY <1>1
    <2>2. t.nodes[x].first = Nobody \/ t.nodes[x].first \in D
      BY <2>1 DEF LinkedDown
    <2>3. CASE t.nodes[x].sibling
      BY <1>2, <2>1, <2>2, <2>3 DEF LinkedOn
    <2>4. CASE ~ t.nodes[x].sibling
      BY <1>2, <1>3, <2>1, <2>2, <2>4 DEF LinkedOn
    <2> QED BY <2>3, <2>4
  <1> QED BY <1>4 DEF Linked

\* An entry is made for the copy.
LEMMA CopyMakes ==
    ASSUME TableConstants, NEW t, WellFiled(t), NEW u, CopiedSoFar(t, u),
           NEW q \in DOMAIN t.nodes, NEW v,
           v = Table!InsertInTable(u, q, t.nodes[q].value)
    PROVE  /\ CopiedSoFar(t, v) /\ DOMAIN v.nodes = DOMAIN u.nodes \cup {q}
           /\ \A x \in DOMAIN u.nodes : v.nodes[x] = u.nodes[x]
  <1>1. t.nodes \in EntryMaps /\ WellFiled(u)
    BY DEF WellFiled, CopiedSoFar
  <1>2. q \in TablePaths /\ t.nodes[q] \in TableEntry
    BY <1>1, EntryMapsAre
  <1>3. t.nodes[q].value \in TableValues \cup {TableDefault}
    BY <1>2 DEF TableEntry
  <1>4. /\ WellFiled(v)
        /\ v.nodes = IF q \in DOMAIN u.nodes THEN u.nodes ELSE Added(u.nodes, q, t.nodes[q].value)
    BY <1>1, <1>2, <1>3, InsertInTableIs
  <1>5. /\ DOMAIN v.nodes = DOMAIN u.nodes \cup {q}
        /\ \A x \in DOMAIN u.nodes : v.nodes[x] = u.nodes[x]
        /\ q \notin DOMAIN u.nodes => v.nodes[q] = Blank(t.nodes[q].value)
    BY <1>4 DEF Added
  <1>6. PartOf(t.nodes[q], Blank(t.nodes[q].value))
    BY DEF PartOf, Blank, Table!Entry, Nobody
  <1>7. /\ DOMAIN u.nodes \subseteq DOMAIN t.nodes
        /\ \A x \in DOMAIN u.nodes : PartOf(t.nodes[x], u.nodes[x])
    BY DEF CopiedSoFar
  <1>8. ASSUME NEW x \in DOMAIN v.nodes
        PROVE  PartOf(t.nodes[x], v.nodes[x])
    <2>1. CASE x \in DOMAIN u.nodes
      BY <1>5, <1>7, <2>1, Zenon
    <2>2. CASE x \notin DOMAIN u.nodes
      BY <1>5, <1>6, <2>2, Zenon
    <2> QED BY <2>1, <2>2
  <1> QED BY <1>4, <1>5, <1>7, <1>8 DEF CopiedSoFar

\* An entry of the copy gets the links it had.
Relinked(u, p, e) ==
    /\ DOMAIN e.nodes = DOMAIN u.nodes
    /\ \A x \in DOMAIN u.nodes : x # p => e.nodes[x] = u.nodes[x]

\* A link that is made in the copy.
LEMMA CopyLinks ==
    ASSUME NEW t, WellFiled(t), NEW u, CopiedSoFar(t, u), NEW p \in DOMAIN u.nodes,
           NEW e, PartOf(t.nodes[p], e), e \in TableEntry, NEW v,
           v = [u EXCEPT !.nodes = [u.nodes EXCEPT ![p] = e]]
    PROVE  /\ CopiedSoFar(t, v) /\ Relinked(u, p, v) /\ v.nodes[p] = e
  <1>1. /\ WellFiled(u) /\ u.nodes \in [DOMAIN u.nodes -> TableEntry] /\ u \in TableRecords
        /\ DOMAIN u.nodes \subseteq DOMAIN t.nodes
        /\ \A x \in DOMAIN u.nodes : PartOf(t.nodes[x], u.nodes[x])
    BY EntryMapsAre DEF CopiedSoFar, WellFiled, TableRecords
  <1> DEFINE M == [u.nodes EXCEPT ![p] = e]
  <1>2. M \in [DOMAIN u.nodes -> TableEntry] /\ M[p] = e /\ \A x \in DOMAIN u.nodes : x # p => M[x] = u.nodes[x]
    BY <1>1
  <1>3. v = [u EXCEPT !.nodes = M]
    OBVIOUS
  <1> HIDE DEF M
  <1>4. WellFiled(v)
    BY <1>1, <1>2, <1>3, RelinkedIs
  <1>5. v.nodes = M /\ DOMAIN M = DOMAIN u.nodes
    BY <1>1, <1>2, <1>3 DEF TableRecords
  <1>6. ASSUME NEW x \in DOMAIN u.nodes
        PROVE  PartOf(t.nodes[x], M[x])
    BY <1>1, <1>2, Zenon
  <1>7. CopiedSoFar(t, v)
    BY <1>1, <1>4, <1>5, <1>6 DEF CopiedSoFar
  <1>8. Relinked(u, p, v)
    BY <1>2, <1>5 DEF Relinked
  <1> QED BY <1>2, <1>5, <1>7, <1>8

\* What the copy of one entry adds.
Grown(t, u, v, p) ==
    /\ CopiedSoFar(t, v)
    /\ DOMAIN u.nodes \cup {p} \subseteq DOMAIN v.nodes
    /\ \A x \in DOMAIN u.nodes : x # p => v.nodes[x] = u.nodes[x]

\* The copy of the first child, and of the next entry.
FirstCopied(t, u, p) == Table!CopyFirst(t, u, p)
NextCopied(t, u, p) == Table!CopyNext(t, u, p)

\* The link to the first child is copied, with the child.
LEMMA FirstCopiedIs ==
    ASSUME TableConstants, NEW t, WellFiled(t), Linked(t), NEW u, CopiedSoFar(t, u),
           NEW p \in DOMAIN u.nodes
    PROVE  /\ Grown(t, u, FirstCopied(t, u, p), p)
           /\ FirstCopied(t, u, p).nodes[p].first = t.nodes[p].first
  <1> DEFINE e == t.nodes[p]
             v == FirstCopied(t, u, p)
  <1>1. p \in DOMAIN t.nodes /\ PartOf(e, u.nodes[p])
    BY DEF CopiedSoFar
  <1>2. CASE e.first = Nobody \/ u.nodes[p].first # Nobody
    <2>1. v = u
      BY <1>2 DEF FirstCopied, Table!CopyFirst, Nobody
    <2>2. u.nodes[p].first = e.first
      BY <1>1, <1>2 DEF PartOf
    <2> QED BY <2>1, <2>2 DEF Grown
  <1>3. CASE ~ (e.first = Nobody \/ u.nodes[p].first # Nobody)
    <2> DEFINE c == e.first
               there == Table!InsertInTable(u, c, t.nodes[c].value)
               new == [there.nodes[p] EXCEPT !.first = c]
    <2>1. v = [there EXCEPT !.nodes = [there.nodes EXCEPT ![p] = new]]
      BY <1>3 DEF FirstCopied, Table!CopyFirst, Nobody
    <2>2. c \in DOMAIN t.nodes
      BY <1>1, <1>3 DEF Linked
    <2> HIDE DEF v
    <2>3. /\ CopiedSoFar(t, there) /\ DOMAIN there.nodes = DOMAIN u.nodes \cup {c}
          /\ \A x \in DOMAIN u.nodes : there.nodes[x] = u.nodes[x]
      <3> HIDE DEF c
      <3> QED BY <2>2, CopyMakes
    <2> HIDE DEF there
    <2>4. there.nodes[p] \in TableEntry /\ t.nodes \in EntryMaps
      BY <2>3, EntryMapsAre DEF CopiedSoFar, WellFiled
    <2>5. c \in TablePaths \cup {Nobody}
      BY <2>2, <2>4, EntryMapsAre
    <2>6. /\ new \in TableEntry /\ new.first = c /\ new.value = there.nodes[p].value
          /\ new.next = there.nodes[p].next /\ new.sibling = there.nodes[p].sibling
      <3> HIDE DEF c
      <3> QED BY <2>4, <2>5 DEF TableEntry
    <2>7. PartOf(e, new)
      <3>1. PartOf(e, there.nodes[p])
        BY <2>3 DEF CopiedSoFar
      <3> HIDE DEF new
      <3> QED BY <2>6, <3>1 DEF PartOf
    <2> HIDE DEF c, new
    <2>8. CopiedSoFar(t, v) /\ Relinked(there, p, v) /\ v.nodes[p] = new
      BY <2>1, <2>3, <2>6, <2>7, CopyLinks
    <2>9. Grown(t, u, v, p)
      BY <2>3, <2>8 DEF Grown, Relinked
    <2> QED BY <2>6, <2>8, <2>9 DEF v, c
  <1> QED BY <1>2, <1>3

\* The link to the next sibling or to the parent is copied, with its entry.
LEMMA NextCopiedIs ==
    ASSUME TableConstants, NEW t, WellFiled(t), Linked(t), NEW u, CopiedSoFar(t, u),
           NEW p \in DOMAIN u.nodes
    PROVE  /\ Grown(t, u, NextCopied(t, u, p), p)
           /\ NextCopied(t, u, p).nodes[p].first = u.nodes[p].first
           /\ NextCopied(t, u, p).nodes[p].next = t.nodes[p].next
           /\ NextCopied(t, u, p).nodes[p].sibling = t.nodes[p].sibling
  <1> DEFINE e == t.nodes[p]
             v == NextCopied(t, u, p)
  <1>1. p \in DOMAIN t.nodes /\ PartOf(e, u.nodes[p])
    BY DEF CopiedSoFar
  <1>2. CASE e.next = Nobody \/ u.nodes[p].next # Nobody
    <2>1. v = u
      BY <1>2 DEF NextCopied, Table!CopyNext, Nobody
    <2>2. u.nodes[p].next = e.next /\ u.nodes[p].sibling = e.sibling
      BY <1>1, <1>2 DEF PartOf, Linked
    <2> QED BY <2>1, <2>2 DEF Grown
  <1>3. CASE ~ (e.next = Nobody \/ u.nodes[p].next # Nobody)
    <2> DEFINE c == e.next
               there == Table!InsertInTable(u, c, t.nodes[c].value)
               new == [[there.nodes[p] EXCEPT !.next = c] EXCEPT !.sibling = e.sibling]
    <2>1. v = [there EXCEPT !.nodes = [there.nodes EXCEPT ![p] = new]]
      BY <1>3 DEF NextCopied, Table!CopyNext, Nobody
    <2>2. c \in DOMAIN t.nodes
      BY <1>1, <1>3 DEF Linked
    <2> HIDE DEF v
    <2>3. /\ CopiedSoFar(t, there) /\ DOMAIN there.nodes = DOMAIN u.nodes \cup {c}
          /\ \A x \in DOMAIN u.nodes : there.nodes[x] = u.nodes[x]
      <3> HIDE DEF c
      <3> QED BY <2>2, CopyMakes
    <2> HIDE DEF there
    <2>4. there.nodes[p] \in TableEntry /\ t.nodes \in EntryMaps
      BY <2>3, EntryMapsAre DEF CopiedSoFar, WellFiled
    <2>5. c \in TablePaths \cup {Nobody} /\ e.sibling \in BOOLEAN
      BY <1>1, <2>2, <2>4, EntryMapsAre DEF TableEntry
    <2>6. /\ new \in TableEntry /\ new.first = there.nodes[p].first /\ new.value = there.nodes[p].value
          /\ new.next = c /\ new.sibling = e.sibling
      <3> HIDE DEF c, e
      <3> QED BY <2>4, <2>5 DEF TableEntry
    <2>7. PartOf(e, new)
      <3>1. PartOf(e, there.nodes[p])
        BY <2>3 DEF CopiedSoFar
      <3> HIDE DEF new
      <3> QED BY <2>6, <3>1 DEF PartOf
    <2>10. there.nodes[p] = u.nodes[p]
      BY <2>3
    <2> HIDE DEF new
    <2>11. /\ new.first = u.nodes[p].first /\ new.next = t.nodes[p].next /\ new.sibling = t.nodes[p].sibling
      BY <2>6, <2>10
    <2> HIDE DEF c
    <2>8. CopiedSoFar(t, v) /\ Relinked(there, p, v) /\ v.nodes[p] = new
      BY <2>1, <2>3, <2>6, <2>7, CopyLinks
    <2>9. Grown(t, u, v, p)
      BY <2>3, <2>8 DEF Grown, Relinked
    <2> QED BY <2>8, <2>9, <2>11 DEF v
  <1> QED BY <1>2, <1>3

\* The copy constructor makes an entry and those its links lead to.
LEMMA CopyEntryIs ==
    ASSUME TableConstants, NEW t, WellFiled(t), Linked(t), NEW u, CopiedSoFar(t, u),
           NEW p \in DOMAIN t.nodes
    PROVE  /\ Grown(t, u, Table!CopyEntry(t, u, p), p)
           /\ Table!CopyEntry(t, u, p).nodes[p] = t.nodes[p]
  <1> DEFINE own == Table!InsertInTable(u, p, t.nodes[p].value)
             child == FirstCopied(t, own, p)
             all == NextCopied(t, child, p)
  <1>1. Table!CopyEntry(t, u, p) = all
    BY DEF Table!CopyEntry, FirstCopied, NextCopied
  <1>2. /\ CopiedSoFar(t, own) /\ DOMAIN own.nodes = DOMAIN u.nodes \cup {p}
        /\ \A x \in DOMAIN u.nodes : own.nodes[x] = u.nodes[x]
    BY CopyMakes
  <1> HIDE DEF own
  <1>3. Grown(t, own, child, p) /\ child.nodes[p].first = t.nodes[p].first
    BY <1>2, FirstCopiedIs
  <1> HIDE DEF child
  <1>4. CopiedSoFar(t, child) /\ p \in DOMAIN child.nodes
    BY <1>3 DEF Grown
  <1>5. /\ Grown(t, child, all, p) /\ all.nodes[p].first = t.nodes[p].first
        /\ all.nodes[p].next = t.nodes[p].next /\ all.nodes[p].sibling = t.nodes[p].sibling
    BY <1>3, <1>4, NextCopiedIs
  <1> HIDE DEF all
  <1>6. CopiedSoFar(t, all) /\ p \in DOMAIN all.nodes
    BY <1>5 DEF Grown
  <1>7. all.nodes[p] \in TableEntry /\ t.nodes[p] \in TableEntry
    BY <1>6, EntryMapsAre DEF CopiedSoFar, WellFiled
  <1>8. all.nodes[p].value = t.nodes[p].value
    BY <1>6 DEF CopiedSoFar, PartOf
  <1>9. all.nodes[p] = t.nodes[p]
    <2> DEFINE f == all.nodes[p]
               e == t.nodes[p]
    <2>1. f \in TableEntry /\ e \in TableEntry /\ f.value = e.value /\ f.first = e.first /\ f.next = e.next
          /\ f.sibling = e.sibling
      BY <1>5, <1>7, <1>8
    <2> HIDE DEF f, e
    <2>2. f = e
      BY <2>1 DEF TableEntry
    <2> QED BY <2>2 DEF f, e
  <1>10. Grown(t, u, all, p)
    BY <1>2, <1>3, <1>5 DEF Grown
  <1> QED BY <1>1, <1>9, <1>10

\* Begin is the first entry in the order.
LEMMA BeginIs ==
    ASSUME TableConstants, NEW t, NEW R, NEW K, InOrder(t, R, K)
    PROVE  /\ Table!Iterated(t, Table!Begin(t), Nobody) \in Seq(DOMAIN t.nodes)
           /\ Once(Table!Iterated(t, Table!Begin(t), Nobody))
           /\ HeldIn(Table!Iterated(t, Table!Begin(t), Nobody)) = DOMAIN t.nodes
  <1> DEFINE D == DOMAIN t.nodes
             from == Table!Begin(t)
             s == Table!Iterated(t, from, Nobody)
  <1>1. K \in Nat /\ Rooted(D) /\ Ordered(t.nodes, D, R, K)
    BY DEF InOrder
  <1>2. R \in [D -> 0 .. K] /\ \A p \in D, q \in D : Under(p, q) => R[p] <= R[q]
    BY <1>1 DEF Ordered, Numbered
  <1>3. Nobody \notin D /\ (D # {} => TableRoot \in D) /\ \A q \in D : Under(TableRoot, q)
    BY <1>1, TreeOrder
  <1>4. from = IF D = {} THEN Nobody ELSE TableRoot
    BY UnderIs DEF Table!Begin, Nobody
  <1>5. from = Nobody \/ from \in D
    BY <1>3, <1>4
  <1> HIDE DEF from
  <1>6. /\ s \in Seq(D) /\ InRankOrder(s, R)
        /\ HeldIn(s) = IF from = Nobody THEN {}
                     ELSE {x \in D : R[from] <= R[x] /\ (Nobody # Nobody => R[x] < R[Nobody])}
    BY <1>5, IteratedIs
  <1>7. HeldIn(s) = D
    BY <1>2, <1>3, <1>4, <1>6
  <1>8. \A x \in D : R[x] \in Nat
    BY <1>1, <1>2
  <1>9. Once(s)
    BY <1>6, <1>8, OrderedOnce
  <1> QED BY <1>6, <1>7, <1>9 DEF from

\* The copy has the entries and the links of the table.
LEMMA CopiedIs ==
    ASSUME TableConstants, NEW t, WellFiled(t), NEW R, NEW K, InOrder(t, R, K)
    PROVE  WellFiled(Table!Copied(t)) /\ Table!Copied(t).nodes = t.nodes
  <1> DEFINE D == DOMAIN t.nodes
             s == Table!Iterated(t, Table!Begin(t), Nobody)
             b == [nodes |-> <<>>, buckets |-> [i \in DOMAIN t.buckets |-> <<>>]]
             X == {u \in FiledTables : CopiedSoFar(t, u)}
  <1>1. Table!Copied(t) = Table!CopyEntries(t, b, s)
    BY DEF Table!Copied, Nobody
  <1>2. s \in Seq(D) /\ HeldIn(s) = D
    BY BeginIs
  <1>3. Linked(t)
    BY OrderLinks
  <1>4. b \in X
    <2>1. t.buckets \in Chains
      BY DEF WellFiled
    <2>2. Len(t.buckets) \in Nat /\ DOMAIN t.buckets = 1 .. Len(t.buckets)
      BY <2>1 DEF Chains
    <2>3. b.buckets \in Chains /\ Filed(b.buckets, {})
      BY <2>2, EmptyChains
    <2>4. <<>> \in [{} -> TableEntry] /\ DOMAIN <<>> = {} /\ {} \in SUBSET TablePaths
      OBVIOUS
    <2>5. b.nodes \in EntryMaps /\ DOMAIN b.nodes = {}
      BY <2>4 DEF EntryMaps
    <2>6. b \in [nodes : EntryMaps, buckets : Chains]
      BY <2>3, <2>5
    <2> HIDE DEF b
    <2>7. WellFiled(b)
      BY <2>3, <2>5, <2>6 DEF WellFiled
    <2> QED BY <2>5, <2>6, <2>7 DEF CopiedSoFar, FiledTables
  <1> HIDE DEF b, s
  <1>5. ASSUME NEW u \in X, NEW p \in D
        PROVE  /\ Table!CopyEntry(t, u, p) \in X
               /\ Grown(t, u, Table!CopyEntry(t, u, p), p) /\ Table!CopyEntry(t, u, p).nodes[p] = t.nodes[p]
    <2>1. Grown(t, u, Table!CopyEntry(t, u, p), p) /\ Table!CopyEntry(t, u, p).nodes[p] = t.nodes[p]
      BY <1>3, CopyEntryIs
    <2>2. CopiedSoFar(t, Table!CopyEntry(t, u, p))
      BY <2>1 DEF Grown
    <2>3. Table!CopyEntry(t, u, p) \in FiledTables
      BY <2>2 DEF CopiedSoFar, FiledTables, WellFiled
    <2> QED BY <2>1, <2>2, <2>3
  <1>6. PICK c : CopyEntriesSteps(c, X, b, s, t)
    <2>1. \A u \in X, p \in D : Table!CopyEntry(t, u, p) \in X
      BY <1>5
    <2> HIDE DEF X, D
    <2> QED BY <1>2, <1>4, <2>1, CopyEntriesFold
  <1>7. /\ c \in [0 .. Len(s) -> X] /\ c[0] = b /\ Table!CopyEntries(t, b, s) = c[Len(s)]
        /\ \A k \in 1 .. Len(s) : c[k] = Table!CopyEntry(t, c[k - 1], s[k])
    BY <1>6 DEF CopyEntriesSteps
  <1>8. Len(s) \in Nat /\ DOMAIN s = 1 .. Len(s) /\ \A k \in 1 .. Len(s) : s[k] \in D
    BY <1>2
  <1> DEFINE Same(u, q) == q \in DOMAIN u.nodes /\ u.nodes[q] = t.nodes[q]
             T == {k \in 0 .. Len(s) : \A j \in 1 .. k : Same(c[k], s[j])}
  <1>9. 0 \in T
    BY <1>8
  <1>10. ASSUME NEW k \in 1 .. Len(s), k - 1 \in T
         PROVE  k \in T
    <2>1. k - 1 \in 0 .. Len(s) /\ k \in 0 .. Len(s)
      BY <1>8
    <2>2. c[k - 1] \in X /\ s[k] \in D /\ c[k] = Table!CopyEntry(t, c[k - 1], s[k])
      BY <1>7, <1>8, <2>1
    <2>3. Grown(t, c[k - 1], c[k], s[k]) /\ c[k].nodes[s[k]] = t.nodes[s[k]]
      BY <1>5, <2>2
    <2>4. ASSUME NEW j \in 1 .. k
          PROVE  Same(c[k], s[j])
      <3>1. CASE s[j] = s[k]
        BY <2>3, <3>1 DEF Grown
      <3>2. CASE s[j] # s[k]
        <4>1. j \in 1 .. (k - 1)
          BY <1>8, <3>2
        <4>2. Same(c[k - 1], s[j])
          BY <1>10, <4>1
        <4> QED BY <2>3, <3>2, <4>2 DEF Grown
      <3> QED BY <3>1, <3>2
    <2> HIDE DEF Same
    <2> QED BY <2>1, <2>4
  <1>11. Len(s) \in T
    <2> HIDE DEF T
    <2>1. 0 .. Len(s) \subseteq T
      BY <1>8, <1>9, <1>10, StepByStep
    <2> QED BY <1>8, <2>1
  <1> DEFINE v == c[Len(s)]
  <1>12. v \in X
    BY <1>7, <1>8
  <1>13. \A j \in 1 .. Len(s) : Same(v, s[j])
    BY <1>11
  <1> HIDE DEF v
  <1>14. \A q \in D : q \in DOMAIN v.nodes /\ v.nodes[q] = t.nodes[q]
    <2>1. \A q \in D : \E j \in 1 .. Len(s) : q = s[j]
      BY <1>2, <1>8 DEF HeldIn, Table!ToSet
    <2> QED BY <1>13, <2>1
  <1>15. /\ WellFiled(v) /\ DOMAIN v.nodes \subseteq D
         /\ v.nodes \in [DOMAIN v.nodes -> TableEntry] /\ t.nodes \in [D -> TableEntry]
    BY <1>12, EntryMapsAre DEF CopiedSoFar, WellFiled
  <1>16. v.nodes = t.nodes
    BY <1>14, <1>15
  <1> QED BY <1>1, <1>7, <1>15, <1>16 DEF v

-----------------------------------------------------------------------------
(* The table and what it should hold.                                      *)

\* The table is filed and its entries form the tree of their paths.
Sound(t) == WellFiled(t) /\ \E R, K : InOrder(t, R, K)

\* What a table holds.
ValuesOf(t) == [p \in DOMAIN t.nodes |-> t.nodes[p].value]

\* The inductive invariant of the table.
TableSound == Sound(Table!Table) /\ content = ValuesOf(Table!Table)

\* A step that writes a sound table.
LEMMA WrittenSound ==
    ASSUME NEW t, Sound(t), Table!Written(t), content' = ValuesOf(t)
    PROVE  TableSound'
  <1>1. t = [nodes |-> t.nodes, buckets |-> t.buckets]
    BY DEF Sound, WellFiled
  <1>2. entries' = t.nodes /\ buckets' = t.buckets
    BY DEF Table!Written
  <1>3. (Table!Table)' = t
    <2> DEFINE m == t.nodes
               b == t.buckets
    <2> HIDE DEF m, b
    <2>1. t = [nodes |-> m, buckets |-> b] /\ entries' = m /\ buckets' = b
      BY <1>1, <1>2 DEF m, b
    <2> QED BY <2>1 DEF Table!Table
  <1> QED BY <1>3 DEF TableSound, Sound, ValuesOf

\* An empty table.
LEMMA EmptySound ==
    ASSUME NEW B \in Chains, Filed(B, {})
    PROVE  Sound([nodes |-> <<>>, buckets |-> B]) /\ ValuesOf([nodes |-> <<>>, buckets |-> B]) = <<>>
  <1> DEFINE t == [nodes |-> <<>>, buckets |-> B]
             R == <<>>
  <1>1. <<>> \in [{} -> TableEntry] /\ DOMAIN <<>> = {} /\ {} \in SUBSET TablePaths
    OBVIOUS
  <1>2. t.nodes \in EntryMaps /\ DOMAIN t.nodes = {} /\ t.buckets = B
    BY <1>1 DEF EntryMaps
  <1>3. t \in [nodes : EntryMaps, buckets : Chains]
    BY <1>2
  <1>4. R \in [{} -> 0 .. 0]
    OBVIOUS
  <1> HIDE DEF t, R
  <1>5. WellFiled(t)
    BY <1>2, <1>3 DEF WellFiled
  <1>6. InOrder(t, R, 0)
    BY <1>2, <1>4 DEF InOrder, Rooted, Ordered, Numbered
  <1>7. ValuesOf(t) = <<>>
    BY <1>2 DEF ValuesOf
  <1>8. Sound(t)
    BY <1>5, <1>6 DEF Sound
  <1> QED BY <1>7, <1>8 DEF t

\* An empty table is sound.
LEMMA InitSound ==
    ASSUME Table!Init
    PROVE  TableSound
  <1>1. entries = <<>> /\ buckets = <<>> /\ content = <<>>
    BY DEF Table!Init
  <1>2. <<>> \in Chains /\ Filed(<<>>, {})
    BY DEF Chains, Filed
  <1>3. Table!Table = [nodes |-> <<>>, buckets |-> <<>>]
    BY <1>1 DEF Table!Table
  <1> QED BY <1>1, <1>2, <1>3, EmptySound DEF TableSound

\* What is inserted is there, with its ancestors.
LEMMA InsertPathSound ==
    ASSUME TableConstants, TableSound, Table!InsertPath
    PROVE  TableSound'
  <1> DEFINE t == Table!Table
  <1>1. PICK p \in TablePaths, value \in TableValues :
           /\ Table!Written(Table!Insert(t, p, value))
           /\ content' = [q \in DOMAIN content \cup {SubSeq(p, 1, n) : n \in 0 .. Len(p)} |->
                 IF q \in DOMAIN content THEN content[q] ELSE IF q = p THEN value ELSE TableDefault]
    BY DEF Table!InsertPath, TablePaths
  <1>2. PICK R, K : WellFiled(t) /\ InOrder(t, R, K)
    BY DEF TableSound, Sound
  <1> DEFINE u == Table!Insert(t, p, value)
             D == DOMAIN t.nodes
  <1>3. Inserted(t, u, p, value)
    BY <1>2, InsertIs
  <1>4. content = ValuesOf(t)
    BY DEF TableSound
  <1> HIDE DEF t, u
  <1>5. {SubSeq(p, 1, n) : n \in 0 .. Len(p)} = Prefixes(p)
    <2>1. /\ Len(p) \in Nat
          /\ \A n \in 0 .. Len(p) : SubSeq(p, 1, Len(p) - n) \in Prefixes(p)
          /\ \A q \in Prefixes(p) : /\ Len(q) \in Nat /\ Len(q) <= Len(p)
                                    /\ q = SubSeq(p, 1, Len(p) - (Len(p) - Len(q)))
      BY PrefixesAre
    <2>2. ASSUME NEW n \in 0 .. Len(p)
          PROVE  SubSeq(p, 1, n) \in Prefixes(p)
      <3>1. Len(p) - n \in 0 .. Len(p) /\ Len(p) - (Len(p) - n) = n
        BY <2>1
      <3> QED BY <2>1, <3>1
    <2>3. ASSUME NEW q \in Prefixes(p)
          PROVE  \E n \in 0 .. Len(p) : q = SubSeq(p, 1, n)
      <3>1. Len(q) \in 0 .. Len(p) /\ Len(p) - (Len(p) - Len(q)) = Len(q)
        BY <2>1
      <3>2. q = SubSeq(p, 1, Len(q))
        BY <2>1, <3>1
      <3> QED BY <3>1, <3>2
    <2> QED BY <2>2, <2>3
  <1>6. /\ DOMAIN content = D /\ \A x \in D : content[x] = t.nodes[x].value
    BY <1>4 DEF ValuesOf
  <1>7. /\ DOMAIN u.nodes = D \cup Prefixes(p)
        /\ \A x \in D : u.nodes[x].value = t.nodes[x].value
        /\ \A x \in Prefixes(p) \ D : u.nodes[x].value = IF x = p THEN value ELSE TableDefault
    BY <1>3 DEF Inserted
  <1>8. content' = [q \in D \cup Prefixes(p) |->
                       IF q \in D THEN content[q] ELSE IF q = p THEN value ELSE TableDefault]
    BY <1>1, <1>5, <1>6
  <1>9. content' = [q \in D \cup Prefixes(p) |-> u.nodes[q].value]
    <2>1. ASSUME NEW q \in D \cup Prefixes(p)
          PROVE  u.nodes[q].value =
                    IF q \in D THEN content[q] ELSE IF q = p THEN value ELSE TableDefault
      BY <1>6, <1>7
    <2> QED BY <1>8, <2>1
  <1>10. content' = ValuesOf(u)
    BY <1>7, <1>9 DEF ValuesOf
  <1>11. Sound(u) /\ Table!Written(u)
    BY <1>1, <1>3 DEF Inserted, Sound, u
  <1> QED BY <1>10, <1>11, WrittenSound

\* What is erased is gone, with what is below it.
LEMMA ErasePathSound ==
    ASSUME TableConstants, TableSound, Table!ErasePath
    PROVE  TableSound'
  <1> DEFINE t == Table!Table
             D == DOMAIN t.nodes
  <1>1. t.nodes = entries
    BY DEF Table!Table
  <1>2. PICK p \in D : /\ Table!Written(Table!Erase(t, p))
                       /\ content' = [q \in {q \in DOMAIN content : ~ Under(p, q)} |-> content[q]]
    BY <1>1 DEF Table!ErasePath, Under
  <1>3. PICK R, K : WellFiled(t) /\ InOrder(t, R, K)
    BY DEF TableSound, Sound
  <1> DEFINE u == Table!Erase(t, p)
  <1>4. content = ValuesOf(t)
    BY DEF TableSound
  <1> HIDE DEF t
  <1>5. /\ WellFiled(u) /\ DOMAIN u.nodes = Left(D, p) /\ InOrder(u, Ranks(R, Left(D, p)), K)
        /\ \A x \in Left(D, p) : u.nodes[x].value = t.nodes[x].value
    BY <1>3, EraseIs
  <1>6. Table!Written(u)
    BY <1>2
  <1> HIDE DEF u
  <1>7. /\ DOMAIN content = D /\ \A x \in D : content[x] = t.nodes[x].value
    BY <1>4 DEF ValuesOf
  <1>8. content' = [q \in Left(D, p) |-> content[q]]
    BY <1>2, <1>7 DEF Left
  <1>9. content' = ValuesOf(u)
    <2>1. \A q \in Left(D, p) : content[q] = u.nodes[q].value
      BY <1>5, <1>7 DEF Left
    <2> QED BY <1>5, <1>8, <2>1 DEF ValuesOf
  <1>10. Sound(u)
    BY <1>5 DEF Sound
  <1> QED BY <1>6, <1>9, <1>10, WrittenSound

\* Clearing leaves the buckets empty.
LEMMA ClearSound ==
    ASSUME TableSound, Table!Clear
    PROVE  TableSound'
  <1> DEFINE B == [i \in DOMAIN buckets |-> <<>>]
  <1>1. Table!Written([nodes |-> <<>>, buckets |-> B]) /\ content' = <<>>
    BY DEF Table!Clear
  <1>2. buckets \in Chains
    BY DEF TableSound, Sound, WellFiled, Table!Table
  <1>3. Len(buckets) \in Nat /\ DOMAIN buckets = 1 .. Len(buckets)
    BY <1>2 DEF Chains
  <1>4. B \in Chains /\ Filed(B, {})
    BY <1>3, EmptyChains
  <1> HIDE DEF B
  <1>5. Sound([nodes |-> <<>>, buckets |-> B]) /\ ValuesOf([nodes |-> <<>>, buckets |-> B]) = <<>>
    BY <1>4, EmptySound
  <1> QED BY <1>1, <1>5, WrittenSound

\* What a path was called before a renaming.
OldName(q, old, new) == IF Under(new, q) THEN NewName(q, new, old) ELSE q

\* The paths after a renaming.
LEMMA RenamedPaths ==
    ASSUME TableConstants, NEW D, Rooted(D), NEW old \in D, old # TableRoot, NEW new \in TablePaths,
           new \notin D,
           new # TableRoot, ParentOf(new) = ParentOf(old), NEW I,
           I = {x \in D : ~ Under(old, x)} \cup {NewName(x, old, new) : x \in {x \in D : Under(old, x)}}
    PROVE  /\ {q \in TablePaths : OldName(q, old, new) \in D /\ ~ Under(old, q)} = I
           /\ \A x \in D : ~ Under(old, x) => OldName(x, old, new) = x
           /\ \A x \in D : Under(old, x) => OldName(NewName(x, old, new), old, new) = x
  <1>1. D \subseteq TablePaths /\ old \in TablePaths /\ \A x \in D : ~ Under(new, x)
    BY TablePathsAre DEF Rooted
  <1>2. ASSUME NEW x \in D, Under(old, x)
        PROVE  /\ NewName(x, old, new) \in TablePaths /\ ~ Under(old, NewName(x, old, new))
               /\ OldName(NewName(x, old, new), old, new) = x
    <2>1. /\ NewName(x, old, new) \in TablePaths /\ Under(new, NewName(x, old, new))
          /\ NewName(NewName(x, old, new), new, old) = x
          /\ Under(old, NewName(x, old, new)) => old = new
      BY <1>1, <1>2, NewNameIs
    <2> QED BY <2>1 DEF OldName
  <1>3. ASSUME NEW x \in D, ~ Under(old, x)
        PROVE  x \in TablePaths /\ OldName(x, old, new) = x
    BY <1>1 DEF OldName
  <1>4. ASSUME NEW q \in TablePaths, OldName(q, old, new) \in D, ~ Under(old, q)
        PROVE  q \in I
    <2>1. CASE Under(new, q)
      <3>1. OldName(q, old, new) = NewName(q, new, old)
        BY <2>1 DEF OldName
      <3>2. /\ Under(old, NewName(q, new, old))
            /\ NewName(NewName(q, new, old), old, new) = q
        BY <1>1, <2>1, NewNameIs
      <3> QED BY <1>4, <3>1, <3>2
    <2>2. CASE ~ Under(new, q)
      BY <1>4, <2>2 DEF OldName
    <2> QED BY <2>1, <2>2
  <1>5. ASSUME NEW q \in I
        PROVE  q \in TablePaths /\ OldName(q, old, new) \in D /\ ~ Under(old, q)
    <2>1. CASE q \in {x \in D : ~ Under(old, x)}
      BY <1>3, <2>1
    <2>2. CASE q \in {NewName(x, old, new) : x \in {x \in D : Under(old, x)}}
      <3>1. PICK x \in D : Under(old, x) /\ q = NewName(x, old, new)
        BY <2>2
      <3> QED BY <1>2, <3>1
    <2> QED BY <2>1, <2>2
  <1> QED BY <1>2, <1>3, <1>4, <1>5

\* What is renamed keeps its values at its new place.
LEMMA RenameSound ==
    ASSUME TableConstants, TableSound, Table!Rename
    PROVE  TableSound'
  <1> DEFINE t == Table!Table
             D == DOMAIN t.nodes
  <1>1. t.nodes = entries
    BY DEF Table!Table
  <1>2. PICK old \in D \ {TableRoot}, new \in TablePaths \ D :
           /\ new # TableRoot /\ ParentOf(new) = ParentOf(old)
           /\ Table!Written(Table!UpdateForRename(t, old, new))
           /\ content' = [q \in {q \in TablePaths : OldName(q, old, new) \in DOMAIN content /\ ~ Under(old, q)}
                             |-> content[OldName(q, old, new)]]
    BY <1>1, UnderIs DEF Table!Rename, Under, ParentOf, NewName, OldName, TablePaths
  <1>3. PICK R, K : WellFiled(t) /\ InOrder(t, R, K)
    BY DEF TableSound, Sound
  <1> DEFINE u == Table!UpdateForRename(t, old, new)
             From(q) == OldName(q, old, new)
  <1>4. content = ValuesOf(t)
    BY DEF TableSound
  <1> HIDE DEF t
  <1>5. Moved(t, u, old, new)
    BY <1>2, <1>3, UpdateForRenameIs
  <1>6. Table!Written(u)
    BY <1>2
  <1> HIDE DEF u
  <1>7. /\ DOMAIN content = D /\ \A x \in D : content[x] = t.nodes[x].value
    BY <1>4 DEF ValuesOf
  <1>8. Rooted(D)
    BY <1>3 DEF InOrder
  <1>10. content' = [q \in {q \in TablePaths : From(q) \in D /\ ~ Under(old, q)} |-> content[From(q)]]
    BY <1>2, <1>7
  <1> DEFINE I == DOMAIN u.nodes
  <1>11. I = {x \in D : ~ Under(old, x)} \cup {NewName(x, old, new) : x \in {x \in D : Under(old, x)}}
    BY <1>5 DEF Moved
  <1> HIDE DEF I, D
  <1>12. /\ {q \in TablePaths : From(q) \in D /\ ~ Under(old, q)} = I
         /\ \A x \in D : ~ Under(old, x) => From(x) = x
         /\ \A x \in D : Under(old, x) => From(NewName(x, old, new)) = x
    BY <1>2, <1>8, <1>11, RenamedPaths
  <1>13. /\ \A x \in D : ~ Under(old, x) => u.nodes[x].value = t.nodes[x].value
         /\ \A x \in D : Under(old, x) => u.nodes[NewName(x, old, new)].value = t.nodes[x].value
    BY <1>5 DEF Moved, D
  <1>14. ASSUME NEW q \in I
         PROVE  content[From(q)] = u.nodes[q].value
    <2>1. CASE q \in {x \in D : ~ Under(old, x)}
      BY <1>7, <1>12, <1>13, <2>1
    <2>2. CASE q \in {NewName(x, old, new) : x \in {x \in D : Under(old, x)}}
      <3>1. PICK x \in D : Under(old, x) /\ q = NewName(x, old, new)
        BY <2>2
      <3> QED BY <1>7, <1>12, <1>13, <3>1
    <2> QED BY <1>11, <2>1, <2>2
  <1>15. content' = [q \in I |-> u.nodes[q].value]
    BY <1>10, <1>12, <1>14
  <1>16. content' = ValuesOf(u)
    BY <1>15 DEF ValuesOf, I
  <1>17. Sound(u)
    BY <1>5 DEF Moved, Sound
  <1> QED BY <1>6, <1>16, <1>17, WrittenSound

\* A copy holds what the table holds.
LEMMA AssignSound ==
    ASSUME TableConstants, TableSound, Table!Assign
    PROVE  TableSound'
  <1> DEFINE t == Table!Table
             u == Table!Copied(t)
  <1>1. Table!Written(u) /\ content' = content /\ content = ValuesOf(t)
    BY DEF Table!Assign, TableSound
  <1>2. PICK R, K : WellFiled(t) /\ InOrder(t, R, K)
    BY DEF TableSound, Sound
  <1> HIDE DEF t
  <1>3. WellFiled(u) /\ u.nodes = t.nodes
    BY <1>2, CopiedIs
  <1> HIDE DEF u
  <1>4. InOrder(u, R, K)
    BY <1>2, <1>3 DEF InOrder
  <1>5. Sound(u) /\ content' = ValuesOf(u)
    BY <1>1, <1>3, <1>4 DEF Sound, ValuesOf
  <1> QED BY <1>1, <1>5, WrittenSound

\* A sound table is consistent with what it should hold.
LEMMA SoundConsistent ==
    ASSUME TableConstants, TableSound
    PROVE  Table!TableConsistent
  <1> DEFINE t == Table!Table
             D == DOMAIN t.nodes
             all == Table!Iterated(t, Table!Begin(t), Table!Nobody)
             chains == Table!FlattenSeq(buckets)
  <1>1. t.nodes = entries /\ t.buckets = buckets
    BY DEF Table!Table
  <1>2. PICK R, K : WellFiled(t) /\ InOrder(t, R, K)
    BY DEF TableSound, Sound
  <1>3. content = ValuesOf(t)
    BY DEF TableSound
  <1> HIDE DEF t
  <1>4. DOMAIN content = D /\ D = DOMAIN entries /\ \A p \in D : entries[p].value = content[p]
    BY <1>1, <1>3 DEF ValuesOf
  <1>5. buckets \in Chains /\ D \in SUBSET TablePaths /\ Filed(buckets, D)
    BY <1>1, <1>2, EntryMapsAre DEF WellFiled
  <1>6. Once(all) /\ HeldIn(all) = D
    BY <1>2, BeginIs DEF Nobody
  <1>7. ASSUME NEW p \in D
        PROVE  /\ Once(Table!SubtreeRange(t, p))
               /\ HeldIn(Table!SubtreeRange(t, p)) = {q \in D : Under(p, q)}
    BY <1>2, SubtreeRangeIs
  <1>8. Once(chains) /\ HeldIn(chains) = D
    BY <1>5, FlattenIs
  <1>9. ASSUME NEW i \in DOMAIN buckets, NEW p \in HeldIn(buckets[i])
        PROVE  Table!BucketOf(t, p) = i
    <2>1. i \in 1 .. Len(buckets)
      BY <1>5 DEF Chains
    <2>2. p \in D /\ Place(buckets, p) = i
      BY <1>5, <2>1 DEF Filed
    <2> QED BY <1>1, <1>2, <1>5, <2>2, FoundIs
  <1> HIDE DEF D, all, chains
  <1>10. /\ \A p \in DOMAIN content : p \in DOMAIN entries /\ entries[p].value = content[p]
         /\ DOMAIN entries = DOMAIN content
         /\ Table!IsInjective(all) /\ Table!ToSet(all) = DOMAIN content
         /\ \A p \in DOMAIN content :
               /\ Table!IsInjective(Table!SubtreeRange(t, p))
               /\ Table!ToSet(Table!SubtreeRange(t, p)) = {q \in DOMAIN content : Table!IsPrefix(p, q)}
         /\ Table!IsInjective(chains) /\ Table!ToSet(chains) = DOMAIN content
         /\ \A i \in DOMAIN buckets : \A p \in Table!ToSet(buckets[i]) : Table!BucketOf(t, p) = i
    BY <1>4, <1>6, <1>7, <1>8, <1>9 DEF Once, HeldIn, Under
  <1> QED BY <1>10 DEF Table!TableConsistent, t, all, chains

\* Every step leaves the table sound.
LEMMA TableNextSound ==
    ASSUME TableConstants, TableSound, [Table!Next]_<<entries, buckets, content>>
    PROVE  TableSound'
  <1>1. CASE Table!InsertPath
    BY <1>1, InsertPathSound
  <1>2. CASE Table!ErasePath
    BY <1>2, ErasePathSound
  <1>3. CASE Table!Clear
    BY <1>3, ClearSound
  <1>4. CASE Table!Rename
    BY <1>4, RenameSound
  <1>5. CASE Table!Assign
    BY <1>5, AssignSound
  <1>6. CASE UNCHANGED <<entries, buckets, content>>
    <2>1. (Table!Table)' = Table!Table /\ content' = content
      BY <1>6 DEF Table!Table
    <2> QED BY <2>1 DEF TableSound, Sound, ValuesOf
  <1> QED BY <1>1, <1>2, <1>3, <1>4, <1>5, <1>6 DEF Table!Next

\* The table holds what was inserted and not erased, with all ancestors; the iteration goes once
\* over every entry, that of a range over what is below its path; every entry is once in the
\* bucket of its hash (pathTable.h:32-60): for any names, depth, values, hash and first size.
THEOREM TableKept ==
    ASSUME TableConstants
    PROVE  Table!Spec => []Table!TableConsistent
  <1>1. Table!Init => TableSound
    BY InitSound
  <1>2. TableSound /\ [Table!Next]_(Table!vars) => TableSound'
    BY TableNextSound DEF Table!vars
  <1>3. TableSound => Table!TableConsistent
    BY SoundConsistent
  <1> QED BY <1>1, <1>2, <1>3, PTL DEF Table!Spec

=============================================================================
