--------------------------- MODULE ChangeListProofs ---------------------------
(***************************************************************************)
(* What a change list tells of the edits of a round, for any number of     *)
(* parents, names and values and any number of edits: the last entry of a  *)
(* path tells what is there now, no removal is ever lost, no entry is      *)
(* ambiguous, and the values of a field are the first and the last one.    *)
(*                                                                         *)
(* The operations on the list are first described by what they do to the   *)
(* last entry of each path and to the set of the entries, so that the      *)
(* steps need not look at places in the list.                              *)
(***************************************************************************)
EXTENDS ChangeList, NaturalsInduction, WellFoundedInduction, FiniteSetTheorems,
        SequenceTheorems, TLAPS

\* What is assumed of the constants: there are finitely many specs when the block is opened,
\* and what stands for no path and no value is neither.
RecordConstants ==
    /\ InitialPath \subseteq Path /\ IsFiniteSet(InitialPath)
    /\ NoPath \notin Path

Flags == AddFlags \cup RemoveFlags \cup {"didRename"}
Values == Value \cup {NoValue}

Entry == [ path : Path, flags : SUBSET Flags, oldPath : Path \cup {NoPath},
           info : {<<>>} \cup [{Key} -> Values \X Values] ]

-----------------------------------------------------------------------------
(* The last entry of a path.                                               *)

\* A set of places in a list has a last one.
LEMMA LastPlace ==
    ASSUME NEW n \in Nat, NEW found \in SUBSET (1..n), found # {}
    PROVE  \E i \in found : \A j \in found : j <= i
  <1> DEFINE T == {m \in Nat : \A j \in found : j <= m}
  <1>1. n \in T
    OBVIOUS
  <1>2. PICK m \in T : \A y \in T : m <= y
    <2>1. IsWellFoundedOn({ss \in Nat \X Nat : ss[1] < ss[2]}, Nat)
      BY NatLessThanWellFounded DEF OpToRel
    <2>2. T \subseteq Nat /\ T # {}
      BY <1>1
    <2> HIDE DEF T
    <2>3. PICK x \in T : \A y \in T : ~ (<<y, x>> \in {ss \in Nat \X Nat : ss[1] < ss[2]})
      BY <2>1, <2>2, WFMin
    <2>4. \A y \in T : ~ (y < x)
      <3> SUFFICES ASSUME NEW y \in T, y < x
                   PROVE  <<y, x>> \in {ss \in Nat \X Nat : ss[1] < ss[2]}
        BY <2>3
      <3>1. <<y, x>> \in Nat \X Nat /\ <<y, x>>[1] < <<y, x>>[2]
        BY <2>2
      <3> QED BY <3>1
    <2> QED BY <2>2, <2>4
  <1>3. m \in found
    <2> SUFFICES ASSUME m \notin found
                 PROVE  FALSE
      OBVIOUS
    <2>1. PICK j \in found : TRUE
      OBVIOUS
    <2>2. m - 1 \in Nat
      BY <1>2, <2>1
    <2>3. m - 1 \in T
      BY <1>2, <2>2
    <2> QED BY <1>2, <2>2, <2>3
  <1> QED BY <1>2, <1>3

\* FindEntry finds the last entry of the path, if there is one.
LEMMA FindEntryFinds ==
    ASSUME NEW l \in Seq(Entry), NEW path
    PROVE  \/ /\ FindEntry(l, path) = 0
              /\ \A i \in DOMAIN l : l[i].path # path
           \/ /\ FindEntry(l, path) \in DOMAIN l
              /\ FindEntry(l, path) # 0
              /\ l[FindEntry(l, path)].path = path
              /\ \A j \in DOMAIN l : l[j].path = path => j <= FindEntry(l, path)
  <1> DEFINE found == {i \in DOMAIN l : l[i].path = path}
  <1>1. CASE found = {}
    BY <1>1 DEF FindEntry
  <1>2. CASE found # {}
    <2>1. Len(l) \in Nat /\ DOMAIN l = 1..Len(l)
      OBVIOUS
    <2>2. found \subseteq 1..Len(l)
      BY <2>1
    <2>3. \E i \in found : \A j \in found : j <= i
      BY <1>2, <2>1, <2>2, LastPlace
    <2>4. FindEntry(l, path) = CHOOSE i \in found : \A j \in found : j <= i
      BY <1>2 DEF FindEntry
    <2>5. FindEntry(l, path) \in found /\ \A j \in found : j <= FindEntry(l, path)
      BY <2>3, <2>4
    <2> QED BY <2>1, <2>5
  <1> QED BY <1>1, <1>2

\* It is the only such place.
LEMMA FindEntryIs ==
    ASSUME NEW l \in Seq(Entry), NEW path, NEW i \in DOMAIN l, l[i].path = path,
           \A j \in DOMAIN l : l[j].path = path => j <= i
    PROVE  FindEntry(l, path) = i
  BY FindEntryFinds

\* The last entry of a path: the set of it, or the empty set.
Last(l, path) == {l[i] : i \in {FindEntry(l, path)} \ {0}}

LEMMA LastIs ==
    ASSUME NEW l \in Seq(Entry), NEW path
    PROVE  /\ FindEntry(l, path) = 0 => Last(l, path) = {}
           /\ FindEntry(l, path) # 0 => Last(l, path) = {l[FindEntry(l, path)]}
           /\ FindEntry(l, path) = 0 <=> Last(l, path) = {}
           /\ Last(l, path) \subseteq Range(l)
           /\ \A e \in Last(l, path) : e \in Entry /\ e.path = path
  BY FindEntryFinds DEF Last, Range

\* What stays of a list: the last entries of the other paths, and all entries but the
\* last one of the path.
Others(l, new, path) ==
    /\ new \in Seq(Entry)
    /\ \A q \in Path \ {path} : Last(new, q) = Last(l, q)
    /\ \A e \in Range(l) : e \in Range(new) \/ e \in Last(l, path)

\* A new entry becomes the last one of its path.
LEMMA AddNewEntryDoes ==
    ASSUME NEW l \in Seq(Entry), NEW path \in Path
    PROVE  /\ Others(l, AddNewEntry(l, path), path)
           /\ Last(AddNewEntry(l, path), path) = {NewEntry(path)}
           /\ Range(AddNewEntry(l, path)) = Range(l) \cup {NewEntry(path)}
           /\ NewEntry(path) \in Entry
  <1> DEFINE new == Append(l, NewEntry(path))
  <1>1. NewEntry(path) \in Entry /\ NewEntry(path).path = path
    BY DEF NewEntry, Entry
  <1>2. /\ new \in Seq(Entry) /\ Len(new) = Len(l) + 1
        /\ \A i \in 1..Len(l) : new[i] = l[i]
        /\ new[Len(l) + 1] = NewEntry(path)
        /\ DOMAIN new = 1..(Len(l) + 1) /\ DOMAIN l = 1..Len(l) /\ Len(l) \in Nat
    BY <1>1
  <1> HIDE DEF new
  <1>3. FindEntry(new, path) = Len(l) + 1
    BY <1>1, <1>2, FindEntryIs
  <1>4. Last(new, path) = {NewEntry(path)}
    BY <1>2, <1>3, LastIs
  <1>5. Range(new) = Range(l) \cup {NewEntry(path)}
    BY <1>2 DEF Range
  <1>6. ASSUME NEW q \in Path \ {path}
        PROVE  Last(new, q) = Last(l, q)
    <2>1. CASE FindEntry(l, q) = 0
      <3>1. \A i \in DOMAIN new : new[i].path # q
        BY <1>1, <1>2, <2>1, FindEntryFinds
      <3>2. FindEntry(new, q) = 0
        BY <1>2, <3>1, FindEntryFinds
      <3> QED BY <1>2, <2>1, <3>2, LastIs
    <2>2. CASE FindEntry(l, q) # 0
      <3>1. FindEntry(l, q) \in DOMAIN l /\ l[FindEntry(l, q)].path = q
            /\ \A j \in DOMAIN l : l[j].path = q => j <= FindEntry(l, q)
        BY <2>2, FindEntryFinds
      <3>2. FindEntry(new, q) = FindEntry(l, q)
        BY <1>1, <1>2, <3>1, FindEntryIs
      <3>3. new[FindEntry(l, q)] = l[FindEntry(l, q)]
        BY <1>2, <3>1
      <3> QED BY <3>2, <3>3 DEF Last
    <2> QED BY <2>1, <2>2
  <1>7. Others(l, new, path)
    BY <1>2, <1>5, <1>6 DEF Others
  <1> QED BY <1>1, <1>4, <1>5, <1>7 DEF new, AddNewEntry

\* The last entry of a path is overwritten.
LEMMA SetEntryDoes ==
    ASSUME NEW l \in Seq(Entry), NEW path \in Path, FindEntry(l, path) # 0,
           NEW e \in Entry, e.path = path
    PROVE  /\ Others(l, SetEntry(l, path, e), path)
           /\ Last(SetEntry(l, path, e), path) = {e}
           /\ Range(SetEntry(l, path, e)) \subseteq Range(l) \cup {e}
  <1> DEFINE n   == FindEntry(l, path)
             new == [l EXCEPT ![n] = e]
  <1>1. n \in DOMAIN l /\ l[n].path = path /\ \A j \in DOMAIN l : l[j].path = path => j <= n
    BY FindEntryFinds
  <1>2. /\ new \in Seq(Entry) /\ DOMAIN new = DOMAIN l
        /\ new[n] = e /\ \A i \in DOMAIN l \ {n} : new[i] = l[i]
    BY <1>1
  <1>0. new = SetEntry(l, path, e)
    BY DEF SetEntry
  <1> HIDE DEF new
  <1>3. \A i \in DOMAIN l : new[i].path = l[i].path
    BY <1>1, <1>2
  <1>4. ASSUME NEW q
        PROVE  FindEntry(new, q) = FindEntry(l, q)
    <2>1. CASE FindEntry(l, q) = 0
      BY <1>2, <1>3, <2>1, FindEntryFinds
    <2>2. CASE FindEntry(l, q) # 0
      <3>1. FindEntry(l, q) \in DOMAIN l /\ l[FindEntry(l, q)].path = q
            /\ \A j \in DOMAIN l : l[j].path = q => j <= FindEntry(l, q)
        BY <2>2, FindEntryFinds
      <3> QED BY <1>2, <1>3, <3>1, FindEntryIs
    <2> QED BY <2>1, <2>2
  <1>5. Last(new, path) = {e}
    BY <1>1, <1>2, <1>4, LastIs
  <1>6. ASSUME NEW q \in Path \ {path}
        PROVE  Last(new, q) = Last(l, q)
    <2>1. CASE FindEntry(l, q) = 0
      BY <1>2, <1>4, <2>1, LastIs
    <2>2. CASE FindEntry(l, q) # 0
      <3>1. FindEntry(l, q) \in DOMAIN l /\ l[FindEntry(l, q)].path = q
        BY <2>2, FindEntryFinds
      <3>2. new[FindEntry(l, q)] = l[FindEntry(l, q)]
        BY <1>1, <1>2, <3>1
      <3> QED BY <1>4, <3>2 DEF Last
    <2> QED BY <2>1, <2>2
  <1>7. Range(new) \subseteq Range(l) \cup {e}
    BY <1>2 DEF Range
  <1>8. \A f \in Range(l) : f \in Range(new) \/ f \in Last(l, path)
    <2> SUFFICES ASSUME NEW i \in DOMAIN l
                 PROVE  l[i] \in Range(new) \/ l[i] \in Last(l, path)
      BY DEF Range
    <2>1. CASE i = n
      BY <2>1, LastIs
    <2>2. CASE i # n
      <3>1. new[i] = l[i] /\ i \in DOMAIN new
        BY <1>2, <2>2
      <3> QED BY <3>1 DEF Range
    <2> QED BY <2>1, <2>2
  <1> QED BY <1>0, <1>2, <1>5, <1>6, <1>7, <1>8 DEF Others

\* An element is taken out of a sequence.
LEMMA EraseAtIs ==
    ASSUME NEW S, NEW l \in Seq(S), NEW n \in 1..Len(l)
    PROVE  /\ EraseAt(l, n) \in Seq(S)
           /\ Len(EraseAt(l, n)) = Len(l) - 1
           /\ \A i \in 1..(Len(l) - 1) :
                 EraseAt(l, n)[i] = IF i < n THEN l[i] ELSE l[i + 1]
  <1>1. SubSeq(l, 1, n - 1) \in Seq(S) /\ Len(SubSeq(l, 1, n - 1)) = n - 1
        /\ \A i \in 1..(n - 1) : SubSeq(l, 1, n - 1)[i] = l[i]
    OBVIOUS
  <1>2. SubSeq(l, n + 1, Len(l)) \in Seq(S) /\ Len(SubSeq(l, n + 1, Len(l))) = Len(l) - n
        /\ \A i \in 1..(Len(l) - n) : SubSeq(l, n + 1, Len(l))[i] = l[i + n]
    OBVIOUS
  <1> DEFINE a == SubSeq(l, 1, n - 1)
             b == SubSeq(l, n + 1, Len(l))
  <1>5. a \in Seq(S) /\ b \in Seq(S) /\ Len(a) = n - 1 /\ Len(b) = Len(l) - n
    BY <1>1, <1>2
  <1> HIDE DEF a, b
  <1>3. a \o b \in Seq(S) /\ Len(a \o b) = Len(l) - 1
        /\ \A i \in 1..(Len(l) - 1) : (a \o b)[i] = IF i < n THEN a[i] ELSE b[i - (n - 1)]
    <2>1. Len(a \o b) = Len(a) + Len(b) /\ a \o b \in Seq(S)
          /\ \A i \in 1..(Len(a) + Len(b)) :
                (a \o b)[i] = IF i <= Len(a) THEN a[i] ELSE b[i - Len(a)]
      BY <1>5, ConcatProperties
    <2>2. Len(l) \in Nat /\ n \in Nat /\ n <= Len(l) /\ 1 <= n
      OBVIOUS
    <2> QED BY <1>5, <2>1, <2>2
  <1>4. \A i \in 1..(Len(l) - 1) : (a \o b)[i] = IF i < n THEN l[i] ELSE l[i + 1]
    <2> SUFFICES ASSUME NEW i \in 1..(Len(l) - 1)
                 PROVE  (a \o b)[i] = IF i < n THEN l[i] ELSE l[i + 1]
      OBVIOUS
    <2>1. CASE i < n
      BY <1>1, <1>3, <2>1 DEF a
    <2>2. CASE ~(i < n)
      <3>1. i - (n - 1) \in 1..(Len(l) - n) /\ (i - (n - 1)) + n = i + 1
        BY <2>2
      <3> QED BY <1>2, <1>3, <2>2, <3>1 DEF b
    <2> QED BY <2>1, <2>2
  <1> QED BY <1>3, <1>4 DEF a, b, EraseAt

\* The last entry of a path is taken out.
LEMMA EraseEntryDoes ==
    ASSUME NEW l \in Seq(Entry), NEW path \in Path, FindEntry(l, path) # 0
    PROVE  /\ Others(l, EraseAt(l, FindEntry(l, path)), path)
           /\ Range(EraseAt(l, FindEntry(l, path))) \subseteq Range(l)
  <1> DEFINE n   == FindEntry(l, path)
             new == EraseAt(l, n)
             At2(i) == IF i < n THEN i ELSE i + 1
  <1>1. /\ n \in 1..Len(l) /\ l[n].path = path /\ DOMAIN l = 1..Len(l) /\ Len(l) \in Nat
        /\ \A j \in DOMAIN l : l[j].path = path => j <= n
    BY FindEntryFinds
  <1>2. /\ new \in Seq(Entry) /\ DOMAIN new = 1..(Len(l) - 1)
        /\ \A i \in 1..(Len(l) - 1) : new[i] = l[At2(i)]
    <2>1. /\ EraseAt(l, n) \in Seq(Entry) /\ Len(EraseAt(l, n)) = Len(l) - 1
          /\ \A i \in 1..(Len(l) - 1) : EraseAt(l, n)[i] = IF i < n THEN l[i] ELSE l[i + 1]
      BY <1>1, EraseAtIs
    <2>2. DOMAIN EraseAt(l, n) = 1..(Len(l) - 1)
      BY <2>1
    <2> QED BY <2>1, <2>2
  <1> HIDE DEF n, new
  <1>3. \A i \in 1..(Len(l) - 1) : At2(i) \in DOMAIN l /\ At2(i) # n
    BY <1>1
  <1>4. \A j \in DOMAIN l : j # n =>
            \E i \in 1..(Len(l) - 1) : At2(i) = j
    <2> SUFFICES ASSUME NEW j \in DOMAIN l, j # n
                 PROVE  \E i \in 1..(Len(l) - 1) : At2(i) = j
      OBVIOUS
    <2>1. CASE j < n
      <3>1. j \in 1..(Len(l) - 1) /\ At2(j) = j
        BY <1>1, <2>1
      <3> QED BY <3>1
    <2>2. CASE n < j
      <3>1. j - 1 \in 1..(Len(l) - 1) /\ At2(j - 1) = j
        BY <1>1, <2>2
      <3> QED BY <3>1
    <2> QED BY <1>1, <2>1, <2>2
  <1>5. \A i, j \in 1..(Len(l) - 1) : i <= j <=> At2(i) <= At2(j)
    BY <1>1
  <1> HIDE DEF At2
  <1>6. Range(new) \subseteq Range(l)
    BY <1>2, <1>3 DEF Range
  <1>7. \A e \in Range(l) : e \in Range(new) \/ e \in Last(l, path)
    <2> SUFFICES ASSUME NEW j \in DOMAIN l
                 PROVE  l[j] \in Range(new) \/ l[j] \in Last(l, path)
      BY DEF Range
    <2>1. CASE j = n
      BY <2>1, LastIs DEF n
    <2>2. CASE j # n
      <3>1. PICK i \in 1..(Len(l) - 1) : At2(i) = j
        BY <1>4, <2>2
      <3>2. new[i] = l[j] /\ i \in DOMAIN new
        BY <1>2, <3>1
      <3> QED BY <3>2 DEF Range
    <2> QED BY <2>1, <2>2
  <1>8. ASSUME NEW q \in Path \ {path}
        PROVE  Last(new, q) = Last(l, q)
    <2>1. CASE FindEntry(l, q) = 0
      <3>1. \A i \in DOMAIN new : new[i].path # q
        BY <1>2, <1>3, <2>1, FindEntryFinds
      <3>2. FindEntry(new, q) = 0
        BY <1>2, <3>1, FindEntryFinds
      <3> QED BY <2>1, <3>2 DEF Last
    <2>2. CASE FindEntry(l, q) # 0
      <3>1. FindEntry(l, q) \in DOMAIN l /\ l[FindEntry(l, q)].path = q
            /\ \A j \in DOMAIN l : l[j].path = q => j <= FindEntry(l, q)
        BY <2>2, FindEntryFinds
      <3>2. PICK i \in 1..(Len(l) - 1) : At2(i) = FindEntry(l, q)
        BY <1>1, <1>4, <3>1
      <3>3. /\ i \in DOMAIN new /\ new[i] = l[FindEntry(l, q)]
            /\ \A j \in DOMAIN new : new[j].path = q => j <= i
        BY <1>2, <1>3, <1>5, <3>1, <3>2
      <3>4. FindEntry(new, q) = i
        <4>1. new[i].path = q /\ new \in Seq(Entry)
          BY <1>2, <3>1, <3>3
        <4> QED BY <3>3, <4>1, FindEntryIs
      <3>5. i # 0
        BY <3>2
      <3> QED BY <2>2, <3>3, <3>4, <3>5 DEF Last
    <2> QED BY <2>1, <2>2
  <1>9. Others(l, new, path)
    BY <1>2, <1>7, <1>8 DEF Others
  <1> QED BY <1>6, <1>9 DEF new, n

-----------------------------------------------------------------------------
(* The operations on the list.                                             *)

\* _GetEntry finds an entry or makes an empty one.
LEMMA WithEntryDoes ==
    ASSUME NEW l \in Seq(Entry), NEW path \in Path
    PROVE  /\ WithEntry(l, path) \in Seq(Entry)
           /\ \A q \in Path \ {path} : Last(WithEntry(l, path), q) = Last(l, q)
           /\ FindEntry(WithEntry(l, path), path) # 0
           /\ Last(WithEntry(l, path), path) =
                 IF Last(l, path) = {} THEN {NewEntry(path)} ELSE Last(l, path)
           /\ Last(WithEntry(l, path), path) = {GetEntry(l, path)}
           /\ GetEntry(l, path) \in Entry /\ GetEntry(l, path).path = path
           /\ GetEntry(l, path) \in Range(l) \cup {NewEntry(path)}
           /\ Range(l) \subseteq Range(WithEntry(l, path))
           /\ Range(WithEntry(l, path)) \subseteq Range(l) \cup {NewEntry(path)}
  <1> DEFINE new == WithEntry(l, path)
  <1>1. CASE FindEntry(l, path) = 0
    <2>1. new = AddNewEntry(l, path)
      BY <1>1 DEF WithEntry
    <2>2. Last(l, path) = {}
      BY <1>1, LastIs
    <2>3. Last(new, path) = {NewEntry(path)} /\ Others(l, new, path)
          /\ Range(new) = Range(l) \cup {NewEntry(path)}
      BY <2>1, AddNewEntryDoes
    <2> HIDE DEF new
    <2>4. new \in Seq(Entry)
      BY <2>3 DEF Others
    <2>5. FindEntry(new, path) # 0 /\ Last(new, path) = {new[FindEntry(new, path)]}
      BY <2>3, <2>4, LastIs
    <2>6. GetEntry(l, path) = new[FindEntry(new, path)]
      BY DEF GetEntry, new
    <2>7. GetEntry(l, path) = NewEntry(path) /\ NewEntry(path) \in Entry /\ NewEntry(path).path = path
      BY <2>3, <2>5, <2>6, AddNewEntryDoes DEF NewEntry
    <2> QED BY <2>2, <2>3, <2>4, <2>5, <2>7 DEF Others, new
  <1>2. CASE FindEntry(l, path) # 0
    <2>1. new = l
      BY <1>2 DEF WithEntry
    <2>2. Last(l, path) = {l[FindEntry(l, path)]}
      BY <1>2, LastIs
    <2>3. GetEntry(l, path) = l[FindEntry(l, path)]
      BY <2>1 DEF GetEntry
    <2>4. GetEntry(l, path) \in Range(l) /\ GetEntry(l, path) \in Entry /\ GetEntry(l, path).path = path
      BY <2>2, <2>3, LastIs
    <2> HIDE DEF new
    <2> QED BY <1>2, <2>1, <2>2, <2>3, <2>4 DEF new
  <1> QED BY <1>1, <1>2

\* The removals that the list tells of stay in it.
KeepsRemovals(l, new) == \A e \in Range(l) : IsRemoved(e) => e \in Range(new)

\* A change of the last entry of a path to e: what is in the list, and what it tells of the
\* other paths, stays; no removal is lost; and e is the last entry of the path.
Tells(l, new, path, e) ==
    /\ new \in Seq(Entry)
    /\ \A q \in Path \ {path} : Last(new, q) = Last(l, q)
    /\ Last(new, path) = {e}
    /\ e \in Entry /\ e.path = path /\ e \in Range(new)
    /\ KeepsRemovals(l, new)
    /\ Range(new) \subseteq Range(l) \cup {NewEntry(path), e}

\* An entry that tells of no removal is replaced.
LEMMA ReplaceTells ==
    ASSUME NEW l \in Seq(Entry), NEW path \in Path, NEW e \in Entry, e.path = path,
           ~IsRemoved(GetEntry(l, path))
    PROVE  Tells(l, SetEntry(WithEntry(l, path), path, e), path, e)
  <1> DEFINE m == WithEntry(l, path)
             new == SetEntry(m, path, e)
  <1>1. /\ m \in Seq(Entry) /\ FindEntry(m, path) # 0 /\ Last(m, path) = {GetEntry(l, path)}
        /\ \A q \in Path \ {path} : Last(m, q) = Last(l, q)
        /\ Range(l) \subseteq Range(m) /\ Range(m) \subseteq Range(l) \cup {NewEntry(path)}
    BY WithEntryDoes
  <1> HIDE DEF m
  <1>2. /\ Others(m, new, path) /\ Last(new, path) = {e} /\ Range(new) \subseteq Range(m) \cup {e}
    BY <1>1, SetEntryDoes
  <1> HIDE DEF new
  <1>3. new \in Seq(Entry) /\ \A q \in Path \ {path} : Last(new, q) = Last(l, q)
    BY <1>1, <1>2 DEF Others
  <1>4. e \in Range(new)
    BY <1>2, <1>3, LastIs
  <1>5. KeepsRemovals(l, new)
    <2> SUFFICES ASSUME NEW f \in Range(l), IsRemoved(f)
                 PROVE  f \in Range(new)
      BY DEF KeepsRemovals
    <2>1. f \in Range(new) \/ f = GetEntry(l, path)
      BY <1>1, <1>2 DEF Others
    <2> QED BY <1>4, <2>1
  <1> QED BY <1>1, <1>2, <1>3, <1>4, <1>5 DEF Tells, new, m

\* An entry is put behind one that tells of a removal, or of an addition.
LEMMA AddTells ==
    ASSUME NEW l \in Seq(Entry), NEW path \in Path
    PROVE  /\ Tells(l, AddNewEntry(WithEntry(l, path), path), path, NewEntry(path))
           /\ GetEntry(AddNewEntry(WithEntry(l, path), path), path) = NewEntry(path)
           /\ WithEntry(AddNewEntry(WithEntry(l, path), path), path) =
                  AddNewEntry(WithEntry(l, path), path)
  <1> DEFINE m == WithEntry(l, path)
             new == AddNewEntry(m, path)
  <1>1. /\ m \in Seq(Entry)
        /\ \A q \in Path \ {path} : Last(m, q) = Last(l, q)
        /\ Range(l) \subseteq Range(m) /\ Range(m) \subseteq Range(l) \cup {NewEntry(path)}
    BY WithEntryDoes
  <1> HIDE DEF m
  <1>2. /\ Others(m, new, path) /\ Last(new, path) = {NewEntry(path)}
        /\ Range(new) = Range(m) \cup {NewEntry(path)} /\ NewEntry(path) \in Entry
    BY <1>1, AddNewEntryDoes
  <1> HIDE DEF new
  <1>3. new \in Seq(Entry) /\ \A q \in Path \ {path} : Last(new, q) = Last(l, q)
    BY <1>1, <1>2 DEF Others
  <1>4. FindEntry(new, path) # 0 /\ new[FindEntry(new, path)] = NewEntry(path)
    BY <1>2, <1>3, LastIs
  <1>5. WithEntry(new, path) = new
    BY <1>4 DEF WithEntry
  <1>6. GetEntry(new, path) = NewEntry(path)
    BY <1>4, <1>5 DEF GetEntry
  <1>7. NewEntry(path).path = path
    BY DEF NewEntry
  <1> QED BY <1>1, <1>2, <1>3, <1>5, <1>6, <1>7 DEF Tells, KeepsRemovals, new, m

\* Two changes of the same path are one.
LEMMA TellsTwice ==
    ASSUME NEW l, NEW m, NEW new, NEW path \in Path, NEW e,
           Tells(l, m, path, NewEntry(path)), Tells(m, new, path, e)
    PROVE  Tells(l, new, path, e)
  BY DEF Tells, KeepsRemovals

\* What is told of a path is what GetEntry says.
LEMMA TellsEntry ==
    ASSUME NEW l \in Seq(Entry), NEW new \in Seq(Entry), NEW q
    PROVE  /\ Last(new, q) = Last(l, q) => GetEntry(new, q) = GetEntry(l, q)
           /\ \A e : Last(new, q) = {e} => GetEntry(new, q) = e
  <1>1. ASSUME NEW m \in Seq(Entry)
        PROVE  /\ Last(m, q) = {} => GetEntry(m, q) = GetEntry(<<>>, q)
               /\ \A e : Last(m, q) = {e} => GetEntry(m, q) = e
    <2>1. CASE FindEntry(m, q) = 0
      <3> DEFINE n == Append(m, NewEntry(q))
      <3>1. Last(m, q) = {}
        BY <2>1, LastIs
      <3>2. GetEntry(m, q) = NewEntry(q) /\ GetEntry(<<>>, q) = NewEntry(q)
        <4>1. ASSUME NEW o \in Seq(Entry), FindEntry(o, q) = 0
              PROVE  GetEntry(o, q) = NewEntry(q)
          <5> DEFINE u == Append(o, NewEntry(q))
          <5>1. WithEntry(o, q) = u
            BY <4>1 DEF WithEntry, AddNewEntry
          <5>2. /\ DOMAIN u = 1..(Len(o) + 1) /\ Len(o) \in Nat /\ DOMAIN o = 1..Len(o)
                /\ u[Len(o) + 1] = NewEntry(q)
            OBVIOUS
          <5> HIDE DEF u
          <5>3. NewEntry(q).path = q
            BY DEF NewEntry
          <5>4. FindEntry(u, q) \in {i \in DOMAIN u : u[i].path = q}
                /\ \A j \in {i \in DOMAIN u : u[i].path = q} : j <= FindEntry(u, q)
            <6>1. Len(o) + 1 \in {i \in DOMAIN u : u[i].path = q}
              BY <5>2, <5>3
            <6>2. \A j \in {i \in DOMAIN u : u[i].path = q} : j <= Len(o) + 1
              BY <5>2
            <6> QED BY <6>1, <6>2 DEF FindEntry
          <5>5. FindEntry(u, q) = Len(o) + 1
            BY <5>2, <5>3, <5>4
          <5> QED BY <5>1, <5>2, <5>5 DEF GetEntry
        <4>2. <<>> \in Seq(Entry)
          OBVIOUS
        <4>3. FindEntry(<<>>, q) = 0
          <5>1. {i \in DOMAIN <<>> : <<>>[i].path = q} = {}
            OBVIOUS
          <5> QED BY <5>1 DEF FindEntry
        <4> QED BY <2>1, <4>1, <4>2, <4>3
      <3> QED BY <3>1, <3>2
    <2>2. CASE FindEntry(m, q) # 0
      BY <2>2, LastIs DEF GetEntry, WithEntry
    <2> QED BY <2>1, <2>2
  <1>2. Last(l, q) = {} \/ \E e : Last(l, q) = {e}
    BY LastIs
  <1> QED BY <1>1, <1>2

\* A path of which a change list tells nothing has an empty entry.
LEMMA NewEntryTells ==
    ASSUME RecordConstants, NEW path \in Path
    PROVE  /\ About(NewEntry(path)) = path
           /\ ~IsRemoved(NewEntry(path)) /\ ~IsAdded(NewEntry(path))
           /\ NewEntry(path).info = <<>> /\ NewEntry(path).path = path
           /\ NewEntry(path).oldPath = NoPath
           /\ NewEntry(path) \in Entry
  BY DEF About, NewEntry, IsRemoved, IsAdded, AddFlags, RemoveFlags, Entry

\* The entry that was looked up is there when it is looked up again.
LEMMA WithEntryTwice ==
    ASSUME NEW l \in Seq(Entry), NEW path \in Path
    PROVE  /\ WithEntry(WithEntry(l, path), path) = WithEntry(l, path)
           /\ GetEntry(WithEntry(l, path), path) = GetEntry(l, path)
  <1>1. FindEntry(WithEntry(l, path), path) # 0
    BY WithEntryDoes
  <1>2. \A m : FindEntry(m, path) # 0 => WithEntry(m, path) = m
    BY DEF WithEntry
  <1> QED BY <1>1, <1>2 DEF GetEntry

\* A flag is set in an entry that tells of no removal.
LEMMA SetFlagTells ==
    ASSUME NEW l \in Seq(Entry), NEW path \in Path, NEW flag \in Flags,
           ~IsRemoved(GetEntry(l, path))
    PROVE  /\ Tells(l, SetFlag(l, path, flag), path,
                    [GetEntry(l, path) EXCEPT !.flags = @ \cup {flag}])
           /\ SetFlag(WithEntry(l, path), path, flag) = SetFlag(l, path, flag)
  <1> DEFINE g == GetEntry(l, path)
             e == [g EXCEPT !.flags = @ \cup {flag}]
  <1>1. g \in Entry /\ g.path = path
    BY WithEntryDoes
  <1>2. e \in Entry /\ e.path = path
    BY <1>1 DEF Entry
  <1>3. GetEntry(WithEntry(l, path), path) = g /\ WithEntry(WithEntry(l, path), path) = WithEntry(l, path)
    BY WithEntryTwice
  <1>4. /\ SetFlag(l, path, flag) = SetEntry(WithEntry(l, path), path, e)
        /\ SetFlag(WithEntry(l, path), path, flag) = SetEntry(WithEntry(l, path), path, e)
    BY <1>3 DEF SetFlag
  <1> HIDE DEF e, g
  <1>5. Tells(l, SetEntry(WithEntry(l, path), path, e), path, e)
    BY <1>2, ReplaceTells
  <1> QED BY <1>4, <1>5 DEF e, g

\* No entry leaves open whether an addition or a removal came first.
Unambiguous(l) == \A e \in Range(l) : ~(IsAdded(e) /\ IsRemoved(e))

\* What is added has an entry of its own, which tells of the addition alone.
LEMMA DidAddTells ==
    ASSUME RecordConstants, NEW l \in Seq(Entry), NEW path \in Path, NEW flag \in AddFlags
    PROVE  \E e : Tells(l, DidAdd(l, path, flag), path, e) /\ IsAdded(e) /\ ~IsRemoved(e)
  <1> DEFINE m == WithEntry(l, path)
             g == GetEntry(l, path)
             Set(f) == [f EXCEPT !.flags = @ \cup {flag}]
  <1>0. flag \in Flags /\ flag \notin RemoveFlags
    BY DEF Flags, AddFlags, RemoveFlags
  <1>1. g \in Entry /\ GetEntry(m, path) = g
    BY WithEntryDoes, WithEntryTwice
  <1>2. ASSUME NEW f \in Entry, ~IsRemoved(f)
        PROVE  IsAdded(Set(f)) /\ ~IsRemoved(Set(f))
    BY <1>0, <1>2 DEF Entry, IsAdded, IsRemoved
  <1>3. CASE IsRemoved(g)
    <2> DEFINE n == AddNewEntry(m, path)
    <2>1. /\ Tells(l, n, path, NewEntry(path)) /\ GetEntry(n, path) = NewEntry(path)
      BY AddTells
    <2>2. DidAdd(l, path, flag) = SetFlag(n, path, flag)
      BY <1>1, <1>3 DEF DidAdd
    <2> HIDE DEF n
    <2>5. n \in Seq(Entry) /\ ~IsRemoved(GetEntry(n, path))
      BY <2>1, NewEntryTells DEF Tells
    <2>6. Tells(n, SetFlag(n, path, flag), path, Set(GetEntry(n, path)))
      BY <1>0, <2>5, SetFlagTells
    <2>3. Tells(n, SetFlag(n, path, flag), path, Set(NewEntry(path)))
      BY <2>1, <2>6
    <2>4. Tells(l, SetFlag(n, path, flag), path, Set(NewEntry(path)))
      BY <2>1, <2>3, TellsTwice
    <2> HIDE DEF Set
    <2> QED BY <1>2, <2>2, <2>4, NewEntryTells
  <1>4. CASE ~IsRemoved(g)
    <2>1. DidAdd(l, path, flag) = SetFlag(m, path, flag)
      BY <1>1, <1>4 DEF DidAdd
    <2>2. Tells(l, SetFlag(l, path, flag), path, Set(g)) /\ SetFlag(m, path, flag) = SetFlag(l, path, flag)
      BY <1>0, <1>4, SetFlagTells
    <2> HIDE DEF m, g, Set
    <2> QED BY <1>1, <1>2, <1>4, <2>1, <2>2
  <1> QED BY <1>3, <1>4

\* What is removed has an entry that tells of the removal alone, and of the object that the
\* path was known to have.
LEMMA DidRemoveTells ==
    ASSUME RecordConstants, NEW l \in Seq(Entry), NEW path \in Path, NEW flag \in RemoveFlags,
           ~IsRemoved(GetEntry(l, path))
    PROVE  \E e : /\ Tells(l, DidRemove(l, path, flag), path, e)
                  /\ IsRemoved(e) /\ ~IsAdded(e)
                  /\ ~IsAdded(GetEntry(l, path)) => About(e) = About(GetEntry(l, path))
  <1> DEFINE m == WithEntry(l, path)
             g == GetEntry(l, path)
             Set(f) == [f EXCEPT !.flags = @ \cup {flag}]
  <1>0. flag \in Flags /\ flag \notin AddFlags
    BY DEF Flags, AddFlags, RemoveFlags
  <1>1. g \in Entry /\ GetEntry(m, path) = g
    BY WithEntryDoes, WithEntryTwice
  <1>2. ASSUME NEW f \in Entry, ~IsAdded(f)
        PROVE  IsRemoved(Set(f)) /\ ~IsAdded(Set(f)) /\ About(Set(f)) = About(f)
    BY <1>0, <1>2 DEF Entry, IsAdded, IsRemoved, About
  <1>3. CASE IsAdded(g)
    <2> DEFINE n == AddNewEntry(m, path)
    <2>1. /\ Tells(l, n, path, NewEntry(path)) /\ GetEntry(n, path) = NewEntry(path)
      BY AddTells
    <2>2. DidRemove(l, path, flag) = SetFlag(n, path, flag)
      BY <1>1, <1>3 DEF DidRemove
    <2> HIDE DEF n
    <2>5. n \in Seq(Entry) /\ ~IsRemoved(GetEntry(n, path))
      BY <2>1, NewEntryTells DEF Tells
    <2>6. Tells(n, SetFlag(n, path, flag), path, Set(GetEntry(n, path)))
      BY <1>0, <2>5, SetFlagTells
    <2>3. Tells(n, SetFlag(n, path, flag), path, Set(NewEntry(path)))
      BY <2>1, <2>6
    <2>4. Tells(l, SetFlag(n, path, flag), path, Set(NewEntry(path)))
      BY <2>1, <2>3, TellsTwice
    <2> HIDE DEF Set
    <2> QED BY <1>2, <1>3, <2>2, <2>4, NewEntryTells
  <1>4. CASE ~IsAdded(g)
    <2>1. DidRemove(l, path, flag) = SetFlag(m, path, flag)
      BY <1>1, <1>4 DEF DidRemove
    <2>2. Tells(l, SetFlag(l, path, flag), path, Set(g)) /\ SetFlag(m, path, flag) = SetFlag(l, path, flag)
      BY <1>0, SetFlagTells
    <2> HIDE DEF m, g, Set
    <2> QED BY <1>1, <1>2, <1>4, <2>1, <2>2 DEF g
  <1> QED BY <1>3, <1>4

\* A change of a field keeps what else the entry tells, and the first old value.
LEMMA DidChangeInfoTells ==
    ASSUME NEW l \in Seq(Entry), NEW path \in Path, ~IsRemoved(GetEntry(l, path)),
           NEW oldVal \in Values, NEW newVal \in Values
    PROVE  \E e : /\ Tells(l, DidChangeInfo(l, path, Key, oldVal, newVal), path, e)
                  /\ e.flags = GetEntry(l, path).flags
                  /\ e.oldPath = GetEntry(l, path).oldPath
                  /\ e.info # <<>>
                  /\ e.info[Key] = <<IF GetEntry(l, path).info # <<>>
                                     THEN GetEntry(l, path).info[Key][1] ELSE oldVal, newVal>>
  <1> DEFINE g == GetEntry(l, path)
             info == [k \in DOMAIN g.info \cup {Key} |->
                         IF k # Key THEN g.info[k]
                         ELSE <<IF Key \in DOMAIN g.info THEN g.info[Key][1] ELSE oldVal, newVal>>]
             e == [g EXCEPT !.info = info]
  <1>1. g \in Entry /\ g.path = path
    BY WithEntryDoes
  <1>2. g.info = <<>> \/ g.info \in [{Key} -> Values \X Values]
    BY <1>1 DEF Entry
  <1>3. DOMAIN g.info = (IF g.info = <<>> THEN {} ELSE {Key})
    BY <1>2
  <1>4. /\ info \in [{Key} -> Values \X Values]
        /\ info[Key] = <<IF g.info # <<>> THEN g.info[Key][1] ELSE oldVal, newVal>>
    <2>1. CASE g.info = <<>>
      BY <1>3, <2>1
    <2>2. CASE g.info # <<>>
      BY <1>2, <1>3, <2>2
    <2> QED BY <2>1, <2>2
  <1>5. info # <<>>
    <2>1. DOMAIN info = {Key} /\ DOMAIN <<>> = {}
      BY <1>4
    <2> HIDE DEF info
    <2> QED BY <2>1
  <1>9. GetEntry(WithEntry(l, path), path) = GetEntry(l, path)
    BY WithEntryTwice
  <1>6. DidChangeInfo(l, path, Key, oldVal, newVal) = SetEntry(WithEntry(l, path), path, e)
    BY <1>9 DEF DidChangeInfo
  <1> HIDE DEF info
  <1>7. e \in Entry /\ e.path = path /\ e.flags = g.flags /\ e.oldPath = g.oldPath /\ e.info = info
    BY <1>1, <1>4 DEF Entry
  <1> HIDE DEF e, g
  <1>8. Tells(l, SetEntry(WithEntry(l, path), path, e), path, e)
    BY <1>7, ReplaceTells DEF g
  <1> QED BY <1>4, <1>5, <1>6, <1>7, <1>8 DEF g

\* A rename moves what is known of the object to its new path, and tells of it.
LEMMA RenameTells ==
    ASSUME RecordConstants, NEW l \in Seq(Entry), NEW old \in Path, NEW new \in Path \ {old},
           ~IsRemoved(GetEntry(l, old))
    PROVE  \E e \in Entry :
              /\ DidChangeName(l, old, new) \in Seq(Entry)
              /\ \A q \in Path \ {old, new} : Last(DidChangeName(l, old, new), q) = Last(l, q)
              /\ Last(DidChangeName(l, old, new), new) = {e}
              /\ KeepsRemovals(l, DidChangeName(l, old, new))
              /\ Range(DidChangeName(l, old, new)) \subseteq
                     Range(l) \cup {NewEntry(old), NewEntry(new), e}
              /\ ~IsRemoved(e) /\ About(e) = About(GetEntry(l, old))
              /\ IsAdded(e) <=> IsAdded(GetEntry(l, old))
              /\ e.info = GetEntry(l, old).info
  <1> DEFINE g == GetEntry(l, old)
             m == WithEntry(l, new)
             n == IF IsRemoved(GetEntry(m, new)) THEN AddNewEntry(m, new) ELSE m
             i == FindEntry(n, old)
             moved == IF i = 0 THEN NewEntry(new) ELSE n[i]
             left  == IF i = 0 THEN n
                      ELSE IF IsAdded(moved) /\ moved.oldPath = NoPath
                      THEN [n EXCEPT ![i] = NewEntry(old)]
                      ELSE EraseAt(n, i)
             e == [ moved EXCEPT !.path = new, !.flags = @ \cup {"didRename"},
                                 !.oldPath = IF @ = NoPath THEN old ELSE @ ]
  <1>1. g \in Entry /\ g.path = old
    BY WithEntryDoes
  <1>2. /\ n \in Seq(Entry) /\ \A q \in Path \ {new} : Last(n, q) = Last(l, q)
        /\ KeepsRemovals(l, n) /\ Range(n) \subseteq Range(l) \cup {NewEntry(new)}
        /\ \E h \in Entry : Last(n, new) = {h} /\ ~IsRemoved(h)
    <2>1. GetEntry(m, new) = GetEntry(l, new) /\ GetEntry(l, new) \in Entry
      BY WithEntryDoes, WithEntryTwice
    <2>2. CASE IsRemoved(GetEntry(l, new))
      <3>1. n = AddNewEntry(WithEntry(l, new), new)
        BY <2>1, <2>2
      <3>2. Tells(l, AddNewEntry(WithEntry(l, new), new), new, NewEntry(new))
        BY AddTells
      <3> HIDE DEF n
      <3> QED BY <3>1, <3>2, NewEntryTells DEF Tells
    <2>3. CASE ~IsRemoved(GetEntry(l, new))
      <3>1. n = WithEntry(l, new)
        BY <2>1, <2>3
      <3>2. /\ WithEntry(l, new) \in Seq(Entry)
            /\ \A q \in Path \ {new} : Last(WithEntry(l, new), q) = Last(l, q)
            /\ Last(WithEntry(l, new), new) = {GetEntry(l, new)}
            /\ Range(l) \subseteq Range(WithEntry(l, new))
            /\ Range(WithEntry(l, new)) \subseteq Range(l) \cup {NewEntry(new)}
        BY WithEntryDoes
      <3> HIDE DEF n
      <3> QED BY <2>1, <2>3, <3>1, <3>2 DEF KeepsRemovals
    <2> QED BY <2>2, <2>3
  <1>3. DidChangeName(l, old, new) = SetEntry(WithEntry(left, new), new, e)
    BY DEF DidChangeName, MoveEntry
  <1> HIDE DEF n, m
  <1>4. /\ i = 0 => Last(n, old) = {} /\ g = NewEntry(old)
        /\ i # 0 => Last(n, old) = {g} /\ moved = g
    <2>1. Last(n, old) = Last(l, old)
      BY <1>2
    <2>2. /\ i = 0 => Last(n, old) = {}
          /\ i # 0 => Last(n, old) = {n[i]}
      BY <1>2, LastIs
    <2>3. Last(l, old) = {} => g = NewEntry(old)
      <3>1. /\ Last(WithEntry(l, old), old) =
                  IF Last(l, old) = {} THEN {NewEntry(old)} ELSE Last(l, old)
            /\ Last(WithEntry(l, old), old) = {g}
        BY WithEntryDoes
      <3> HIDE DEF g
      <3> QED BY <3>1
    <2>4. Last(l, old) # {} => Last(l, old) = {g}
      BY WithEntryDoes
    <2> HIDE DEF i, g
    <2> QED BY <2>1, <2>2, <2>3, <2>4
  <1>5. /\ moved \in Entry /\ moved.flags = g.flags /\ moved.info = g.info
        /\ moved.oldPath = g.oldPath
    <2>1. NewEntry(new) \in Entry /\ NewEntry(new).flags = NewEntry(old).flags
          /\ NewEntry(new).info = NewEntry(old).info
          /\ NewEntry(new).oldPath = NewEntry(old).oldPath
      BY NewEntryTells DEF NewEntry
    <2> HIDE DEF i, g
    <2> QED BY <1>1, <1>4, <2>1
  <1>6. /\ left \in Seq(Entry) /\ \A q \in Path \ {old} : Last(left, q) = Last(n, q)
        /\ KeepsRemovals(n, left) /\ Range(left) \subseteq Range(n) \cup {NewEntry(old)}
    <2>1. CASE i = 0
      <3>1. left = n
        BY <2>1
      <3> QED BY <1>2, <3>1 DEF KeepsRemovals
    <2>2. ASSUME i # 0, Others(n, left, old), Range(left) \subseteq Range(n) \cup {NewEntry(old)}
          PROVE  /\ left \in Seq(Entry) /\ \A q \in Path \ {old} : Last(left, q) = Last(n, q)
                 /\ KeepsRemovals(n, left)
                 /\ Range(left) \subseteq Range(n) \cup {NewEntry(old)}
      <3> HIDE DEF left, i
      <3> QED BY <1>4, <2>2 DEF Others, KeepsRemovals, g
    <2>3. CASE i # 0 /\ IsAdded(moved) /\ moved.oldPath = NoPath
      <3>1. left = SetEntry(n, old, NewEntry(old))
        BY <2>3 DEF SetEntry
      <3>2. NewEntry(old) \in Entry /\ NewEntry(old).path = old
        BY NewEntryTells
      <3>3. Others(n, left, old) /\ Range(left) \subseteq Range(n) \cup {NewEntry(old)}
        <4>1. FindEntry(n, old) # 0
          BY <2>3
        <4>2. /\ Others(n, SetEntry(n, old, NewEntry(old)), old)
              /\ Range(SetEntry(n, old, NewEntry(old))) \subseteq Range(n) \cup {NewEntry(old)}
          BY <1>2, <3>2, <4>1, SetEntryDoes
        <4> HIDE DEF left
        <4> QED BY <3>1, <4>2
      <3> HIDE DEF left, i
      <3> QED BY <2>2, <2>3, <3>3
    <2>4. CASE i # 0 /\ ~(IsAdded(moved) /\ moved.oldPath = NoPath)
      <3>1. left = EraseAt(n, FindEntry(n, old))
        BY <2>4
      <3>3. Others(n, left, old) /\ Range(left) \subseteq Range(n) \cup {NewEntry(old)}
        BY <1>2, <2>4, <3>1, EraseEntryDoes
      <3> HIDE DEF left, i
      <3> QED BY <2>2, <2>4, <3>3
    <2> HIDE DEF left, i, moved
    <2> QED BY <2>1, <2>3, <2>4
  <1> HIDE DEF left, i, moved
  <1>7. /\ e \in Entry /\ e.path = new /\ e.flags = g.flags \cup {"didRename"}
        /\ e.info = g.info /\ e.oldPath = IF g.oldPath = NoPath THEN old ELSE g.oldPath
    BY <1>5 DEF Entry, Flags
  <1> HIDE DEF e
  <1>8. PICK h \in Entry : Last(left, new) = {h} /\ ~IsRemoved(h)
    BY <1>2, <1>6
  <1>9. GetEntry(left, new) = h
    BY <1>6, <1>8, TellsEntry
  <1>10. Tells(left, DidChangeName(l, old, new), new, e)
    BY <1>3, <1>6, <1>7, <1>8, <1>9, ReplaceTells
  <1>11. /\ ~IsRemoved(e)
         /\ IsAdded(e) <=> IsAdded(g)
         /\ About(e) = About(g)
    <2>1. IsAdded(e) <=> IsAdded(g)
      BY <1>7 DEF IsAdded, AddFlags
    <2>2. IsRemoved(e) <=> IsRemoved(g)
      BY <1>7 DEF IsRemoved, RemoveFlags
    <2>3. old # NoPath
      BY DEF RecordConstants
    <2> QED BY <1>1, <1>7, <2>1, <2>2, <2>3 DEF About
  <1> DEFINE r == DidChangeName(l, old, new)
  <1> HIDE DEF r
  <1>12. Tells(left, r, new, e)
    BY <1>10 DEF r
  <1>13. /\ r \in Seq(Entry) /\ Last(r, new) = {e}
         /\ \A q \in Path \ {old, new} : Last(r, q) = Last(l, q)
    BY <1>2, <1>6, <1>12 DEF Tells
  <1>14. KeepsRemovals(l, r)
    BY <1>2, <1>6, <1>12 DEF Tells, KeepsRemovals
  <1>15. Range(r) \subseteq Range(l) \cup {NewEntry(old), NewEntry(new), e}
    BY <1>2, <1>6, <1>12 DEF Tells
  <1>16. /\ ~IsRemoved(e) /\ About(e) = About(GetEntry(l, old))
         /\ IsAdded(e) <=> IsAdded(GetEntry(l, old))
         /\ e.info = GetEntry(l, old).info
    BY <1>7, <1>11 DEF g
  <1> QED
    <2>1. e \in Entry
      BY <1>7
    <2>2. /\ r \in Seq(Entry)
          /\ \A q \in Path \ {old, new} : Last(r, q) = Last(l, q)
          /\ Last(r, new) = {e}
          /\ KeepsRemovals(l, r)
          /\ Range(r) \subseteq Range(l) \cup {NewEntry(old), NewEntry(new), e}
      BY <1>13, <1>14, <1>15
    <2> QED BY <1>16, <2>1, <2>2 DEF r

-----------------------------------------------------------------------------
(* The specs, as the set of them: no two have the same path.               *)

SpecRecord == [path : Path, origin : Path \cup {NoPath}, value : Values]

OnePath(s) == \A i, j \in DOMAIN s : s[i].path = s[j].path => i = j

SpecsInv == specs \in Seq(SpecRecord) /\ OnePath(specs)

\* A new sequence of specs holds these.
Holds(s, set) == s \in Seq(SpecRecord) /\ OnePath(s) /\ Range(s) = set

\* The spec at a path.
LEMMA AtIs ==
    ASSUME SpecsInv, NEW path \in Paths
    PROVE  /\ At(path) \in DOMAIN specs /\ specs[At(path)].path = path
           /\ specs[At(path)] \in Range(specs) /\ specs[At(path)] \in SpecRecord
           /\ \A s \in Range(specs) : s.path = path => s = specs[At(path)]
  <1>1. \E i \in DOMAIN specs : specs[i].path = path
    BY DEF Paths
  <1>2. At(path) \in DOMAIN specs /\ specs[At(path)].path = path
    BY <1>1 DEF At
  <1> QED BY <1>2 DEF SpecsInv, OnePath, Range

LEMMA AppendHolds ==
    ASSUME NEW s \in Seq(SpecRecord), OnePath(s), NEW r \in SpecRecord,
           \A t \in Range(s) : t.path # r.path
    PROVE  Holds(Append(s, r), Range(s) \cup {r})
  <1> DEFINE new == Append(s, r)
  <1>1. /\ new \in Seq(SpecRecord) /\ DOMAIN new = 1..(Len(s) + 1) /\ Len(s) \in Nat
        /\ DOMAIN s = 1..Len(s) /\ new[Len(s) + 1] = r /\ \A i \in 1..Len(s) : new[i] = s[i]
    OBVIOUS
  <1> HIDE DEF new
  <1>2. Range(new) = Range(s) \cup {r}
    BY <1>1 DEF Range
  <1>3. \A i \in 1..Len(s) : new[i].path # r.path
    BY <1>1 DEF Range
  <1>4. OnePath(new)
    <2> SUFFICES ASSUME NEW i \in DOMAIN new, NEW j \in DOMAIN new, new[i].path = new[j].path
                 PROVE  i = j
      BY DEF OnePath
    <2>1. CASE i \in 1..Len(s) /\ j \in 1..Len(s)
      BY <1>1, <2>1 DEF OnePath
    <2>2. CASE i = Len(s) + 1 \/ j = Len(s) + 1
      BY <1>1, <1>3, <2>2
    <2> QED BY <1>1, <2>1, <2>2
  <1> QED BY <1>1, <1>2, <1>4 DEF Holds, new

\* A spec is taken out of the specs.
LEMMA EraseHolds ==
    ASSUME SpecsInv, NEW path \in Paths
    PROVE  Holds(EraseAt(specs, At(path)), {s \in Range(specs) : (s.path # path)})
  <1> DEFINE n   == At(path)
             new == EraseAt(specs, n)
             Old(i) == IF i < n THEN i ELSE i + 1
  <1>1. /\ n \in 1..Len(specs) /\ specs[n].path = path /\ DOMAIN specs = 1..Len(specs)
        /\ Len(specs) \in Nat
    BY AtIs DEF SpecsInv
  <1>2. /\ new \in Seq(SpecRecord) /\ DOMAIN new = 1..(Len(specs) - 1)
        /\ \A i \in 1..(Len(specs) - 1) : new[i] = specs[Old(i)]
    <2>1. /\ EraseAt(specs, n) \in Seq(SpecRecord) /\ Len(EraseAt(specs, n)) = Len(specs) - 1
          /\ \A i \in 1..(Len(specs) - 1) :
                EraseAt(specs, n)[i] = IF i < n THEN specs[i] ELSE specs[i + 1]
      <3>1. specs \in Seq(SpecRecord)
        BY DEF SpecsInv
      <3> HIDE DEF n
      <3> QED BY <1>1, <3>1, EraseAtIs
    <2>2. DOMAIN EraseAt(specs, n) = 1..(Len(specs) - 1)
      BY <2>1
    <2> QED BY <2>1, <2>2
  <1> HIDE DEF n, new
  <1>3. \A i \in 1..(Len(specs) - 1) : Old(i) \in DOMAIN specs /\ Old(i) # n
    BY <1>1
  <1>4. \A j \in DOMAIN specs : j # n => \E i \in 1..(Len(specs) - 1) : Old(i) = j
    <2> SUFFICES ASSUME NEW j \in DOMAIN specs, j # n
                 PROVE  \E i \in 1..(Len(specs) - 1) : Old(i) = j
      OBVIOUS
    <2>1. CASE j < n
      <3>1. j \in 1..(Len(specs) - 1) /\ Old(j) = j
        BY <1>1, <2>1
      <3> QED BY <3>1
    <2>2. CASE n < j
      <3>1. j - 1 \in 1..(Len(specs) - 1) /\ Old(j - 1) = j
        BY <1>1, <2>2
      <3> QED BY <3>1
    <2> QED BY <1>1, <2>1, <2>2
  <1>5. \A i, j \in 1..(Len(specs) - 1) : Old(i) = Old(j) => i = j
    BY <1>1
  <1> HIDE DEF Old
  <1>6. OnePath(new)
    BY <1>2, <1>3, <1>5 DEF OnePath, SpecsInv
  <1>7. \A j \in DOMAIN specs : specs[j].path = path => j = n
    BY <1>1 DEF SpecsInv, OnePath
  <1>8. Range(new) \subseteq {s \in Range(specs) : (s.path # path)}
    BY <1>2, <1>3, <1>7 DEF Range
  <1>9. {s \in Range(specs) : (s.path # path)} \subseteq Range(new)
    <2> SUFFICES ASSUME NEW j \in DOMAIN specs, specs[j].path # path
                 PROVE  specs[j] \in Range(new)
      BY DEF Range
    <2>1. PICK i \in 1..(Len(specs) - 1) : Old(i) = j
      BY <1>1, <1>4
    <2>2. i \in DOMAIN new /\ new[i] = specs[j]
      BY <1>2, <2>1
    <2> QED BY <2>2 DEF Range
  <1> QED BY <1>2, <1>6, <1>8, <1>9 DEF Holds, new, n

\* A spec is replaced, by one of a path that is free or of the same path.
LEMMA ReplaceHolds ==
    ASSUME SpecsInv, NEW path \in Paths, NEW r \in SpecRecord,
           r.path \notin Paths \/ r.path = path
    PROVE  Holds([specs EXCEPT ![At(path)] = r],
                 {s \in Range(specs) : (s.path # path)} \cup {r})
  <1> DEFINE n   == At(path)
             new == [specs EXCEPT ![n] = r]
  <1>1. /\ n \in DOMAIN specs /\ specs[n].path = path
        /\ \A j \in DOMAIN specs : specs[j].path = path => j = n
    BY AtIs DEF SpecsInv, OnePath
  <1>2. /\ new \in Seq(SpecRecord) /\ DOMAIN new = DOMAIN specs /\ new[n] = r
        /\ \A i \in DOMAIN specs \ {n} : new[i] = specs[i]
    BY <1>1 DEF SpecsInv
  <1> HIDE DEF n, new
  <1>3. \A i \in DOMAIN specs \ {n} : specs[i].path # r.path
    BY <1>1 DEF Paths
  <1>4. OnePath(new)
    BY <1>2, <1>3 DEF OnePath, SpecsInv
  <1>5. Range(new) = {s \in Range(specs) : (s.path # path)} \cup {r}
    BY <1>1, <1>2 DEF Range
  <1> QED BY <1>2, <1>4, <1>5 DEF Holds, new, n

-----------------------------------------------------------------------------
(* The invariant: what the list tells of each path is so.                  *)

\* The list tells of this spec: where it comes from, and its values.
SpecTold(l, s) ==
    LET e == GetEntry(l, s.path) IN
    /\ ~IsRemoved(e)
    /\ About(e) = s.origin
    /\ s.origin # NoPath =>
          IF e.info # <<>> THEN e.info[Key] = <<NoValue, s.value>> ELSE s.value = NoValue

\* The object that was at the path is there, or its removal is told.
GoneTold(l, set, path) ==
    \/ \E s \in set : s.origin = path
    \/ \E e \in Range(l) : IsRemoved(e) /\ About(e) = path

RecordInv ==
    /\ SpecsInv
    /\ list \in Seq(Entry)
    /\ \A s \in Range(specs) : SpecTold(list, s)
    /\ \A path \in InitialPath : GoneTold(list, Range(specs), path)
    /\ Unambiguous(list)

\* When the block is opened nothing is told, and all specs are where they are.
LEMMA InitRecordInv ==
    ASSUME RecordConstants, Init
    PROVE  RecordInv
  <1>1. PICK order \in [1..Cardinality(InitialPath) -> InitialPath] :
          /\ Range(order) = InitialPath
          /\ specs = [i \in DOMAIN order |->
                         [path |-> order[i], origin |-> order[i], value |-> NoValue]]
    BY DEF Init
  <1> DEFINE n == Cardinality(InitialPath)
  <1>2. n \in Nat /\ InitialPath \subseteq Path /\ IsFiniteSet(InitialPath)
    BY FS_CardinalityType DEF RecordConstants
  <1>3. order \in Injection(1..n, InitialPath)
    <2>1. IsFiniteSet(1..n) /\ Cardinality(1..n) = n
      BY <1>2, FS_Interval
    <2>2. order \in Surjection(1..n, InitialPath)
      BY <1>1 DEF Surjection, Range
    <2> QED BY <2>1, <2>2, FS_Surjection
  <1>4. \A i, j \in 1..n : order[i] = order[j] => i = j
    BY <1>3 DEF Injection, IsInjective
  <1> HIDE DEF n
  <1>5. /\ DOMAIN specs = 1..n
        /\ \A i \in 1..n : /\ specs[i] \in SpecRecord
                           /\ specs[i].path = order[i] /\ specs[i].origin = order[i]
                           /\ specs[i].value = NoValue
    BY <1>1, <1>2 DEF SpecRecord, Values, n
  <1>6. specs \in Seq(SpecRecord)
    <2>1. specs = [i \in 1..n |-> specs[i]]
      BY <1>1, <1>5
    <2> QED BY <1>2, <1>5, <2>1
  <1>7. SpecsInv
    BY <1>4, <1>5, <1>6 DEF SpecsInv, OnePath
  <1>8. list \in Seq(Entry) /\ Range(list) = {}
    BY DEF Init, Range
  <1>9. \A path \in Path : GetEntry(list, path) = NewEntry(path)
    <2> SUFFICES ASSUME NEW path \in Path
                 PROVE  GetEntry(list, path) = NewEntry(path)
      OBVIOUS
    <2>1. GetEntry(list, path) \in Range(list) \cup {NewEntry(path)}
      BY <1>8, WithEntryDoes
    <2> QED BY <1>8, <2>1
  <1>10. ASSUME NEW s \in Range(specs)
         PROVE  SpecTold(list, s)
    <2>1. PICK i \in 1..n : s = specs[i]
      BY <1>5 DEF Range
    <2>2. s.path \in Path /\ s.path = s.origin /\ s.value = NoValue
      BY <1>5, <2>1 DEF SpecRecord
    <2> QED BY <1>9, <2>2, NewEntryTells DEF SpecTold
  <1>11. ASSUME NEW path \in InitialPath
         PROVE  GoneTold(list, Range(specs), path)
    <2>1. PICK i \in 1..n : order[i] = path
      BY <1>1 DEF Range, n
    <2>2. specs[i] \in Range(specs) /\ specs[i].origin = path
      BY <1>5, <2>1 DEF Range
    <2> QED BY <2>2 DEF GoneTold
  <1> QED BY <1>7, <1>8, <1>10, <1>11 DEF RecordInv, Unambiguous

\* What is told of a spec stays, when the last entry of its path does.
LEMMA ToldStays ==
    ASSUME NEW l \in Seq(Entry), NEW new \in Seq(Entry), NEW s,
           Last(new, s.path) = Last(l, s.path), SpecTold(l, s)
    PROVE  SpecTold(new, s)
  <1>1. GetEntry(new, s.path) = GetEntry(l, s.path)
    BY TellsEntry
  <1> QED BY <1>1 DEF SpecTold

\* Specs are replaced by others, and what goes is told.
LEMMA GoneStays ==
    ASSUME RecordInv, NEW new, KeepsRemovals(list, new), NEW set,
           \A s \in Range(specs) : s.origin # NoPath =>
              GoneTold(new, set, s.origin)
    PROVE  RecordConstants => \A path \in InitialPath : GoneTold(new, set, path)
  <1> SUFFICES ASSUME RecordConstants, NEW path \in InitialPath
               PROVE  GoneTold(new, set, path)
    OBVIOUS
  <1>1. path # NoPath
    BY DEF RecordConstants
  <1>2. GoneTold(list, Range(specs), path)
    BY DEF RecordInv
  <1>3. CASE \E s \in Range(specs) : s.origin = path
    BY <1>1, <1>3
  <1>4. CASE \E e \in Range(list) : IsRemoved(e) /\ About(e) = path
    BY <1>4 DEF GoneTold, KeepsRemovals
  <1> QED BY <1>2, <1>3, <1>4 DEF GoneTold

\* The paths of the specs.
LEMMA SpecIs ==
    ASSUME SpecsInv, NEW s \in Range(specs)
    PROVE  s \in SpecRecord /\ s.path \in Path /\ s.path \in Paths
  <1>1. s \in SpecRecord
    BY DEF SpecsInv, Range
  <1>2. s.path \in Paths
    BY DEF Paths, Range
  <1> QED BY <1>1, <1>2 DEF SpecRecord

\* The last entry of a path is the one that is told.
LEMMA EntryIs ==
    ASSUME NEW l \in Seq(Entry), NEW q, NEW e, Last(l, q) = {e}
    PROVE  GetEntry(l, q) = e
  <1>1. \A f : Last(l, q) = {f} => GetEntry(l, q) = f
    BY TellsEntry
  <1> QED BY <1>1

\* A spec is created.
LEMMA CreateKeeps ==
    ASSUME RecordConstants, RecordInv, NEW path \in Path, NEW inert \in BOOLEAN,
           CreateSpec(path, inert)
    PROVE  RecordInv'
  <1> DEFINE r == [path |-> path, origin |-> NoPath, value |-> NoValue]
  <1>1. PICK flag \in AddFlags : list' = DidAdd(list, path, flag)
    BY DEF CreateSpec, AddFlags
  <1>2. list \in Seq(Entry) /\ specs \in Seq(SpecRecord) /\ OnePath(specs)
    BY DEF RecordInv, SpecsInv
  <1>3. PICK e : Tells(list, list', path, e) /\ IsAdded(e) /\ ~IsRemoved(e)
    BY <1>1, <1>2, DidAddTells
  <1>4. r \in SpecRecord /\ r.path = path /\ r.origin = NoPath
    BY DEF SpecRecord, Values
  <1>5. \A s \in Range(specs) : s.path # path /\ s \in SpecRecord
    BY SpecIs DEF CreateSpec, RecordInv
  <1>6. specs' = Append(specs, r)
    BY DEF CreateSpec
  <1> HIDE DEF r
  <1>7. Holds(specs', Range(specs) \cup {r})
    BY <1>2, <1>4, <1>5, <1>6, AppendHolds
  <1>8. list' \in Seq(Entry)
    BY <1>3 DEF Tells
  <1>9. ASSUME NEW s \in Range(specs)
        PROVE  SpecTold(list', s)
    <2>1. s.path \in Path \ {path} /\ SpecTold(list, s)
      BY <1>5 DEF RecordInv, SpecRecord
    <2> QED BY <1>2, <1>3, <1>8, <2>1, ToldStays DEF Tells
  <1>10. SpecTold(list', r)
    <2>1. GetEntry(list', r.path) = e
      BY <1>3, <1>4, <1>8, EntryIs, ZenonT(30) DEF Tells
    <2> QED BY <1>3, <1>4, <2>1 DEF SpecTold, About
  <1>11. \A q \in InitialPath : GoneTold(list', Range(specs'), q)
    <2>1. \A s \in Range(specs) : GoneTold(list', Range(specs'), s.origin)
      BY <1>7 DEF GoneTold, Holds
    <2> QED BY <1>3, <2>1, GoneStays DEF Tells
  <1>12. Unambiguous(list')
    BY <1>3, NewEntryTells DEF Unambiguous, RecordInv, Tells
  <1> QED BY <1>7, <1>8, <1>9, <1>10, <1>11, <1>12 DEF RecordInv, SpecsInv, Holds, OnePath

\* The removal of a spec is told, unless it was created in the round.
LEMMA RemovalTells ==
    ASSUME RecordConstants, RecordInv, NEW path \in Paths, NEW flag \in RemoveFlags
    PROVE  \E e : /\ Tells(list, DidRemove(list, path, flag), path, e)
                  /\ IsRemoved(e) /\ ~IsAdded(e)
                  /\ specs[At(path)].origin # NoPath => About(e) = specs[At(path)].origin
  <1> DEFINE s == specs[At(path)]
             g == GetEntry(list, path)
  <1>1. s \in Range(specs) /\ s.path = path /\ s \in SpecRecord
    BY AtIs DEF RecordInv
  <1>2. list \in Seq(Entry) /\ path \in Path
    BY <1>1 DEF RecordInv, SpecRecord
  <1>3. ~IsRemoved(g) /\ About(g) = s.origin
    BY <1>1 DEF RecordInv, SpecTold
  <1>4. PICK e : /\ Tells(list, DidRemove(list, path, flag), path, e)
                 /\ IsRemoved(e) /\ ~IsAdded(e)
                 /\ ~IsAdded(g) => About(e) = About(g)
    BY <1>2, <1>3, DidRemoveTells
  <1> QED BY <1>3, <1>4 DEF About

\* A spec is deleted.
LEMMA DeleteKeeps ==
    ASSUME RecordConstants, RecordInv, NEW path \in Path, NEW inert \in BOOLEAN,
           DeleteSpec(path, inert)
    PROVE  RecordInv'
  <1>1. PICK flag \in RemoveFlags : list' = DidRemove(list, path, flag)
    BY DEF DeleteSpec, RemoveFlags
  <1>2. list \in Seq(Entry) /\ SpecsInv /\ path \in Paths /\ specs \in Seq(SpecRecord)
    BY DEF RecordInv, SpecsInv, DeleteSpec
  <1>3. PICK e : /\ Tells(list, list', path, e)
                 /\ IsRemoved(e) /\ ~IsAdded(e)
                 /\ specs[At(path)].origin # NoPath => About(e) = specs[At(path)].origin
    BY <1>1, <1>2, RemovalTells
  <1>4. Holds(specs', {s \in Range(specs) : (s.path # path)})
    BY <1>2, EraseHolds DEF DeleteSpec
  <1>5. list' \in Seq(Entry)
    BY <1>3 DEF Tells
  <1>6. ASSUME NEW s \in Range(specs')
        PROVE  SpecTold(list', s)
    <2>1. s \in Range(specs) /\ s.path # path
      BY <1>4 DEF Holds
    <2>2. s.path \in Path \ {path} /\ SpecTold(list, s)
      BY <1>2, <2>1, SpecIs DEF RecordInv
    <2> QED BY <1>2, <1>3, <1>5, <2>2, ToldStays DEF Tells
  <1>7. \A q \in InitialPath : GoneTold(list', Range(specs'), q)
    <2>1. ASSUME NEW s \in Range(specs), s.origin # NoPath
          PROVE  GoneTold(list', Range(specs'), s.origin)
      <3>1. CASE s.path = path
        <4>1. s = specs[At(path)]
          BY <1>2, <3>1, AtIs
        <4>2. About(e) = s.origin /\ e \in Range(list')
          BY <1>3, <2>1, <4>1 DEF Tells
        <4> QED BY <1>3, <4>2 DEF GoneTold
      <3>2. CASE s.path # path
        BY <1>4, <3>2 DEF GoneTold, Holds
      <3> QED BY <3>1, <3>2
    <2> QED BY <1>3, <2>1, GoneStays DEF Tells
  <1>8. Unambiguous(list')
    BY <1>3, NewEntryTells DEF Unambiguous, RecordInv, Tells
  <1> QED BY <1>4, <1>5, <1>6, <1>7, <1>8 DEF RecordInv, SpecsInv, Holds, OnePath

\* A spec is renamed.
LEMMA RenameKeeps ==
    ASSUME RecordConstants, RecordInv, NEW path \in Path, NEW newPath \in Path,
           Rename(path, newPath)
    PROVE  RecordInv'
  <1> DEFINE s0 == specs[At(path)]
             r  == [s0 EXCEPT !.path = newPath]
  <1>1. list \in Seq(Entry) /\ SpecsInv /\ path \in Paths /\ specs \in Seq(SpecRecord)
        /\ newPath \notin Paths /\ newPath \in Path \ {path}
    BY DEF RecordInv, SpecsInv, Rename
  <1>2. s0 \in Range(specs) /\ s0.path = path /\ s0 \in SpecRecord
        /\ \A s \in Range(specs) : s.path = path => s = s0
    BY <1>1, AtIs
  <1>3. SpecTold(list, s0)
    BY <1>2 DEF RecordInv
  <1>4. ~IsRemoved(GetEntry(list, path))
    BY <1>2, <1>3 DEF SpecTold
  <1>5. PICK e \in Entry :
              /\ list' \in Seq(Entry)
              /\ \A q \in Path \ {path, newPath} : Last(list', q) = Last(list, q)
              /\ Last(list', newPath) = {e}
              /\ KeepsRemovals(list, list')
              /\ Range(list') \subseteq Range(list) \cup {NewEntry(path), NewEntry(newPath), e}
              /\ ~IsRemoved(e) /\ About(e) = About(GetEntry(list, path))
              /\ IsAdded(e) <=> IsAdded(GetEntry(list, path))
              /\ e.info = GetEntry(list, path).info
    BY <1>1, <1>4, RenameTells DEF Rename
  <1>6. r \in SpecRecord /\ r.path = newPath /\ r.origin = s0.origin /\ r.value = s0.value
    BY <1>2 DEF SpecRecord
  <1>7. specs' = [specs EXCEPT ![At(path)] = r]
    BY DEF Rename
  <1> HIDE DEF r, s0
  <1>8. Holds(specs', {s \in Range(specs) : (s.path # path)} \cup {r})
    BY <1>1, <1>6, <1>7, ReplaceHolds
  <1>9. ASSUME NEW s \in Range(specs), s.path # path
        PROVE  SpecTold(list', s)
    <2>1. s.path \in Path \ {path, newPath} /\ SpecTold(list, s)
      BY <1>1, <1>9, SpecIs DEF RecordInv
    <2> QED BY <1>1, <1>5, <2>1, ToldStays
  <1>10. SpecTold(list', r)
    <2>1. GetEntry(list', r.path) = e
      BY <1>5, <1>6, EntryIs
    <2> QED BY <1>2, <1>3, <1>5, <1>6, <2>1 DEF SpecTold
  <1>11. \A q \in InitialPath : GoneTold(list', Range(specs'), q)
    <2>1. \A s \in Range(specs) : GoneTold(list', Range(specs'), s.origin)
      BY <1>2, <1>6, <1>8 DEF GoneTold, Holds
    <2> QED BY <1>5, <2>1, GoneStays
  <1>12. Unambiguous(list')
    <2>1. ~(IsAdded(NewEntry(path)) /\ IsRemoved(NewEntry(path)))
          /\ ~(IsAdded(NewEntry(newPath)) /\ IsRemoved(NewEntry(newPath)))
      BY NewEntryTells
    <2> QED BY <1>5, <2>1 DEF Unambiguous, RecordInv
  <1> QED BY <1>5, <1>8, <1>9, <1>10, <1>11, <1>12 DEF RecordInv, SpecsInv, Holds, OnePath

\* The list after the move of a spec to another parent.
Moved(path, newPath) ==
    IF properties
    THEN DidAdd(DidRemove(list, path, "didRemoveProperty"), newPath, "didAddProperty")
    ELSE DidMovePrim(list, path, newPath)

\* What new tells of such a move: a removal and an addition.
MoveTold(path, newPath, new) ==
    \E d, f, e :
        /\ new \in Seq(Entry) /\ d \in Range(new) /\ KeepsRemovals(list, new)
        /\ \A q \in Path \ {path, newPath} : Last(new, q) = Last(list, q)
        /\ Last(new, newPath) = {e}
        /\ Range(new) \subseteq
               Range(list) \cup {NewEntry(path), d, NewEntry(newPath), f, e}
        /\ IsRemoved(d) /\ ~IsAdded(d)
        /\ specs[At(path)].origin # NoPath => About(d) = specs[At(path)].origin
        /\ IsAdded(f) /\ ~IsRemoved(f) /\ IsAdded(e) /\ ~IsRemoved(e)

\* The move of a spec to another parent tells of a removal and of an addition.
LEMMA MoveTells ==
    ASSUME RecordConstants, RecordInv, NEW path \in Paths, NEW newPath \in Path \ {path}
    PROVE  MoveTold(path, newPath, Moved(path, newPath))
  <1> DEFINE new == Moved(path, newPath)
  <1> HIDE DEF new
  <1>4. new = IF properties
              THEN DidAdd(DidRemove(list, path, "didRemoveProperty"), newPath, "didAddProperty")
              ELSE DidMovePrim(list, path, newPath)
    BY DEF new, Moved
  <1>1. list \in Seq(Entry)
    BY DEF RecordInv
  <1>0. path \in Path
    BY AtIs DEF RecordInv, SpecRecord
  <1>2. ASSUME properties
        PROVE  MoveTold(path, newPath, new)
    <2> DEFINE m == DidRemove(list, path, "didRemoveProperty")
    <2>1. "didRemoveProperty" \in RemoveFlags /\ "didAddProperty" \in AddFlags
      BY DEF RemoveFlags, AddFlags
    <2>2. PICK d : /\ Tells(list, m, path, d) /\ IsRemoved(d) /\ ~IsAdded(d)
                   /\ specs[At(path)].origin # NoPath => About(d) = specs[At(path)].origin
      BY <2>1, RemovalTells
    <2>3. new = DidAdd(m, newPath, "didAddProperty")
      BY <1>2, <1>4
    <2> HIDE DEF m
    <2>4. m \in Seq(Entry)
      BY <2>2 DEF Tells
    <2>5. PICK e : Tells(m, new, newPath, e) /\ IsAdded(e) /\ ~IsRemoved(e)
      BY <2>1, <2>3, <2>4, DidAddTells
    <2>6. /\ new \in Seq(Entry) /\ d \in Range(new) /\ KeepsRemovals(list, new)
          /\ \A q \in Path \ {path, newPath} : Last(new, q) = Last(list, q)
          /\ Last(new, newPath) = {e}
          /\ Range(new) \subseteq Range(list) \cup {NewEntry(path), d, NewEntry(newPath), e}
      BY <1>0, <2>2, <2>5 DEF Tells, KeepsRemovals
    <2> QED BY <2>2, <2>5, <2>6 DEF MoveTold
  <1>3. ASSUME ~properties
        PROVE  MoveTold(path, newPath, new)
    <2> DEFINE m == DidRemove(list, path, "didRemoveNonInertPrim")
               n == DidAdd(m, newPath, "didAddNonInertPrim")
    <2>1. "didRemoveNonInertPrim" \in RemoveFlags /\ "didAddNonInertPrim" \in AddFlags
      BY DEF RemoveFlags, AddFlags
    <2>2. PICK d : /\ Tells(list, m, path, d) /\ IsRemoved(d) /\ ~IsAdded(d)
                   /\ specs[At(path)].origin # NoPath => About(d) = specs[At(path)].origin
      BY <2>1, RemovalTells
    <2>3. new = SetEntry(n, newPath, [GetEntry(n, newPath) EXCEPT !.oldPath = path])
      BY <1>3, <1>4 DEF DidMovePrim
    <2>4. m \in Seq(Entry)
      BY <2>2 DEF Tells
    <2>5. PICK f : Tells(m, n, newPath, f) /\ IsAdded(f) /\ ~IsRemoved(f)
      BY <2>1, <2>4, DidAddTells
    <2> DEFINE e == [f EXCEPT !.oldPath = path]
    <2> HIDE DEF m, n
    <2>6. n \in Seq(Entry) /\ Last(n, newPath) = {f} /\ f \in Entry /\ f.path = newPath
          /\ f \in Range(n)
      BY <2>5 DEF Tells
    <2>7. GetEntry(n, newPath) = f /\ FindEntry(n, newPath) # 0
      BY <2>6, EntryIs, LastIs, ZenonT(30)
    <2>8. WithEntry(n, newPath) = n
      BY <2>7 DEF WithEntry
    <2>9. e \in Entry /\ e.path = newPath /\ e.flags = f.flags
      BY <1>0, <2>6 DEF Entry
    <2>10. Tells(n, new, newPath, e)
      <3>1. new = SetEntry(WithEntry(n, newPath), newPath, e)
        BY <2>3, <2>7, <2>8
      <3> HIDE DEF e
      <3> QED BY <2>5, <2>6, <2>7, <2>9, <3>1, ReplaceTells
    <2> HIDE DEF e
    <2>11. IsAdded(e) /\ ~IsRemoved(e)
      BY <2>5, <2>9 DEF IsAdded, IsRemoved
    <2>12. /\ new \in Seq(Entry) /\ d \in Range(new) /\ KeepsRemovals(list, new)
           /\ \A q \in Path \ {path, newPath} : Last(new, q) = Last(list, q)
           /\ Last(new, newPath) = {e}
           /\ Range(new) \subseteq Range(list) \cup {NewEntry(path), d, NewEntry(newPath), f, e}
      BY <1>0, <2>2, <2>5, <2>10 DEF Tells, KeepsRemovals
    <2> QED BY <2>2, <2>5, <2>11, <2>12 DEF MoveTold
  <1> QED BY <1>2, <1>3 DEF new

\* A spec is moved to another parent.
LEMMA ReparentKeeps ==
    ASSUME RecordConstants, RecordInv, NEW path \in Path, NEW newPath \in Path,
           Reparent(path, newPath)
    PROVE  RecordInv'
  <1> DEFINE s0  == specs[At(path)]
             r   == [s0 EXCEPT !.path = newPath, !.origin = NoPath]
             rest == EraseAt(specs, At(path))
             Rest == {s \in Range(specs) : (s.path # path)}
  <1>1. list \in Seq(Entry) /\ SpecsInv /\ path \in Paths
        /\ newPath \notin Paths /\ newPath \in Path \ {path}
    BY DEF RecordInv, Reparent
  <1>2. s0 \in Range(specs) /\ s0 \in SpecRecord
        /\ \A s \in Range(specs) : s.path = path => s = s0
    BY <1>1, AtIs
  <1>3. PICK d, f, e :
              /\ list' \in Seq(Entry) /\ d \in Range(list') /\ KeepsRemovals(list, list')
              /\ \A q \in Path \ {path, newPath} : Last(list', q) = Last(list, q)
              /\ Last(list', newPath) = {e}
              /\ Range(list') \subseteq
                     Range(list) \cup {NewEntry(path), d, NewEntry(newPath), f, e}
              /\ IsRemoved(d) /\ ~IsAdded(d)
              /\ s0.origin # NoPath => About(d) = s0.origin
              /\ IsAdded(f) /\ ~IsRemoved(f) /\ IsAdded(e) /\ ~IsRemoved(e)
    <2>1. list' = Moved(path, newPath)
      BY DEF Reparent, Moved
    <2>2. MoveTold(path, newPath, list')
      BY <1>1, <2>1, MoveTells
    <2> QED BY <2>2 DEF MoveTold
  <1>4. r \in SpecRecord /\ r.path = newPath /\ r.origin = NoPath
    BY <1>2 DEF SpecRecord
  <1>5. specs' = Append(rest, r)
    BY DEF Reparent
  <1> HIDE DEF r, s0
  <1>6. Holds(rest, Rest)
    BY <1>1, EraseHolds
  <1> HIDE DEF rest
  <1>7. \A t \in Range(rest) : t.path # r.path
    BY <1>1, <1>4, <1>6, SpecIs DEF Holds
  <1>8. Holds(specs', Rest \cup {r})
    BY <1>4, <1>5, <1>6, <1>7, AppendHolds DEF Holds
  <1>9. ASSUME NEW s \in Rest
        PROVE  SpecTold(list', s)
    <2>1. s.path \in Path \ {path, newPath} /\ SpecTold(list, s)
      BY <1>1, SpecIs DEF RecordInv
    <2> QED BY <1>1, <1>3, <2>1, ToldStays
  <1>10. SpecTold(list', r)
    <2>1. GetEntry(list', r.path) = e
      BY <1>3, <1>4, EntryIs
    <2> QED BY <1>3, <1>4, <2>1 DEF SpecTold, About
  <1>11. \A q \in InitialPath : GoneTold(list', Range(specs'), q)
    <2>1. ASSUME NEW s \in Range(specs), s.origin # NoPath
          PROVE  GoneTold(list', Range(specs'), s.origin)
      <3>1. CASE s.path = path
        <4>1. About(d) = s.origin
          BY <1>2, <1>3, <2>1, <3>1
        <4> QED BY <1>3, <4>1 DEF GoneTold
      <3>2. CASE s.path # path
        BY <1>8, <3>2 DEF GoneTold, Holds
      <3> QED BY <3>1, <3>2
    <2> QED BY <1>3, <2>1, GoneStays
  <1>12. Unambiguous(list')
    <2>1. ~(IsAdded(NewEntry(path)) /\ IsRemoved(NewEntry(path)))
          /\ ~(IsAdded(NewEntry(newPath)) /\ IsRemoved(NewEntry(newPath)))
      BY NewEntryTells
    <2> QED BY <1>3, <2>1 DEF Unambiguous, RecordInv
  <1> HIDE DEF Rest
  <1>13. \A s \in Range(specs') : SpecTold(list', s)
    BY <1>8, <1>9, <1>10 DEF Holds
  <1> QED BY <1>3, <1>8, <1>11, <1>12, <1>13 DEF RecordInv, SpecsInv, Holds, OnePath

\* The field of a spec is set.
LEMMA SetFieldKeeps ==
    ASSUME RecordConstants, RecordInv, NEW path \in Path, NEW value \in Values,
           SetField(path, value)
    PROVE  RecordInv'
  <1> DEFINE s0 == specs[At(path)]
             r  == [s0 EXCEPT !.value = value]
             g  == GetEntry(list, path)
             Rest == {s \in Range(specs) : (s.path # path)}
  <1>1. list \in Seq(Entry) /\ SpecsInv /\ path \in Paths
    BY DEF RecordInv, SetField
  <1>2. s0 \in Range(specs) /\ s0.path = path /\ s0 \in SpecRecord
        /\ \A s \in Range(specs) : s.path = path => s = s0
    BY <1>1, AtIs
  <1>3. SpecTold(list, s0)
    BY <1>2 DEF RecordInv
  <1>4. ~IsRemoved(g) /\ g \in Entry /\ g.path = path
    BY <1>1, <1>2, <1>3, WithEntryDoes DEF SpecTold
  <1>5. PICK e : /\ Tells(list, list', path, e)
                 /\ e.flags = g.flags
                 /\ e.oldPath = g.oldPath
                 /\ e.info # <<>>
                 /\ e.info[Key] = <<IF g.info # <<>> THEN g.info[Key][1] ELSE s0.value, value>>
    <2>1. s0.value \in Values
      BY <1>2 DEF SpecRecord
    <2>2. list' = DidChangeInfo(list, path, Key, s0.value, value)
      BY DEF SetField
    <2> DEFINE old == s0.value
    <2> HIDE DEF s0, old
    <2>4. path \in Path /\ ~IsRemoved(GetEntry(list, path)) /\ old \in Values
      BY <1>4, <2>1 DEF old
    <2>3. \E e : /\ Tells(list, DidChangeInfo(list, path, Key, old, value), path, e)
                 /\ e.flags = GetEntry(list, path).flags
                 /\ e.oldPath = GetEntry(list, path).oldPath
                 /\ e.info # <<>>
                 /\ e.info[Key] = <<IF GetEntry(list, path).info # <<>>
                                    THEN GetEntry(list, path).info[Key][1] ELSE old, value>>
      BY <1>1, <2>4, DidChangeInfoTells, Zenon
    <2> QED BY <2>2, <2>3 DEF old
  <1>6. r \in SpecRecord /\ r.path = path /\ r.origin = s0.origin /\ r.value = value
    BY <1>2 DEF SpecRecord
  <1>7. specs' = [specs EXCEPT ![At(path)] = r]
    BY DEF SetField
  <1> HIDE DEF r, s0
  <1>8. Holds(specs', Rest \cup {r})
    BY <1>1, <1>6, <1>7, ReplaceHolds
  <1>9. ASSUME NEW s \in Rest
        PROVE  SpecTold(list', s)
    <2>1. s.path \in Path \ {path} /\ SpecTold(list, s)
      BY <1>1, SpecIs DEF RecordInv
    <2> QED BY <1>1, <1>5, <2>1, ToldStays DEF Tells
  <1>10. /\ ~IsRemoved(e) /\ About(e) = About(g)
         /\ IsAdded(e) <=> IsAdded(g)
    BY <1>4, <1>5 DEF IsRemoved, IsAdded, About, Tells
  <1>11. SpecTold(list', r)
    <2>1. GetEntry(list', r.path) = e
      <3>1. list' \in Seq(Entry) /\ Last(list', r.path) = {e}
        BY <1>5, <1>6 DEF Tells
      <3> QED BY <3>1, EntryIs
    <2>2. About(e) = r.origin
      BY <1>2, <1>3, <1>6, <1>10 DEF SpecTold
    <2>3. r.origin # NoPath => e.info[Key] = <<NoValue, r.value>>
      <3>1. s0.origin # NoPath =>
               IF g.info # <<>> THEN g.info[Key] = <<NoValue, s0.value>> ELSE s0.value = NoValue
        BY <1>2, <1>3 DEF SpecTold
      <3> HIDE DEF g
      <3> QED BY <1>5, <1>6, <3>1
    <2> QED BY <1>5, <1>10, <2>1, <2>2, <2>3 DEF SpecTold
  <1>12. \A q \in InitialPath : GoneTold(list', Range(specs'), q)
    <2>1. ASSUME NEW s \in Range(specs), s.origin # NoPath
          PROVE  GoneTold(list', Range(specs'), s.origin)
      <3>1. CASE s.path = path
        <4>1. r.origin = s.origin /\ r \in Range(specs')
          BY <1>2, <1>6, <1>8, <3>1 DEF Holds
        <4> QED BY <4>1 DEF GoneTold
      <3>2. CASE s.path # path
        BY <1>8, <3>2 DEF GoneTold, Holds
      <3> QED BY <3>1, <3>2
    <2> QED BY <1>5, <2>1, GoneStays DEF Tells
  <1>13. Unambiguous(list')
    <2>1. ~(IsAdded(e) /\ IsRemoved(e))
      BY <1>10
    <2> QED BY <1>5, <2>1, NewEntryTells DEF Unambiguous, RecordInv, Tells
  <1> HIDE DEF Rest
  <1>14. \A s \in Range(specs') : SpecTold(list', s)
    BY <1>8, <1>9, <1>11 DEF Holds
  <1>15. list' \in Seq(Entry)
    BY <1>5 DEF Tells
  <1> QED BY <1>8, <1>12, <1>13, <1>14, <1>15 DEF RecordInv, SpecsInv, Holds, OnePath

\* Every edit keeps the invariant.
LEMMA NextRecordInv ==
    ASSUME RecordConstants, RecordInv, [Next]_vars
    PROVE  RecordInv'
  <1>1. CASE UNCHANGED vars
    BY <1>1 DEF vars, RecordInv, SpecsInv, OnePath
  <1>2. ASSUME NEW path \in Path, NEW inert \in BOOLEAN,
               CreateSpec(path, inert) \/ DeleteSpec(path, inert)
        PROVE  RecordInv'
    BY <1>2, CreateKeeps, DeleteKeeps
  <1>3. ASSUME NEW path \in Path, NEW newPath \in Path,
               Rename(path, newPath) \/ Reparent(path, newPath)
        PROVE  RecordInv'
    BY <1>3, RenameKeeps, ReparentKeeps
  <1>4. ASSUME NEW path \in Path, NEW value \in Value \cup {NoValue}, SetField(path, value)
        PROVE  RecordInv'
    BY <1>4, SetFieldKeeps DEF Values
  <1> QED BY <1>1, <1>2, <1>3, <1>4 DEF Next

\* What the list tells follows from the invariant.
LEMMA AllTold ==
    ASSUME RecordConstants, RecordInv
    PROVE  OriginsTold /\ RemovalsTold /\ NoAmbiguity /\ ValuesTold
  <1>1. ASSUME NEW i \in DOMAIN specs
        PROVE  /\ SpecTold(list, specs[i]) /\ specs[i].path \in Path
               /\ list \in Seq(Entry)
    BY SpecIs DEF RecordInv, Range
  <1>2. ASSUME NEW path \in Path, list \in Seq(Entry)
        PROVE  IF FindEntry(list, path) = 0
               THEN GetEntry(list, path) = NewEntry(path)
               ELSE GetEntry(list, path) = list[FindEntry(list, path)]
    <2>1. CASE FindEntry(list, path) = 0
      <3>1. Last(list, path) = {}
        BY <1>2, <2>1, LastIs
      <3>2. /\ Last(WithEntry(list, path), path) =
                  IF Last(list, path) = {} THEN {NewEntry(path)} ELSE Last(list, path)
            /\ Last(WithEntry(list, path), path) = {GetEntry(list, path)}
        BY <1>2, WithEntryDoes
      <3> QED BY <2>1, <3>1, <3>2
    <2>2. CASE FindEntry(list, path) # 0
      BY <2>2 DEF GetEntry, WithEntry
    <2> QED BY <2>1, <2>2
  <1>3. OriginsTold
    <2> SUFFICES ASSUME NEW i \in DOMAIN specs
                 PROVE  specs[i].origin =
                           IF FindEntry(list, specs[i].path) = 0 THEN specs[i].path
                           ELSE About(GetEntry(list, specs[i].path))
      BY DEF OriginsTold
    <2> QED BY <1>1, <1>2, NewEntryTells DEF SpecTold
  <1>4. ValuesTold
    <2> SUFFICES ASSUME NEW i \in DOMAIN specs, specs[i].origin # NoPath
                 PROVE  LET n == FindEntry(list, specs[i].path) IN
                        IF n # 0 /\ list[n].info # <<>>
                        THEN list[n].info[Key] = <<NoValue, specs[i].value>>
                        ELSE specs[i].value = NoValue
      BY DEF ValuesTold
    <2> QED BY <1>1, <1>2, NewEntryTells, ZenonT(30) DEF SpecTold
  <1>5. RemovalsTold
    BY DEF RecordInv, GoneTold, RemovalsTold, Range
  <1>6. NoAmbiguity
    BY DEF RecordInv, Unambiguous, NoAmbiguity, Range
  <1> QED BY <1>3, <1>4, <1>5, <1>6

\* However many edits a round has, a listener finds out from the list what is at each path
\* and what became of each object that was there (changeList.cpp, changeManager.cpp).
THEOREM EditsTold ==
    ASSUME RecordConstants
    PROVE  Spec => [](OriginsTold /\ RemovalsTold /\ NoAmbiguity /\ ValuesTold)
  <1>1. Init => RecordInv
    BY InitRecordInv
  <1>2. RecordInv /\ [Next]_vars => RecordInv'
    BY NextRecordInv
  <1>3. RecordInv => OriginsTold /\ RemovalsTold /\ NoAmbiguity /\ ValuesTold
    BY AllTold
  <1> QED BY <1>1, <1>2, <1>3, PTL DEF Spec

====
