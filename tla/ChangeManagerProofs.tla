------------------------- MODULE ChangeManagerProofs -------------------------
(***************************************************************************)
(* Changes are sent with their block and in the order they are made in,    *)
(* the listeners know which layers are dirty, and the change manager keeps *)
(* its promise (Notification): for every number of threads and layers, and *)
(* any nesting of blocks and rounds.                                       *)
(*                                                                         *)
(* The invariant says where a change is until it is heard of: in a queue   *)
(* or a round of the thread that made it, under its own layer.  A change   *)
(* of an inner round was made by a listener of each round outside it, so   *)
(* it knows the changes of those, and those only, to be overtaken by it.   *)
(***************************************************************************)
EXTENDS ChangeManager, Integers, SequenceTheorems, NaturalsInduction,
        WellFoundedInduction, TLAPS

\* The changes of a queue of t were made by t, to the layers they are queued for.
Owned(queue, t, m) ==
    \A i \in DOMAIN queue :
        /\ queue[i].ids # {}
        /\ \A c \in queue[i].ids :
              c \in DOMAIN m /\ m[c].thread = t /\ m[c].layer = queue[i].layer

\* They were made while notices of the changes A were being sent.
After(queue, A, m) == \A c \in In(queue) : A \subseteq m[c].during

\* The changes of the rounds before j.
Below(rs, j) == UNION {In(rs[i].changes) : i \in 1..(j - 1)}

MadeInv ==
    /\ Len(made) <= MaxChanges
    /\ heard \subseteq DOMAIN made
    /\ \A c \in DOMAIN made : made[c].during \subseteq 1..(c - 1)

QueuesInv ==
    \A t \in Thread :
        /\ Owned(changes[t], t, made)
        /\ After(changes[t], Below(rounds[t], Len(rounds[t]) + 1), made)

RoundsInv ==
    \A t \in Thread : \A j \in 1..Len(rounds[t]) :
        /\ Owned(rounds[t][j].changes, t, made)
        /\ After(rounds[t][j].changes, Below(rounds[t], j), made)

\* What holds in every state.
ChangeInv ==
    TypeOK /\ MadeInv /\ QueuesInv /\ RoundsInv /\ NothingStuck /\ OnlyListenersOvertake

\* The layer l is queued by t, or in a round whose notice of it is still to come.
ToldLater(t, l) ==
    \/ \E i \in DOMAIN changes[t] : changes[t][i].layer = l
    \/ \E j \in 1..Len(rounds[t]) :
          /\ rounds[t][j].serial = 0
          /\ \E i \in DOMAIN rounds[t][j].changes :
                i >= rounds[t][j].next /\ rounds[t][j].changes[i].layer = l

\* What the listeners know of a layer is right, or a notice is still to come.
DirtyInv ==
    \A l \in layers : (l \in dirty <=> l \in lastDirty) \/ \E t \in Thread : ToldLater(t, l)

-----------------------------------------------------------------------------
(* Recursion over a sequence                                               *)

\* A set of numbers has a least one.
LEMMA LeastNumber ==
    ASSUME NEW T \in SUBSET Nat, T # {}
    PROVE  \E x \in T : \A y \in T : x <= y
  <1>1. IsWellFoundedOn({ss \in Nat \X Nat : ss[1] < ss[2]}, Nat)
    BY NatLessThanWellFounded DEF OpToRel
  <1>2. PICK x \in T : \A y \in T : ~ (<<y, x>> \in {ss \in Nat \X Nat : ss[1] < ss[2]})
    BY <1>1, WFMin
  <1>3. ASSUME NEW y \in T
        PROVE  x <= y
    <2>1. ~ (y < x)
      <3> SUFFICES ASSUME y < x
                   PROVE  <<y, x>> \in {ss \in Nat \X Nat : ss[1] < ss[2]}
        BY <1>2
      <3>1. <<y, x>> \in Nat \X Nat /\ <<y, x>>[1] < <<y, x>>[2]
        OBVIOUS
      <3> QED BY <3>1
    <2> QED BY <2>1
  <1> QED BY <1>3


\* What holds for 0, and for a number if for the one before, holds for all of
\* them up to n.  S has the numbers for which it holds.
LEMMA UpTo ==
    ASSUME NEW n \in Nat, NEW S, 0 \in S, \A m \in 1..n : m - 1 \in S => m \in S
    PROVE  \A m \in 0..n : m \in S
  <1> DEFINE T == 0..n \ S
  <1> SUFFICES ASSUME T # {} PROVE FALSE
    OBVIOUS
  <1>1. T \in SUBSET Nat
    OBVIOUS
  <1>2. PICK m \in T : \A y \in T : m <= y
    <2> HIDE DEF T
    <2> QED BY <1>1, LeastNumber
  <1>3. m \in 1..n /\ m - 1 \in 0..n /\ ~ (m <= m - 1)
    BY <1>2
  <1> QED BY <1>2, <1>3

\* f is defined from 0 up to n by a step from each number to the next.
IsRecursion(f, n, x0, step) ==
    f = [i \in 0..n |-> IF i = 0 THEN x0 ELSE step[i][f[i - 1]]]

\* A function defined from 0 up to n by a step from each number to the next
\* exists: a first number up to which it did not would have it from the one
\* before.
LEMMA RecursionExists ==
    ASSUME NEW n \in Nat, NEW X, NEW x0 \in X, NEW step \in [1..n -> [X -> X]]
    PROVE  \E f \in [0..n -> X] : IsRecursion(f, n, x0, step)
  <1> DEFINE Is(f, m) == f = [i \in 0..m |-> IF i = 0 THEN x0 ELSE step[i][f[i - 1]]]
             S == {m \in Nat : \E f \in [0..m -> X] : Is(f, m)}
  <1>1. 0 \in S
    <2>1. Is([i \in 0..0 |-> x0], 0)
      OBVIOUS
    <2>2. [i \in 0..0 |-> x0] \in [0..0 -> X]
      OBVIOUS
    <2> QED BY <2>1, <2>2
  <1>2. ASSUME NEW m \in 1..n, m - 1 \in S
        PROVE  m \in S
    <2>1. PICK f \in [0..(m - 1) -> X] : Is(f, m - 1)
      BY <1>2
    <2> DEFINE g == [i \in 0..m |-> IF i < m THEN f[i] ELSE step[m][f[m - 1]]]
    <2>2. step[m][f[m - 1]] \in X
      BY <2>1
    <2>3. g \in [0..m -> X]
      <3>1. \A i \in 0..m : g[i] \in X
        BY <2>1, <2>2
      <3> QED BY <3>1
    <2>4. \A i \in 0..m : g[i] = IF i = 0 THEN x0 ELSE step[i][g[i - 1]]
      <3> SUFFICES ASSUME NEW i \in 0..m
                   PROVE  g[i] = IF i = 0 THEN x0 ELSE step[i][g[i - 1]]
        OBVIOUS
      <3>1. CASE i = m
        <4>1. g[i] = step[m][f[m - 1]] /\ g[i - 1] = f[m - 1] /\ i # 0
          BY <3>1
        <4> QED BY <4>1, <3>1
      <3>2. CASE i < m
        <4>1. g[i] = f[i] /\ i \in 0..(m - 1)
          BY <3>2
        <4>2. CASE i = 0
          BY <4>1, <4>2, <2>1
        <4>3. CASE i # 0
          <5>1. g[i - 1] = f[i - 1]
            BY <4>3, <3>2
          <5> QED BY <5>1, <4>1, <4>3, <2>1
        <4> QED BY <4>2, <4>3
      <3> QED BY <3>1, <3>2
    <2>5. Is(g, m) /\ m \in Nat
      BY <2>4
    <2> QED BY <2>3, <2>5
  <1>3. n \in S
    <2> HIDE DEF S
    <2>1. \A m \in 0..n : m \in S
      BY <1>1, <1>2, UpTo
    <2> QED BY <2>1
  <1> QED BY <1>3 DEF IsRecursion

-----------------------------------------------------------------------------
(* The part of a queue that is about some layers                           *)

Item(C) == [layer : Layer, ids : SUBSET C]

LEMMA QueueIs ==
    ASSUME NEW C, NEW queue \in Queue(C)
    PROVE  /\ Len(queue) \in Nat /\ DOMAIN queue = 1..Len(queue)
           /\ \A i \in 1..Len(queue) : queue[i] \in Item(C)
           /\ \A x \in Item(C) :
                 /\ Append(queue, x) \in Queue(C)
                 /\ Len(Append(queue, x)) = Len(queue) + 1
                 /\ DOMAIN Append(queue, x) = 1..(Len(queue) + 1)
                 /\ Append(queue, x)[Len(queue) + 1] = x
                 /\ \A i \in 1..Len(queue) : Append(queue, x)[i] = queue[i]
  <1>1. queue \in Seq(Item(C)) /\ Queue(C) = Seq(Item(C))
    BY DEF Queue, Item
  <1> QED BY <1>1

LEMMA WiderQueue == \A q \in Queue(Change) : q \in Queue(Nat)
  <1> SUFFICES ASSUME NEW q \in Queue(Change) PROVE q \in Queue(Nat)
    OBVIOUS
  <1>1. \A x \in Item(Change) : x \in Item(Nat)
    <2>1. Change \subseteq Nat
      BY ChangeConstants DEF Change
    <2> QED BY <2>1 DEF Item
  <1>2. q \in Seq(Item(Change))
    BY DEF Queue, Item
  <1>3. q \in Seq(Item(Nat))
    BY <1>1, <1>2
  <1> QED BY <1>3 DEF Queue, Item

LEMMA NoQueue == \A C : <<>> \in Queue(C) /\ DOMAIN <<>> = {} /\ Len(<<>>) = 0
  <1> SUFFICES ASSUME NEW C PROVE <<>> \in Queue(C)
    OBVIOUS
  <1>1. Queue(C) = Seq(Item(C))
    BY DEF Queue, Item
  <1> QED BY <1>1

\* f has the parts of the beginnings of the queue that are about the layers ls.
IsAbout(f, queue, ls) ==
    f = [i \in 0..Len(queue) |->
            IF i = 0 THEN <<>>
            ELSE IF queue[i].layer \in ls THEN Append(f[i - 1], queue[i])
            ELSE f[i - 1]]

AboutOf(queue, ls) == (CHOOSE f : IsAbout(f, queue, ls))

LEMMA AboutExists ==
    ASSUME NEW C, NEW queue \in Queue(C), NEW ls
    PROVE  /\ IsAbout(AboutOf(queue, ls), queue, ls)
           /\ About(queue, ls) = AboutOf(queue, ls)[Len(queue)]
  <1> DEFINE n == Len(queue)
             X == Queue(C)
             step == [i \in 1..n |->
                        [q \in X |-> IF queue[i].layer \in ls THEN Append(q, queue[i]) ELSE q]]
             x0 == <<>>
  <1>1. n \in Nat /\ x0 \in X /\ step \in [1..n -> [X -> X]]
    <2>1. \A i \in 1..n, q \in X : Append(q, queue[i]) \in X
      BY QueueIs
    <2>2. n \in Nat /\ x0 \in X
      BY QueueIs, NoQueue
    <2> HIDE DEF n, X, x0
    <2> QED BY <2>1, <2>2
  <1> HIDE DEF n, X, x0
  <1>2. PICK f \in [0..n -> X] : IsRecursion(f, n, x0, step)
    <2> HIDE DEF step
    <2> QED BY <1>1, RecursionExists
  <1>3. f = [i \in 0..n |-> IF i = 0 THEN x0
                            ELSE IF queue[i].layer \in ls THEN Append(f[i - 1], queue[i])
                            ELSE f[i - 1]]
    <2>1. \A i \in 0..n : f[i] =
              IF i = 0 THEN x0
              ELSE IF queue[i].layer \in ls THEN Append(f[i - 1], queue[i]) ELSE f[i - 1]
      <3> SUFFICES ASSUME NEW i \in 0..n, i # 0
                   PROVE  f[i] = IF queue[i].layer \in ls THEN Append(f[i - 1], queue[i])
                                 ELSE f[i - 1]
        BY <1>2 DEF IsRecursion
      <3>1. i \in 1..n /\ i - 1 \in 0..n /\ f[i - 1] \in X
        BY <1>1
      <3>2. f[i] = step[i][f[i - 1]]
        <4> HIDE DEF step
        <4> QED BY <1>2 DEF IsRecursion
      <3> QED BY <3>1, <3>2
    <2> QED BY <2>1, <1>2 DEF IsRecursion
  <1>4. IsAbout(f, queue, ls)
    BY <1>3 DEF IsAbout, n, x0
  <1> QED BY <1>4 DEF About, AboutOf, IsAbout

\* It has exactly the items of the queue that are about those layers.
LEMMA AboutIs ==
    ASSUME NEW C, NEW queue \in Queue(C), NEW ls
    PROVE  /\ About(queue, ls) \in Queue(C)
           /\ \A i \in DOMAIN About(queue, ls) : \E j \in DOMAIN queue :
                 About(queue, ls)[i] = queue[j] /\ queue[j].layer \in ls
           /\ \A j \in DOMAIN queue : queue[j].layer \in ls =>
                 \E i \in DOMAIN About(queue, ls) : About(queue, ls)[i] = queue[j]
  <1> DEFINE n == Len(queue)
             f == AboutOf(queue, ls)
             P(m) == /\ f[m] \in Queue(C)
                     /\ \A i \in DOMAIN f[m] : \E j \in 1..m :
                           f[m][i] = queue[j] /\ queue[j].layer \in ls
                     /\ \A j \in 1..m : queue[j].layer \in ls =>
                           \E i \in DOMAIN f[m] : f[m][i] = queue[j]
             S == {m \in Nat : m <= n => P(m)}
  <1>0. n \in Nat /\ DOMAIN queue = 1..n /\ \A i \in 1..n : queue[i] \in Item(C)
    BY QueueIs
  <1>1. \A m \in 0..n : f[m] =
            IF m = 0 THEN <<>>
            ELSE IF queue[m].layer \in ls THEN Append(f[m - 1], queue[m]) ELSE f[m - 1]
    <2>1. IsAbout(f, queue, ls)
      BY AboutExists
    <2> HIDE DEF f
    <2> QED BY <2>1 DEF IsAbout
  <1>2. 0 \in S
    <2> HIDE DEF f, n
    <2>1. f[0] = <<>>
      BY <1>1, <1>0
    <2> QED BY <2>1, NoQueue
  <1>3. ASSUME NEW m \in 1..n, m - 1 \in S
        PROVE  m \in S
    <2>1. P(m - 1) /\ m \in Nat
      BY <1>3, <1>0
    <2>2. CASE queue[m].layer \notin ls
      <3>1. f[m] = f[m - 1]
        BY <1>0, <1>1, <2>2
      <3>2. \A j \in 1..m : queue[j].layer \in ls => j \in 1..(m - 1)
        BY <2>2
      <3>3. \A j \in 1..(m - 1) : j \in 1..m
        OBVIOUS
      <3> HIDE DEF f
      <3>4. P(m)
        BY <2>1, <3>1, <3>2, <3>3
      <3> QED BY <3>4, <2>1
    <2>3. CASE queue[m].layer \in ls
      <3> DEFINE q == f[m - 1]
      <3>1. f[m] = Append(q, queue[m])
        <4> HIDE DEF f, n
        <4>1. m \in 0..n /\ m # 0
          BY <1>0
        <4> QED BY <4>1, <1>1, <2>3
      <3>2. q \in Queue(C) /\ queue[m] \in Item(C)
        BY <1>0, <2>1
      <3> HIDE DEF f, q
      <3>3. /\ f[m] \in Queue(C) /\ Len(f[m]) = Len(q) + 1 /\ Len(q) \in Nat
            /\ DOMAIN f[m] = 1..(Len(q) + 1) /\ DOMAIN q = 1..Len(q)
            /\ f[m][Len(q) + 1] = queue[m]
            /\ \A i \in 1..Len(q) : f[m][i] = q[i]
        BY <3>1, <3>2, QueueIs
      <3>4. \A i \in DOMAIN f[m] : \E j \in 1..m : f[m][i] = queue[j] /\ queue[j].layer \in ls
        <4> SUFFICES ASSUME NEW i \in DOMAIN f[m]
                     PROVE  \E j \in 1..m : f[m][i] = queue[j] /\ queue[j].layer \in ls
          OBVIOUS
        <4>1. CASE i = Len(q) + 1
          BY <4>1, <3>3, <2>3
        <4>2. CASE i # Len(q) + 1
          <5>1. i \in DOMAIN q /\ f[m][i] = q[i]
            BY <4>2, <3>3
          <5>2. PICK j \in 1..(m - 1) : q[i] = queue[j] /\ queue[j].layer \in ls
            BY <5>1, <2>1 DEF q
          <5> QED BY <5>1, <5>2
        <4> QED BY <4>1, <4>2
      <3>5. \A j \in 1..m : queue[j].layer \in ls => \E i \in DOMAIN f[m] : f[m][i] = queue[j]
        <4> SUFFICES ASSUME NEW j \in 1..m, queue[j].layer \in ls
                     PROVE  \E i \in DOMAIN f[m] : f[m][i] = queue[j]
          OBVIOUS
        <4>1. CASE j = m
          <5>1. Len(q) + 1 \in DOMAIN f[m]
            BY <3>3
          <5> QED BY <5>1, <4>1, <3>3
        <4>2. CASE j # m
          <5>1. j \in 1..(m - 1)
            BY <4>2
          <5>2. PICK i \in DOMAIN q : q[i] = queue[j]
            BY <5>1, <2>1 DEF q
          <5>3. i \in DOMAIN f[m] /\ f[m][i] = q[i]
            BY <3>3
          <5> QED BY <5>2, <5>3
        <4> QED BY <4>1, <4>2
      <3>6. P(m)
        BY <3>3, <3>4, <3>5
      <3> QED BY <3>6, <2>1
    <2> QED BY <2>2, <2>3
  <1>4. n \in S
    <2> HIDE DEF S
    <2>1. \A m \in 0..n : m \in S
      BY <1>0, <1>2, <1>3, UpTo
    <2> QED BY <2>1, <1>0
  <1>5. P(n)
    BY <1>4, <1>0
  <1> QED BY <1>5, <1>0, AboutExists

-----------------------------------------------------------------------------
(* Changes join a queue                                                    *)

\* r is the queue q and a change c of l.
IsQueued(r, q, l, c) ==
    /\ r \in Queue(Nat)
    /\ \A i \in DOMAIN r : \A d \in r[i].ids :
          \/ d = c /\ r[i].layer = l
          \/ \E j \in DOMAIN q : d \in q[j].ids /\ q[j].layer = r[i].layer
    /\ \A i \in DOMAIN r : (\A j \in DOMAIN q : q[j].ids # {}) => r[i].ids # {}
    /\ \A j \in DOMAIN q : \E i \in DOMAIN r :
          r[i].layer = q[j].layer /\ q[j].ids \subseteq r[i].ids
    /\ \E i \in DOMAIN r : r[i].layer = l /\ c \in r[i].ids

LEMMA QueuedIs ==
    ASSUME NEW q \in Queue(Nat), NEW l \in Layer, NEW c \in Nat
    PROVE  IsQueued(Queued(q, l, {(c)}), q, l, c)
  <1> DEFINE x == [layer |-> l, ids |-> {(c)}]
             new(i) == [q[i] EXCEPT !.ids = q[i].ids \cup {(c)}]
             r == Queued(q, l, {(c)})
  <1>1. /\ Len(q) \in Nat /\ DOMAIN q = 1..Len(q)
        /\ \A i \in DOMAIN q : /\ q[i] \in Item(Nat) /\ new(i) \in Item(Nat)
                               /\ new(i).layer = q[i].layer /\ new(i).ids = q[i].ids \cup {(c)}
        /\ x \in Item(Nat) /\ x.layer = l /\ x.ids = {(c)}
    <2>1. Len(q) \in Nat /\ DOMAIN q = 1..Len(q) /\ \A i \in DOMAIN q : q[i] \in Item(Nat)
      BY QueueIs
    <2>2. x \in Item(Nat) /\ x.layer = l /\ x.ids = {(c)}
      BY DEF Item
    <2>3. ASSUME NEW i \in DOMAIN q
          PROVE  new(i) \in Item(Nat) /\ new(i).layer = q[i].layer
                 /\ new(i).ids = q[i].ids \cup {(c)}
      BY <2>1 DEF Item
    <2> QED BY <2>1, <2>2, <2>3
  <1>2. CASE \E i \in DOMAIN q : q[i].layer = l
    <2>1. r = [i \in DOMAIN q |-> IF q[i].layer = l THEN new(i) ELSE q[i]]
      BY <1>2 DEF Queued
    <2>2. r \in Queue(Nat)
      <3>1. r \in [1..Len(q) -> Item(Nat)]
        <4> HIDE DEF r, new
        <4> QED BY <2>1, <1>1
      <3>2. r \in Seq(Item(Nat))
        <4> HIDE DEF r
        <4> QED BY <3>1, <1>1
      <3> QED BY <3>2 DEF Queue, Item
    <2> HIDE DEF r, new
    <2>3. /\ DOMAIN r = DOMAIN q
          /\ \A i \in DOMAIN q : /\ r[i].layer = q[i].layer /\ q[i].ids \subseteq r[i].ids
                                 /\ r[i].ids = IF q[i].layer = l THEN q[i].ids \cup {(c)}
                                               ELSE q[i].ids
      BY <2>1, <1>1
    <2>4. r \in Queue(Nat)
          /\ \A i \in DOMAIN r : \A d \in r[i].ids :
                 \/ d = c /\ r[i].layer = l
                 \/ \E j \in DOMAIN q : d \in q[j].ids /\ q[j].layer = r[i].layer
      BY <2>2, <2>3
    <2>5. \A i \in DOMAIN r : (\A j \in DOMAIN q : q[j].ids # {}) => r[i].ids # {}
      BY <2>3
    <2>6. \A j \in DOMAIN q : \E i \in DOMAIN r :
             r[i].layer = q[j].layer /\ q[j].ids \subseteq r[i].ids
      BY <2>3
    <2>7. \E i \in DOMAIN r : r[i].layer = l /\ c \in r[i].ids
      BY <2>3, <1>2
    <2> QED BY <2>4, <2>5, <2>6, <2>7 DEF r, IsQueued
  <1>3. CASE ~ \E i \in DOMAIN q : q[i].layer = l
    <2>1. r = Append(q, x)
      BY <1>3 DEF Queued
    <2> HIDE DEF r, x, new
    <2>2. /\ r \in Queue(Nat) /\ DOMAIN r = 1..(Len(q) + 1)
          /\ r[Len(q) + 1] = x /\ \A i \in 1..Len(q) : r[i] = q[i]
      BY <2>1, <1>1, QueueIs
    <2>3. /\ DOMAIN q \subseteq DOMAIN r /\ Len(q) + 1 \in DOMAIN r
          /\ \A i \in DOMAIN r : \/ i \in DOMAIN q /\ r[i] = q[i]
                                 \/ i = Len(q) + 1 /\ r[i] = x
          /\ \A i \in DOMAIN q : r[i] = q[i]
      BY <2>2, <1>1
    <2>4. \A i \in DOMAIN r : \A d \in r[i].ids :
                 \/ d = c /\ r[i].layer = l
                 \/ \E j \in DOMAIN q : d \in q[j].ids /\ q[j].layer = r[i].layer
      BY <2>3, <1>1
    <2>5. \A i \in DOMAIN r : (\A j \in DOMAIN q : q[j].ids # {}) => r[i].ids # {}
      BY <2>3, <1>1
    <2>6. \A j \in DOMAIN q : \E i \in DOMAIN r :
             r[i].layer = q[j].layer /\ q[j].ids \subseteq r[i].ids
      BY <2>3
    <2>7. \E i \in DOMAIN r : r[i].layer = l /\ c \in r[i].ids
      BY <2>2, <2>3, <1>1
    <2> QED BY <2>2, <2>4, <2>5, <2>6, <2>7 DEF r, IsQueued
  <1> QED BY <1>2, <1>3

MadeOf == [thread : Thread, layer : Layer, during : SUBSET Change]

\* The queue q0 of t and the changes m0 have grown into q and m: t has made
\* changes while notices of A were being sent.
Grown(q0, m0, q, m, t, A) ==
    /\ q \in Queue(Nat) /\ m \in Seq(MadeOf)
    /\ Len(m0) <= Len(m)
    /\ \A c \in 1..Len(m0) : m[c] = m0[c]
    /\ \A c \in (Len(m0) + 1)..Len(m) : m[c].thread = t /\ m[c].during = A
    /\ Owned(q, t, m)
    /\ In(q) = In(q0) \cup (Len(m0) + 1)..Len(m)
    /\ \A i \in DOMAIN q0 : \E j \in DOMAIN q : q[j].layer = q0[i].layer

\* The changes of the rounds of t.
Heard(t) == Below(rounds[t], Len(rounds[t]) + 1)

LEMMA GrowsBy ==
    ASSUME TypeOK, NEW q0 \in Queue(Nat), NEW m0 \in Seq(MadeOf), NEW t \in Thread,
           NEW to, Grown(q0, m0, to.queue, to.made, t, Heard(t)),
           Heard(t) \subseteq Change, NEW l \in Layer, NEW r, r = WithChange(to, t, l)
    PROVE  /\ Grown(q0, m0, r.queue, r.made, t, Heard(t))
           /\ \E i \in DOMAIN r.queue : r.queue[i].layer = l
           /\ \A i \in DOMAIN to.queue : \E j \in DOMAIN r.queue :
                 r.queue[j].layer = to.queue[i].layer
           /\ Len(r.made) = Len(to.made) + 1
  <1> DEFINE q == to.queue
             m == to.made
             n == Len(m) + 1
             e == NewChange(t, l)
             q1 == Queued(q, l, {(n)})
             m1 == Append(m, e)
  <1>0. Grown(q0, m0, q, m, t, Heard(t))
    OBVIOUS
  <1>1. r = [queue |-> q1, made |-> m1]
    BY DEF WithChange
  <1>2. e \in MadeOf /\ e.thread = t /\ e.layer = l /\ e.during = Heard(t)
    <2>1. Heard(t) = UNION {In(rounds[t][i].changes) : i \in DOMAIN rounds[t]}
      <3>1. rounds[t] \in Seq([changes : Queue(Change), next : Nat \ {0}, serial : Nat])
        BY DEF TypeOK
      <3>2. DOMAIN rounds[t] = 1..(Len(rounds[t]) + 1 - 1)
        BY <3>1
      <3> QED BY <3>2 DEF Heard, Below
    <2> QED BY <2>1 DEF NewChange, MadeOf
  <1>3. q \in Queue(Nat) /\ m \in Seq(MadeOf) /\ Len(m) \in Nat /\ n \in Nat /\ Len(m0) \in Nat
    BY <1>0 DEF Grown
  <1> HIDE DEF e, q, m
  <1>4. /\ m1 \in Seq(MadeOf) /\ Len(m1) = n /\ DOMAIN m1 = 1..n /\ DOMAIN m = 1..Len(m)
        /\ m1[n] = e /\ \A c \in 1..Len(m) : m1[c] = m[c]
    BY <1>2, <1>3
  <1> HIDE DEF n, m1
  <1>5. IsQueued(q1, q, l, n)
    BY <1>3, QueuedIs
  <1> HIDE DEF q1
  <1>6. Len(m0) <= Len(m1) /\ (\A c \in 1..Len(m0) : m1[c] = m0[c])
        /\ \A c \in (Len(m0) + 1)..Len(m1) : m1[c].thread = t /\ m1[c].during = Heard(t)
    <2>1. Len(m0) <= Len(m) /\ Len(m1) = Len(m) + 1
      BY <1>0, <1>4 DEF Grown, n
    <2>2. \A c \in 1..Len(m0) : c \in 1..Len(m)
      BY <2>1, <1>3
    <2>3. \A c \in (Len(m0) + 1)..Len(m1) :
             \/ c \in (Len(m0) + 1)..Len(m) /\ c \in 1..Len(m)
             \/ c = n
      BY <2>1, <1>3 DEF n
    <2>4. \A c \in (Len(m0) + 1)..Len(m) : m[c].thread = t /\ m[c].during = Heard(t)
      BY <1>0 DEF Grown
    <2>5. \A c \in 1..Len(m0) : m[c] = m0[c]
      BY <1>0 DEF Grown
    <2>6. Len(m0) <= Len(m1)
      BY <2>1, <1>3
    <2> QED BY <2>2, <2>3, <2>4, <2>5, <2>6, <1>2, <1>4
  <1>7. Owned(q1, t, m1)
    <2>1. Owned(q, t, m)
      BY <1>0 DEF Grown
    <2>2. \A i \in DOMAIN q1 : q1[i].ids # {}
      BY <2>1, <1>5 DEF Owned, IsQueued
    <2>3. ASSUME NEW i \in DOMAIN q1, NEW c \in q1[i].ids
          PROVE  c \in DOMAIN m1 /\ m1[c].thread = t /\ m1[c].layer = q1[i].layer
      <3>1. CASE c = n /\ q1[i].layer = l
        BY <3>1, <1>2, <1>3, <1>4 DEF n
      <3>2. CASE \E j \in DOMAIN q : c \in q[j].ids /\ q[j].layer = q1[i].layer
        <4>1. c \in DOMAIN m /\ m[c].thread = t /\ m[c].layer = q1[i].layer
          BY <3>2, <2>1 DEF Owned
        <4>2. c \in 1..Len(m) /\ c \in 1..n
          BY <4>1, <1>3, <1>4 DEF n
        <4> QED BY <4>1, <4>2, <1>4
      <3> QED BY <3>1, <3>2, <1>5 DEF IsQueued
    <2> QED BY <2>2, <2>3 DEF Owned
  <1>8. In(q1) = In(q0) \cup (Len(m0) + 1)..Len(m1)
    <2>1. In(q) = In(q0) \cup (Len(m0) + 1)..Len(m) /\ Len(m0) <= Len(m)
      BY <1>0 DEF Grown
    <2>2. (Len(m0) + 1)..Len(m1) = ((Len(m0) + 1)..Len(m)) \cup {(n)}
      BY <2>1, <1>3, <1>4 DEF n
    <2>3. In(q1) = In(q) \cup {(n)}
      BY <1>5 DEF In, IsQueued
    <2> QED BY <2>1, <2>2, <2>3
  <1>9. \A i \in DOMAIN q0 : \E j \in DOMAIN q1 : q1[j].layer = q0[i].layer
    <2>1. \A i \in DOMAIN q0 : \E j \in DOMAIN q : q[j].layer = q0[i].layer
      BY <1>0 DEF Grown
    <2> QED BY <2>1, <1>5 DEF IsQueued
  <1>10. Grown(q0, m0, q1, m1, t, Heard(t))
    BY <1>4, <1>5, <1>6, <1>7, <1>8, <1>9 DEF Grown, IsQueued
  <1>11. r.queue = q1 /\ r.made = m1
    BY <1>1
  <1> QED BY <1>4, <1>5, <1>10, <1>11 DEF n, q, m, IsQueued

-----------------------------------------------------------------------------
(* The removals of a block                                                 *)

Queueing == [queue : Queue(Nat), made : Seq(MadeOf)]

LEMMA NewChangeIs ==
    ASSUME TypeOK, NEW t \in Thread, NEW l \in Layer, Heard(t) \subseteq Change
    PROVE  /\ NewChange(t, l) \in MadeOf
           /\ NewChange(t, l) = [thread |-> t, layer |-> l, during |-> Heard(t)]
  <1>1. Heard(t) = UNION {In(rounds[t][i].changes) : i \in DOMAIN rounds[t]}
    <2>1. rounds[t] \in Seq([changes : Queue(Change), next : Nat \ {0}, serial : Nat])
      BY DEF TypeOK
    <2>2. DOMAIN rounds[t] = 1..(Len(rounds[t]) + 1 - 1)
      BY <2>1
    <2> QED BY <2>2 DEF Heard, Below
  <1> QED BY <1>1 DEF NewChange, MadeOf

LEMMA WithChangeType ==
    ASSUME TypeOK, NEW t \in Thread, NEW l \in Layer, Heard(t) \subseteq Change,
           NEW x \in Queueing
    PROVE  WithChange(x, t, l) \in Queueing
  <1> DEFINE n == Len(x.made) + 1
             q1 == Queued(x.queue, l, {(n)})
             m1 == Append(x.made, NewChange(t, l))
  <1>1. x.queue \in Queue(Nat) /\ x.made \in Seq(MadeOf) /\ n \in Nat
    BY DEF Queueing
  <1>2. m1 \in Seq(MadeOf)
    BY <1>1, NewChangeIs
  <1>3. q1 \in Queue(Nat)
    <2> HIDE DEF n
    <2> QED BY <1>1, QueuedIs DEF IsQueued
  <1>4. WithChange(x, t, l) = [queue |-> q1, made |-> m1]
    BY DEF WithChange
  <1> HIDE DEF q1, m1
  <1> QED BY <1>2, <1>3, <1>4 DEF Queueing

\* f has what is queued and made after each of the removals.
IsRemoved(f, t, queue, inert) ==
    f = [i \in 0..Len(removeIfInert[t]) |->
            IF i = 0 THEN [queue |-> queue, made |-> made]
            ELSE IF i \in inert THEN WithChange(f[i - 1], t, removeIfInert[t][i])
            ELSE f[i - 1]]

RemovedOf(t, queue, inert) == (CHOOSE f : IsRemoved(f, t, queue, inert))

LEMMA RemovedExists ==
    ASSUME TypeOK, NEW t \in Thread, Heard(t) \subseteq Change,
           NEW queue \in Queue(Nat), NEW inert
    PROVE  /\ IsRemoved(RemovedOf(t, queue, inert), t, queue, inert)
           /\ Removed(t, queue, inert) =
                 RemovedOf(t, queue, inert)[Len(removeIfInert[t])]
  <1> DEFINE n == Len(removeIfInert[t])
             X == Queueing
             x0 == [queue |-> queue, made |-> made]
             step == [i \in 1..n |->
                        [x \in X |-> IF i \in inert THEN WithChange(x, t, removeIfInert[t][i])
                                     ELSE x]]
  <1>1. n \in Nat /\ x0 \in X /\ step \in [1..n -> [X -> X]]
    <2>1. n \in Nat /\ x0 \in X /\ \A i \in 1..n : removeIfInert[t][i] \in Layer
      BY DEF TypeOK, Queueing, MadeOf
    <2>2. \A i \in 1..n, x \in X : WithChange(x, t, removeIfInert[t][i]) \in X
      BY <2>1, WithChangeType
    <2> HIDE DEF n, X, x0
    <2> QED BY <2>1, <2>2
  <1> HIDE DEF n, X, x0
  <1>2. PICK f \in [0..n -> X] : IsRecursion(f, n, x0, step)
    <2> HIDE DEF step
    <2> QED BY <1>1, RecursionExists
  <1>3. f = [i \in 0..n |->
                IF i = 0 THEN x0
                ELSE IF i \in inert THEN WithChange(f[i - 1], t, removeIfInert[t][i])
                ELSE f[i - 1]]
    <2>1. \A i \in 0..n : f[i] =
              IF i = 0 THEN x0
              ELSE IF i \in inert THEN WithChange(f[i - 1], t, removeIfInert[t][i])
              ELSE f[i - 1]
      <3> SUFFICES ASSUME NEW i \in 0..n, i # 0
                   PROVE  f[i] = IF i \in inert THEN WithChange(f[i - 1], t, removeIfInert[t][i])
                                 ELSE f[i - 1]
        BY <1>2 DEF IsRecursion
      <3>1. i \in 1..n /\ i - 1 \in 0..n /\ f[i - 1] \in X
        BY <1>1
      <3>2. f[i] = step[i][f[i - 1]]
        <4> HIDE DEF step
        <4> QED BY <1>2 DEF IsRecursion
      <3> QED BY <3>1, <3>2
    <2> QED BY <2>1, <1>2 DEF IsRecursion
  <1>4. IsRemoved(f, t, queue, inert)
    BY <1>3 DEF IsRemoved, n, x0
  <1> QED BY <1>4 DEF Removed, RemovedOf, IsRemoved

\* The removals add a change for each spec that is removed.
LEMMA RemovedGrows ==
    ASSUME TypeOK, NEW t \in Thread, Heard(t) \subseteq Change,
           Owned(changes[t], t, made), NEW inert, inert \subseteq DOMAIN removeIfInert[t]
    PROVE  /\ Grown(changes[t], made, Removed(t, changes[t], inert).queue,
                    Removed(t, changes[t], inert).made, t, Heard(t))
           /\ \A i \in inert : \E j \in DOMAIN Removed(t, changes[t], inert).queue :
                 Removed(t, changes[t], inert).queue[j].layer = removeIfInert[t][i]
  <1> DEFINE n == Len(removeIfInert[t])
             f == RemovedOf(t, changes[t], inert)
             P(k) == /\ f[k] \in Queueing
                     /\ Grown(changes[t], made, f[k].queue, f[k].made, t, Heard(t))
                     /\ \A i \in inert : i <= k =>
                           \E j \in DOMAIN f[k].queue : f[k].queue[j].layer = removeIfInert[t][i]
             S == {k \in Nat : k <= n => P(k)}
  <1>0. /\ n \in Nat /\ inert \subseteq 1..n /\ \A i \in 1..n : removeIfInert[t][i] \in Layer
        /\ changes[t] \in Queue(Change) /\ changes[t] \in Queue(Nat) /\ made \in Seq(MadeOf)
    <2>1. changes[t] \in Queue(Change)
      BY DEF TypeOK
    <2>2. n \in Nat /\ inert \subseteq 1..n /\ \A i \in 1..n : removeIfInert[t][i] \in Layer
      BY DEF TypeOK
    <2> QED BY <2>1, <2>2, WiderQueue DEF TypeOK, MadeOf
  <1>1. \A k \in 0..n : f[k] =
            IF k = 0 THEN [queue |-> changes[t], made |-> made]
            ELSE IF k \in inert THEN WithChange(f[k - 1], t, removeIfInert[t][k])
            ELSE f[k - 1]
    <2>1. IsRemoved(f, t, changes[t], inert)
      BY <1>0, RemovedExists
    <2> HIDE DEF f
    <2> QED BY <2>1 DEF IsRemoved
  <1>2. 0 \in S
    <2> HIDE DEF f, n
    <2>1. f[0] = [queue |-> changes[t], made |-> made]
      BY <1>1, <1>0
    <2>2. \A i \in inert : ~ (i <= 0)
      BY <1>0
    <2>3. Grown(changes[t], made, changes[t], made, t, Heard(t))
      <3>1. Len(made) \in Nat /\ (Len(made) + 1)..Len(made) = {}
        BY <1>0
      <3> QED BY <3>1, <1>0 DEF Grown
    <2>4. f[0] \in Queueing /\ f[0].queue = changes[t] /\ f[0].made = made
      BY <2>1, <1>0 DEF Queueing
    <2>5. P(0)
      BY <2>2, <2>3, <2>4
    <2> QED BY <2>5
  <1>3. ASSUME NEW k \in 1..n, k - 1 \in S
        PROVE  k \in S
    <2>1. P(k - 1) /\ k \in Nat
      BY <1>3, <1>0
    <2> DEFINE y == f[k - 1]
    <2>2. CASE k \notin inert
      <3>1. f[k] = f[k - 1]
        <4> HIDE DEF f, n
        <4>1. k \in 0..n /\ k # 0
          BY <1>0
        <4> QED BY <4>1, <1>1, <2>2
      <3>2. \A i \in inert : i <= k => i <= k - 1
        BY <2>2, <1>0
      <3> HIDE DEF f
      <3>3. P(k)
        BY <2>1, <3>1, <3>2
      <3> QED BY <3>3, <2>1
    <2>3. CASE k \in inert
      <3>1. f[k] = WithChange(y, t, removeIfInert[t][k])
        <4> HIDE DEF f, n
        <4>1. k \in 0..n /\ k # 0
          BY <1>0
        <4> QED BY <4>1, <1>1, <2>3
      <3>2. /\ y \in Queueing /\ Grown(changes[t], made, y.queue, y.made, t, Heard(t))
            /\ \A i \in inert : i <= k - 1 =>
                  \E j \in DOMAIN y.queue : y.queue[j].layer = removeIfInert[t][i]
            /\ removeIfInert[t][k] \in Layer
        BY <2>1, <1>0
      <3> DEFINE l == removeIfInert[t][k]
                 z == WithChange(y, t, l)
      <3> HIDE DEF f, y
      <3>3. /\ Grown(changes[t], made, z.queue, z.made, t, Heard(t))
            /\ \E j \in DOMAIN z.queue : z.queue[j].layer = l
            /\ \A i \in DOMAIN y.queue : \E j \in DOMAIN z.queue : z.queue[j].layer = y.queue[i].layer
            /\ z \in Queueing
        <4>1. z \in Queueing
          BY <3>2, WithChangeType
        <4>2. z = WithChange(y, t, l) /\ l \in Layer
          BY <3>2
        <4>3. Grown(changes[t], made, y.queue, y.made, t, Heard(t))
          BY <3>2
        <4>4. changes[t] \in Queue(Nat) /\ made \in Seq(MadeOf)
          BY <1>0
        <4> HIDE DEF z, l
        <4>5. /\ Grown(changes[t], made, z.queue, z.made, t, Heard(t))
              /\ \E j \in DOMAIN z.queue : z.queue[j].layer = l
              /\ \A i \in DOMAIN y.queue : \E j \in DOMAIN z.queue :
                    z.queue[j].layer = y.queue[i].layer
          BY <4>2, <4>3, <4>4, GrowsBy
        <4> QED BY <4>1, <4>5
      <3>4. \A i \in inert : i <= k => i <= k - 1 \/ i = k
        BY <1>0
      <3>5. \A i \in inert : i <= k => \E j \in DOMAIN z.queue : z.queue[j].layer = removeIfInert[t][i]
        <4> HIDE DEF z
        <4> SUFFICES ASSUME NEW i \in inert, i <= k
                     PROVE  \E j \in DOMAIN z.queue : z.queue[j].layer = removeIfInert[t][i]
          OBVIOUS
        <4>1. CASE i = k
          BY <4>1, <3>3
        <4>2. CASE i <= k - 1
          <5>1. PICK j \in DOMAIN y.queue : y.queue[j].layer = removeIfInert[t][i]
            BY <4>2, <3>2
          <5> QED BY <5>1, <3>3
        <4> QED BY <4>1, <4>2, <3>4
      <3>6. P(k)
        <4> HIDE DEF z
        <4>1. f[k] = z
          BY <3>1 DEF z
        <4> QED BY <4>1, <3>3, <3>5
      <3> QED BY <3>6, <2>1
    <2> QED BY <2>2, <2>3
  <1>4. n \in S
    <2> HIDE DEF S
    <2>1. \A k \in 0..n : k \in S
      BY <1>0, <1>2, <1>3, UpTo
    <2> QED BY <2>1, <1>0
  <1>5. P(n)
    BY <1>4, <1>0, SMTT(30)
  <1>6. Removed(t, changes[t], inert) = f[n]
    BY <1>0, RemovedExists
  <1> HIDE DEF f
  <1>7. \A i \in inert : i <= n
    BY <1>0
  <1> QED BY <1>5, <1>6, <1>7

-----------------------------------------------------------------------------
(* The invariant                                                           *)

RoundOf == [changes : Queue(Change), next : Nat \ {0}, serial : Nat]

LEMMA Types ==
    ASSUME TypeOK, NEW t \in Thread
    PROVE  /\ rounds[t] \in Seq(RoundOf) /\ Len(rounds[t]) \in Nat
           /\ DOMAIN rounds[t] = 1..Len(rounds[t])
           /\ \A i \in 1..Len(rounds[t]) : rounds[t][i] \in RoundOf
           /\ changes[t] \in Queue(Change) /\ changes[t] \in Queue(Nat)
           /\ made \in Seq(MadeOf) /\ Len(made) \in Nat /\ DOMAIN made = 1..Len(made)
  <1>1. rounds[t] \in Seq(RoundOf) /\ changes[t] \in Queue(Change) /\ made \in Seq(MadeOf)
    BY DEF TypeOK, RoundOf, MadeOf
  <1> QED BY <1>1, WiderQueue

LEMMA EmptyQueue == \A C : \A q \in Queue(C) : (\A i \in DOMAIN q : FALSE) => q = <<>>
  <1> SUFFICES ASSUME NEW C, NEW q \in Queue(C), \A i \in DOMAIN q : FALSE
               PROVE  q = <<>>
    OBVIOUS
  <1>1. q \in Seq(Item(C)) /\ Len(q) \in Nat /\ DOMAIN q = 1..Len(q)
    BY QueueIs DEF Queue, Item
  <1>2. Len(q) = 0
    <2>1. ~ (1 <= Len(q))
      BY <1>1
    <2> QED BY <2>1, <1>1
  <1> QED BY <1>1, <1>2

\* What waits is in a queue, or in a round LayersDidChange was not sent of.
Waits(c) ==
    \E t \in Thread :
        \/ c \in In(changes[t])
        \/ \E i \in 1..Len(rounds[t]) :
              rounds[t][i].serial = 0 /\ c \in In(rounds[t][i].changes)

LEMMA WaitingIs == TypeOK => \A c : (c \in Waiting <=> Waits(c))
  <1> SUFFICES ASSUME TypeOK, NEW c PROVE c \in Waiting <=> Waits(c)
    OBVIOUS
  <1>1. \A t \in Thread : \A i \in DOMAIN rounds[t] :
           c \in In(rounds[t][i].changes) \ Told(rounds[t][i])
           <=> (rounds[t][i].serial = 0 /\ c \in In(rounds[t][i].changes))
    <2> SUFFICES ASSUME NEW t \in Thread, NEW i \in DOMAIN rounds[t]
                 PROVE  c \in In(rounds[t][i].changes) \ Told(rounds[t][i])
                        <=> (rounds[t][i].serial = 0 /\ c \in In(rounds[t][i].changes))
      OBVIOUS
    <2>1. rounds[t][i].serial \in Nat
      BY Types DEF RoundOf
    <2>2. CASE rounds[t][i].serial = 0
      <3>1. Told(rounds[t][i]) = {}
        BY <2>2 DEF Told
      <3> QED BY <3>1, <2>2
    <2>3. CASE rounds[t][i].serial > 0
      <3>1. Told(rounds[t][i]) = In(rounds[t][i].changes)
        BY <2>3 DEF Told
      <3> QED BY <3>1, <2>3
    <2> QED BY <2>1, <2>2, <2>3
  <1>2. \A t \in Thread : DOMAIN rounds[t] = 1..Len(rounds[t])
    BY Types
  <1>3. c \in Waiting <=>
              \E t \in Thread :
                 \/ c \in In(changes[t])
                 \/ \E i \in DOMAIN rounds[t] :
                       c \in In(rounds[t][i].changes) \ Told(rounds[t][i])
    <2> DEFINE W(t) == UNION {In(rounds[t][i].changes) \ Told(rounds[t][i]) :
                                 i \in DOMAIN rounds[t]}
               Q(t) == In(changes[t])
    <2>1. \A t \in Thread : c \in W(t) <=> \E i \in DOMAIN rounds[t] :
                       c \in In(rounds[t][i].changes) \ Told(rounds[t][i])
      OBVIOUS
    <2>2. Waiting = (UNION {Q(t) : t \in Thread}) \cup (UNION {W(t) : t \in Thread})
      BY DEF Waiting
    <2> HIDE DEF W
    <2>3. c \in Waiting <=> \E t \in Thread : (c \in Q(t) \/ c \in W(t))
      <3> HIDE DEF Q
      <3> DEFINE A == UNION {Q(t) : t \in Thread}
                 B == UNION {W(t) : t \in Thread}
      <3>1. c \in A <=> \E t \in Thread : c \in Q(t)
        OBVIOUS
      <3>2. c \in B <=> \E t \in Thread : c \in W(t)
        OBVIOUS
      <3>3. Waiting = A \cup B
        BY <2>2
      <3> HIDE DEF A, B
      <3> QED BY <3>1, <3>2, <3>3
    <2> QED BY <2>1, <2>3
  <1> QED BY <1>1, <1>2, <1>3 DEF Waits

LEMMA WaitingIsNext == TypeOK' => \A c : (c \in Waiting' <=> Waits(c)')
  <1>1. (TypeOK => \A c : (c \in Waiting <=> Waits(c)))'
    BY WaitingIs, PTL
  <1> QED BY <1>1

LEMMA OwnedIn ==
    ASSUME NEW q, NEW t, NEW m, Owned(q, t, m), NEW c \in In(q)
    PROVE  c \in DOMAIN m /\ m[c].thread = t
  BY DEF Owned, In

LEMMA HeardIs ==
    ASSUME TypeOK, MadeInv, RoundsInv, NEW t \in Thread
    PROVE  /\ Heard(t) \subseteq DOMAIN made /\ Heard(t) \subseteq Change
           /\ DOMAIN made \subseteq Change
           /\ \A j : Below(rounds[t], j) = UNION {In(rounds[t][i].changes) : i \in 1..(j - 1)}
  <1>1. \A i \in 1..Len(rounds[t]) : In(rounds[t][i].changes) \subseteq DOMAIN made
    BY OwnedIn DEF RoundsInv
  <1>2. Heard(t) \subseteq DOMAIN made
    <2>1. Len(rounds[t]) + 1 - 1 = Len(rounds[t])
      BY Types
    <2> QED BY <1>1, <2>1 DEF Heard, Below
  <1>3. DOMAIN made \subseteq Change
    BY Types, ChangeConstants DEF MadeInv, Change
  <1> QED BY <1>2, <1>3 DEF Below

\* What holds of the queues and the changes holds when t has made more.
LEMMA GrownInv ==
    ASSUME ChangeInv, NEW t \in Thread, NEW q, NEW m, Len(m) <= MaxChanges,
           Grown(changes[t], made, q, m, t, Heard(t))
    PROVE  /\ m \in Seq(MadeOf) /\ DOMAIN m \subseteq Change /\ DOMAIN made \subseteq DOMAIN m
           /\ \A c \in DOMAIN made : m[c] = made[c]
           /\ \A c \in DOMAIN m : m[c].during \subseteq 1..(c - 1)
           /\ q \in Queue(Change) /\ Owned(q, t, m) /\ After(q, Heard(t), m)
           /\ In(q) \subseteq In(changes[t]) \cup (DOMAIN m \ DOMAIN made)
           /\ \A u \in Thread :
                 /\ Owned(changes[u], u, m) /\ After(changes[u], Heard(u), m)
                 /\ \A j \in 1..Len(rounds[u]) :
                       /\ Owned(rounds[u][j].changes, u, m)
                       /\ After(rounds[u][j].changes, Below(rounds[u], j), m)
  <1>1. /\ TypeOK /\ MadeInv /\ RoundsInv /\ QueuesInv
        /\ Len(made) \in Nat /\ DOMAIN made = 1..Len(made)
        /\ Heard(t) \subseteq DOMAIN made /\ Heard(t) \subseteq Change
    BY Types, HeardIs DEF ChangeInv
  <1>2. /\ m \in Seq(MadeOf) /\ Len(m) \in Nat /\ DOMAIN m = 1..Len(m) /\ Len(made) <= Len(m)
    BY DEF Grown
  <1>3. DOMAIN m \subseteq Change /\ DOMAIN made \subseteq DOMAIN m
        /\ \A c \in DOMAIN m : c \in DOMAIN made \/ (c \in (Len(made) + 1)..Len(m) /\ c > Len(made))
    BY <1>1, <1>2, ChangeConstants DEF Change
  <1>4. \A c \in DOMAIN made : m[c] = made[c]
    BY <1>1 DEF Grown
  <1>5. \A c \in (Len(made) + 1)..Len(m) : m[c].thread = t /\ m[c].during = Heard(t)
    BY DEF Grown
  <1>6. \A c \in DOMAIN m : m[c].during \subseteq 1..(c - 1)
    <2> SUFFICES ASSUME NEW c \in DOMAIN m
                 PROVE  m[c].during \subseteq 1..(c - 1)
      OBVIOUS
    <2>1. CASE c \in DOMAIN made
      BY <2>1, <1>1, <1>4 DEF MadeInv
    <2>2. CASE c \in (Len(made) + 1)..Len(m) /\ c > Len(made)
      <3>1. m[c].during \subseteq 1..Len(made)
        BY <2>2, <1>1, <1>5
      <3>2. 1..Len(made) \subseteq 1..(c - 1)
        BY <2>2, <1>1, <1>2
      <3> QED BY <3>1, <3>2
    <2> QED BY <2>1, <2>2, <1>3
  <1>7. Owned(q, t, m)
    BY DEF Grown
  <1>8. q \in Queue(Change)
    <2>1. q \in Seq(Item(Nat)) /\ q \in Queue(Nat)
      BY DEF Grown, Queue, Item
    <2>2. ASSUME NEW i \in 1..Len(q)
          PROVE  q[i] \in Item(Change)
      <3>1. q[i] \in Item(Nat) /\ i \in DOMAIN q
        BY <2>1
      <3>2. q[i].ids \subseteq Change
        BY <3>1, <1>3, <1>7 DEF Owned
      <3> QED BY <3>1, <3>2 DEF Item
    <2>3. q \in Seq(Item(Change))
      BY <2>1, <2>2
    <2> QED BY <2>3 DEF Queue, Item
  <1>9. In(q) \subseteq In(changes[t]) \cup (DOMAIN m \ DOMAIN made)
    <2>1. In(q) = In(changes[t]) \cup (Len(made) + 1)..Len(m)
      BY DEF Grown
    <2>2. (Len(made) + 1)..Len(m) \subseteq DOMAIN m \ DOMAIN made
      BY <1>1, <1>2
    <2> QED BY <2>1, <2>2
  <1>10. \A u, p : Owned(p, u, made) => Owned(p, u, m)
    BY <1>3, <1>4 DEF Owned
  <1>11. \A u, p, A : Owned(p, u, made) /\ After(p, A, made) => After(p, A, m)
    <2> SUFFICES ASSUME NEW u, NEW p, NEW A, Owned(p, u, made), After(p, A, made)
                 PROVE  After(p, A, m)
      OBVIOUS
    <2>1. \A c \in In(p) : c \in DOMAIN made /\ A \subseteq made[c].during
      BY OwnedIn DEF After
    <2> QED BY <2>1, <1>4 DEF After
  <1>12. \A u \in Thread : Owned(changes[u], u, made) /\ After(changes[u], Heard(u), made)
    BY <1>1 DEF QueuesInv, Heard
  <1>13. \A u \in Thread : \A j \in 1..Len(rounds[u]) :
            /\ Owned(rounds[u][j].changes, u, made)
            /\ After(rounds[u][j].changes, Below(rounds[u], j), made)
    BY <1>1 DEF RoundsInv
  <1>14. After(q, Heard(t), m)
    <2>1. In(q) = In(changes[t]) \cup (Len(made) + 1)..Len(m)
      BY DEF Grown
    <2>2. After(changes[t], Heard(t), m)
      BY <1>11, <1>12
    <2> QED BY <2>1, <2>2, <1>5 DEF After
  <1> QED BY <1>2, <1>3, <1>4, <1>6, <1>7, <1>8, <1>9, <1>10, <1>11, <1>12, <1>13, <1>14

-----------------------------------------------------------------------------
(* A thread makes changes                                                  *)

\* No change of a step waits that is not new, and none is heard of.
OnlyNewWait ==
    /\ heard' = heard
    /\ DOMAIN made \subseteq DOMAIN made' /\ DOMAIN made' \subseteq Change
    /\ \A c \in DOMAIN made : made'[c] = made[c]
    /\ Waiting' \subseteq Waiting \cup (DOMAIN made' \ DOMAIN made)

\* The part of the invariant about the changes, their queues and rounds.
SendingInv ==
    /\ made \in Seq(MadeOf)
    /\ changes \in [Thread -> Queue(Change)]
    /\ rounds \in [Thread -> Seq(RoundOf)]
    /\ MadeInv /\ QueuesInv /\ RoundsInv /\ OnlyListenersOvertake

\* New changes come after those that are heard of.
LEMMA NoneOvertaken ==
    ASSUME ChangeInv, OnlyNewWait, made' \in Seq(MadeOf)
    PROVE  OnlyListenersOvertake'
  <1>1. SUFFICES ASSUME NEW a \in DOMAIN made', NEW b \in DOMAIN made', a < b,
                        made'[a].thread = made'[b].thread, a \in Waiting', b \in heard'
                 PROVE  a \in made'[b].during
    BY DEF OnlyListenersOvertake
  <1>2. b \in DOMAIN made /\ b \in heard /\ heard \subseteq DOMAIN made
    BY <1>1 DEF OnlyNewWait, ChangeInv, MadeInv
  <1>3. a \in DOMAIN made
    <2>1. made \in Seq(MadeOf)
      BY DEF ChangeInv, TypeOK, MadeOf
    <2>2. DOMAIN made = 1..Len(made) /\ Len(made) \in Nat
      BY <2>1
    <2>3. DOMAIN made' = 1..Len(made') /\ Len(made') \in Nat
      OBVIOUS
    <2> QED BY <1>1, <1>2, <2>2, <2>3
  <1>4. a \in Waiting
    BY <1>1, <1>3 DEF OnlyNewWait
  <1> QED BY <1>1, <1>2, <1>3, <1>4 DEF OnlyNewWait, ChangeInv, OnlyListenersOvertake

\* The changes are queued.
LEMMA QueueInv ==
    ASSUME ChangeInv, NEW t \in Thread, NEW q, NEW m, Len(m) <= MaxChanges,
           Grown(changes[t], made, q, m, t, Heard(t)),
           made' = m, heard' = heard, rounds' = rounds,
           changes' = [changes EXCEPT ![t] = q], TypeOK'
    PROVE  SendingInv' /\ OnlyNewWait
  <1>1. /\ m \in Seq(MadeOf) /\ DOMAIN m \subseteq Change /\ DOMAIN made \subseteq DOMAIN m
        /\ \A c \in DOMAIN made : m[c] = made[c]
        /\ \A c \in DOMAIN m : m[c].during \subseteq 1..(c - 1)
        /\ q \in Queue(Change) /\ Owned(q, t, m) /\ After(q, Heard(t), m)
        /\ In(q) \subseteq In(changes[t]) \cup (DOMAIN m \ DOMAIN made)
        /\ \A u \in Thread :
              /\ Owned(changes[u], u, m) /\ After(changes[u], Heard(u), m)
              /\ \A j \in 1..Len(rounds[u]) :
                    /\ Owned(rounds[u][j].changes, u, m)
                    /\ After(rounds[u][j].changes, Below(rounds[u], j), m)
    BY GrownInv
  <1>2. \A u \in Thread : changes'[u] = IF u = t THEN q ELSE changes[u]
    BY DEF ChangeInv, TypeOK
  <1>3. MadeInv'
    BY <1>1 DEF MadeInv, ChangeInv
  <1>4. QueuesInv'
    BY <1>1, <1>2 DEF QueuesInv, Heard
  <1>5. RoundsInv'
    BY <1>1 DEF RoundsInv
  <1>6. OnlyNewWait
    <2>1. ASSUME NEW c \in Waiting'
          PROVE  c \in Waiting \cup (DOMAIN m \ DOMAIN made)
      <3>1. PICK u \in Thread :
                 \/ c \in In(changes'[u])
                 \/ \E i \in 1..Len(rounds[u]) :
                       rounds[u][i].serial = 0 /\ c \in In(rounds[u][i].changes)
        BY <2>1, WaitingIsNext DEF Waits
      <3>2. TypeOK
        BY DEF ChangeInv
      <3>3. CASE c \in In(changes'[u])
        <4>1. c \in In(changes[u]) \/ c \in DOMAIN m \ DOMAIN made
          BY <3>3, <1>1, <1>2
        <4> QED BY <4>1, <3>2, WaitingIs DEF Waits
      <3>4. CASE \E i \in 1..Len(rounds[u]) :
                       rounds[u][i].serial = 0 /\ c \in In(rounds[u][i].changes)
        BY <3>4, <3>2, WaitingIs DEF Waits
      <3> QED BY <3>1, <3>3, <3>4
    <2> QED BY <1>1, <2>1 DEF OnlyNewWait
  <1>7. OnlyListenersOvertake'
    BY <1>1, <1>6, NoneOvertaken
  <1>8. changes' \in [Thread -> Queue(Change)] /\ rounds' \in [Thread -> Seq(RoundOf)]
    BY DEF TypeOK, RoundOf
  <1> QED BY <1>1, <1>3, <1>4, <1>5, <1>6, <1>7, <1>8 DEF SendingInv

LEMMA AboutOwned ==
    ASSUME NEW C, NEW q \in Queue(C), NEW ls
    PROVE  /\ In(About(q, ls)) \subseteq In(q)
           /\ \A t, m : Owned(q, t, m) => Owned(About(q, ls), t, m)
  <1>1. \A i \in DOMAIN About(q, ls) : \E j \in DOMAIN q : About(q, ls)[i] = q[j]
    BY AboutIs
  <1>2. In(About(q, ls)) \subseteq In(q)
    BY <1>1 DEF In
  <1>3. \A t, m : Owned(q, t, m) => Owned(About(q, ls), t, m)
    BY <1>1 DEF Owned
  <1> QED BY <1>2, <1>3

LEMMA BelowSame ==
    ASSUME NEW r, NEW s, NEW j, \A i \in 1..(j - 1) : r[i].changes = s[i].changes
    PROVE  Below(r, j) = Below(s, j)
  <1>1. {In(r[i].changes) : i \in 1..(j - 1)} = {In(s[i].changes) : i \in 1..(j - 1)}
    OBVIOUS
  <1> QED BY <1>1 DEF Below

LEMMA SendTypes ==
    ASSUME TypeOK, NEW t \in Thread, NEW q \in Queue(Change), SendNotices(t, q)
    PROVE  /\ changes' \in [Thread -> Queue(Change)]
           /\ rounds' \in [Thread -> Seq(RoundOf)]
           /\ changes'[t] = <<>>
           /\ \A u \in Thread : u # t => changes'[u] = changes[u] /\ rounds'[u] = rounds[u]
           /\ \/ rounds'[t] = rounds[t] /\ Live(q) = <<>>
              \/ rounds'[t] = Append(rounds[t], [changes |-> Live(q), next |-> 1, serial |-> 0])
           /\ Live(q) \in Queue(Change)
  <1> DEFINE r == [changes |-> Live(q), next |-> 1, serial |-> 0]
  <1>1. changes \in [Thread -> Queue(Change)] /\ rounds \in [Thread -> Seq(RoundOf)]
    BY DEF TypeOK, RoundOf
  <1>2. Live(q) \in Queue(Change)
    BY AboutIs DEF Live
  <1>3. r \in RoundOf
    BY <1>2 DEF RoundOf
  <1>4. /\ changes' = [changes EXCEPT ![t] = <<>>]
        /\ rounds' = IF Live(q) = <<>> THEN rounds
                     ELSE [rounds EXCEPT ![t] = Append(rounds[t], r)]
    BY DEF SendNotices
  <1> HIDE DEF r
  <1>5. changes' \in [Thread -> Queue(Change)] /\ changes'[t] = <<>>
        /\ \A u \in Thread : u # t => changes'[u] = changes[u]
    BY <1>1, <1>4, NoQueue
  <1>6. rounds' \in [Thread -> Seq(RoundOf)]
        /\ \A u \in Thread : u # t => rounds'[u] = rounds[u]
    BY <1>1, <1>3, <1>4
  <1>7. \/ rounds'[t] = rounds[t] /\ Live(q) = <<>>
        \/ rounds'[t] = Append(rounds[t], r)
    BY <1>1, <1>4
  <1> QED BY <1>2, <1>5, <1>6, <1>7 DEF r

\* The changes are sent: the notices of all the rounds before are being sent.
LEMMA SendInv ==
    ASSUME ChangeInv, NEW t \in Thread, NEW q, NEW m, Len(m) <= MaxChanges,
           Grown(changes[t], made, q, m, t, Heard(t)),
           made' = m, heard' = heard, SendNotices(t, q), TypeOK'
    PROVE  SendingInv' /\ OnlyNewWait
  <1>1. /\ m \in Seq(MadeOf) /\ DOMAIN m \subseteq Change /\ DOMAIN made \subseteq DOMAIN m
        /\ \A c \in DOMAIN made : m[c] = made[c]
        /\ \A c \in DOMAIN m : m[c].during \subseteq 1..(c - 1)
        /\ q \in Queue(Change) /\ Owned(q, t, m) /\ After(q, Heard(t), m)
        /\ In(q) \subseteq In(changes[t]) \cup (DOMAIN m \ DOMAIN made)
        /\ \A u \in Thread :
              /\ Owned(changes[u], u, m) /\ After(changes[u], Heard(u), m)
              /\ \A j \in 1..Len(rounds[u]) :
                    /\ Owned(rounds[u][j].changes, u, m)
                    /\ After(rounds[u][j].changes, Below(rounds[u], j), m)
    BY GrownInv
  <1>2. TypeOK
    BY DEF ChangeInv
  <1> DEFINE live == Live(q)
             n == Len(rounds[t])
  <1>3. /\ changes' \in [Thread -> Queue(Change)] /\ rounds' \in [Thread -> Seq(RoundOf)]
        /\ changes'[t] = <<>>
        /\ \A u \in Thread : u # t => changes'[u] = changes[u] /\ rounds'[u] = rounds[u]
        /\ \/ rounds'[t] = rounds[t]
           \/ rounds'[t] = Append(rounds[t], [changes |-> live, next |-> 1, serial |-> 0])
    BY <1>1, <1>2, SendTypes
  <1>4. In(live) \subseteq In(q) /\ Owned(live, t, m)
    BY <1>1, AboutOwned DEF Live
  <1> HIDE DEF live
  <1>5. MadeInv'
    BY <1>1 DEF MadeInv, ChangeInv
  <1>6. DOMAIN <<>> = {} /\ In(<<>>) = {}
    BY DEF In
  <1>7. n \in Nat /\ rounds[t] \in Seq(RoundOf)
    BY <1>2, Types
  <1>8. ASSUME rounds'[t] = rounds[t]
        PROVE  RoundsInv' /\ QueuesInv'
    <2>1. \A u \in Thread : rounds'[u] = rounds[u]
      BY <1>3, <1>8
    <2>2. RoundsInv'
      BY <1>1, <2>1 DEF RoundsInv
    <2>3. QueuesInv'
      <3> SUFFICES ASSUME NEW u \in Thread
                   PROVE  Owned(changes'[u], u, m) /\ After(changes'[u], Heard(u), m)
        BY <2>1 DEF QueuesInv, Heard
      <3>1. CASE u = t
        BY <3>1, <1>3, <1>6 DEF Owned, After
      <3>2. CASE u # t
        BY <3>2, <1>1, <1>3
      <3> QED BY <3>1, <3>2
    <2> QED BY <2>2, <2>3
  <1>9. ASSUME rounds'[t] = Append(rounds[t], [changes |-> live, next |-> 1, serial |-> 0])
        PROVE  RoundsInv' /\ QueuesInv'
    <2>1. /\ Len(rounds'[t]) = n + 1 /\ rounds'[t][n + 1].changes = live
          /\ \A i \in 1..n : rounds'[t][i] = rounds[t][i]
      BY <1>7, <1>9
    <2>2. \A j \in 1..(n + 1) : Below(rounds'[t], j) = Below(rounds[t], j)
      <3> SUFFICES ASSUME NEW j \in 1..(n + 1)
                   PROVE  Below(rounds'[t], j) = Below(rounds[t], j)
        OBVIOUS
      <3>1. \A i \in 1..(j - 1) : rounds'[t][i].changes = rounds[t][i].changes
        BY <2>1, <1>7
      <3> QED BY <3>1, BelowSame
    <2>3. RoundsInv'
      <3> SUFFICES ASSUME NEW u \in Thread, NEW j \in 1..Len(rounds'[u])
                   PROVE  /\ Owned(rounds'[u][j].changes, u, m)
                          /\ After(rounds'[u][j].changes, Below(rounds'[u], j), m)
        BY DEF RoundsInv
      <3>1. CASE u # t
        BY <3>1, <1>1, <1>3
      <3>2. CASE u = t /\ j \in 1..n
        <4>1. rounds'[u][j] = rounds[u][j] /\ Below(rounds'[u], j) = Below(rounds[u], j)
          BY <3>2, <2>1, <2>2, <1>7
        <4> QED BY <4>1, <3>2, <1>1
      <3>3. CASE u = t /\ j = n + 1
        <4>1. rounds'[u][j].changes = live /\ Below(rounds'[u], j) = Heard(t)
          BY <3>3, <2>1, <2>2, <1>7 DEF Heard
        <4>2. After(live, Heard(t), m)
          BY <1>1, <1>4 DEF After
        <4> QED BY <4>1, <4>2, <3>3, <1>4
      <3> QED BY <3>1, <3>2, <3>3, <2>1, <1>7
    <2>4. QueuesInv'
      <3> SUFFICES ASSUME NEW u \in Thread
                   PROVE  /\ Owned(changes'[u], u, m)
                          /\ After(changes'[u], Below(rounds'[u], Len(rounds'[u]) + 1), m)
        BY DEF QueuesInv
      <3>1. CASE u = t
        BY <3>1, <1>3, <1>6 DEF Owned, After
      <3>2. CASE u # t
        BY <3>2, <1>1, <1>3 DEF Heard
      <3> QED BY <3>1, <3>2
    <2> QED BY <2>3, <2>4
  <1>10. OnlyNewWait
    <2>1. ASSUME NEW c \in Waiting'
          PROVE  c \in Waiting \cup (DOMAIN m \ DOMAIN made)
      <3>1. PICK u \in Thread :
                 \/ c \in In(changes'[u])
                 \/ \E i \in 1..Len(rounds'[u]) :
                       rounds'[u][i].serial = 0 /\ c \in In(rounds'[u][i].changes)
        BY <2>1, WaitingIsNext DEF Waits
      <3>2. CASE c \in In(changes'[u])
        <4>1. u # t
          BY <3>2, <1>3, <1>6
        <4> QED BY <4>1, <3>2, <1>2, <1>3, WaitingIs DEF Waits
      <3>3. ASSUME NEW i \in 1..Len(rounds'[u]),
                   rounds'[u][i].serial = 0, c \in In(rounds'[u][i].changes)
            PROVE  c \in Waiting \cup (DOMAIN m \ DOMAIN made)
        <4>1. CASE i \in 1..Len(rounds[u]) /\ rounds'[u][i] = rounds[u][i]
          BY <4>1, <3>3, <1>2, WaitingIs DEF Waits
        <4>2. CASE u = t /\ rounds'[u][i].changes = live
          <5>1. c \in In(changes[t]) \/ c \in DOMAIN m \ DOMAIN made
            BY <4>2, <3>3, <1>1, <1>4
          <5> QED BY <5>1, <1>2, WaitingIs DEF Waits
        <4>3. CASE u # t \/ rounds'[t] = rounds[t]
          BY <4>1, <4>3, <1>3
        <4>4. CASE u = t /\ rounds'[t] = Append(rounds[t], [changes |-> live, next |-> 1, serial |-> 0])
          <5>1. i \in 1..n \/ i = n + 1
            BY <4>4, <1>7
          <5> QED BY <5>1, <4>1, <4>2, <4>4, <1>7
        <4> QED BY <4>3, <4>4, <1>3
      <3> QED BY <3>1, <3>2, <3>3
    <2> QED BY <1>1, <2>1 DEF OnlyNewWait
  <1>11. OnlyListenersOvertake'
    BY <1>1, <1>10, NoneOvertaken
  <1> QED BY <1>1, <1>3, <1>5, <1>8, <1>9, <1>10, <1>11 DEF SendingInv

-----------------------------------------------------------------------------
(* The other steps                                                         *)

\* Queues that shrink, and rounds that end, keep their order.
LEMMA OrderKept ==
    ASSUME ChangeInv, made' = made,
           \A u \in Thread : In(changes'[u]) \subseteq In(changes[u]) /\ Owned(changes'[u], u, made),
           \A u \in Thread :
              /\ Len(rounds'[u]) \in Nat /\ Len(rounds'[u]) <= Len(rounds[u])
              /\ \A i \in 1..Len(rounds'[u]) : rounds'[u][i].changes = rounds[u][i].changes
    PROVE  QueuesInv' /\ RoundsInv'
  <1>1. \A u \in Thread : Len(rounds[u]) \in Nat
    BY Types DEF ChangeInv
  <1>2. \A u \in Thread : \A j \in 1..(Len(rounds'[u]) + 1) : Below(rounds'[u], j) = Below(rounds[u], j)
    <2> SUFFICES ASSUME NEW u \in Thread, NEW j \in 1..(Len(rounds'[u]) + 1)
                 PROVE  Below(rounds'[u], j) = Below(rounds[u], j)
      OBVIOUS
    <2>1. \A i \in 1..(j - 1) : rounds'[u][i].changes = rounds[u][i].changes
      BY <1>1
    <2> QED BY <2>1, BelowSame
  <1>3. RoundsInv'
    <2> SUFFICES ASSUME NEW u \in Thread, NEW j \in 1..Len(rounds'[u])
                 PROVE  /\ Owned(rounds'[u][j].changes, u, made)
                        /\ After(rounds'[u][j].changes, Below(rounds'[u], j), made)
      BY DEF RoundsInv
    <2>1. j \in 1..Len(rounds[u]) /\ j \in 1..(Len(rounds'[u]) + 1)
      BY <1>1
    <2>2. rounds'[u][j].changes = rounds[u][j].changes /\ Below(rounds'[u], j) = Below(rounds[u], j)
      BY <2>1, <1>2
    <2> QED BY <2>1, <2>2 DEF ChangeInv, RoundsInv
  <1>4. QueuesInv'
    <2> SUFFICES ASSUME NEW u \in Thread
                 PROVE  /\ Owned(changes'[u], u, made)
                        /\ After(changes'[u], Below(rounds'[u], Len(rounds'[u]) + 1), made)
      BY DEF QueuesInv
    <2>1. Below(rounds'[u], Len(rounds'[u]) + 1) = Below(rounds[u], Len(rounds'[u]) + 1)
      BY <1>2
    <2>2. 1..(Len(rounds'[u]) + 1 - 1) \subseteq 1..(Len(rounds[u]) + 1 - 1)
      BY <1>1
    <2>3. Below(rounds[u], Len(rounds'[u]) + 1) \subseteq Below(rounds[u], Len(rounds[u]) + 1)
      BY <2>2 DEF Below
    <2>4. After(changes[u], Below(rounds[u], Len(rounds[u]) + 1), made)
      BY DEF ChangeInv, QueuesInv
    <2> QED BY <2>1, <2>3, <2>4 DEF After
  <1> QED BY <1>3, <1>4

\* Nothing is queued, sent or heard of.
LEMMA SameSending ==
    ASSUME ChangeInv, UNCHANGED <<changes, rounds, made, heard>>
    PROVE  SendingInv' /\ OnlyNewWait
  <1>1. Waiting' = Waiting
    BY DEF Waiting
  <1>2. SendingInv
    BY DEF ChangeInv, SendingInv, TypeOK, MadeOf, RoundOf
  <1>3. MadeInv' /\ QueuesInv' /\ RoundsInv'
    BY <1>2 DEF SendingInv, MadeInv, QueuesInv, RoundsInv
  <1>4. OnlyListenersOvertake'
    BY <1>1, <1>2 DEF SendingInv, OnlyListenersOvertake
  <1>5. OnlyNewWait
    <2>1. DOMAIN made = 1..Len(made) /\ Len(made) \in Nat /\ Len(made) <= MaxChanges
      BY DEF ChangeInv, TypeOK, MadeInv
    <2>2. DOMAIN made \subseteq Change
      BY <2>1, ChangeConstants DEF Change
    <2> QED BY <1>1, <2>2 DEF OnlyNewWait
  <1> QED BY <1>2, <1>3, <1>4, <1>5 DEF SendingInv

\* What waits or is in a round becomes less.
LEMMA LessWaits ==
    ASSUME ChangeInv, TypeOK', made' = made, heard' = heard,
           \A u \in Thread : In(changes'[u]) \subseteq In(changes[u]) /\ Owned(changes'[u], u, made),
           \A u \in Thread :
              /\ Len(rounds'[u]) <= Len(rounds[u])
              /\ \A i \in 1..Len(rounds'[u]) :
                    /\ rounds'[u][i].changes = rounds[u][i].changes
                    /\ rounds'[u][i].serial = rounds[u][i].serial
    PROVE  SendingInv' /\ OnlyNewWait
  <1>1. \A u \in Thread : Len(rounds'[u]) \in Nat /\ Len(rounds[u]) \in Nat
    BY DEF TypeOK, ChangeInv
  <1>2. QueuesInv' /\ RoundsInv'
    BY <1>1, OrderKept
  <1>3. MadeInv'
    BY DEF ChangeInv, MadeInv
  <1>4. Waiting' \subseteq Waiting
    <2> SUFFICES ASSUME NEW c \in Waiting'
                 PROVE  c \in Waiting
      OBVIOUS
    <2>1. PICK u \in Thread :
                 \/ c \in In(changes'[u])
                 \/ \E i \in 1..Len(rounds'[u]) :
                       rounds'[u][i].serial = 0 /\ c \in In(rounds'[u][i].changes)
      BY WaitingIsNext DEF Waits
    <2>2. \A i \in 1..Len(rounds'[u]) : i \in 1..Len(rounds[u])
      BY <1>1
    <2> QED BY <2>1, <2>2, WaitingIs DEF Waits, ChangeInv
  <1>5. OnlyNewWait
    <2>1. DOMAIN made = 1..Len(made) /\ Len(made) \in Nat /\ Len(made) <= MaxChanges
      BY DEF ChangeInv, TypeOK, MadeInv
    <2>2. DOMAIN made \subseteq Change
      BY <2>1, ChangeConstants DEF Change
    <2> QED BY <1>4, <2>2 DEF OnlyNewWait
  <1>6. OnlyListenersOvertake'
    <2>1. made' \in Seq(MadeOf)
      BY DEF ChangeInv, TypeOK, MadeOf
    <2> QED BY <2>1, <1>5, NoneOvertaken
  <1> QED BY <1>2, <1>3, <1>5, <1>6 DEF SendingInv, TypeOK, RoundOf, MadeOf

\* The listeners hear of the changes that waited in a round.
RoundHeard ==
    /\ made' = made
    /\ \E ids \in SUBSET Waiting : heard' = heard \cup ids /\ Waiting' \subseteq Waiting \ ids

LEMMA TopRound ==
    ASSUME TypeOK, NEW t \in Thread, Sending(t)
    PROVE  /\ Len(rounds[t]) \in Nat /\ Len(rounds[t]) > 0 /\ Len(rounds[t]) \in 1..Len(rounds[t])
           /\ Round(t) = rounds[t][Len(rounds[t])] /\ Round(t) \in RoundOf
  <1>1. rounds[t] \in Seq(RoundOf) /\ rounds[t] # <<>>
    BY Types DEF Sending
  <1>2. Len(rounds[t]) \in Nat /\ Len(rounds[t]) > 0 /\ Len(rounds[t]) \in 1..Len(rounds[t])
    BY <1>1
  <1> QED BY <1>1, <1>2, Types DEF Round

LEMMA SetRoundIs ==
    ASSUME TypeOK, NEW t \in Thread, Sending(t), NEW r \in RoundOf, SetRound(t, r)
    PROVE  /\ rounds' \in [Thread -> Seq(RoundOf)]
           /\ \A u \in Thread : Len(rounds'[u]) = Len(rounds[u])
           /\ rounds'[t][Len(rounds[t])] = r
           /\ \A u \in Thread : \A i \in 1..Len(rounds[u]) :
                 ~ (u = t /\ i = Len(rounds[t])) => rounds'[u][i] = rounds[u][i]
  <1>1. rounds \in [Thread -> Seq(RoundOf)]
    BY DEF TypeOK, RoundOf
  <1> DEFINE n == Len(rounds[t])
             s == [rounds[t] EXCEPT ![n] = r]
  <1>2. rounds' = [rounds EXCEPT ![t] = s]
    BY <1>1 DEF SetRound
  <1>3. n \in 1..Len(rounds[t]) /\ rounds[t] \in Seq(RoundOf)
    BY TopRound, Types
  <1>4. /\ s \in Seq(RoundOf) /\ Len(s) = n /\ s[n] = r
        /\ \A i \in 1..n : i # n => s[i] = rounds[t][i]
    BY <1>3
  <1> HIDE DEF s
  <1> QED BY <1>1, <1>2, <1>3, <1>4

\* LayersDidChange tells of the changes of the round for the only time.
LEMMA AllInv ==
    ASSUME ChangeInv, NEW t \in Thread, NotifyAll(t), TypeOK'
    PROVE  SendingInv' /\ RoundHeard
  <1> DEFINE n == Len(rounds[t])
             r == [Round(t) EXCEPT !.serial = serialNumber, !.next = 1]
             ids == In(Round(t).changes)
  <1>1. TypeOK /\ MadeInv /\ RoundsInv /\ QueuesInv /\ NothingStuck /\ OnlyListenersOvertake
    BY DEF ChangeInv
  <1>2. /\ Sending(t) /\ Round(t).serial = 0 /\ heard' = heard \cup ids
        /\ made' = made /\ changes' = changes /\ SetRound(t, r)
    BY DEF NotifyAll, queues
  <1>3. /\ n \in Nat /\ n \in 1..n /\ Round(t) = rounds[t][n] /\ Round(t) \in RoundOf
    BY <1>1, <1>2, TopRound
  <1>4. r \in RoundOf /\ r.changes = Round(t).changes /\ r.serial > 0
    <2> DEFINE r1 == [Round(t) EXCEPT !.serial = serialNumber]
               r2 == [r1 EXCEPT !.next = 1]
    <2>1. serialNumber \in Nat /\ serialNumber > 0
      BY <1>1 DEF TypeOK
    <2>2. r1 \in RoundOf /\ r1.changes = Round(t).changes /\ r1.serial = serialNumber
      BY <2>1, <1>3 DEF RoundOf
    <2>3. r = r2
      OBVIOUS
    <2> HIDE DEF r1, r
    <2>4. r2 \in RoundOf /\ r2.changes = r1.changes /\ r2.serial = r1.serial
      BY <2>2 DEF RoundOf
    <2> HIDE DEF r2
    <2> QED BY <2>1, <2>2, <2>3, <2>4
  <1> HIDE DEF r
  <1>5. /\ rounds' \in [Thread -> Seq(RoundOf)]
        /\ \A u \in Thread : Len(rounds'[u]) = Len(rounds[u])
        /\ rounds'[t][n] = r
        /\ \A u \in Thread : \A i \in 1..Len(rounds[u]) :
              ~ (u = t /\ i = n) => rounds'[u][i] = rounds[u][i]
    BY <1>1, <1>2, <1>4, SetRoundIs
  <1>6. \A u \in Thread : \A i \in 1..Len(rounds[u]) : rounds'[u][i].changes = rounds[u][i].changes
    BY <1>3, <1>4, <1>5
  <1>7. \A u \in Thread : Owned(changes[u], u, made)
    BY <1>1 DEF QueuesInv
  <1>8. QueuesInv' /\ RoundsInv'
    <2>1. \A u \in Thread : Len(rounds'[u]) \in Nat
      BY <1>1, <1>5, Types
    <2> QED BY <2>1, <1>2, <1>5, <1>6, <1>7, OrderKept
  <1>9. Owned(Round(t).changes, t, made) /\ After(Round(t).changes, Below(rounds[t], n), made)
    BY <1>1, <1>3 DEF RoundsInv
  <1>10. \A c \in ids : c \in DOMAIN made /\ made[c].thread = t
    BY <1>9, OwnedIn
  <1>11. ids \subseteq Waiting
    BY <1>1, <1>2, <1>3, WaitingIs DEF Waits
  \* What the thread still has to tell of, it has in the rounds outside this one.
  <1>12. ASSUME NEW c \in Waiting'
         PROVE  /\ c \in Waiting /\ c \in DOMAIN made
                /\ made[c].thread = t => c \in Below(rounds[t], n)
    <2>1. PICK u \in Thread :
                 \/ c \in In(changes[u])
                 \/ \E i \in 1..Len(rounds[u]) :
                       rounds'[u][i].serial = 0 /\ c \in In(rounds[u][i].changes)
      <3>1. PICK u \in Thread :
                 \/ c \in In(changes[u])
                 \/ \E i \in 1..Len(rounds'[u]) :
                       rounds'[u][i].serial = 0 /\ c \in In(rounds'[u][i].changes)
        BY <1>2, <1>12, WaitingIsNext DEF Waits
      <3> QED BY <3>1, <1>5, <1>6
    <2>2. CASE c \in In(changes[u])
      <3>1. c \in Waiting /\ c \in DOMAIN made /\ made[c].thread = u
        BY <2>2, <1>1, <1>7, WaitingIs, OwnedIn DEF Waits
      <3>2. u # t
        <4>1. changes[t] = <<>>
          BY <1>1, <1>2 DEF NothingStuck, Sending
        <4>2. In(<<>>) = {}
          BY DEF In
        <4> QED BY <4>1, <4>2, <2>2
      <3> QED BY <3>1, <3>2
    <2>3. ASSUME NEW i \in 1..Len(rounds[u]),
                 rounds'[u][i].serial = 0, c \in In(rounds[u][i].changes)
          PROVE  /\ c \in Waiting /\ c \in DOMAIN made
                 /\ made[c].thread = t => c \in Below(rounds[t], n)
      <3>1. ~ (u = t /\ i = n) /\ rounds'[u][i] = rounds[u][i]
        BY <2>3, <1>4, <1>5
      <3>2. c \in Waiting
        BY <3>1, <2>3, <1>1, WaitingIs DEF Waits
      <3>3. c \in DOMAIN made /\ made[c].thread = u
        BY <2>3, <1>1, OwnedIn DEF RoundsInv
      <3>4. made[c].thread = t => c \in Below(rounds[t], n)
        <4> SUFFICES ASSUME u = t
                     PROVE  c \in Below(rounds[t], n)
          BY <3>3
        <4>1. i \in 1..(n - 1)
          BY <3>1, <1>3
        <4> QED BY <4>1, <2>3 DEF Below
      <3> QED BY <3>2, <3>3, <3>4
    <2> QED BY <2>1, <2>2, <2>3
  <1>13. RoundHeard
    <2>1. ASSUME NEW c \in Waiting', c \in ids
          PROVE  FALSE
      <3>1. c \in Below(rounds[t], n) /\ c \in DOMAIN made
        BY <2>1, <1>10, <1>12
      <3>2. c \in made[c].during
        BY <3>1, <2>1, <1>9 DEF After
      <3>3. c \in 1..(c - 1) /\ c \in Nat
        <4>1. DOMAIN made = 1..Len(made)
          BY <1>1, Types
        <4> QED BY <4>1, <3>1, <3>2, <1>1 DEF MadeInv
      <3> QED BY <3>3
    <2>2. Waiting' \subseteq Waiting \ ids
      BY <2>1, <1>12
    <2> QED BY <2>2, <1>2, <1>11 DEF RoundHeard
  <1>14. OnlyListenersOvertake'
    <2> SUFFICES ASSUME NEW a \in DOMAIN made, NEW b \in DOMAIN made, a < b,
                        made[a].thread = made[b].thread, a \in Waiting', b \in heard'
                 PROVE  a \in made[b].during
      BY <1>2 DEF OnlyListenersOvertake
    <2>1. CASE b \in heard
      BY <2>1, <1>1, <1>12 DEF OnlyListenersOvertake
    <2>2. CASE b \in ids
      <3>1. a \in Below(rounds[t], n)
        BY <2>2, <1>10, <1>12
      <3> QED BY <3>1, <2>2, <1>9 DEF After
    <2> QED BY <2>1, <2>2, <1>2
  <1>15. MadeInv'
    BY <1>1, <1>2, <1>10 DEF MadeInv
  <1> QED BY <1>5, <1>8, <1>13, <1>14, <1>15 DEF SendingInv, TypeOK, MadeOf

-----------------------------------------------------------------------------
(* Every step                                                              *)

LEMMA EditInv ==
    ASSUME ChangeInv, NEW t \in Thread, NEW l \in Layer, Edit(t, l)
    PROVE  ChangeInv' /\ OnlyNewWait
  <1>1. TypeOK /\ MadeInv /\ RoundsInv /\ QueuesInv /\ NothingStuck
    BY DEF ChangeInv
  <1>2. /\ Heard(t) \subseteq Change /\ changes[t] \in Queue(Nat) /\ changes[t] \in Queue(Change)
        /\ made \in Seq(MadeOf) /\ Len(made) \in Nat /\ Owned(changes[t], t, made)
    BY <1>1, HeardIs, Types DEF QueuesInv
  <1> DEFINE x == [queue |-> changes[t], made |-> made]
  <1>3. PICK r : r = WithChange(x, t, l)
    OBVIOUS
  <1>4. Grown(changes[t], made, x.queue, x.made, t, Heard(t))
    <2>1. (Len(made) + 1)..Len(made) = {}
      BY <1>2
    <2> QED BY <2>1, <1>2 DEF Grown
  <1>5. Grown(changes[t], made, r.queue, r.made, t, Heard(t)) /\ Len(r.made) = Len(made) + 1
    <2>1. x.made = made
      OBVIOUS
    <2> HIDE DEF x
    <2> QED BY <1>1, <1>2, <1>3, <1>4, <2>1, GrowsBy
  <1>6. /\ layers' = layers /\ dirty' = dirty \cup {(l)} /\ l \in layers /\ lastDirty' = lastDirty
        /\ blocks' = blocks /\ removeIfInert' = removeIfInert /\ serialNumber' = serialNumber
        /\ heard' = heard /\ aborted' = aborted /\ made' = r.made /\ Len(made) + 1 <= MaxChanges
        /\ \/ blocks[t] = 0 /\ SendNotices(t, r.queue)
           \/ /\ blocks[t] # 0 /\ rounds' = rounds
              /\ changes' = [changes EXCEPT ![t] = r.queue]
    BY <1>3 DEF Edit, Room
  <1>7. r.queue \in Queue(Change) /\ r.made \in Seq(MadeOf) /\ Len(r.made) <= MaxChanges
        /\ DOMAIN r.made \subseteq Change
    <2>1. Len(r.made) <= MaxChanges
      BY <1>5, <1>6
    <2> QED BY <2>1, <1>5, GrownInv
  <1>8. CASE blocks[t] = 0 /\ SendNotices(t, r.queue)
    <2>1. /\ changes' \in [Thread -> Queue(Change)] /\ rounds' \in [Thread -> Seq(RoundOf)]
          /\ changes'[t] = <<>> /\ \A u \in Thread : u # t => changes'[u] = changes[u]
      BY <1>1, <1>7, <1>8, SendTypes
    <2>2. TypeOK'
      BY <1>1, <1>6, <1>7, <2>1 DEF TypeOK, RoundOf, MadeOf
    <2>3. NothingStuck'
      BY <1>1, <1>6, <1>8, <2>1 DEF NothingStuck
    <2>4. SendingInv' /\ OnlyNewWait
      BY <1>5, <1>6, <1>7, <1>8, <2>2, SendInv
    <2> QED BY <2>2, <2>3, <2>4 DEF ChangeInv, SendingInv
  <1>9. CASE blocks[t] # 0 /\ rounds' = rounds /\ changes' = [changes EXCEPT ![t] = r.queue]
    <2>1. changes' \in [Thread -> Queue(Change)] /\ \A u \in Thread : u # t => changes'[u] = changes[u]
      BY <1>1, <1>7, <1>9 DEF TypeOK
    <2>2. TypeOK'
      BY <1>1, <1>6, <1>7, <1>9, <2>1 DEF TypeOK, MadeOf
    <2>3. NothingStuck'
      BY <1>1, <1>6, <1>9, <2>1 DEF NothingStuck
    <2>4. SendingInv' /\ OnlyNewWait
      BY <1>5, <1>6, <1>7, <1>9, <2>2, QueueInv
    <2> QED BY <2>2, <2>3, <2>4 DEF ChangeInv, SendingInv
  <1> QED BY <1>6, <1>8, <1>9

LEMMA CloseBlockInv ==
    ASSUME ChangeInv, NEW t \in Thread, CloseBlock(t)
    PROVE  ChangeInv' /\ OnlyNewWait
  <1>1. TypeOK /\ MadeInv /\ RoundsInv /\ QueuesInv /\ NothingStuck
    BY DEF ChangeInv
  <1>2. Heard(t) \subseteq Change /\ Owned(changes[t], t, made)
    BY <1>1, HeardIs DEF QueuesInv
  <1>3. PICK inert \in SUBSET (DOMAIN removeIfInert[t]) :
              /\ Len(Removed(t, changes[t], inert).made) <= MaxChanges
              /\ made' = Removed(t, changes[t], inert).made
              /\ dirty' = dirty \cup {removeIfInert[t][i] : i \in inert}
              /\ SendNotices(t, Removed(t, changes[t], inert).queue)
    BY DEF CloseBlock
  <1>4. PICK r : r = Removed(t, changes[t], inert)
    OBVIOUS
  <1>5. Grown(changes[t], made, r.queue, r.made, t, Heard(t))
    BY <1>1, <1>2, <1>4, RemovedGrows
  <1>6. /\ layers' = layers /\ lastDirty' = lastDirty
        /\ blocks' = [blocks EXCEPT ![t] = 0] /\ removeIfInert' = [removeIfInert EXCEPT ![t] = <<>>]
        /\ serialNumber' = serialNumber /\ heard' = heard /\ aborted' = aborted
        /\ made' = r.made /\ Len(r.made) <= MaxChanges /\ SendNotices(t, r.queue)
    BY <1>3, <1>4 DEF CloseBlock
  <1>7. r.queue \in Queue(Change) /\ r.made \in Seq(MadeOf) /\ DOMAIN r.made \subseteq Change
    BY <1>5, <1>6, GrownInv
  <1>8. /\ changes' \in [Thread -> Queue(Change)] /\ rounds' \in [Thread -> Seq(RoundOf)]
        /\ changes'[t] = <<>> /\ \A u \in Thread : u # t => changes'[u] = changes[u]
    BY <1>1, <1>6, <1>7, SendTypes
  <1>9. dirty' \subseteq Layer
    <2>1. \A i \in DOMAIN removeIfInert[t] : removeIfInert[t][i] \in Layer
      BY <1>1 DEF TypeOK
    <2> QED BY <2>1, <1>1, <1>3 DEF TypeOK
  <1>10. /\ removeIfInert' \in [Thread -> Seq(Layer)] /\ blocks' \in [Thread -> 0..MaxBlocks]
         /\ removeIfInert'[t] = <<>>
         /\ \A u \in Thread : u # t => removeIfInert'[u] = removeIfInert[u] /\ blocks'[u] = blocks[u]
    <2>1. <<>> \in Seq(Layer) /\ 0 \in 0..MaxBlocks
      BY ChangeConstants
    <2> QED BY <2>1, <1>1, <1>6 DEF TypeOK
  <1>11. TypeOK'
    BY <1>1, <1>6, <1>7, <1>8, <1>9, <1>10 DEF TypeOK, RoundOf, MadeOf
  <1>12. NothingStuck'
    BY <1>1, <1>8, <1>10 DEF NothingStuck
  <1>13. SendingInv' /\ OnlyNewWait
    BY <1>5, <1>6, <1>11, SendInv
  <1> QED BY <1>11, <1>12, <1>13 DEF ChangeInv, SendingInv

LEMMA CreateDiffInv ==
    ASSUME ChangeInv, NEW t \in Thread, NEW l \in Layer, CreateDiff(t, l)
    PROVE  ChangeInv' /\ OnlyNewWait
  <1> DEFINE q == About(changes[t], Layer \ {(l)})
  <1>1. TypeOK /\ QueuesInv /\ NothingStuck /\ changes[t] \in Queue(Change)
    BY Types DEF ChangeInv
  <1>2. changes' = [changes EXCEPT ![t] = q]
        /\ UNCHANGED <<layers, dirty, lastDirty, blocks, removeIfInert, rounds,
                       serialNumber, made, heard, aborted>>
    BY DEF CreateDiff
  <1>3. q \in Queue(Change) /\ In(q) \subseteq In(changes[t])
        /\ (Owned(changes[t], t, made) => Owned(q, t, made))
    BY <1>1, AboutIs, AboutOwned
  <1>4. changes[t] = <<>> => q = <<>>
    <2>1. \A i \in DOMAIN q : \E j \in DOMAIN changes[t] : TRUE
      BY <1>1, AboutIs
    <2> HIDE DEF q
    <2>2. changes[t] = <<>> => \A i \in DOMAIN q : FALSE
      BY <2>1
    <2> QED BY <2>2, <1>3, EmptyQueue
  <1> HIDE DEF q
  <1>5. \A u \in Thread : changes'[u] = IF u = t THEN q ELSE changes[u]
    BY <1>1, <1>2 DEF TypeOK
  <1>6. TypeOK'
    BY <1>1, <1>2, <1>3 DEF TypeOK
  <1>7. NothingStuck'
    BY <1>1, <1>2, <1>4, <1>5 DEF NothingStuck
  <1>8. \A u \in Thread : In(changes'[u]) \subseteq In(changes[u]) /\ Owned(changes'[u], u, made)
    BY <1>1, <1>3, <1>5 DEF QueuesInv
  <1>9. SendingInv' /\ OnlyNewWait
    <2>1. \A u \in Thread : Len(rounds'[u]) <= Len(rounds[u])
      <3>1. \A u \in Thread : Len(rounds[u]) \in Nat
        BY <1>1, Types
      <3> QED BY <3>1, <1>2
    <2> QED BY <1>2, <1>6, <1>8, <2>1, LessWaits
  <1> QED BY <1>6, <1>7, <1>9 DEF ChangeInv, SendingInv

\* The notices of a layer, before and after LayersDidChange.
LEMMA NextNotice ==
    ASSUME ChangeInv, NEW t \in Thread, Sending(t),
           SetRound(t, [Round(t) EXCEPT !.next = Round(t).next + 1]),
           UNCHANGED <<changes, removeIfInert, blocks, made, heard>>
    PROVE  /\ rounds' \in [Thread -> Seq(RoundOf)]
           /\ TypeOK' => SendingInv' /\ OnlyNewWait
  <1> DEFINE n == Len(rounds[t])
             r == [Round(t) EXCEPT !.next = Round(t).next + 1]
  <1>1. TypeOK /\ QueuesInv
    BY DEF ChangeInv
  <1>2. n \in Nat /\ n \in 1..n /\ Round(t) = rounds[t][n] /\ Round(t) \in RoundOf
    BY <1>1, TopRound
  <1>3. r \in RoundOf /\ r.changes = Round(t).changes /\ r.serial = Round(t).serial
    BY <1>2 DEF RoundOf
  <1> HIDE DEF r
  <1>4. /\ rounds' \in [Thread -> Seq(RoundOf)]
        /\ \A u \in Thread : Len(rounds'[u]) = Len(rounds[u])
        /\ rounds'[t][n] = r
        /\ \A u \in Thread : \A i \in 1..Len(rounds[u]) :
              ~ (u = t /\ i = n) => rounds'[u][i] = rounds[u][i]
    <2>1. SetRound(t, r)
      BY DEF r
    <2> QED BY <1>1, <1>3, <2>1, SetRoundIs
  <1>5. \A u \in Thread : \A i \in 1..Len(rounds[u]) :
              /\ rounds'[u][i].changes = rounds[u][i].changes
              /\ rounds'[u][i].serial = rounds[u][i].serial
    BY <1>2, <1>3, <1>4
  <1>6. \A u \in Thread : Len(rounds[u]) \in Nat
    BY <1>1, Types
  <1>7. \A u \in Thread : In(changes'[u]) \subseteq In(changes[u]) /\ Owned(changes'[u], u, made)
    BY <1>1 DEF QueuesInv
  <1> QED BY <1>4, <1>5, <1>6, <1>7, LessWaits

LEMMA NotifyInv ==
    ASSUME ChangeInv, NEW t \in Thread, Notify(t)
    PROVE  ChangeInv' /\ (OnlyNewWait \/ RoundHeard)
  <1>1. TypeOK /\ QueuesInv /\ NothingStuck
    BY DEF ChangeInv
  <1>2. Sending(t) /\ UNCHANGED <<changes, blocks, removeIfInert, made, layers, dirty>>
    BY DEF Notify, NotifyLayer, NotifyAll, NotifyPerLayer, EndRound, queues
  <1>3. NothingStuck'
    BY <1>1, <1>2 DEF NothingStuck
  <1>4. CASE NotifyLayer(t)
    <2> DEFINE l == Round(t).changes[Round(t).next].layer
    <2>1. UNCHANGED <<heard, serialNumber>>
      BY <1>4 DEF NotifyLayer
    <2>2. CASE l \in layers
      <3>1. /\ lastDirty' = IF l \in dirty THEN lastDirty \cup {(l)} ELSE lastDirty \ {(l)}
            /\ SetRound(t, [Round(t) EXCEPT !.next = Round(t).next + 1])
            /\ aborted' = aborted
        BY <1>4, <2>2 DEF NotifyLayer
      <3>2. /\ rounds' \in [Thread -> Seq(RoundOf)]
            /\ TypeOK' => SendingInv' /\ OnlyNewWait
        BY <1>2, <2>1, <3>1, NextNotice
      <3>3. lastDirty' \subseteq Layer
        BY <1>1, <2>2, <3>1 DEF TypeOK
      <3>4. TypeOK'
        BY <1>1, <1>2, <2>1, <3>1, <3>2, <3>3 DEF TypeOK, RoundOf
      <3> QED BY <1>3, <3>2, <3>4 DEF ChangeInv, SendingInv
    <2>3. CASE l \notin layers
      <3>1. aborted' = "notice" /\ UNCHANGED <<lastDirty, rounds>>
        BY <1>4, <2>3 DEF NotifyLayer
      <3>2. TypeOK'
        BY <1>1, <1>2, <2>1, <3>1 DEF TypeOK
      <3>3. SendingInv' /\ OnlyNewWait
        BY <1>2, <2>1, <3>1, SameSending
      <3> QED BY <1>3, <3>2, <3>3 DEF ChangeInv, SendingInv
    <2> QED BY <2>2, <2>3
  <1>5. CASE NotifyAll(t)
    <2> DEFINE r == [Round(t) EXCEPT !.serial = serialNumber, !.next = 1]
    <2>1. /\ SetRound(t, r) /\ serialNumber' = serialNumber + 1
          /\ heard' = heard \cup In(Round(t).changes) /\ UNCHANGED <<lastDirty, aborted>>
      BY <1>5 DEF NotifyAll
    <2>2. Round(t) \in RoundOf /\ Round(t) = rounds[t][Len(rounds[t])]
          /\ Len(rounds[t]) \in 1..Len(rounds[t])
      BY <1>1, <1>2, TopRound
    <2>3. r \in RoundOf
      <3> DEFINE r1 == [Round(t) EXCEPT !.serial = serialNumber]
                 r2 == [r1 EXCEPT !.next = 1]
      <3>1. r1 \in RoundOf /\ r = r2
        BY <2>2, <1>1 DEF RoundOf, TypeOK
      <3> HIDE DEF r1, r
      <3>2. r2 \in RoundOf
        BY <3>1 DEF RoundOf
      <3> QED BY <3>1, <3>2
    <2> HIDE DEF r
    <2>4. rounds' \in [Thread -> Seq(RoundOf)]
      BY <1>1, <1>2, <2>1, <2>3, SetRoundIs
    <2>5. heard' \subseteq Change
      <3>1. In(Round(t).changes) \subseteq Heard(t)
        <4>1. Len(rounds[t]) \in 1..(Len(rounds[t]) + 1 - 1)
          BY <1>1, <2>2, Types
        <4> QED BY <4>1, <2>2 DEF Heard, Below
      <3> QED BY <3>1, <2>1, <1>1, HeardIs DEF ChangeInv, TypeOK
    <2>6. TypeOK'
      <3>1. serialNumber' \in Nat \ {0}
        BY <1>1, <2>1 DEF TypeOK
      <3> QED BY <1>1, <1>2, <2>1, <2>4, <2>5, <3>1 DEF TypeOK, RoundOf
    <2>7. SendingInv' /\ RoundHeard
      BY <1>5, <2>6, AllInv
    <2> QED BY <1>3, <2>6, <2>7 DEF ChangeInv, SendingInv
  <1>6. CASE NotifyPerLayer(t)
    <2>1. /\ SetRound(t, [Round(t) EXCEPT !.next = Round(t).next + 1])
          /\ UNCHANGED <<lastDirty, serialNumber, heard, aborted>>
      BY <1>6 DEF NotifyPerLayer
    <2>2. /\ rounds' \in [Thread -> Seq(RoundOf)]
          /\ TypeOK' => SendingInv' /\ OnlyNewWait
      BY <1>2, <2>1, NextNotice
    <2>3. TypeOK'
      BY <1>1, <1>2, <2>1, <2>2 DEF TypeOK, RoundOf
    <2> QED BY <1>3, <2>2, <2>3 DEF ChangeInv, SendingInv
  <1>7. CASE EndRound(t)
    <2> DEFINE n == Len(rounds[t])
               s == SubSeq(rounds[t], 1, n - 1)
    <2>1. /\ rounds' = [rounds EXCEPT ![t] = s]
          /\ UNCHANGED <<lastDirty, serialNumber, heard, aborted>>
      BY <1>7 DEF EndRound
    <2>2. n \in Nat /\ n > 0 /\ rounds[t] \in Seq(RoundOf)
      BY <1>1, <1>2, TopRound, Types
    <2>3. s \in Seq(RoundOf) /\ Len(s) = n - 1 /\ \A i \in 1..(n - 1) : s[i] = rounds[t][i]
      BY <2>2
    <2> HIDE DEF s
    <2>4. /\ rounds' \in [Thread -> Seq(RoundOf)]
          /\ \A u \in Thread : rounds'[u] = IF u = t THEN s ELSE rounds[u]
      BY <1>1, <2>1, <2>3 DEF TypeOK, RoundOf
    <2>5. TypeOK'
      BY <1>1, <1>2, <2>1, <2>4 DEF TypeOK, RoundOf
    <2>6. \A u \in Thread :
              /\ Len(rounds'[u]) <= Len(rounds[u])
              /\ \A i \in 1..Len(rounds'[u]) :
                    /\ rounds'[u][i].changes = rounds[u][i].changes
                    /\ rounds'[u][i].serial = rounds[u][i].serial
      <3>1. \A u \in Thread : Len(rounds[u]) \in Nat
        BY <1>1, Types
      <3> SUFFICES ASSUME NEW u \in Thread
                   PROVE  /\ Len(rounds'[u]) <= Len(rounds[u])
                          /\ \A i \in 1..Len(rounds'[u]) : rounds'[u][i] = rounds[u][i]
        OBVIOUS
      <3>2. CASE u = t
        <4>1. rounds'[u] = s /\ n - 1 <= n
          BY <3>2, <2>2, <2>4
        <4> QED BY <4>1, <3>2, <2>3
      <3>3. CASE u # t
        BY <3>1, <3>3, <2>4
      <3> QED BY <3>2, <3>3
    <2>7. \A u \in Thread : In(changes'[u]) \subseteq In(changes[u]) /\ Owned(changes'[u], u, made)
      BY <1>1, <1>2 DEF QueuesInv
    <2>8. SendingInv' /\ OnlyNewWait
      BY <1>2, <2>1, <2>5, <2>6, <2>7, LessWaits
    <2> QED BY <1>3, <2>5, <2>8 DEF ChangeInv, SendingInv
  <1> QED BY <1>4, <1>5, <1>6, <1>7 DEF Notify

LEMMA InitChangeInv == Init => ChangeInv
  <1> SUFFICES ASSUME Init PROVE ChangeInv
    OBVIOUS
  <1>1. /\ <<>> \in Queue(Change) /\ <<>> \in Seq(Layer) /\ <<>> \in Seq(RoundOf)
        /\ <<>> \in Seq(MadeOf) /\ DOMAIN <<>> = {} /\ Len(<<>>) = 0 /\ In(<<>>) = {}
    BY NoQueue DEF In
  <1>2. TypeOK
    <2>1. 0 \in 0..MaxBlocks
      BY ChangeConstants
    <2> QED BY <1>1, <2>1 DEF Init, TypeOK, RoundOf, MadeOf
  <1>3. MadeInv
    BY <1>1, ChangeConstants DEF Init, MadeInv
  <1>4. QueuesInv
    BY <1>1 DEF Init, QueuesInv, Owned, After
  <1>5. RoundsInv
    BY <1>1 DEF Init, RoundsInv
  <1>6. NothingStuck
    BY DEF Init, NothingStuck
  <1>7. OnlyListenersOvertake
    BY <1>1 DEF Init, OnlyListenersOvertake
  <1> QED BY <1>2, <1>3, <1>4, <1>5, <1>6, <1>7 DEF ChangeInv

\* In every step the changes are made, or a round of them is heard of.
LEMMA NextChangeInv == ChangeInv /\ [Next]_vars => ChangeInv' /\ (OnlyNewWait \/ RoundHeard)
  <1> SUFFICES ASSUME ChangeInv, [Next]_vars
               PROVE  ChangeInv' /\ (OnlyNewWait \/ RoundHeard)
    OBVIOUS
  <1>1. TypeOK /\ NothingStuck
    BY DEF ChangeInv
  <1>2. ASSUME NEW t \in Thread, OpenBlock(t)
        PROVE  ChangeInv' /\ OnlyNewWait
    <2>1. UNCHANGED <<layers, dirty, lastDirty, changes, removeIfInert, rounds,
                      serialNumber, made, heard, aborted>>
          /\ blocks' = [blocks EXCEPT ![t] = blocks[t] + 1] /\ blocks[t] < MaxBlocks
      BY <1>2 DEF OpenBlock
    <2>2. blocks' \in [Thread -> 0..MaxBlocks] /\ blocks'[t] # 0
          /\ \A u \in Thread : u # t => blocks'[u] = blocks[u]
      BY <1>1, <2>1, ChangeConstants DEF TypeOK
    <2>3. TypeOK' /\ NothingStuck'
      BY <1>1, <2>1, <2>2 DEF TypeOK, NothingStuck
    <2> QED BY <2>1, <2>3, SameSending DEF ChangeInv, SendingInv
  <1>3. ASSUME NEW t \in Thread, CloseInnerBlock(t)
        PROVE  ChangeInv' /\ OnlyNewWait
    <2>1. UNCHANGED <<layers, dirty, lastDirty, changes, removeIfInert, rounds,
                      serialNumber, made, heard, aborted>>
          /\ blocks' = [blocks EXCEPT ![t] = blocks[t] - 1] /\ blocks[t] > 1
      BY <1>3 DEF CloseInnerBlock
    <2>2. blocks' \in [Thread -> 0..MaxBlocks] /\ blocks'[t] # 0
          /\ \A u \in Thread : u # t => blocks'[u] = blocks[u]
      BY <1>1, <2>1, ChangeConstants DEF TypeOK
    <2>3. TypeOK' /\ NothingStuck'
      BY <1>1, <2>1, <2>2 DEF TypeOK, NothingStuck
    <2> QED BY <2>1, <2>3, SameSending DEF ChangeInv, SendingInv
  <1>4. ASSUME NEW t \in Thread, NEW l \in Layer, ScheduleRemoveIfInert(t, l)
        PROVE  ChangeInv' /\ OnlyNewWait
    <2>1. UNCHANGED <<layers, dirty, lastDirty, changes, blocks, rounds,
                      serialNumber, made, heard, aborted>>
          /\ removeIfInert' = [removeIfInert EXCEPT ![t] = Append(removeIfInert[t], l)]
          /\ blocks[t] > 0
      BY <1>4 DEF ScheduleRemoveIfInert
    <2>2. removeIfInert' \in [Thread -> Seq(Layer)]
          /\ \A u \in Thread : u # t => removeIfInert'[u] = removeIfInert[u]
      BY <1>1, <2>1 DEF TypeOK
    <2>3. blocks[t] # 0
      BY <1>1, <2>1 DEF TypeOK
    <2>4. TypeOK' /\ NothingStuck'
      BY <1>1, <2>1, <2>2, <2>3 DEF TypeOK, NothingStuck
    <2> QED BY <2>1, <2>4, SameSending DEF ChangeInv, SendingInv
  <1>5. ASSUME UNCHANGED <<queues, rounds, serialNumber, made, heard>>,
               layers' \subseteq layers, dirty' \subseteq dirty, lastDirty' \subseteq lastDirty,
               aborted' \in {"no", "removal", "notice"}
        PROVE  ChangeInv' /\ OnlyNewWait
    <2>1. UNCHANGED <<changes, blocks, removeIfInert, rounds, serialNumber, made, heard>>
      BY <1>5 DEF queues
    <2>2. TypeOK' /\ NothingStuck'
      BY <1>1, <1>5, <2>1 DEF TypeOK, NothingStuck
    <2> QED BY <2>1, <2>2, SameSending DEF ChangeInv, SendingInv
  <1>6. ASSUME NEW t \in Thread, CloseBlockAborts(t)
        PROVE  ChangeInv' /\ OnlyNewWait
    BY <1>5, <1>6 DEF CloseBlockAborts
  <1>7. ASSUME NEW l \in Layer, MarkClean(l)
        PROVE  ChangeInv' /\ OnlyNewWait
    BY <1>1, <1>5, <1>7 DEF MarkClean, TypeOK
  <1>8. ASSUME NEW l \in Layer, Expire(l)
        PROVE  ChangeInv' /\ OnlyNewWait
    BY <1>1, <1>5, <1>8 DEF Expire, TypeOK
  <1>9. CASE UNCHANGED vars
    BY <1>1, <1>5, <1>9 DEF vars, TypeOK
  <1> QED BY <1>2, <1>3, <1>4, <1>6, <1>7, <1>8, <1>9, EditInv, CloseBlockInv, CreateDiffInv,
             NotifyInv DEF Next, Close

\* The changes are where the invariant says, in every state.
THEOREM ChangeSafety == Spec => []ChangeInv
  BY InitChangeInv, NextChangeInv, PTL DEF Spec

LEMMA ChangeInvRounds == ChangeInv => RoundsInOrder
  BY DEF ChangeInv, RoundsInOrder

\* Changes are sent with the block they were made in, and in the order their
\* thread made them in, but for those of listeners.
THEOREM ChangesInOrder == Spec => []RoundsInOrder
  BY ChangeSafety, ChangeInvRounds, PTL

-----------------------------------------------------------------------------
(* The notification that is promised                                       *)

LEMMA InitNotification == Init => Abstract!Init
  <1> SUFFICES ASSUME Init PROVE Waiting = {} /\ heard = {}
    BY DEF Abstract!Init
  <1>1. TypeOK
    BY InitChangeInv DEF ChangeInv
  <1>2. In(<<>>) = {} /\ Len(<<>>) = 0
    BY DEF In
  <1>3. \A c : ~ Waits(c)
    BY <1>2 DEF Init, Waits
  <1> QED BY <1>1, <1>3, WaitingIs DEF Init

LEMMA NextNotification == ChangeInv /\ (OnlyNewWait \/ RoundHeard) => Abstract!Next
  <1> SUFFICES ASSUME ChangeInv, OnlyNewWait \/ RoundHeard
               PROVE  Abstract!Next
    OBVIOUS
  <1>1. Waiting \subseteq DOMAIN made /\ heard \subseteq DOMAIN made /\ DOMAIN made \subseteq Change
    <2>1. TypeOK /\ MadeInv /\ QueuesInv /\ RoundsInv
      BY DEF ChangeInv
    <2>2. ASSUME NEW c \in Waiting
          PROVE  c \in DOMAIN made
      BY <2>1, WaitingIs, OwnedIn DEF Waits, QueuesInv, RoundsInv
    <2>3. DOMAIN made = 1..Len(made) /\ Len(made) \in Nat /\ Len(made) <= MaxChanges
      BY <2>1 DEF TypeOK, MadeInv
    <2> QED BY <2>1, <2>2, <2>3, ChangeConstants DEF MadeInv, Change
  <1>2. CASE OnlyNewWait
    <2> DEFINE new == DOMAIN made' \ DOMAIN made
               lost == (Waiting \cup new) \ Waiting'
    <2>1. new \in SUBSET Change /\ lost \in SUBSET Change
      BY <1>1, <1>2 DEF OnlyNewWait
    <2>2. Abstract!Step(new, {}, lost)
      BY <1>1, <1>2 DEF OnlyNewWait, Abstract!Step
    <2> QED BY <2>1, <2>2 DEF Abstract!Next
  <1>3. CASE RoundHeard
    <2>1. PICK ids \in SUBSET Waiting :
                heard' = heard \cup ids /\ Waiting' \subseteq Waiting \ ids
      BY <1>3 DEF RoundHeard
    <2> DEFINE lost == Waiting \ (Waiting' \cup ids)
    <2>2. ids \in SUBSET Change /\ lost \in SUBSET Change
      BY <1>1
    <2>3. Abstract!Step({}, ids, lost)
      BY <2>1 DEF Abstract!Step
    <2> QED BY <2>2, <2>3 DEF Abstract!Next
  <1> QED BY <1>2, <1>3

\* Every change that is made is heard of at most once, and none that was not
\* made.
THEOREM ChangesImplementNotification == Spec => ImplementsNotification
  <1>1. ChangeInv /\ [Next]_vars => [Abstract!Next]_<<Waiting, heard>>
    BY NextChangeInv, NextNotification
  <1> QED BY <1>1, InitNotification, ChangeSafety, PTL
          DEF Spec, ImplementsNotification, Abstract!Spec

-----------------------------------------------------------------------------
(* What the listeners know                                                 *)

\* l is in one of the queues there will be notices of.
InQueue(q, l) == \E i \in DOMAIN q : q[i].layer = l

LEMMA LaterFacts ==
    ASSUME NEW t, NEW l
    PROVE  /\ ToldLater(t, l) <=>
                 \/ InQueue(changes[t], l)
                 \/ \E j \in 1..Len(rounds[t]) :
                       /\ rounds[t][j].serial = 0
                       /\ \E i \in DOMAIN rounds[t][j].changes :
                             i >= rounds[t][j].next /\ rounds[t][j].changes[i].layer = l
           /\ ToldLater(t, l)' <=>
                 \/ InQueue(changes'[t], l)
                 \/ \E j \in 1..Len(rounds'[t]) :
                       /\ rounds'[t][j].serial = 0
                       /\ \E i \in DOMAIN rounds'[t][j].changes :
                             i >= rounds'[t][j].next /\ rounds'[t][j].changes[i].layer = l
  BY DEF ToldLater, InQueue

\* A layer that changes were made to, or that was to be told of, will be.
LEMMA GrownTold ==
    ASSUME ChangeInv, NEW t \in Thread, NEW q, NEW m, Len(m) <= MaxChanges,
           Grown(changes[t], made, q, m, t, Heard(t)),
           SendNotices(t, q) \/ (changes' = [changes EXCEPT ![t] = q] /\ rounds' = rounds),
           NEW l \in layers, InQueue(q, l) \/ \E u \in Thread : ToldLater(u, l)
    PROVE  \E u \in Thread : ToldLater(u, l)'
  <1>1. TypeOK /\ q \in Queue(Change)
    BY GrownInv DEF ChangeInv
  <1>2. \A u \in Thread : Len(rounds[u]) \in Nat /\ rounds[u] \in Seq(RoundOf)
    BY <1>1, Types
  <1>3. InQueue(changes[t], l) => InQueue(q, l)
    BY DEF Grown, InQueue
  <1>4. CASE changes' = [changes EXCEPT ![t] = q] /\ rounds' = rounds
    <2>1. \A u \in Thread : changes'[u] = IF u = t THEN q ELSE changes[u]
      BY <1>1, <1>4 DEF TypeOK
    <2> QED BY <1>3, <1>4, <2>1, LaterFacts
  <1>5. CASE SendNotices(t, q)
    <2> DEFINE r == [changes |-> Live(q), next |-> 1, serial |-> 0]
    <2>1. /\ changes'[t] = <<>>
          /\ \A u \in Thread : u # t => changes'[u] = changes[u] /\ rounds'[u] = rounds[u]
          /\ \/ rounds'[t] = rounds[t] /\ Live(q) = <<>>
             \/ rounds'[t] = Append(rounds[t], r)
          /\ Live(q) \in Queue(Change)
      BY <1>1, <1>5, SendTypes
    <2>2. r.changes = Live(q) /\ r.next = 1 /\ r.serial = 0
      OBVIOUS
    <2> HIDE DEF r
    <2>3. \A u \in Thread : \A j \in 1..Len(rounds[u]) :
             j \in 1..Len(rounds'[u]) /\ rounds'[u][j] = rounds[u][j]
      BY <1>2, <2>1, SMTT(30)
    <2>4. ASSUME InQueue(q, l)
          PROVE  \E u \in Thread : ToldLater(u, l)'
      <3>1. PICK i \in DOMAIN Live(q) : Live(q)[i].layer = l
        BY <1>1, <2>4, AboutIs DEF Live, InQueue
      <3>2. i \in Nat /\ i >= 1
        BY <2>1, QueueIs
      <3>3. Live(q) # <<>>
        BY <3>1
      <3>4. rounds'[t] = Append(rounds[t], r)
        BY <3>3, <2>1
      <3>5. Len(rounds[t]) + 1 \in 1..Len(rounds'[t]) /\ rounds'[t][Len(rounds[t]) + 1] = r
        BY <3>4, <1>2
      <3>6. ToldLater(t, l)'
        BY <3>1, <3>2, <3>5, <2>2, LaterFacts
      <3> QED BY <3>6
    <2>5. ASSUME NEW u \in Thread, ToldLater(u, l), ~ InQueue(q, l)
          PROVE  ToldLater(u, l)'
      <3>1. CASE InQueue(changes[u], l)
        <4>1. u # t
          BY <3>1, <2>5, <1>3
        <4> QED BY <4>1, <3>1, <2>1, LaterFacts
      <3>2. CASE ~ InQueue(changes[u], l)
        <4>1. PICK j \in 1..Len(rounds[u]) :
                       /\ rounds[u][j].serial = 0
                       /\ \E i \in DOMAIN rounds[u][j].changes :
                             i >= rounds[u][j].next /\ rounds[u][j].changes[i].layer = l
          BY <3>2, <2>5, LaterFacts
        <4> QED BY <4>1, <2>3, LaterFacts
      <3> QED BY <3>1, <3>2
    <2> QED BY <2>4, <2>5
  <1> QED BY <1>4, <1>5

\* The round r is still to tell of l.
RoundTells(r, l) ==
    /\ r.serial = 0
    /\ \E i \in DOMAIN r.changes : i >= r.next /\ r.changes[i].layer = l

\* A step keeps all the rounds but the round n of t.
OthersKept(t, n) ==
    \A v \in Thread : \A i \in 1..Len(rounds[v]) : ~ (v = t /\ i = n) =>
        i \in 1..Len(rounds'[v]) /\ rounds'[v][i] = rounds[v][i]

\* A notice is sent or a round ends: who was to be told of otherwise still will be.
LEMMA OthersTold ==
    ASSUME NEW t \in Thread, NEW n, UNCHANGED changes, NEW l, NEW u \in Thread, ToldLater(u, l),
           OthersKept(t, n), ~ RoundTells(rounds[t][n], l)
    PROVE  ToldLater(u, l)'
  <1>1. CASE InQueue(changes[u], l)
    BY <1>1, LaterFacts
  <1>2. CASE ~ InQueue(changes[u], l)
    <2>1. PICK j \in 1..Len(rounds[u]) :
                       /\ rounds[u][j].serial = 0
                       /\ \E i \in DOMAIN rounds[u][j].changes :
                             i >= rounds[u][j].next /\ rounds[u][j].changes[i].layer = l
      BY <1>2, LaterFacts
    <2>2. ~ (u = t /\ j = n)
      BY <2>1 DEF RoundTells
    <2> QED BY <2>1, <2>2, LaterFacts DEF OthersKept
  <1> QED BY <1>1, <1>2

LEMMA NotifyTold ==
    ASSUME ChangeInv, DirtyInv, NEW t \in Thread, Notify(t)
    PROVE  DirtyInv'
  <1> DEFINE n == Len(rounds[t])
             Known(l) == l \in dirty <=> l \in lastDirty
  <1>1. TypeOK
    BY DEF ChangeInv
  <1>2. Sending(t) /\ UNCHANGED <<changes, layers, dirty>>
    BY DEF Notify, NotifyLayer, NotifyAll, NotifyPerLayer, EndRound, queues
  <1>3. n \in Nat /\ n \in 1..n /\ Round(t) = rounds[t][n] /\ Round(t) \in RoundOf
    BY <1>1, <1>2, TopRound
  <1>4. /\ \A u \in Thread : Len(rounds[u]) \in Nat
        /\ DOMAIN Round(t).changes = 1..Len(Round(t).changes)
        /\ Len(Round(t).changes) \in Nat /\ Round(t).next \in Nat
    BY <1>1, <1>3, Types, QueueIs DEF RoundOf
  <1>5. ASSUME NEW r \in RoundOf, SetRound(t, r)
        PROVE  OthersKept(t, n) /\ n \in 1..Len(rounds'[t]) /\ rounds'[t][n] = r
    BY <1>1, <1>2, <1>3, <1>5, SetRoundIs DEF OthersKept
  <1>6. ASSUME lastDirty' = lastDirty, OthersKept(t, n), \A l : ~ RoundTells(Round(t), l)
        PROVE  DirtyInv'
    <2> SUFFICES ASSUME NEW l \in layers, NEW u \in Thread, ToldLater(u, l)
                 PROVE  ToldLater(u, l)'
      BY <1>2, <1>6 DEF DirtyInv
    <2> QED BY <1>2, <1>3, <1>6, OthersTold
  <1>7. CASE NotifyLayer(t)
    <2> DEFINE k == Round(t).next
               l0 == Round(t).changes[k].layer
    <2>1. CASE l0 \notin layers
      <3>1. UNCHANGED <<lastDirty, rounds>>
        BY <1>7, <2>1 DEF NotifyLayer
      <3> QED BY <3>1, <1>2 DEF DirtyInv, ToldLater
    <2>2. CASE l0 \in layers
      <3> DEFINE r == [Round(t) EXCEPT !.next = k + 1]
      <3>1. /\ lastDirty' = IF l0 \in dirty THEN lastDirty \cup {(l0)} ELSE lastDirty \ {(l0)}
            /\ SetRound(t, r) /\ Round(t).serial = 0
        BY <1>7, <2>2 DEF NotifyLayer
      <3>2. /\ r \in RoundOf /\ r.changes = Round(t).changes /\ r.serial = Round(t).serial
            /\ r.next = k + 1
        BY <1>3 DEF RoundOf
      <3> HIDE DEF r
      <3>3. OthersKept(t, n) /\ n \in 1..Len(rounds'[t]) /\ rounds'[t][n] = r
        BY <1>5, <3>1, <3>2
      <3> SUFFICES ASSUME NEW l \in layers, l # l0, NEW u \in Thread, ToldLater(u, l)
                   PROVE  \E v \in Thread : ToldLater(v, l)'
        BY <1>2, <3>1 DEF DirtyInv
      <3>4. CASE RoundTells(Round(t), l)
        <4>1. PICK i \in DOMAIN Round(t).changes : i >= k /\ Round(t).changes[i].layer = l
          BY <3>4 DEF RoundTells
        <4>2. i # k
          BY <4>1
        <4>3. i >= k + 1 /\ i \in DOMAIN r.changes /\ r.changes[i].layer = l
          BY <4>1, <4>2, <3>2, <1>4
        <4>4. ToldLater(t, l)'
          BY <4>3, <3>1, <3>2, <3>3, LaterFacts
        <4> QED BY <4>4
      <3>5. CASE ~ RoundTells(Round(t), l)
        <4>1. ToldLater(u, l)'
          BY <3>3, <3>5, <1>2, <1>3, OthersTold
        <4> QED BY <4>1
      <3> QED BY <3>4, <3>5
    <2> QED BY <2>1, <2>2
  <1>8. CASE NotifyAll(t)
    <2> DEFINE r == [Round(t) EXCEPT !.serial = serialNumber, !.next = 1]
    <2>1. SetRound(t, r) /\ Round(t).next > Len(Round(t).changes) /\ lastDirty' = lastDirty
      BY <1>8 DEF NotifyAll
    <2>2. r \in RoundOf
      <3> DEFINE r1 == [Round(t) EXCEPT !.serial = serialNumber]
                 r2 == [r1 EXCEPT !.next = 1]
      <3>1. r1 \in RoundOf /\ r = r2
        BY <1>1, <1>3 DEF RoundOf, TypeOK
      <3> HIDE DEF r1, r
      <3>2. r2 \in RoundOf
        BY <3>1 DEF RoundOf
      <3> QED BY <3>1, <3>2
    <2> HIDE DEF r
    <2>3. \A l : ~ RoundTells(Round(t), l)
      BY <2>1, <1>4 DEF RoundTells
    <2> QED BY <2>1, <2>2, <2>3, <1>5, <1>6
  <1>9. CASE NotifyPerLayer(t)
    <2> DEFINE r == [Round(t) EXCEPT !.next = Round(t).next + 1]
    <2>1. SetRound(t, r) /\ Round(t).serial > 0 /\ lastDirty' = lastDirty
      BY <1>9 DEF NotifyPerLayer
    <2>2. r \in RoundOf
      BY <1>3 DEF RoundOf
    <2> HIDE DEF r
    <2>3. \A l : ~ RoundTells(Round(t), l)
      BY <2>1, <1>3 DEF RoundOf, RoundTells
    <2> QED BY <2>1, <2>2, <2>3, <1>5, <1>6
  <1>10. CASE EndRound(t)
    <2> DEFINE s == SubSeq(rounds[t], 1, n - 1)
    <2>1. rounds' = [rounds EXCEPT ![t] = s] /\ Round(t).serial > 0 /\ lastDirty' = lastDirty
      BY <1>10 DEF EndRound
    <2>2. rounds[t] \in Seq(RoundOf) /\ rounds \in [Thread -> Seq(RoundOf)]
      BY <1>1, Types DEF TypeOK, RoundOf
    <2>3. s \in Seq(RoundOf) /\ Len(s) = n - 1 /\ \A i \in 1..(n - 1) : s[i] = rounds[t][i]
      <3>1. n \in Nat /\ n > 0 /\ rounds[t] \in Seq(RoundOf)
        BY <2>2, <1>3
      <3> QED BY <3>1
    <2> HIDE DEF s
    <2>4. \A u \in Thread : rounds'[u] = IF u = t THEN s ELSE rounds[u]
      BY <2>1, <2>2
    <2>5. \A i \in 1..n : i # n => i \in 1..(n - 1)
      BY <1>3
    <2>6. OthersKept(t, n)
      BY <2>3, <2>4, <2>5 DEF OthersKept
    <2>7. \A l : ~ RoundTells(Round(t), l)
      BY <2>1, <1>3 DEF RoundOf, RoundTells
    <2> QED BY <2>1, <2>6, <2>7, <1>6
  <1> QED BY <1>7, <1>8, <1>9, <1>10 DEF Notify

LEMMA AboutAll ==
    ASSUME NEW C, NEW q \in Queue(C), NEW ls, \A i \in DOMAIN q : q[i].layer \in ls, NEW l,
           InQueue(q, l)
    PROVE  InQueue(About(q, ls), l)
  <1>1. PICK i \in DOMAIN q : q[i].layer = l
    BY DEF InQueue
  <1>2. PICK j \in DOMAIN About(q, ls) : About(q, ls)[j] = q[i]
    BY <1>1, AboutIs
  <1> QED BY <1>1, <1>2 DEF InQueue

\* Clients that do not create a diff of a layer that has changes in the queue
\* lose no notice of it.
LEMMA NextDirty ==
    DiffsInBlocks = FALSE /\ ChangeInv /\ DirtyInv /\ [Next]_vars => DirtyInv'
  <1> SUFFICES ASSUME DiffsInBlocks = FALSE, ChangeInv, DirtyInv, [Next]_vars
               PROVE  DirtyInv'
    OBVIOUS
  <1>1. TypeOK /\ MadeInv /\ RoundsInv /\ QueuesInv
    BY DEF ChangeInv
  <1>2. ASSUME UNCHANGED <<changes, rounds>>, layers' \subseteq layers,
               \A l \in layers' : (l \in dirty <=> l \in lastDirty) => (l \in dirty' <=> l \in lastDirty')
        PROVE  DirtyInv'
    BY <1>2 DEF DirtyInv, ToldLater
  <1>3. ASSUME NEW t \in Thread, OpenBlock(t) \/ CloseInnerBlock(t) \/ CloseBlockAborts(t)
        PROVE  DirtyInv'
    BY <1>2, <1>3 DEF OpenBlock, CloseInnerBlock, CloseBlockAborts, queues
  <1>4. ASSUME NEW t \in Thread, NEW l \in Layer, ScheduleRemoveIfInert(t, l)
        PROVE  DirtyInv'
    BY <1>2, <1>4 DEF ScheduleRemoveIfInert
  <1>5. ASSUME NEW l \in Layer, MarkClean(l) \/ Expire(l)
        PROVE  DirtyInv'
    BY <1>2, <1>5 DEF MarkClean, Expire, queues
  <1>6. ASSUME NEW t \in Thread, NEW q, NEW m, Len(m) <= MaxChanges,
               Grown(changes[t], made, q, m, t, Heard(t)),
               SendNotices(t, q) \/ (changes' = [changes EXCEPT ![t] = q] /\ rounds' = rounds),
               UNCHANGED <<layers, lastDirty>>,
               \A l \in layers : (l \in dirty' <=> l \in dirty) \/ InQueue(q, l)
        PROVE  DirtyInv'
    <2> SUFFICES ASSUME NEW l \in layers
                 PROVE  (l \in dirty' <=> l \in lastDirty) \/ \E u \in Thread : ToldLater(u, l)'
      BY <1>6 DEF DirtyInv
    <2>1. CASE InQueue(q, l) \/ \E u \in Thread : ToldLater(u, l)
      <3>1. \E u \in Thread : ToldLater(u, l)'
        BY <2>1, <1>6, GrownTold
      <3> QED BY <3>1
    <2>2. CASE ~ (InQueue(q, l) \/ \E u \in Thread : ToldLater(u, l))
      BY <2>2, <1>6 DEF DirtyInv
    <2> QED BY <2>1, <2>2
  <1>7. ASSUME NEW t \in Thread, NEW l \in Layer, Edit(t, l)
        PROVE  DirtyInv'
    <2> DEFINE x == [queue |-> changes[t], made |-> made]
    <2>1. PICK r : r = WithChange(x, t, l)
      OBVIOUS
    <2>2. /\ Heard(t) \subseteq Change /\ changes[t] \in Queue(Nat)
          /\ made \in Seq(MadeOf) /\ Len(made) \in Nat /\ Owned(changes[t], t, made)
      BY <1>1, HeardIs, Types DEF QueuesInv
    <2>3. Grown(changes[t], made, x.queue, x.made, t, Heard(t))
      <3>1. (Len(made) + 1)..Len(made) = {}
        BY <2>2
      <3> QED BY <3>1, <2>2 DEF Grown
    <2>4. /\ Grown(changes[t], made, r.queue, r.made, t, Heard(t))
          /\ Len(r.made) = Len(made) + 1 /\ InQueue(r.queue, l)
      <3>1. x.made = made
        OBVIOUS
      <3> HIDE DEF x
      <3> QED BY <1>1, <2>1, <2>2, <2>3, <3>1, GrowsBy DEF InQueue
    <2>5. /\ UNCHANGED <<layers, lastDirty>> /\ dirty' = dirty \cup {(l)} /\ Len(made) + 1 <= MaxChanges
          /\ \/ SendNotices(t, r.queue)
             \/ changes' = [changes EXCEPT ![t] = r.queue] /\ rounds' = rounds
      BY <1>7, <2>1 DEF Edit, Room
    <2>6. \A k \in layers : (k \in dirty' <=> k \in dirty) \/ InQueue(r.queue, k)
      BY <2>4, <2>5
    <2>7. Len(r.made) <= MaxChanges
      BY <2>4, <2>5
    <2> QED BY <2>4, <2>5, <2>6, <2>7, <1>6
  <1>8. ASSUME NEW t \in Thread, CloseBlock(t)
        PROVE  DirtyInv'
    <2>1. PICK inert \in SUBSET (DOMAIN removeIfInert[t]) :
              /\ Len(Removed(t, changes[t], inert).made) <= MaxChanges
              /\ dirty' = dirty \cup {removeIfInert[t][i] : i \in inert}
              /\ SendNotices(t, Removed(t, changes[t], inert).queue)
      BY <1>8 DEF CloseBlock
    <2>2. PICK r : r = Removed(t, changes[t], inert)
      OBVIOUS
    <2>3. Heard(t) \subseteq Change /\ Owned(changes[t], t, made)
      BY <1>1, HeardIs DEF QueuesInv
    <2>4. /\ Grown(changes[t], made, r.queue, r.made, t, Heard(t))
          /\ \A i \in inert : InQueue(r.queue, removeIfInert[t][i])
      BY <1>1, <2>2, <2>3, RemovedGrows DEF InQueue
    <2>5. \A k \in layers : (k \in dirty' <=> k \in dirty) \/ InQueue(r.queue, k)
      BY <2>1, <2>4
    <2>6. UNCHANGED <<layers, lastDirty>>
      BY <1>8 DEF CloseBlock
    <2> QED BY <2>1, <2>2, <2>4, <2>5, <2>6, <1>6
  <1>9. ASSUME NEW t \in Thread, NEW l \in Layer, CreateDiff(t, l)
        PROVE  DirtyInv'
    <2>0. PICK ls : ls = Layer \ {(l)}
      OBVIOUS
    <2> DEFINE q == About(changes[t], ls)
    <2>1. /\ changes' = [changes EXCEPT ![t] = q]
          /\ UNCHANGED <<layers, dirty, lastDirty, rounds>>
          /\ \A i \in DOMAIN changes[t] : changes[t][i].layer # l
      BY <1>9, <2>0 DEF CreateDiff
    <2>2. changes[t] \in Queue(Change)
      BY <1>1, Types
    <2>3. \A k : InQueue(changes[t], k) => InQueue(q, k)
      <3>1. \A i \in DOMAIN changes[t] : changes[t][i].layer \in ls
        BY <2>0, <2>1, <2>2, QueueIs DEF Item
      <3> QED BY <3>1, <2>2, AboutAll
    <2> HIDE DEF q
    <2>4. \A u \in Thread : changes'[u] = IF u = t THEN q ELSE changes[u]
      BY <1>1, <2>1 DEF TypeOK
    <2>5. \A u \in Thread : \A k : ToldLater(u, k) => ToldLater(u, k)'
      BY <2>1, <2>3, <2>4, LaterFacts
    <2> QED BY <2>1, <2>5 DEF DirtyInv
  <1>10. CASE UNCHANGED vars
    BY <1>2, <1>10 DEF vars, queues
  <1> QED BY <1>3, <1>4, <1>5, <1>7, <1>8, <1>9, <1>10, NotifyTold DEF Next, Close

LEMMA DirtyInvKnown == ChangeInv /\ DirtyInv => DirtinessKnown
  <1> SUFFICES ASSUME ChangeInv, DirtyInv, NEW l \in layers, \A c \in Waiting : made[c].layer # l
               PROVE  l \in dirty <=> l \in lastDirty
    BY DEF DirtinessKnown
  <1>1. TypeOK /\ QueuesInv /\ RoundsInv
    BY DEF ChangeInv
  <1>2. ASSUME NEW t \in Thread, ToldLater(t, l)
        PROVE  FALSE
    <2>1. CASE InQueue(changes[t], l)
      <3>1. PICK i \in DOMAIN changes[t] : changes[t][i].layer = l
        BY <2>1 DEF InQueue
      <3>2. PICK c : c \in changes[t][i].ids /\ made[c].layer = l
        BY <3>1, <1>1 DEF QueuesInv, Owned
      <3>3. c \in Waiting
        BY <3>1, <3>2, <1>1, WaitingIs DEF Waits, In
      <3> QED BY <3>2, <3>3
    <2>2. CASE ~ InQueue(changes[t], l)
      <3>1. PICK j \in 1..Len(rounds[t]) :
                /\ rounds[t][j].serial = 0
                /\ \E i \in DOMAIN rounds[t][j].changes : rounds[t][j].changes[i].layer = l
        BY <1>2, <2>2, LaterFacts
      <3>2. PICK i \in DOMAIN rounds[t][j].changes : rounds[t][j].changes[i].layer = l
        BY <3>1
      <3>3. Owned(rounds[t][j].changes, t, made)
        BY <1>1 DEF RoundsInv
      <3>4. PICK c : c \in rounds[t][j].changes[i].ids /\ made[c].layer = l
        BY <3>2, <3>3 DEF Owned
      <3>5. c \in Waiting
        BY <3>1, <3>2, <3>4, <1>1, WaitingIs DEF Waits, In
      <3> QED BY <3>4, <3>5
    <2> QED BY <2>1, <2>2
  <1> QED BY <1>2 DEF DirtyInv

LEMMA InitDirty == Init => DirtyInv
  BY DEF Init, DirtyInv

\* The listeners know whether a layer is dirty, unless a notice is still to come,
\* if clients create no diff of a layer that has changes in the queue.
THEOREM ListenersKnow ==
    ASSUME DiffsInBlocks = FALSE
    PROVE  Spec => []DirtinessKnown
  <1>1. Spec => []DirtyInv
    BY InitDirty, NextDirty, ChangeSafety, PTL DEF Spec
  <1> QED BY <1>1, DirtyInvKnown, ChangeSafety, PTL

=============================================================================
