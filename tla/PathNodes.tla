------------------------------ MODULE PathNodes ------------------------------
(***************************************************************************)
(* The shared, reference counted nodes of SdfPath: pathNode.cpp,           *)
(* pathNode.h and the handles of path.h.  A table maps a parent node and a *)
(* name to the one node of that path.  A node whose count went to 0 is     *)
(* destroyed by the thread that dropped the last reference, in steps,      *)
(* while other threads look for the same path; its memory goes back to the *)
(* pool (module Pool) and is used again.                                   *)
(*                                                                         *)
(* Modelled are the prim part nodes, which are counted; the nodes of the   *)
(* property part live for ever.  The table is sharded under spin mutexes   *)
(* in the code; here each key has a mutex of its own, which allows more    *)
(* interleavings.  A name for which isValid() is false is erased from the  *)
(* table before the mutex is released: nothing happens, and Name holds the *)
(* valid names.  The temporary reference to the parent in the destructors  *)
(* is never the last one, because _parent is still there, and is left out. *)
(***************************************************************************)
EXTENDS Naturals, Sequences, FiniteSets

CONSTANTS
    Thread,
    Node,        \* the memory of the nodes, apart from the root
    Root,        \* *_absoluteRootNode
    NoNode,
    Name,        \* the elements of paths
    MaxHandles   \* bound on the SdfPath objects, the root's first one included

ASSUME NodeConstants ==
    /\ Root \notin Node
    /\ NoNode \notin Node \cup {Root}
    /\ MaxHandles \in Nat
    /\ IsFiniteSet(Node) /\ IsFiniteSet(Thread)

AnyNode == Node \cup {Root}

Key == AnyNode \X Name

NoKey == <<>>

VARIABLES
    nodes,     \* the nodes whose memory is allocated
    key,       \* the parent and the name of each node
    count,     \* _refCount & RefCountMask
    hasToken,  \* the nodes whose _refCount has HasTokenBit
    tokens,    \* _pathTokenTable: the cached text, or NoKey
    table,     \* _primNodes
    locked,    \* the keys whose mutex is held
    creating,  \* the key for which each thread creates a node, or NoKey
    dying,     \* the nodes each thread is destroying, the innermost last
    handles    \* how many SdfPath objects there are with each node

memory == <<nodes, key>>
vars == <<memory, count, hasToken, tokens, table, locked, creating, dying, handles>>

\* The texts of the nodes with one more element than text has, k the keys.
OneMore(k, text) ==
    [n \in AnyNode |->
        IF n = Root \/ k[n] = NoKey THEN <<>> ELSE Append(text[k[n][1]], k[n][2])]

\* The last elements of the texts, up to a depth.
UpTo[depth \in 0..Cardinality(Node)] ==
    IF depth = 0 THEN [n \in AnyNode |-> <<>>] ELSE OneMore(key, UpTo[depth - 1])

\* The text of a node: its names from the root.
TextOf == UpTo[Cardinality(Node)]

Idle(t) == creating[t] = NoKey /\ dying[t] = <<>>

\* The bound on the SdfPath objects.
Room ==
    LET total[S \in SUBSET AnyNode] ==
            IF S = {} THEN 0
            ELSE LET n == CHOOSE n \in S : TRUE IN handles[n] + total[S \ {n}]
    IN total[AnyNode] < MaxHandles

\* The memory of the model suffices for one more creation.
MemoryLeft ==
    Cardinality({t \in Thread : creating[t] # NoKey}) < Cardinality(Node \ nodes)

AddHandle(n) == handles' = [handles EXCEPT ![n] = @ + 1]

-----------------------------------------------------------------------------
(* _FindOrCreate, with a handle of the parent in the caller                *)

\* Mutant: a node that is dying is handed out again.
FindDying(t, p, a) ==
    LET n == table[<<p, a>>] IN
    /\ Idle(t)
    /\ Room
    /\ handles[p] > 0
    /\ <<p, a>> \notin locked
    /\ n # NoNode
    /\ count' = [count EXCEPT ![n] = @ + 1]
    /\ AddHandle(n)
    /\ UNCHANGED <<memory, hasToken, tokens, table, locked, creating, dying>>

\* There is an entry, and it is alive.
FindLive(t, p, a) ==
    LET n == table[<<p, a>>] IN
    /\ Idle(t)
    /\ Room
    /\ handles[p] > 0
    /\ <<p, a>> \notin locked
    /\ n # NoNode
    /\ count[n] > 0
    /\ count' = [count EXCEPT ![n] = @ + 1]
    /\ AddHandle(n)
    /\ UNCHANGED <<memory, hasToken, tokens, table, locked, creating, dying>>

\* There is none, or one that had begun dying, whose count is raised all the
\* same.  The mutex stays locked.
FindNone(t, p, a) ==
    LET n == table[<<p, a>>] IN
    /\ Idle(t)
    /\ Room
    /\ MemoryLeft
    /\ handles[p] > 0
    /\ <<p, a>> \notin locked
    /\ \/ n = NoNode /\ UNCHANGED count
       \/ n # NoNode /\ count[n] = 0 /\ count' = [count EXCEPT ![n] = 1]
    /\ locked' = locked \cup {<<p, a>>}
    /\ creating' = [creating EXCEPT ![t] = <<p, a>>]
    /\ UNCHANGED <<memory, hasToken, tokens, table, dying, handles>>

\* A node is allocated and constructed, the entry set and the mutex released.
Create(t) ==
    LET p == creating[t][1] IN
    /\ creating[t] # NoKey
    /\ \E n \in Node \ nodes :
          /\ nodes' = nodes \cup {n}
          /\ key' = [key EXCEPT ![n] = creating[t]]
          /\ hasToken' = hasToken \ {n}
          /\ count' = [count EXCEPT ![n] = 1, ![p] = @ + 1]
          /\ table' = [table EXCEPT ![creating[t]] = n]
          /\ AddHandle(n)
    /\ locked' = locked \ {creating[t]}
    /\ creating' = [creating EXCEPT ![t] = NoKey]
    /\ UNCHANGED <<tokens, dying>>

-----------------------------------------------------------------------------
(* SdfPath objects                                                         *)

\* The caller of a thread that creates a node keeps its handle of the parent.
Pinned(n) == Cardinality({t \in Thread : creating[t] # NoKey /\ creating[t][1] = n})

\* An SdfPath is copied.
Copy(n) ==
    /\ Room
    /\ handles[n] > 0
    /\ count' = [count EXCEPT ![n] = @ + 1]
    /\ AddHandle(n)
    /\ UNCHANGED <<memory, hasToken, tokens, table, locked, creating, dying>>

\* SdfPath::GetParentPath
GetParentPath(n) ==
    /\ Room
    /\ n # Root
    /\ handles[n] > 0
    /\ count' = [count EXCEPT ![key[n][1]] = @ + 1]
    /\ AddHandle(key[n][1])
    /\ UNCHANGED <<memory, hasToken, tokens, table, locked, creating, dying>>

\* GetPathToken: the bit is set, then the text is inserted unless it is there.
GetPathToken(n) ==
    /\ n # Root
    /\ handles[n] > 0
    /\ hasToken' = hasToken \cup {n}
    /\ tokens' = IF tokens[n] = NoKey THEN [tokens EXCEPT ![n] = TextOf[n]] ELSE tokens
    /\ UNCHANGED <<memory, count, table, locked, creating, dying, handles>>

\* An SdfPath is destroyed; the last reference begins the destruction of the
\* node.
Drop(t, n) ==
    /\ Idle(t)
    /\ handles[n] > Pinned(n) + (IF n = Root THEN 1 ELSE 0)
    /\ handles' = [handles EXCEPT ![n] = @ - 1]
    /\ count' = [count EXCEPT ![n] = @ - 1]
    /\ dying' = IF count[n] = 1
                THEN [dying EXCEPT ![t] = <<[node |-> n, step |-> "unlink"]>>]
                ELSE dying
    /\ UNCHANGED <<memory, hasToken, tokens, table, locked, creating>>

-----------------------------------------------------------------------------
(* _Destroy                                                                *)

Top(t) == dying[t][Len(dying[t])]

At(t, step) == dying[t] # <<>> /\ Top(t).step = step

\* The innermost destruction of t goes on with step.
GoOn(t, step) == dying' = [dying EXCEPT ![t][Len(dying[t])].step = step]

\* Mutant: the entry is erased whatever node it has.
UnlinkAny(t) ==
    LET n == Top(t).node IN
    /\ At(t, "unlink")
    /\ n # Root
    /\ key[n] \notin locked
    /\ table' = [table EXCEPT ![key[n]] = NoNode]
    /\ GoOn(t, "token")
    /\ UNCHANGED <<memory, count, hasToken, tokens, locked, creating, handles>>

\* _Remove: the entry is erased if it still has this node.  (The root has none;
\* its count never becomes 0.)
Unlink(t) ==
    LET n == Top(t).node IN
    /\ At(t, "unlink")
    /\ n # Root
    /\ key[n] \notin locked
    /\ table' = IF table[key[n]] = n THEN [table EXCEPT ![key[n]] = NoNode] ELSE table
    /\ GoOn(t, "token")
    /\ UNCHANGED <<memory, count, hasToken, tokens, locked, creating, handles>>

\* Mutant: the cached text is kept.
KeepToken(t) ==
    /\ At(t, "token")
    /\ GoOn(t, "parent")
    /\ UNCHANGED <<memory, count, hasToken, tokens, table, locked, creating, handles>>

\* ~Sdf_PathNode: the cached text is removed if there is one.
RemoveToken(t) ==
    LET n == Top(t).node IN
    /\ At(t, "token")
    /\ tokens' = IF n \in hasToken THEN [tokens EXCEPT ![n] = NoKey] ELSE tokens
    /\ GoOn(t, "parent")
    /\ UNCHANGED <<memory, count, hasToken, table, locked, creating, handles>>

\* The reference to the parent is dropped, which may destroy the parent first.
DropParent(t) ==
    LET p    == key[Top(t).node][1]
        rest == [dying[t] EXCEPT ![Len(dying[t])].step = "free"]
    IN
    /\ At(t, "parent")
    /\ count' = [count EXCEPT ![p] = @ - 1]
    /\ dying' = [dying EXCEPT ![t] =
                    IF count[p] = 1
                    THEN Append(rest, [node |-> p, step |-> "unlink"])
                    ELSE rest]
    /\ UNCHANGED <<memory, hasToken, tokens, table, locked, creating, handles>>

\* operator delete
FreeMemory(t) ==
    /\ At(t, "free")
    /\ nodes' = nodes \ {Top(t).node}
    /\ dying' = [dying EXCEPT ![t] = SubSeq(@, 1, Len(@) - 1)]
    /\ UNCHANGED <<key, count, hasToken, tokens, table, locked, creating, handles>>

-----------------------------------------------------------------------------
Init ==
    /\ nodes = {Root}
    /\ key = [n \in Node |-> NoKey]
    /\ count = [n \in AnyNode |-> IF n = Root THEN 1 ELSE 0]
    /\ hasToken = {}
    /\ tokens = [n \in Node |-> NoKey]
    /\ table = [k \in Key |-> NoNode]
    /\ locked = {}
    /\ creating = [t \in Thread |-> NoKey]
    /\ dying = [t \in Thread |-> <<>>]
    /\ handles = [n \in AnyNode |-> IF n = Root THEN 1 ELSE 0]

\* A step of a thread inside a call.
Working(t) ==
    Create(t) \/ Unlink(t) \/ RemoveToken(t) \/ DropParent(t) \/ FreeMemory(t)

Next ==
    \/ \E t \in Thread :
          \/ \E p \in AnyNode, a \in Name : FindLive(t, p, a) \/ FindNone(t, p, a)
          \/ \E n \in AnyNode : Drop(t, n)
          \/ Working(t)
    \/ \E n \in AnyNode : Copy(n) \/ GetParentPath(n) \/ GetPathToken(n)

Spec == Init /\ [][Next]_vars

-----------------------------------------------------------------------------
(* Properties                                                              *)

\* Every variable has its type.
TypeOK ==
    /\ nodes \subseteq AnyNode
    /\ key \in [Node -> Key \cup {NoKey}]
    /\ count \in [AnyNode -> Nat]
    /\ hasToken \subseteq Node
    /\ tokens \in [Node -> Seq(Name)]
    /\ table \in [Key -> Node \cup {NoNode}]
    /\ locked \subseteq Key
    /\ creating \in [Thread -> Key \cup {NoKey}]
    /\ dying \in
          [Thread -> Seq([node : AnyNode, step : {"unlink", "token", "parent", "free"}])]
    /\ handles \in [AnyNode -> Nat]

\* The nodes in destruction, and those that still have their parent.
Dying == UNION {{dying[t][i].node : i \in 1..Len(dying[t])} : t \in Thread}

Alive == nodes \ Dying

HasParent(n) ==
    /\ n \in nodes \ {Root}
    /\ \A t \in Thread : \A i \in 1..Len(dying[t]) :
          dying[t][i].node = n => dying[t][i].step # "free"

\* No memory is used after it was freed: what a client, the table, a child or a
\* creation under way refers to is there, and no node is destroyed twice.
NoUseAfterFree ==
    /\ \A n \in AnyNode : handles[n] > 0 => n \in Alive
    /\ \A k \in Key : table[k] # NoNode => table[k] \in nodes /\ key[table[k]] = k
    /\ \A n \in Node : HasParent(n) => key[n][1] \in Alive
    /\ \A t, u \in Thread : \A i \in 1..Len(dying[t]), j \in 1..Len(dying[u]) :
          dying[t][i].node = dying[u][j].node => t = u /\ i = j

\* The nodes that have n as their parent.
Children(n) == {c \in Node : HasParent(c) /\ key[c][1] = n}

\* A count is exactly the handles and the children there are, so a node dies
\* with its last reference and not later: nothing leaks.
CountsExact ==
    \A n \in Alive :
        /\ count[n] > 0
        /\ count[n] = handles[n] + Cardinality(Children(n))

\* No node dies early, late or twice (pathNode.h).
NodesCounted == NoUseAfterFree /\ CountsExact

\* The cached text of a live node is its own, not that of a path whose node had
\* the same memory before.
TokensFresh == \A n \in Alive \ {Root} : tokens[n] # NoKey => tokens[n] = TextOf[n]

\* The nodes do what their clients are promised.
Abstract == INSTANCE Interning WITH
    Path <- UNION {[1..i -> Name] : i \in 0..Cardinality(Node)},
    held <- {<<TextOf[n], n>> : n \in {m \in Node : handles[m] > 0}}

ImplementsInterning == Abstract!Spec

=============================================================================
