----------------------------- MODULE MCMachines -----------------------------
(***************************************************************************)
(* The components with a small state of their own, each on a small         *)
(* instance and alone: machine says which of them runs.  A variable is     *)
(* shared by the components that have one of its name, and is None in a    *)
(* behaviour of the others.                                                *)
(*                                                                         *)
(* Where a component has proofs the instance is of their module, which     *)
(* extends the component's: its theorems hold of the instance too          *)
(* (MachinesProofs).  The components a layer is edited through, with their *)
(* constants and variables, are those of EditingProofs.                    *)
(***************************************************************************)
EXTENDS EditingProofs, TLC

CONSTANTS t1, t2, p1, p2, p3, i1, i2, i3, s1, s2, s3, v

ASSUME NoneDistinct == None \notin {t1, t2, p1, p2, p3, i1, i2, i3, s1, s2, s3, v}

ASSUME NonePath == None \notin {1, 2} \X {p1, p2, p3}

VARIABLES
    machine,
    specs, list,
    objects, registry, ids, deadCount, deadThreshold, identity, handle, pc, drop,
    buckets, content

-----------------------------------------------------------------------------
\* Two parents, three names, two specs to begin with.
Record == INSTANCE ChangeListProofs WITH
    Parent <- {1, 2}, Name <- {p1, p2, p3}, Value <- {v}, NoValue <- None, NoPath <- None,
    InitialPath <- {<<1, p1>>, <<1, p2>>}, MaxEdits <- 4

\* Two threads drop handles at once; every sweep is due when two identities are dead.
Identities == INSTANCE IdentityProofs WITH
    Thread <- {t1, t2}, Path <- {p1, p2}, Id <- {i1, i2, i3}, Slot <- {s1, s2, s3},
    MinDead <- 2, DeadShare <- 1, MaxObjects <- 3

\* The values of EditIndex for TLC: the place the object has, and the first.
FirstOrSame == {-2, 0}

\* Two prims below the root and three below these.
ThreeBelowTwo ==
    [path \in {<<>>, <<1>>, <<1, 1>>, <<1, 2>>, <<2>>, <<2, 1>>} |->
        CASE path \in {<<>>, <<1>>} -> <<1, 2>>
          [] path = <<2>> -> <<1>>
          [] OTHER -> <<>>]
OneProperty == {<<1, 0>>}

\* The values of Vectors and of PathLists for TLC: repeated items and other orders among them.
VectorsOfTwo == {<<>>, <<1>>, <<2, 1>>, <<1, 1>>}
ListsOfTwo == UNION {[1..n -> {1, 2}] : n \in 0..2}

\* A hash under which paths share buckets, and buckets that grow from two.
HashOf(path) == IF path = <<>> THEN 1 ELSE IF Len(path) = 1 THEN 3 + path[1]
                ELSE 9 + 3 * path[1] + path[2]
Table == INSTANCE PathTable WITH
    Names <- {1, 2}, MaxDepth <- 2, Values <- {5}, Default <- 0, Hash <- HashOf,
    FirstMask <- 1

-----------------------------------------------------------------------------
NoRecord == list = None
NoEdits == edits = None /\ properties = None
NoSpecs == specs = None
NoIdentity ==
    /\ objects = None /\ registry = None /\ ids = None /\ deadCount = None
    /\ deadThreshold = None /\ identity = None /\ handle = None /\ pc = None /\ drop = None
NoMutex == mutex = None
NoState ==
    /\ streams = None /\ now = None /\ file = None /\ layer = None /\ mutedLayers = None
    /\ revision = None /\ mutedData = None /\ cache = None /\ asker = None /\ authored = None
    /\ synced = None
NoNamespace ==
    /\ before = None /\ deadspace = None /\ children = None /\ origin = None /\ refused = None
NoNodes == nodes = None
NoTargets == field = None /\ copies = None /\ targets = None
NoSublayers == paths = None /\ offsets = None /\ references = None /\ call = None
NoTable == buckets = None /\ content = None

RecordInit == machine = "ChangeList" /\ Record!Init /\ NoIdentity /\ NoMutex /\
    NoState /\ NoNamespace /\ NoNodes /\ NoTargets /\ NoSublayers /\ NoTable
IdentityInit == machine = "Identity" /\ Identities!Init /\ NoRecord /\ NoEdits /\
    NoState /\ NoNamespace /\ NoNodes /\ NoTargets /\ NoSublayers /\ NoTable
StateInit == machine = "LayerState" /\ State!Init /\ NoSpecs /\ NoRecord /\ NoEdits /\
    NoIdentity /\ NoNamespace /\ NoNodes /\ NoTargets /\ NoSublayers /\ NoTable
NamespaceInit == machine = "NamespaceEdit" /\ Namespace!Init /\ NoSpecs /\ NoRecord /\
    NoIdentity /\ NoMutex /\ NoState /\ NoTargets /\ NoSublayers /\ NoTable
TargetsInit == machine = "ListEditors" /\ Targets!Init /\ NoSpecs /\ NoRecord /\ NoEdits
    /\ NoIdentity /\ NoMutex /\ NoState /\ NoNamespace /\ NoNodes /\ NoSublayers /\ NoTable
SublayersInit == machine = "SubLayers" /\ Sublayers!Init /\ NoSpecs /\ NoRecord /\ NoEdits /\
    NoIdentity /\ NoMutex /\ NoState /\ NoNamespace /\ NoNodes /\ NoTargets /\ NoTable
TableInit == machine = "PathTable" /\ Table!Init /\ NoSpecs /\ NoRecord /\ NoEdits /\
    NoIdentity /\ NoMutex /\ NoState /\ NoNamespace /\ NoTargets /\ NoSublayers

Init == RecordInit \/ IdentityInit \/ StateInit \/ NamespaceInit \/ TargetsInit \/
    SublayersInit \/ TableInit

identityRest == <<objects, registry, ids, deadCount, deadThreshold, identity, handle, pc, drop>>
stateVars == <<streams, now, file, layer, mutedLayers, revision, mutedData, cache, asker,
               authored, synced>>
namespaceRest == <<before, deadspace, children, origin, refused>>
targetsVars == <<field, copies, targets>>
sublayersVars == <<paths, offsets, references, call>>
tableRest == <<buckets, content>>
vars == <<machine, specs, list, edits, properties, mutex, nodes, identityRest, stateVars,
          namespaceRest, targetsVars, sublayersVars, tableRest>>

RecordNext == machine = "ChangeList" /\ Record!Next /\ UNCHANGED <<machine,
    identityRest, mutex, stateVars, namespaceRest, nodes, targetsVars, sublayersVars,
    tableRest>>
IdentityNext == machine = "Identity" /\ Identities!Next /\ UNCHANGED <<machine, list,
    edits, properties, stateVars, namespaceRest, nodes, targetsVars, sublayersVars,
    tableRest>>
StateNext == machine = "LayerState" /\ State!Next /\ UNCHANGED <<machine, specs, list,
    edits, properties, identityRest, namespaceRest, nodes, targetsVars, sublayersVars,
    tableRest>>
NamespaceNext == machine = "NamespaceEdit" /\ Namespace!Next /\ UNCHANGED <<machine,
    specs, list, identityRest, mutex, stateVars, targetsVars, sublayersVars, tableRest>>
TargetsNext == machine = "ListEditors" /\ Targets!Next /\ UNCHANGED <<machine, specs,
    list, edits, properties, identityRest, mutex, stateVars, namespaceRest, nodes,
    sublayersVars, tableRest>>
SublayersNext == machine = "SubLayers" /\ Sublayers!Next /\ UNCHANGED <<machine, specs, list,
    edits, properties, identityRest, mutex, stateVars, namespaceRest, nodes,
    targetsVars, tableRest>>
TableNext == machine = "PathTable" /\ Table!Next /\ UNCHANGED <<machine, specs, list,
    edits, properties, identityRest, mutex, stateVars, namespaceRest, targetsVars,
    sublayersVars>>

Next == RecordNext \/ IdentityNext \/ StateNext \/ NamespaceNext \/ TargetsNext \/
    SublayersNext \/ TableNext

Spec == Init /\ [][Next]_vars

Symmetry == Permutations({p1, p2}) \cup Permutations({i1, i2, i3}) \cup Permutations({t1, t2})

\* A bound: after the last write of a file no two threads ask at once.
OneAsksAtLast ==
    machine = "LayerState" /\ now = MaxTime =>
        \A a, b \in Asker : a = b \/ asker[a].pc = "idle" \/ asker[b].pc = "idle"

-----------------------------------------------------------------------------
\* A listener finds out from the change list what became of every spec and path of the
\* block, and both values of the field (changeList.cpp).
EntriesTold == machine = "ChangeList" =>
    Record!OriginsTold /\ Record!RemovalsTold /\ Record!NoAmbiguity /\ Record!ValuesTold

\* No identity is used after it is freed or dies early, equal handles stay equal and follow
\* their spec, and no dead identity is forgotten (identity.h and .cpp).
HandlesSound == machine = "Identity" =>
    /\ Identities!NoUseAfterFree /\ Identities!CountsExact
    /\ Identities!OneIdentity /\ Identities!HandlesFollow /\ Identities!DeadCounted

\* What an unmuted layer shows is what was authored in it, and a muted one shows nothing
\* (layer.cpp, _SetData, Reload, AddToMutedLayers).
ContentShown == machine = "LayerState" => State!ContentShown

\* A layer that is not dirty has nothing to save, muted or not (layer.cpp, _Save, Reload).
CleanMeansSaved == machine = "LayerState" => State!CleanMeansSaved

\* A thread that asks whether the layer is muted is told what was so at some time of the
\* call, unless it reads the answer between the two stores of another thread, which may
\* give it that of a revision before the call (layer.cpp, IsMuted).
MutedAnswers == machine = "LayerState" => State!MutedAnswers

\* The virtual namespace on which a batch is checked is the one the edits meet, and the
\* children fields list the prims (namespaceEdit.cpp, Process).
NamespaceAgrees == machine = "NamespaceEdit" =>
    Namespace!NamespaceAgrees /\ Namespace!ChildrenListed

\* The specs of targets are those of the targets the list op adds (connectionListEditor.cpp).
TargetsFollow == machine = "ListEditors" => Targets!TargetsFollow

\* A sublayer keeps its offset when the list changes (layer.cpp, SetSubLayerPaths).
OffsetsFollow == [][machine = "SubLayers" => Sublayers!OffsetsStep]_vars

\* The hash table finds exactly the paths that were inserted and their ancestors, and its
\* links form their tree (pathTable.h).
TableConsistent == machine = "PathTable" => Table!TableConsistent

=============================================================================
