# Verification of pxr/sdf

`src/src/pxr/sdf` is the scene description library: layers of specs addressed
by paths, shared by the threads of a process.  This directory holds TLA+
specifications translated from its source, TLC configurations that check them
on small instances, and proofs checked by TLAPS.  Paths such as `layer.cpp`
are relative to `src/src/pxr/sdf`.

## 1. Inventory

| part | state | operations | what is hard | what makes it correct |
|---|---|---|---|---|
| Layer life cycle (`layer.cpp`) | reference counts, `_assetInfo`, `_initializationComplete`, the registry mutex | FindOrOpen, Find, CreateNew, New, CreateAnonymous, OpenAsAnonymous, SetIdentifier, UpdateAssetInfo, the destructor | upgrades that give the mutex up, layers found while they are being destroyed or read, readers that fail or throw | an asset is open once, references keep layers alive, only initialized layers are returned, calls return |
| Layer registry (`layerRegistry.cpp`) | three indices: identifier, real path, repository path | Insert, Update, Erase, Find | two layers that come to resolve to one path | an entry is of a live layer under an alias it has now |
| Node allocator (`pool.h`, `instantiatePool.h`) | per thread free list and span, shared lists, one atomic word | Allocate, Free, _ReserveSpan | compare and exchange, the last span of a region, the last region | no element is in two places, each has memory |
| Path nodes (`pathNode.cpp`, `pathNode.h`) | nodes, counts, the table, cached texts | FindOrCreate, copies and drops of handles, destruction | a lookup that races with the destruction of the same path, memory used again | equal paths have one node, none is used after it was freed |
| Change manager (`changeManager.cpp`, `changeBlock.cpp`) | a queue, the block depth and scheduled removals per thread | open and close blocks, every edit, sending of rounds | listeners that edit or drop layers in the middle of a round | every change is heard of once |
| Change list (`changeList.cpp`) | the entries of a round, per path | DidAdd, DidRemove, DidChangeName, DidMovePrim, DidChangeInfo | objects removed, renamed and created again at one path within a round | what the list says agrees with the layer |
| Identity registry (`identity.cpp`) | identities, the map from paths, the count of the dead | Identify, handle copies and drops, MoveIdentity, the sweep | counting and sweeping race with revival | handles of one spec share one identity, and follow it |
| Layer content (`childrenUtils.cpp`, `data.cpp`, parts of `layer.cpp`) | specs and children fields | creation, removal, insertion, renaming and setting of children, removal of inert specs | specs and the fields that list them change separately, calls fail midway | both stay in step, refusals change nothing, only what is inert is pruned |
| Cleanup tracker (`cleanupTracker.cpp`) | the specs tracked, whether an enabler exists | tracking, the cleanup | tracked specs move and vanish | what edits left inert is gone |
| Layer state (`layer.cpp`, `layerStateDelegate.cpp`) | content, file, dirtiness, muted paths and their revision, the stash of muted data, the cache of IsMuted | edits, Save, Export, Import, Reload, Clear, AddToMutedLayers, RemoveFromMutedLayers, SetIdentifier, closing and opening | data put aside come back at any later time; muting races with questions | an unmuted layer shows what was authored, a clean one has nothing to save |
| Layer data exchange (`layer.cpp` 3163-4460, `data.cpp`) | fields, dictionaries, time samples | SetField and its kin, TransferContent, `_SetData`, CreateDiff | required fields with fallbacks, specs that change type | what is told is what changed; a difference applied gives the other layer |
| Copying (`copyUtils.cpp`) | a worklist over two layers | SdfCopySpec | source and destination overlap | the copy is the source, with paths that lead into it |
| Batch namespace edits (`namespaceEdit.cpp`) | a virtual namespace | Process, Apply | checks on a simulation, edits on the layer | they agree |
| List operations and editors (`listOp.cpp`, `listEditor.h`, `connectionListEditor.cpp`, `subLayerListEditor.cpp`) | six lists; target specs and offsets kept beside them | apply, compose, modify, edit | the second list must follow the first | composition does what its parts do, target specs and offsets follow |
| Path table (`pathTable.h`) | buckets, and a tree laid into the entries | insert, erase, rename, grow | links of parents, children and siblings in the hash entries | finds what was inserted, the links are the tree |
| Path operations (`path.cpp`, `pathParser.h`) | none | prefixes, anchors, searches, text | kinds of nodes, relative paths | operations fit together, text comes back |
| Crate files (`crateFile.cpp`, `crateData.cpp`, `integerCoding.cpp`) | tables, packed values, specs that share field vectors | edits, Save, Export, reading | values of an older version, sharing, deferral | the data come back as plain data would be |
| Text files (`textFileFormatParser.*`, `fileIO_Common.cpp`, `usdaFileFormat.cpp`) | the stacks of the parser, the context of a value | writing and reading | stacks not cleared, values that end anywhere | what is written is read |
| Path expressions (`pathExpression*.cpp`, `pathPattern*.cpp`, `predicate*.h`) | how far patterns matched | Match, Next of a search, resolution, text | a search that jumps, skipped operands | a path matches if the set it means has it |
| Variable expressions (`variableExpression*.cpp`) | a stack of variables, the set of used ones | evaluation, parsing | cycles, errors, values that are expressions | the value is that of the parts, only what was used matters |
| Zip files, file format registry, schema and value types, layer utilities, Python bindings | mapped archives, loaded formats, tables, wrappers | | loading on demand | not modelled: section 9 |

How they interact.  A thread that opens a layer constructs it, publishes it in
the registry under the mutex, and reads it without.  An edit of a spec goes
through `Sdf_ChildrenUtils` to the layer, whose private setters tell the change
manager, move identities, and track specs for the cleanup.  The change manager
calls listeners, which call layers again.  Closing a change block removes
specs, which are edits of their own.  Handles to specs hold identities; paths
hold path nodes; path nodes live in the pool.  Muting, reloading and saving go
through the layer's data, which is in memory (`SdfData`) or reads a crate file
on demand (`Sdf_CrateData`); both are filled by readers of files and edited by
the same setters.  Editors of lists write a field and then the specs or the
second field that must follow it.

## 2. Modules

| module | models | extends / uses |
|---|---|---|
| `LayerRegistry` | the indices and their pure operations | |
| `LayerLifecycle` | threads that open, rename and drop layers | `LayerRegistry` |
| `Allocator`, `Pool` | what an allocator promises; the lock-free pool | `Pool` implements `Allocator` |
| `Interning`, `PathNodes` | what the interning of paths promises; the counted nodes | `PathNodes` implements `Interning` |
| `Notification`, `ChangeManager` | what listeners are promised; queues, blocks, rounds | `ChangeManager` implements `Notification` |
| `ChangeList` | the operations on a change list; a round of edits and its record | |
| `Identity` | identities of spec handles | |
| `LayerData`, `LayerContent` | specs as data and what is inert; the calls that edit them | `LayerContent` extends `LayerData` |
| `LayerState` | content, file, muting and dirtiness of a layer | |
| `LayerFields` | fields of specs, what is told of their edits, transfer and difference of data | |
| `CopySpecs` | SdfCopySpec between two layers or within one | |
| `NamespaceEdit` | batches of edits, on the virtual namespace and on the layer | |
| `ListOps`, `ListEditors`, `SubLayers` | list operations; their editors with target specs; sublayers with offsets | the editors extend `ListOps` |
| `PathTable` | the hash table with the tree in it | |
| `PathAlgebra`, `PathText` | operations on paths; their text and its parser, names with namespaces | `PathText` extends `PathAlgebra` |
| `CrateArrays`, `CrateFile` | coding of numbers; tables, values and paths in a file, the data of a layer on it | |
| `TextGrammar`, `TextFile` | the grammar of layers; the actions of the parser and the writer | |
| `TextSplines`, `TextValues` | splines, values with their brackets and quoted strings, both ways | |
| `PathExpressions`, `PathMatching` | patterns and expressions with their text and its parsers; the evaluators | `PathMatching` extends `PathExpressions` |
| `VariableExpressions` | evaluation and parsing of expressions of variables | |
| `MCMachines`, `MCAlgorithms` | the machines, and the pure parts, each on a small instance | named instances |
| `MC...` (the others) | instances of one module for TLC | |
| `LayerLifecycleProofs`, `PoolProofs`, `PathProofs`, `ChangeManagerProofs`, `IdentityProofs`, `ChangeListProofs` | theorems about a component (section 5); `PathProofs` is about nodes and, as an instance, about the table | the component's module, `TLAPS` |
| `EditingProofs` | what a layer is edited through, `LayerState`, `NamespaceEdit`, `ListEditors` and `SubLayers`, as instances, with the proofs about them | named instances, `TLAPS` |
| `MachinesProofs` | theorems about the components of `Machines`, and the laws of `ListOps` | `MCMachines` |

`MCMachines` instantiates the modules of proofs of two of its components
(`IdentityProofs`, `ChangeListProofs`), which extend those of the components, and
extends `EditingProofs`, so that `MachinesProofs` can cite their lemmas.  The
constants of `LayerState`, `NamespaceEdit`, `ListEditors` and `SubLayers` are those
of `EditingProofs` and of `MCMachines`: the cfg gives them values, and the proofs
are for all of them.

`map` in `PROJECT.json` names the lines behind the definitions; of the small helpers
of the pure parts, those whose lines another definition of the module has are
not listed again.  The
definitions whose comment begins with "Mutant:" are plausible bugs of the one
that follows; each property is checked to fail once the definition it guards
against is replaced by its mutant.

### LayerLifecycle and LayerRegistry

Each action is the stretch of a call between two points where another thread
can intervene.  `pc` is where a thread is:

| `pc` | in the code |
|---|---|
| `wantRead`, `lookup` | `FindOrOpen` 801-814, `_TryToFindLayer` with the mutex held |
| `wantUpgrade`, `wantRelock` | `upgrade_to_writer` (757): in one step, or by giving the mutex up and, after waiting, looking again |
| `missed`, `reading` | the layer is constructed and published under the mutex, then read without it |
| `waiting` | the spin of `_WaitForInitializationAndCheckIfSuccessful` |
| `wantCreate`, `creating`, `createFailed` | `_CreateNew`, its save, and the drop of the layer when the save failed |
| `wantUpdate`, `updating` | `_InitializeFromIdentifier` of an existing layer |
| `wantErase`, `erasing` | `~SdfLayer` |

The asset resolver is external: `location` says where an identifier resolves
to and `assets` what exists, and both may change (`Relocate`, `ToggleAsset`).
Identifiers and paths are model values.  What a layer holds is not modelled.

### Pool

`pc` is in the steps of `_ReserveSpan`: read the word, try to exchange it,
reserve a region if it was the last span, spin if it is locked.  Allocation
from a free list, a span or a shared list is one step, for it touches thread
local data or a concurrent queue.  The widths of region number and index are
constants, and `InWord` is what packing into the 32 bit word does, the number
that does not fit included.

### PathNodes

`FindLive`, `FindNone` and `Create` are `_FindOrCreate`: a shard is locked, a
node found is referenced only if its count is not 0, and otherwise replaced.
`Drop` is the decrement; `Unlink`, `RemoveToken`, `DropParent`, `FreeMemory`
are the steps of the destruction, in the order of the code, each of which other
threads can come between.

### ChangeManager and ChangeList

`changes`, `blocks` and `removeIfInert` are the thread-local `_Data`.  A round
of notices is a stack entry; between two of its notices a listener may act,
which is any of the other actions of the same thread.  `ChangeList` has the
operations on entries one by one, then makes edits, records them as
`changeManager.cpp` does, and keeps, beside the list, where each object really
came from.

### Identity

A drop is the decrement, then, for the one that reached 0, the counting of the
dead, the comparison with the threshold, the reset of the count, the mutex and
the sweep: six points between which other threads copy, drop and identify.

### LayerData and LayerContent

A spec is a record of its own opinions (`"inert"`, or something) and its
children fields; a path is a sequence of elements with their kind.  A call is
one action: a layer is edited by one thread at a time, which is what the
library asks of its clients.  The operators thread a record through the code of
a call, in its order, errors in the middle included.

### LayerState

One thread works with the one layer that is open; askers are other threads in the steps
of `IsMuted`, which compares its cache with the revision, takes the mutex, and stores
the revision and then the answer. Between the two stores another thread finds the cache
current and answers without the mutex: `Compare` has no guard against that, and
`ToldRight` keeps only edits, replacements and reloads from an answer that is not what
the layer is (section 7, "halfStored"). `file` is the disk, with modification times that
every write advances; `mutedData` is `_mutedLayerData`; `layer.dirty` is the state
delegate's flag and `layer.told` what the listeners know. `authored` and `synced` are
ghosts: what the layer would show were it not muted, and what it last shared with its
file. `Allowed` lists uses after which the code does not keep its promises, one by one
(section 7); the run allows none.

### NamespaceEdit

A step takes the next edit through `Process`, on `nodes` and `deadspace`, and,
when it is accepted, does it on `children`, the layer.  `origin` and `before`
remember which prim was which, so that both sides can be compared.  The layer
before the batch is a constant, of which `FirstLayer` in `EditingProofs` says what
any layer satisfies: each object is below a prim, and the children fields list
the prims.  `NestedRemovals` lets a prim be removed that others were taken out
of, after which the code goes wrong (section 7).

### ListOps, ListEditors, SubLayers

`ListOps` has the six lists and the operations on them as sequences; its laws
compare composition, reordering and renaming with definitions from what they
mean.  `ListEditors` threads a record of the editor's copy, the field and the
target specs through each call of a proxy.  `SubLayers` does the same for the
two vectors of a layer's sublayers, and for the renaming of asset paths.
`Vectors` and `PathLists`, the lists a client replaces a whole list by, are
constants.  The instances have `Loose = {}`: the client does nothing of what
section 7 says the specs of targets do not survive.

### PathTable

`nodes` are the entries with `firstChild` and `nextSiblingOrParent`, whose
pointer has a bit that says which of the two it is; `buckets` are the chains;
`content` is what the table should hold.

### LayerFields and CopySpecs

Data is a function from paths to specs.  Each call returns the data after it
and what the change manager was told, in order.  `CopySpecs` goes through the
worklist of `SdfCopySpec`, which reads the layer it writes.

### PathAlgebra and PathText

A path is a root, the nodes of its prim part and those of its property part.
`PathText` follows the grammar of pathParser.h rule by rule; the laws are
written from what the operations are for: what `MakeRelativePath` makes,
`MakeAbsolutePath` undoes.

### CrateArrays and CrateFile

`CrateArrays` is the coding of arrays with widths of a few bits.  `CrateFile`
has the tables, the packing of values with deduplication per version, the put
off of specs until the version is known, and both forms of the tree of paths.
The data of a layer on a file are edited, saved in place and read again; every call is done on plain
data too, and both must agree.

### Text: TextGrammar, TextFile, TextSplines, TextValues

The text of a layer is the sequence of the actions of the grammar it fires;
text is made of characters only for quoted strings, in `TextValues`.  `TextFile`
has one operator per action of the parser, on a record, the context with its
stacks, as textFileFormatParser.cpp has, and the writer.  `TextGrammar` says
which rules may follow which: what the writer writes must be in it.
`TextValues` is the value context with its tuple dimensions and the factories.
The laws are `ReadsBack`: what is written of data is read as the data.

### PathExpressions and PathMatching

An expression has its operations in reverse and its atoms, as in the code.  The
reader is recursive descent after the grammars, in which a rule can succeed,
fail, or end the parse.  `PathMatching` has both evaluators: a path alone, and
a search in depth-first order whose state is what each segment matched so far.
Both are compared with `Means`: whether the segments of a pattern can be laid
on a path somewhere, with quantifiers over the places.

### VariableExpressions

An expression is a tree; variables are a function.  The stack of variables being
evaluated finds cycles; the set of used variables is part of the result.

## 3. Runs

| run | question | instance |
|---|---|---|
| `LayerSafe` | are references, registry and mutex sound under every failure? | 2 threads, 3 layers, 2 identifiers and paths, one change of the resolver |
| `LayerReturns` | is an asset open once, and does every call return? | 2 fair threads, 3 layers, 1 context dependent identifier, resolver fixed |
| `LayerThrow` | does every call return when a reader throws? No: finding | 2 threads, one call |
| `PoolSafe` | is the pool an allocator? | 2 threads, regions of two spans, 4 elements in use |
| `PathNodesSafe` | are nodes interned and never used after they were freed? | 2 threads, 3 nodes, paths up to 3 deep, 4 handles |
| `ChangeNotices` | is every change heard of once, in order? | 1 thread, 2 layers, 3 changes, 2 blocks, 3 rounds |
| `ChangeDiff` | is it, when CreateDiff is called in a block? No: finding | 1 thread, 1 layer, 2 changes |
| `Machines` | does each component with a small state of its own keep it right? | one instance per component, see below |
| `Algorithms` | do the pure parts compute what they should? | one set of inputs per part, see below |
| `ContentEdits` | do specs and children fields stay in step? | prims under 2 names, 3 deep, 5 specs |
| `ContentCleanup` | does cleanup remove what is inert and nothing else? | a prim, a property, a variant set and a variant, 3 deep, 6 specs |
| `ContentVariantName` | nothing else? Not if a prim has a variant's name: finding | 6 specs |

`Machines` is seven runs in one: the variable `machine` says which component a
behaviour is of, and the others rest.  Each property is about one of them.

| property | component | instance |
|---|---|---|
| `EntriesTold` | `ChangeList` | 2 specs to begin with, 2 parents, 3 names, 4 edits, prims or properties |
| `HandlesSound` | `Identity` | 2 threads, 2 paths, 3 identities, 3 handles, 3 specs |
| `ContentShown`, `CleanMeansSaved`, `MutedAnswers` | `LayerState` | 2 paths, 2 contents, 2 askers, 2 writes of files, 2 calls that mute |
| `NamespaceAgrees` | `NamespaceEdit` | 2 names, 3 deep, 3 edits at two indices of a layer with five prims and a property, `NestedRemovals = FALSE` |
| `TargetsFollow` | `ListEditors` | 2 targets, 4 vectors, 3 items in all lists, 1 editor |
| `OffsetsFollow` | `SubLayers` | 2 assets, their 7 lists of up to two, 2 offsets, 3 sublayers, 1 prim |
| `TableConsistent` | `PathTable` | 2 names, 2 deep, buckets that double from 2, a hash with collisions |

`Algorithms` has no behaviour: a state holds an input, chosen in a few steps,
and each property applies the laws of a part to it.

| property | laws | inputs |
|---|---|---|
| `PathsRight` | anchoring, replacing and common parts agree; searches in sorted paths find what a look at each does; text comes back; names join | all pairs of some 50 paths with every kind of node, third paths of 19, all sets of 9 paths, names of 5 characters |
| `ListsRight` | a composed list op does what its parts do, an order keeps what follows an item, renamings | list ops over 3 items, pairs of simple ones, all orders of 4 |
| `FieldsRight` | listeners are told what changed, a transfer makes the other layer, samples around a time; a copy is its source | a prim and a property with two fields each, all pairs; 32 layers with every kind of spec, onto themselves and 6 others, from and to every path |
| `LayersReadBack` | a layer or spline that is written is read as it was | every pair of metadata in prims, variants and the root; attributes by relationships; variant sets; sublayers; splines of up to two knots |
| `ValuesReadBack` | values, dictionaries and strings are read as they were written, and what is no value is refused | all kinds of parts in tuples and arrays, trees of brackets, strings of quotes and bytes |
| `CrateRight` | the data of a layer on a crate file are those of plain data; arrays and paths come back | files of versions 0.3, 0.7 and 0.8, two calls and saves; arrays of 4 numbers at the limits; sets of 3 paths |
| `ExpressionsRight` | a path matches when the meaning says so, alone and in a search; prefixes move; references resolve; text comes back; variables have the value of their parts | patterns of 4 elements on 15 paths; trees of 3 operations; sequences of 3 tokens, most of 4; 3 variables with every type of value |

A law may have a precondition, which then stands for a divergence: each is in
section 7 with the name of the operator.

Why the bounds are enough, as far as they are:

* Layers.  Two threads are the least with a race; with three layers there is an
  expiring one, its successor and a bystander at the path it moves to.  The
  run takes one change of the resolver, since the second can only undo the
  first.  Longer histories and more of everything are the subject of the
  proofs, except for `CallsReturn`.
* Pool.  Regions of 7 elements in spans of 4 have a short last span, as the
  real ones do.  With four elements in use, and what the two threads keep in
  spans and lists, the first region is filled and left under the lock, and both
  spans of the second are used (a fifth one would reach the third region, with
  nothing new).  The number after the last one that fits is where the code goes
  wrong: `RegionsFit` keeps the properties to the others (section 7).
* Path nodes.  Three nodes are a parent, a child and the one that takes over
  the memory of either.  The table's shards are one per key, which allows more
  interleavings.
* Change manager.  Queues belong to threads, and threads share only the serial
  number and the layers; one thread with rounds three deep has the listener of
  a listener.  Every change is a number: two of one layer and one of another
  suffice for an overtaking.
* Layer state.  Two askers are the least of which one reads between the stores of the
  other; once the last write of a file is done they ask one at a time
  (`OneAsksAtLast`, a constraint of the cfg), as writes wait for the mutex and change nothing that
  askers read.  Contents are only compared, so one beside the empty one is enough.
  Two writes are the file that changes and the layer's save after it; two calls
  that mute are muting and unmuting, between which a stash is made and used up.
  Longer histories are the subject of the proof.
* Batch edits.  In three edits a place is left, taken and left again.
* Path table.  Seven paths in buckets that grow twice, with two paths of each
  family in one chain.
* Change list.  Four edits are the least in which an object leaves a path, one
  comes, is renamed away and a third comes.
* Identities.  Three handles: two that die at once, one that revives.
* Content.  A prim, its child and a grandchild, with a sibling name, give every
  move: up, down, over a sibling and below itself.  `Careful` keeps
  `SetNameChildren` from values below a child it replaces (section 7).

`VIEW` in the content runs leaves out the last call, on which nothing depends;
`SYMMETRY` is used only in runs without liveness.

Deadlock is checked in `LayerReturns`, `PoolSafe`, `PathNodesSafe` and the
content runs.  It is not in `LayerSafe`, `LayerThrow`, `ChangeNotices` and
`ChangeDiff`, where the code does wait or stop for ever after the failures of
section 7, nor in `Machines` and `Algorithms`, whose clients run out of their
bounds and inputs.

## 4. Fairness

* `LayerLifecycle!Fairness`: weak fairness of each thread's own steps, since the
  operating system schedules every thread, and strong fairness of taking the
  mutex, since `tbb::queuing_rw_mutex` serves its waiters in their order of arrival.  Nothing
  is assumed of the calls clients make or of the resolver.
* `ChangeManager!FairSpec`: threads leave the blocks they opened (`SdfChangeBlock`
  is a scoped object), the outermost in the end, and listeners return.

## 5. What is proved

Every theorem is of the specification of its module, for every value of the
constants that the assumptions named here allow: any number of threads, layers,
nodes, paths and edits.

| module | theorem | says | from |
|---|---|---|---|
| `LayerLifecycleProofs` | `LayerSafety` | `LayerInvariant` holds of every reachable state | `RegistryConstants`, `LifecycleConstants`: the sentinels are no members, the initial values have their types |
| | `TypeCorrect`, `KeepAlive`, `RegistryCorrect` | its parts `TypeOK`, `ReferencesKeepAlive`, `RegistryMatchesAssetInfo` | |
| | `SelfDeadlockFree`, `ReturnsCorrect` | `NoSelfDeadlock`; `ReturnsInitialized`, an action property | |
| | `OneLayer` | `OneLayerPerPath` | `SettledNames`: what an identifier resolves to stays |
| | `UpdateMatches` | `Update` keeps a registry that matches the asset infos matching, whatever the new one is | |
| `PoolProofs` | `PoolSafety`, `PoolTypes` | the invariant of the pool, its types | `PoolConstants`: the widths are not 0, the last span of a region is short |
| | `PoolSound` | `ElementsSound` | |
| | `PoolImplementsAllocator` | every step of the pool is one of `Allocator` or none | while `RegionsFit` |
| `PathProofs` | `PathSafety` | the invariant of path nodes | `NodeConstants`: finitely many threads and nodes |
| | `PathNodesCounted`, `PathTokensFresh` | `NodesCounted`, `TokensFresh` | |
| | `PathNodesIntern` | every step is one of `Interning` or none | |
| | `TableKept` | `TableConsistent` of the path table, for any names, depth, values, hash and first size | `TableConstants`: names are positive numbers, hashes are numbers |
| `ChangeManagerProofs` | `ChangeSafety` | the invariant of the queues and rounds | `ChangeConstants`: the bounds are numbers |
| | `ChangesInOrder` | `RoundsInOrder` | |
| | `ChangesImplementNotification` | every step is one of `Notification` or none | |
| | `ListenersKnow` | `DirtinessKnown` | no CreateDiff inside a block |
| `IdentityProofs` | `IdentitySafety`, `IdentitySound` | the invariant of the registry of identities, the five properties of handles | `IdentityConstants`: finitely many of everything |
| `ChangeListProofs` | `EditsTold` | what the list of a block tells is so | `RecordConstants`: finitely many specs when the block is opened |
| `EditingProofs` | `StateSafety` | the invariant of a layer that is muted, edited, saved, renamed, reloaded | `StateConstants`; `Allowed = {}`: none of the uses that section 7 lists |
| `MachinesProofs` | `IdentityHandlesSound`, `EditsAllTold` | the properties of `Machines` about these two | the values `MCMachines` gives |
| | `LayerContentShown`, `LayerCleanMeansSaved` | the first two properties of a layer's state | those of `StateSafety` |
| | `LayerMutedAnswers` | `MutedAnswers`: an answer that is read while no thread is between the two stores of the cache was so at some time of the call | those of `StateSafety` |
| | `BatchesAgree` | `NamespaceAgrees`, for any layer, names, depth and number of edits | `BatchConstants`, `FirstLayer`: names are numbers from 1, the layer lists its prims; `NestedRemovals = FALSE` |
| | `TargetsAreFollowed` | `TargetsFollow`, for any editors, targets and vectors | `ListConstants`: the vectors are lists of targets, and no target is the item that stands for none; `Loose = {}` |
| | `OffsetsAreKept` | `OffsetsFollow`, an action property, for any assets, offsets and lists | `ListConstants`, for assets |
| | `ComposedDoesBoth` | `ComposedRight`: what two list ops compose to does to any list what they do in turn | the ops are as `SetItems` leaves them (`Unrepeated`) |
| | `OrderKeepsFollowers` | `ReorderedRight`: an order keeps the items of a list, and what follows one of its own | list and order have no item twice |
| | `RenamingCommutes` | `RenamedRight`: renaming in a list op and in any list renames in the result | the op is `Unrepeated`, the renaming one to one |

The components of `Machines` are instances there, so an assumption about their
constants is a definition.  `IdentityConstants` and `RecordConstants` are
hypotheses of the theorems that `MachinesProofs` proves of the instance; that of
`LayerState` is assumed in `EditingProofs` of the constants there.

The arguments.

*Layers.*  None of the safety invariants is inductive alone.  That a layer
stays alive needs to know which layer a thread has at hand at each point of a
call (`ControlOK`); that the registry matches needs that whoever the registry
holds is alive, and that a destructor erases with the asset info it still has;
that no thread waits for itself needs who may hold the mutex where (`LockOK`).
`LayerInvariant` is the conjunction of these, each preserved by every action,
one lemma per part (`TypeStep`, `ControlStep`, `LockStep`, `KeepAliveStep`,
`RegistryStep`, `ReturnStep`) with one step per action.  The facts about the
three indices, that removing, moving and inserting an entry keeps every other
one in agreement, are the first lemmas of the module.  Mutual exclusion on the
registry is not in this invariant: one path of the code updates it without the
mutex (section 7), and the registry stays right in the model because an update
is one step.

That an asset is open once is a different matter, since it is what the mutex is
for.  `OneLayer` has the hypothesis `SettledNames`: `SetIdentifier` is not
called, the resolver does not change, and a repository path resolves to its
asset.  Without each of them it fails, see section 7.  The invariant
(`UniqueInvariant`) says that a thread between its lookup and its construction
holds the mutex (`MutexInv`), that the path its lookup did not find is not in the
registry until then (`MissInv`), that a layer a thread refers to is found under
its path (`CompleteInv`), and one found under a name under its path too
(`WholeInv`).  Two layers of one path would both be the one entry of it.
`CalmStep` deals with the steps that leave registry, mutex and layers alone,
which are most of them.

*Pool.*  Whatever a thread, a client or a shared list has lies below the one
atomic word, or, while the word is locked, in a region not after that of the
locker; so nobody has what the next exchange wins.  A word that compares equal
is the same frontier, so the exchange needs no version (there is no ABA).
`RegionsFit` is the state predicate that no region number has gone past the
bits of a handle: the code lets one through (section 7), and after that the
theorem about the allocator says nothing.

*Path nodes.*  A dying node has no handle and no child, so only the table still
leads to it, where the count of 0 or the mutex of its destroyer keep others
away (`DyingInv`).  The live nodes are a tree whose depths are those of the
paths; a live node is the entry of its key, so the nodes of a path are unique by
induction over its length, which is the refinement; and what a cached text says
is the path of its node by the same induction.

*Path table.*  There is an order of the entries, in which those below an entry come right
after it, that the links follow: the first child is the next in the order, the sibling
the next that is not below.  The recursion of `_EraseSubtree`, the iteration and the ranges
then go along the order, which is shown by induction over places.  Each operation
leaves such an order, the old one with a piece put in or cut out; a renaming is
a sequence of insertions and an erasure, and a copy inserts what the order has next, or what a
link leads to, and sets the links it does not find set.  The chains hold the entries once each, as
their folds put them (`Push`, `Remaining`, `Rehashed`).

*Change manager.*  A change is, until it is heard, in one queue or round of the
thread that made it, under its own layer.  A change of an inner round was made
by a listener of every round outside it and knows the changes of those, and
only of those, as overtaken.  `DirtyInv` adds for each layer what the listeners
were last told and which notices are still to come.  It needs that a round
takes all of a layer's queue, which a diff created inside of a block breaks:
hence the hypothesis `DiffsInBlocks = FALSE` of `ListenersKnow`.  The recursive
functions over rounds have their laws proved by the least counterexample.

*Identities.*  The map of the registry and the paths of the identities that lead
to the layer are inverse to one another; the counts are those of the handles and
of the threads between decrement and erasure, so what is deleted has none; a
dead identity that the sweep under way will not visit any more is counted.

*Layer state.*  What is put aside for the open layer while it is muted is what
was authored in it, and is there if it is dirty.  The cache of `IsMuted` with a
current revision, and no one between its two stores, holds the current answer;
with an older one it holds what was true when an asker read that revision.  While a
thread is between the two stores (`layer.cpp:2943`, the mutex is held) nothing can be said
of the answer another thread reads, and `MutedAnswers` says nothing: the last disjunct
of the property is that case, which section 7 lists.

*Change list.*  Each operation is described by what it does to the last entry of
each path and to the set of the entries (`Tells`, `RenameTells`): the entry of
its path becomes a given one, those of other paths stay, and no entry that tells
of a removal is ever overwritten.  The specs are then a set of records with
distinct paths, and the invariant (`RecordInv`) says of each record that the last
entry of its path tells its origin and its values, and of each object of the
beginning that it is there or its removal is told.  Places in the list, and in
what order entries come, do not matter to it: that is where the code's own
comments are wrong (`CreationOrderTold`, section 7).

*Batch edits.*  `NamespaceAgrees` asks what `IsDeadspace` and `Unedit` say, and
neither looks at everything it knows: the one looks at the last dead path that
is not after its path, the other at the nodes down to the first that is missing.
The invariant (`BatchInv`) says of all paths what the dead places and the nodes
mean together, and that a dead place is one the layer has nothing at, right below
something it has.  So no dead place is below another, and under the order of paths the last one not
after a path is the only one that may be above it.  The nodes are closed under
parents, so the deepest known one is the last with a node.  Each step is then
algebra of prefixes: what cutting a subtree, or grafting it to a free place, does
to the nodes it does to the objects of the layer.  A removal of a prim that others
were taken out of would leave one below another, which is what the code does not provide for
(section 7) and the theorem leaves out.  The lists of children follow the moves one name at a
time (`ListedIn`).

*Target specs.*  An editor tells the specs of targets of one list at a time:
the specs of what the list drops go, also when another list of the list op adds
the same target.  So that the specs are those of what the field lists
is not inductive; the invariant (`TargetsKept`) adds that no target is in two of
the lists that add it (`KindsApart`), that no list has it twice (`Singly`),
and that an op is explicit or has list ops, not both (`Modal`).  A call is followed through the record it
threads (`Sound`): each edit of one list keeps the record sound when nothing
loose is done, hence so do the calls, which are folds of such edits.

*Sublayers.*  The offset of a path is found by the first place of the path, in a
list of its own.  `OffsetsKept` says that the two lists are equally long and that
no path is in the first one twice, so that places and paths answer each other;
`InStep` is preserved by every edit, and what stays keeps its place's value.

*Folds.*  `FoldLeft` of the community modules is a function of sets of places
that equals an expression of itself, and first has to be shown to exist: `FoldExists` does so, for
a step given as a function, one place at a time.  Each of the eight folds of
list operations is then the sequence of its steps, from the first place to the
last, and what such a sequence keeps or adds follows by induction over its
length (`StepByStep`, of which `LeastNumber` is the root).

*Laws of list operations.*  They are those of which `ListsRight` is the instance
that TLC looks at; here the items are any set that does not have `NoItem`.  Each
operation has a closed form: deleting is `Without`, what is left of a list
after some items are taken out; prepending and appending link (`Linked`) the new
items to what is left; adding puts what is new at the end.  An
op that only deletes, prepends and appends makes three parts of a list (`Around`), and that two
such ops compose is algebra of `Without` and `Linked`.  Only such ops compose, and explicit ones;
of the others `ApplyOperations` makes nothing, and the law says nothing.  To
reorder, the code takes each item of the order out of a copy with those that
follow it (`TakeAlong`); what it has put together at each step is in ascending
order of the rank the law names, and holds exactly the items of the ranks so far.
Renaming one to one commutes with each operation, so with their sequence.

## 6. What is only model-checked

* Liveness (`CallsReturn`, `HeardInTheEnd`) and everything about `ENABLED`.
* The content of layers (`LayerContent`) and the pure parts of `MCAlgorithms`: what
  they compute is defined by recursion over paths, texts and trees, with RECURSIVE
  operators, in modules that the prover does not take.  List operations are the
  exception: `ListOps` folds, and its laws are theorems of `MachinesProofs`;
  `ListsRight` itself, in a module that reaches the others, is not the statement
  of one.  Induction over data itself
  is within reach where the definition is a recursive function: the least number
  with a counterexample is a set, and a set of numbers that is not empty has a
  least member (`WFMin`).  The proofs about rounds and path lengths go that way.
* The hypotheses above mark where the code is known to go wrong: what happens
  beyond them is shown by runs, not proved.
* The divergences of section 7.

## 7. Divergences

What the code does and a comment or document of it says otherwise.  Three are
runs of their own, and `findings` in `PROJECT.json`: `LayerThrow`, `ChangeDiff`,
`ContentVariantName`.  The others were met in the same models; each is shown by
the property named here, in a run changed as stated.

| where | what | shown by |
|---|---|---|
| `layer.cpp:621` | `_CreateNew` whose save fails returns without `_FinishInitialization` after the layer was published: a thread that found it keeps it alive and waits for ever. `layer.cpp:622` expects the drop to destroy it. | `CallsReturn` in `LayerThrow` with `Calls = {"FindOrOpen", "CreateNew"}`, `Failures = {"save"}` |
| `layer.cpp:2640` | `SetIdentifier` reaches `_InitializeFromIdentifier` without the mutex when the lookup found the layer itself or one that failed; `layer.cpp:2638` says "We should have acquired a write lock". If the read of the layer it found had failed, another thread opens the path meanwhile, and the path is open twice: `OneLayerPerPath` fails with the resolver fixed. | `UpdatesUnderWriteLock` in `LayerReturns` with `Calls = {"FindOrOpen", "SetIdentifier"}` |
| `layer.cpp:767` | an expiring layer found by identifier is erased, but the one that holds the real path the identifier now resolves to is not: the layer just opened is not the one found, against `TF_VERIFY` in `layer.cpp:3430`. | `OpenedLayerIsFound` in `LayerSafe` with `Calls = {"FindOrOpen"}` |
| `instantiatePool.h:173` | the test lets the region number `NumRegions` through, which does not fit the bits of a handle; its elements seem to be of region 0, which has no memory. `pool.h:53` says "at most 256 regions". | `HandlesUsable` in `PoolSafe` with `Thread = {t1}`, `RegionBits = 1`, `MaxInUse = 7` |
| `changeManager.cpp:49` | layers that are gone are filtered out before the first notice of a round; one that a listener drops later in the round is dereferenced. `changeManager.cpp:169-171`: "the change manager should only send notifications for existing layers". | `NoticesToExistingLayers` in `ChangeNotices` |
| `changeList.cpp:140` | an addition at a path where a created prim was renamed away fills the empty marker that keeps the creation order (`changeList.cpp:157-159`): create /A, rename it /B, create /A lists /A first. | `Record!CreationOrderTold` in `Machines` |
| `changeList.cpp:448` | a prim that moves to another parent has an `oldPath` without `didRename`; `changeList.h:132`: "Empty if didRename is not set". | `Record!OldPathIfRenamed` in `Machines` |
| `identity.cpp:34` | identities without references are deleted by a sweep only; neither the end of the registry nor a move over one deletes them. `identity.h:108-109` says the mapping is removed "when an identity's refcount hits zero". | `Identities!NothingLeaks` in `Machines` |
| `identity.cpp:91` | a move of a spec without an identity leaves the dormant identity at its new path: old handles lead to the spec that moved there. `identity.cpp:95-96`: "make sure we stomp it first". | `Identities!StompedByMove` in `Machines` |
| `childrenUtils.cpp:221` | `SetChildren` with a value below the spec it deletes at the value's new path fails after the deletion; `childrenUtils.cpp:192-193` says the manipulations are "treated atomically". | `RefusalsChangeNothing` in `ContentEdits` with `Careful = FALSE` |
| `childrenUtils.cpp:210` | the same with a value below a child that is not in the new list dereferences a dormant handle; `childrenUtils.cpp:161-162` announces a check "for duplicates or other error conditions". | `NoDeadHandle` in `ContentEdits` with `Careful = FALSE` |
| `layer.cpp:4982` | `_IsInertSubtree` looks for a variant set's spec at the path of a prim of its name, so variants are never examined and the removal of a prim with opinions in variants is told as inert; `layer.h:1795-1796`: "Return true if the entire subtree rooted at path does not affect the scene". | `InertRemovalsSayNothing` in `ContentCleanup` with `Ops <- VariantOps` and `Specifiers = {"inert", "class"}` |
| `childrenUtils.cpp:254` | `SetChildren` tracks neither the parent it takes children from nor the one it removes children of; `cleanupEnabler.h:40-42` names "removing name children". | `CleanedUp` in `ContentCleanup` with `"SetNameChildren"` added to `CleanupOps` |

### Layer state, lists and tables

In `Machines`, with the constant or the property named.

| where | what | shown by |
|---|---|---|
| `layer.cpp:5095` | data put aside for a dirty layer are still kept after it is saved muted and unmuted, as the unmuting reads a clean layer again; the next save writes them and marks the layer clean, and what was authored since is lost. `layer.cpp:5082` says "If the layer is muted swap in the unmuted data". | `CleanMeansSaved` with `Allowed = {"stashLeft"}`, `MaxTime = 3` |
| `layer.cpp:2991` | nothing is put aside for a layer that is clean when it is muted; edited and saved while muted, it writes what a muted layer shows. | `CleanMeansSaved` with `Allowed = {"nothingAside"}` |
| `layer.cpp:3984` | an import into a muted layer shows (`XXX` in the code), and one into a layer that streams its data leaves it clean. | `CleanMeansSaved` with `Allowed = {"importMuted"}`, `{"importStreams"}` |
| `layer.cpp:2936` | the cache of IsMuted is not reset when the identifier changes, and what was put aside stays under the old one. | `MutedAnswers` with `Allowed = {"renameMuted"}` |
| `layer.cpp:2943` | the cache of IsMuted gets its revision before its answer: another thread that edits the layer between the two takes the answer of the revision before, and edits a muted layer, or is refused an unmuted one; `layer.h:2065-2067` has the answer "only valid if _mutedLayersRevisionCache is up-to-date". | `ContentShown` with `Allowed = {"halfStored"}`; `MutedAnswers` without its last disjunct |
| `layer.cpp:3089` | an exchange of state delegates before the listeners know of an edit loses the dirtiness; a file that cannot be read when its layer is unmuted leaves it clean and empty. | `CleanMeansSaved` with `Allowed = {"untold"}`, `{"unreadable"}` |
| `namespaceEdit.cpp:652` | a dead path below a removed one stays dead, also when another prim with a child of that name moves to the place; `namespaceEdit.cpp:236` has the descendants move with it. | `NamespaceAgrees` with `NestedRemovals = TRUE` |
| `connectionListEditor.cpp:35` | the editor removes the spec of a target that another list of the list op still adds (`XXX` in the code); the same when an insertion makes list ops of an explicit list, when items are copied, when a path without a spec is replaced. | `TargetsFollow` with `Loose = {"shared"}`, `{"switching"}`, `{"moving"}`, `{"unlisted"}` |
| `listOpListEditor.h:172` | an editor that was made before someone else's edit writes its old copy back. | `TargetsFollow` with `Editors = {1, 2}`, `Loose = {"stale"}` |
| `layer.cpp:3290` | UpdateCompositionAssetDependency returns once it renamed a sublayer, with references and payloads of the same path untouched, and the sublayer's offset is lost; `layer.h:425-427` has it update "any occurrence". | `Sublayers!EveryOccurrenceUpdated` as an invariant of `Machines` |
| `pathTable.h:657` | UpdateForRename of a path to itself erases the subtree. | `Table!TableConsistent` with that renaming let through |

### Pure parts

In `Algorithms`; each is kept out by the precondition or the input named.

Layer data and copies.

* CreateDiff of a layer in which a property has another type does not name all that
  differs; `layer.h:1650-1652` has the list be what is "needed to transform this
  layer" (`DatasTransferred`, its last precondition).
* A required field that is erased is told as becoming empty although its
  fallback is what a reader sees from then on, and one that is set to its
  fallback is not stored.  The comment at `layer.cpp:4279`, "a path is considered
  inert if it is custom", says the opposite of the code below it.
* `copyUtils.cpp:627-636`: a prim copied onto a variant that has a `typeName`
  leaves it there, as its erasure is dropped; `copyUtils.h` says fields of the
  destination are overwritten (no variant of `Blocks` has one).
* A copy onto a spec of another type keeps the old type; a prim copied onto `/`
  turns all its paths into the empty path; `/` is never copied within its own
  layer; the check of compatibility lets variant sets and prims pass (`Fits`).
* Two targets that become one when they are remapped: the list drops one, the
  spec of the later one overwrites the other (`TargetsStayApart`).

Paths.

* `path.cpp`: whether AppendProperty refuses a path depends on a property node of
  that name having been made before, anywhere (`KnownProperties`).  `path.h:400`
  lets `EmptyPath.AppendProperty` warn; it makes a path.
* ReplacePrefix and MakeAbsolutePath can put a property on the root, `..` into an
  absolute path, or a variant behind no prim; the text of a variant selection
  behind `.` or `..` cannot be parsed (`TextComesBack`).
* RemoveCommonSuffix of two equal relative paths leaves `.` (`path.h:770`);
  GetConciseRelativePaths makes the empty path of `/`; of nested targets only the
  outermost is made absolute.

Text.

* Written but not readable: relocates in variants (`textFileFormatParser.cpp:3362`;
  `schema.cpp:982-983` allows them), an explicit empty list of variant set names,
  path expressions in dictionaries (`fileIO_Common.cpp:843` writes no quotes), asset
  paths with `@` that end in a backslash and up to two `@`
  (`fileIO_Common.cpp:87-126`, `textFileFormatParser.h:350-366`).
* Written and lost: empty connection lists that are not explicit, empty comments,
  sublayers, orders and variant sets, an empty documentation of the root, tangents
  that face no curve and widths in Hermite splines, the curve type of a spline
  without curves.
* Read as something else: an explicit list op of an unregistered field becomes a
  string; the order of properties and of variants is not kept; custom data of a
  knot must come last (`textFileFormatParser.cpp:2537`).
* Accepted without a word: `rel x = = v`; atoms between the rows of a matrix, which
  are dropped; a second `variantSet` of one name, which replaces the children; a
  list op statement on an unregistered field that has another value, which is
  ignored.  `rel x[</a>]` makes a target spec that no list names; prepended and
  appended targets make none.
* A tuple of unregistered metadata is checked against the dimensions left from the
  value before it.  Errors of the value context are reported but do not end the
  parse.

Crate files.

* `crateFile.cpp:988`: a file older than 0.7.0 that is saved in place in a newer
  version keeps its arrays with 32 bit sizes, and the reader takes the sizes by the
  new version: the arrays are unreadable.  Shown by `CrateRight` with `ArraysIn`
  giving arrays to version 3, and `Sixteen` in its `FirstCalls`.
* `crateData.cpp:680-714`: the erasure of a time that has no sample erases all
  samples (`Legal` keeps to times that have one).
* `_AddPath` of a relative path does not end; empty splines are not written; a move
  onto an existing path loses the moved spec, where `SdfData` keeps it; `-0.0` is
  written as 0 in an inlined value.

Expressions.

* `pathExpressionEval.h:318-330`: in a search an operand that is not needed is
  skipped without moving on what it matched so far: `//a + //a//b` misses paths
  (`Skippable`).  `testSdfPathExpression.cpp:426-427` compares a search with the
  matches path by path.
* A pattern for properties of two segments or more is never found by a search
  (`Searchable`).
* A pattern in which an inner segment begins with a predicate alone is matched
  otherwise by Match than by Next, and if it is the first of a longer segment the
  element before the first prefix is read (`Regular`).
* The text of a pattern for properties on `.`, `..` or `/`, and of references with
  such paths, cannot be parsed (`Readable`).  Arguments come back as numbers:
  booleans as 1 or 0, whole floats as integers.  `foo()` has one empty argument.
* An implied `and` of a bare call and a group is written as `one (one or one)`, which
  is read as a call with arguments and fails; `predicateExpression.h:226-227` says the
  text "parses to the same expression" (`TakesBrackets`).
* `predicateLibrary.h`: a call with fewer arguments than parameters wraps the number
  of unnamed ones, so that defaults are never used; keyword arguments that match no
  parameter are ignored.  Read, not modelled.
* `variableExpressionImpl.cpp:182`: `defined("X")` asks for X without recording it;
  `variableExpression.h:141` has the used variables be those "that were used while
  evaluating this expression".  Shown by `ExpressionsRight` without the
  precondition on `defined` in `UsedVariables`.
* An undefined variable in a string leaves its name there, without `${}`; a comment
  in `StringNode::Evaluate` says to leave the substitution in place.
* `eq([], [])` fails a verification, `lt([], [])` speaks of None; an empty list and
  one with a type are different types to `if`; text behind the closing backquote is
  ignored; blanks are refused inside of brackets and accepted in parentheses.

## 8. Abstractions

* A layer's content is edited by one thread at a time, in whole calls, outside
  of change blocks; what a block defers is in `ChangeManager`.
* In `LayerContent` the orders of children (primOrder, propertyOrder),
  permissions, schema validation, relationship targets, connections, mappers
  and expressions are left out, and values are "inert" or not.  Values and
  fields are in `LayerFields`, where the namespace is one prim and a property.
* Handles a client gives to a call are held by it; the specs they lead to are
  those of the model.
* In `ChangeManager` what a change list makes of changes is left out, and in
  `ChangeList` the flags that are only set.
* In `Pool`, `ArchReserveVirtualMemory` succeeds, threads do not exit, and free
  lists are sets.  Property part nodes, which are never destroyed, are not in
  `PathNodes`.
* `LayerState` has whole contents, one open layer, and files that are written
  at once.  Failures to write are not modelled.
* Names, tokens and values of pure parts are numbers or words; a hash is any
  function; integers have a few bits.  Text is a sequence of tokens, or of rules
  of the grammar; white space, number formats and the encoding of characters
  outside of quoted strings are left out.
* In `NamespaceEdit` objects are prims and properties; targets in paths and the
  permission checks of callers are left out.
* Crate files are not damaged, and no other process changes a file that is open.
* In `VariableExpressions` a quoted string with its escapes is one token, and no
  string result looks like an expression.  In `PathMatching` a glob is the set
  of names it matches, and a library has a few predicates.

## 9. Not modelled

* Zip packages: the layout of an archive is formatting; its reader keeps no state.
* File format registry: plugins are external, and the layer life cycle takes a
  format as something that may fail or throw.  Loading on demand under its mutex
  is next in the plan.
* The schema and the value types are tables filled once at start; what they allow
  is in the modules that ask them (`LayerData`, `LayerFields`, `TextFile`).
* Layer utilities, offsets, references and payloads are values with arithmetic.
* Python bindings are wrappers.
* Of the parts that are modelled: detached layers, the streaming of values into
  memory, the parallel parts of the path table and of the crate reader, relative
  paths in crate files, the binding of arguments to predicates.

## 10. Plan

Done: layers, pool and nodes, change manager and list, identities, content; then
layer state, layer data, copies, batch edits, lists with their editors, the path
table, path operations, crate files, text files, both kinds of expressions; then
the proofs of section 5.  Next:

1. The file format registry over the threads of `LayerLifecycle`: formats loaded
   on demand by several of them.
2. Detached layers, and what the layer life cycle does with them on reload.
3. The binding of arguments in predicateLibrary.h.
