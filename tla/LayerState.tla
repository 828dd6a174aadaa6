----------------------------- MODULE LayerState -----------------------------
(***************************************************************************)
(* What becomes of the content of a layer when it is edited, muted,        *)
(* unmuted, saved, exported, imported, reloaded, renamed, closed and       *)
(* opened again, while its file changes (layer.cpp), with the dirtiness    *)
(* that its state delegate keeps (layerStateDelegate.cpp).                 *)
(*                                                                         *)
(* One layer is open at a time and one thread works with it, since         *)
(* mutation of a layer is not thread safe; other threads ask whether it is *)
(* muted, through the cache of IsMuted, which any thread may use.          *)
(*                                                                         *)
(* authored is what the layer would show were it not muted, synced is what *)
(* it shared with its file when they were last in step: the promises are   *)
(* stated with them and no action reads them.                              *)
(***************************************************************************)
EXTENDS Naturals, FiniteSets

CONSTANTS
    Path,           \* identifiers, which are the muted paths too
    Content,        \* what a layer or a file may hold
    Empty,          \* what _CreateData() makes
    None,
    Asker,          \* threads that ask whether the layer is muted
    Allowed,        \* uses after which the code does not keep its promises
    MaxTime,        \* bound on the clock
    MaxRevision     \* bound on the calls that mute or unmute

\* "stashLeft": data put aside by a muting that has ended are still kept when the
\* layer is written, renamed, muted while clean, or opened; "nothingAside": a muted
\* layer is written that was clean when it was muted; "importMuted", "importStreams": a muted layer,
\* or one that streams its data, imports a file; "renameMuted": a layer is renamed
\* from or to a path that is muted; "untold": the state delegate is
\* changed before the listeners know of the dirtiness; "unreadable": a file cannot
\* be read when its layer is unmuted; "halfStored": the thread that works with the
\* layer acts on an answer of IsMuted that it read while another thread had stored
\* the revision but not yet the answer, and that answer is not so.
Use == {"stashLeft", "nothingAside", "importMuted", "importStreams", "renameMuted",
        "untold", "unreadable", "halfStored"}

\* What is assumed of the constants.
StateConstants ==
    /\ Empty \in Content
    /\ None \notin Path \cup Content \cup Asker
    /\ Allowed \subseteq Use
    /\ MaxTime \in Nat \ {0} /\ MaxRevision \in Nat \ {0}

VARIABLES
    streams,        \* whether the data of the file format stream (usdc)
    now,            \* the clock, which every write of a file advances
    file,           \* path -> what its file holds and when it was modified
    layer,          \* the layer
    mutedLayers,    \* _mutedLayers
    revision,       \* _mutedLayersRevision
    mutedData,      \* _mutedLayerData: path -> content, or None
    cache,          \* _mutedLayersRevisionCache and _isMutedCache of the layer
    mutex,          \* _mutedLayersMutex: the asker that holds it, or None
    asker,          \* where the askers are
    authored,
    synced

vars == <<streams, now, file, layer, mutedLayers, revision, mutedData, cache, mutex, asker,
          authored, synced>>
muting == <<mutedLayers, revision, mutedData>>
asking == <<mutex, asker>>
ghosts == <<authored, synced>>

NoFile == [content |-> None, time |-> 0]
Exists(path) == file[path] # NoFile
Write(path, content) ==
    /\ now < MaxTime
    /\ now' = now + 1
    /\ file' = [file EXCEPT ![path] = [content |-> content, time |-> now']]
Closed == [open |-> FALSE, path |-> None, data |-> None, dirty |-> FALSE,
           told |-> FALSE, time |-> 0]
NothingKept(path) == mutedData[path] = None \/ "stashLeft" \in Allowed
NoCache == [revision |-> 0, muted |-> FALSE]
Idle == [pc |-> "idle", seen |-> 0, truths |-> {}]

-----------------------------------------------------------------------------
\* The state of the layer, step by step inside of an action.

\* IsMuted() of the thread that works with the layer.
CacheAt(rev, muted, path) ==
    IF cache.revision = rev THEN cache ELSE [revision |-> rev, muted |-> path \in muted]
Refreshed == CacheAt(revision, mutedLayers, layer.path)
IsMuted == Refreshed.muted
PermissionToEdit == ~IsMuted

\* The thread that works with the layer is told what is so: it may be told otherwise
\* only while an asker is between its two stores into the cache.
ToldRight == IsMuted = (layer.path \in mutedLayers) \/ "halfStored" \in Allowed

\* A round of changes tells the listeners when the dirtiness changed.
Told(l) == [l EXCEPT !.told = l.dirty]

\* SdfSimpleLayerStateDelegate: whatever it sees makes the layer dirty.
MarkCurrentStateAsDirty(l) == [l EXCEPT !.dirty = TRUE]

\* The state delegate sees an edit before the data change.
Edited(l, content) == Told([MarkCurrentStateAsDirty(l) EXCEPT !.data = content])

\* _AdoptData: new data take the place of the old behind the delegate's back.
AdoptData(l, content) == Told([l EXCEPT !.data = content])

\* _SetData: edits that make the data equal to the new ones, or their adoption.
SetData(l, content) ==
    IF streams THEN AdoptData(l, content)
    ELSE IF l.data = content THEN l ELSE Edited(l, content)

MarkCurrentStateAsClean(l) == [l EXCEPT !.dirty = FALSE, !.told = FALSE]

\* Clear and TransferContent mark a layer that streams themselves, after the
\* listeners were told.
Replaced(l, content) ==
    LET replaced == SetData(l, content)
    IN  IF streams THEN MarkCurrentStateAsDirty(replaced) ELSE replaced

\* _SetLayerData: what a reader read, in data of the layer's own implementation.
SetLayerData(l, content) == SetData(l, content)

\* _Reload: what is left of the layer; it is the same layer when the reloading
\* is skipped or fails.
ReloadMuted(l) ==
    IF l.data = Empty THEN l ELSE MarkCurrentStateAsClean(SetData(l, Empty))
MustRead(l, force) ==
    /\ Exists(l.path)
    /\ l.time # 0
    /\ force \/ l.dirty \/ file[l.path].time # l.time
Read(l) ==
    [MarkCurrentStateAsClean(SetLayerData(l, file[l.path].content))
        EXCEPT !.time = file[l.path].time]

-----------------------------------------------------------------------------
Init ==
    /\ streams \in BOOLEAN
    /\ file \in [Path -> {NoFile} \cup {[content |-> c, time |-> 1] : c \in Content \ {Empty}}]
    /\ now = 1
    /\ layer = Closed
    /\ mutedLayers = {} /\ revision = 1
    /\ mutedData = [path \in Path |-> None]
    /\ cache = NoCache
    /\ mutex = None
    /\ asker = [a \in Asker |-> Idle]
    /\ authored = None /\ synced = None

\* Another program writes or removes the file.
ChangeFile(path) ==
    /\ \E c \in Content \ {Empty} : Write(path, c)
    /\ UNCHANGED <<streams, layer, muting, cache, asking, ghosts>>
RemoveFile(path) ==
    /\ Exists(path)
    /\ file' = [file EXCEPT ![path] = NoFile]
    /\ UNCHANGED <<streams, now, layer, muting, cache, asking, ghosts>>

\* FindOrOpen of a layer that is not in the registry: a muted one is not read.
Open(path) ==
    /\ ~layer.open
    /\ Exists(path)
    /\ NothingKept(path)
    /\ cache' = [revision |-> revision, muted |-> path \in mutedLayers]
    /\ layer' = [open |-> TRUE, path |-> path, dirty |-> FALSE, told |-> FALSE,
                 data |-> IF path \in mutedLayers THEN Empty ELSE file[path].content,
                 time |-> file[path].time]
    /\ authored' = file[path].content
    /\ synced' = authored'
    /\ UNCHANGED <<streams, now, file, muting, asking>>

\* ~SdfLayer: edits that were put aside go with a muted layer.
Close ==
    /\ layer.open
    /\ \A a \in Asker : asker[a].pc = "idle"
    /\ layer' = Closed /\ cache' = NoCache
    /\ mutedData' = IF IsMuted THEN [mutedData EXCEPT ![layer.path] = None] ELSE mutedData
    /\ authored' = None /\ synced' = None
    /\ asker' = [a \in Asker |-> Idle]
    /\ UNCHANGED <<streams, now, file, mutedLayers, revision, mutex>>

\* An edit of a spec through the layer's interface.
Edit(content) ==
    /\ layer.open /\ ToldRight
    /\ PermissionToEdit
    /\ cache' = Refreshed
    /\ layer' = Edited(layer, content)
    /\ authored' = content
    /\ UNCHANGED <<streams, now, file, muting, asking, synced>>

\* Clear, and TransferContent from another layer.
Replace(content) ==
    /\ layer.open /\ ToldRight
    /\ PermissionToEdit
    /\ cache' = Refreshed
    /\ layer' = Replaced(layer, content)
    /\ authored' = content
    /\ UNCHANGED <<streams, now, file, muting, asking, synced>>

\* Import reads a file into the layer: nothing asks whether it may be edited.
Import(path) ==
    /\ layer.open
    /\ Exists(path)
    /\ layer.path \in mutedLayers => "importMuted" \in Allowed
    /\ streams => "importStreams" \in Allowed
    /\ layer' = SetLayerData(layer, file[path].content)
    /\ authored' = file[path].content
    /\ UNCHANGED <<streams, now, file, muting, cache, asking, synced>>

\* Reload, of a layer whose file cannot be read too.
ReloadFrom(force) ==
    /\ cache' = Refreshed
    /\ IF IsMuted
       THEN /\ layer' = ReloadMuted(layer)
            /\ UNCHANGED ghosts
       ELSE /\ MustRead(layer, force)
            /\ layer' = Read(layer)
            /\ authored' = layer'.data /\ synced' = layer'.data
Reload(force) ==
    /\ layer.open /\ ToldRight
    /\ ReloadFrom(force)
    /\ UNCHANGED <<streams, now, file, muting, asking>>

-----------------------------------------------------------------------------
\* What every asker that is not idle could truthfully be told by now.
Witness(muted, path) ==
    [a \in Asker |-> IF asker[a].pc = "idle" THEN asker[a]
                     ELSE [asker[a] EXCEPT !.truths = @ \cup {(path \in muted)}]]

\* AddToMutedLayers: the edits of a dirty layer are put aside.
SetAside(path) ==
    IF layer.dirty
    THEN /\ mutedData' = [mutedData EXCEPT ![path] = layer.data]
         /\ layer' = SetData(layer, Empty)
         /\ UNCHANGED cache
    ELSE /\ NothingKept(path)
         /\ layer' = ReloadMuted(layer)
         /\ cache' = CacheAt(revision', mutedLayers', path)
         /\ UNCHANGED mutedData

\* Mutant: the layer is muted before the revision that tells so is counted.
AddToMutedLayersUncounted(path) ==
    /\ mutex = None
    /\ revision < MaxRevision
    /\ mutedLayers' = mutedLayers \cup {path}
    /\ IF path \notin mutedLayers /\ layer.open /\ layer.path = path
       THEN /\ UNCHANGED revision
            /\ SetAside(path)
            /\ asker' = Witness(mutedLayers', path)
       ELSE /\ revision' = revision + 1
            /\ UNCHANGED <<layer, cache, mutedData, asker>>
    /\ UNCHANGED <<streams, now, file, mutex, ghosts>>

AddToMutedLayers(path) ==
    /\ mutex = None
    /\ revision < MaxRevision
    /\ revision' = revision + 1
    /\ mutedLayers' = mutedLayers \cup {path}
    /\ IF path \notin mutedLayers /\ layer.open /\ layer.path = path
       THEN /\ SetAside(path)
            /\ asker' = Witness(mutedLayers', path)
       ELSE UNCHANGED <<layer, cache, mutedData, asker>>
    /\ UNCHANGED <<streams, now, file, mutex, ghosts>>

\* Mutant: the file is read although edits were put aside.
BringBackRead(path) ==
    /\ cache' = CacheAt(revision', mutedLayers', path)
    /\ UNCHANGED <<mutedData, ghosts>>
    /\ MustRead(layer, TRUE)
    /\ layer' = Read(layer)

\* RemoveFromMutedLayers: the edits of a dirty layer come back, a clean layer is
\* read from its file.
BringBack(path) ==
    IF layer.dirty
    THEN /\ mutedData' = [mutedData EXCEPT ![path] = None]
         /\ layer' = IF mutedData[path] = None THEN layer
                     ELSE SetData(layer, mutedData[path])
         /\ UNCHANGED <<cache, ghosts>>
    ELSE /\ cache' = CacheAt(revision', mutedLayers', path)
         /\ UNCHANGED mutedData
         /\ \/ /\ MustRead(layer, TRUE)
               /\ layer' = Read(layer)
               /\ authored' = layer'.data /\ synced' = layer'.data
            \/ /\ "unreadable" \in Allowed
               /\ UNCHANGED <<layer, ghosts>>

RemoveFromMutedLayers(path) ==
    /\ mutex = None
    /\ revision < MaxRevision
    /\ revision' = revision + 1
    /\ mutedLayers' = mutedLayers \ {path}
    /\ IF path \in mutedLayers /\ layer.open /\ layer.path = path
       THEN /\ BringBack(path)
            /\ asker' = Witness(mutedLayers', path)
       ELSE UNCHANGED <<layer, cache, mutedData, asker, ghosts>>
    /\ UNCHANGED <<streams, now, file, mutex>>

-----------------------------------------------------------------------------
\* _TemporaryUnmuter: what is written is what was put aside, if anything was.
ToWrite == IF mutedData[layer.path] = None THEN layer.data ELSE mutedData[layer.path]

\* _WriteToFile, for Export and Save.  A writer that fails changes nothing.
WriteToFile(path) ==
    /\ layer.path \notin mutedLayers => NothingKept(layer.path)
    /\ layer.path \in mutedLayers =>
          mutedData[layer.path] # None \/ "nothingAside" \in Allowed
    /\ Write(path, ToWrite)

\* Mutant: every write leaves the layer clean, whatever file it goes to.
ExportMarksClean(path) ==
    /\ layer.open /\ mutex = None
    /\ path # layer.path
    /\ WriteToFile(path)
    /\ layer' = MarkCurrentStateAsClean(layer)
    /\ UNCHANGED <<streams, muting, cache, asking, ghosts>>

Export(path) ==
    /\ layer.open /\ mutex = None
    /\ path # layer.path
    /\ WriteToFile(path)
    /\ UNCHANGED <<streams, layer, muting, cache, asking, ghosts>>

\* _Save.
Save(force) ==
    /\ layer.open /\ mutex = None
    /\ force \/ layer.dirty \/ ~Exists(layer.path)
    /\ WriteToFile(layer.path)
    /\ layer' = [MarkCurrentStateAsClean(layer) EXCEPT !.time = now']
    /\ synced' = ToWrite
    /\ UNCHANGED <<streams, muting, cache, asking, authored>>

\* SetIdentifier: what is at the new place is unknown, so the layer is dirty.
SetIdentifier(path) ==
    /\ layer.open
    /\ path # layer.path
    /\ {path, layer.path} \cap mutedLayers = {} \/ "renameMuted" \in Allowed
    /\ NothingKept(path) /\ NothingKept(layer.path)
    /\ layer' = Told([MarkCurrentStateAsDirty(layer) EXCEPT !.path = path,
                                                            !.time = file[path].time])
    /\ asker' = Witness(mutedLayers, path)
    /\ UNCHANGED <<streams, now, file, muting, cache, mutex, ghosts>>

\* SetStateDelegate: a new delegate is told what the listeners know.
SetStateDelegate ==
    /\ layer.open
    /\ layer.told = layer.dirty \/ "untold" \in Allowed
    /\ layer' = [layer EXCEPT !.dirty = layer.told]
    /\ UNCHANGED <<streams, now, file, muting, cache, asking, ghosts>>

-----------------------------------------------------------------------------
\* IsMuted() of the other threads.
BeginAsk(a) ==
    /\ asker[a].pc = "idle" /\ layer.open
    /\ asker' = [asker EXCEPT ![a] =
                    [pc |-> "compare", seen |-> revision,
                     truths |-> {layer.path \in mutedLayers}]]
    /\ UNCHANGED <<streams, now, file, layer, muting, cache, mutex, ghosts>>
Compare(a) ==
    /\ asker[a].pc = "compare"
    /\ asker' = [asker EXCEPT ![a].pc =
                    IF cache.revision = asker[a].seen THEN "answer" ELSE "lock",
                              ![a].seen = 0]
    /\ UNCHANGED <<streams, now, file, layer, muting, cache, mutex, ghosts>>
LockMuted(a) ==
    /\ asker[a].pc = "lock"
    /\ mutex = None
    /\ mutex' = a
    /\ cache' = [cache EXCEPT !.revision = revision]
    /\ asker' = [asker EXCEPT ![a].pc = "store"]
    /\ UNCHANGED <<streams, now, file, layer, muting, ghosts>>
StoreMuted(a) ==
    /\ asker[a].pc = "store"
    /\ mutex' = None
    /\ cache' = [cache EXCEPT !.muted = layer.path \in mutedLayers]
    /\ asker' = [asker EXCEPT ![a].pc = "answer"]
    /\ UNCHANGED <<streams, now, file, layer, muting, ghosts>>
Answer(a) ==
    /\ asker[a].pc = "answer"
    /\ asker' = [asker EXCEPT ![a] = Idle]
    /\ UNCHANGED <<streams, now, file, layer, muting, cache, mutex, ghosts>>

-----------------------------------------------------------------------------
Next ==
    \/ \E path \in Path :
          \/ ChangeFile(path) \/ RemoveFile(path)
          \/ Open(path) \/ Import(path) \/ Export(path) \/ SetIdentifier(path)
          \/ AddToMutedLayers(path) \/ RemoveFromMutedLayers(path)
    \/ \E content \in Content : Edit(content) \/ Replace(content)
    \/ \E force \in BOOLEAN : Reload(force) \/ Save(force)
    \/ Close \/ SetStateDelegate
    \/ \E a \in Asker :
          BeginAsk(a) \/ Compare(a) \/ LockMuted(a) \/ StoreMuted(a) \/ Answer(a)

Spec == Init /\ [][Next]_vars

-----------------------------------------------------------------------------
TypeOK ==
    /\ streams \in BOOLEAN
    /\ now \in 1 .. MaxTime
    /\ file \in [Path -> [content : Content \cup {None}, time : 0 .. MaxTime]]
    /\ layer \in [open : BOOLEAN, path : Path \cup {None}, data : Content \cup {None},
                  dirty : BOOLEAN, told : BOOLEAN, time : 0 .. MaxTime]
    /\ mutedLayers \subseteq Path
    /\ revision \in 1 .. MaxRevision
    /\ mutedData \in [Path -> Content \cup {None}]
    /\ cache \in [revision : 0 .. MaxRevision, muted : BOOLEAN]
    /\ mutex \in Asker \cup {None}
    /\ asker \in [Asker -> [pc : {"idle", "compare", "lock", "store", "answer"},
                            seen : 0 .. MaxRevision, truths : SUBSET BOOLEAN]]
    /\ {authored, synced} \subseteq Content \cup {None}

\* Muting hides the content of a layer and unmuting brings it back: what a layer
\* shows is what was authored in it, or nothing while it is muted
\* (AddToMutedLayers and RemoveFromMutedLayers, _Reload, _SetData).
ContentShown ==
    layer.open => layer.data = IF layer.path \in mutedLayers THEN Empty ELSE authored

\* A layer that is not dirty has nothing to save: what was authored in it is what
\* it last read from its file or wrote to it, muted or not (IsDirty, _Save,
\* _TemporaryUnmuter).
CleanMeansSaved == layer.open /\ ~layer.dirty => authored = synced

\* Whoever asks whether a layer is muted is told what was so at some time during
\* the call, though the answer may come from the cache (IsMuted), unless it reads the
\* answer while another thread has stored the revision and not yet the answer, which
\* nothing prevents: then it may be told what was so at a revision before its call.
MutedAnswers ==
    \A a \in Asker :
        asker[a].pc = "answer" => cache.muted \in asker[a].truths \/ mutex # None

=============================================================================
