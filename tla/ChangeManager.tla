---------------------------- MODULE ChangeManager ----------------------------
(***************************************************************************)
(* Sdf_ChangeManager and SdfChangeBlock: changeManager.cpp and             *)
(* changeBlock.h, with the dirtiness of a layer that layer.cpp keeps for   *)
(* its notices.  Each thread queues the changes it makes, per layer, while *)
(* it has a change block open; closing the outermost block removes the     *)
(* specs scheduled for removal and sends the queue as one round of         *)
(* notices: those of each layer, the global one, then one per layer.       *)
(* A listener runs between two notices, in the thread that sends them, and *)
(* may change layers itself: its rounds are sent inside the one it hears.  *)
(*                                                                         *)
(* A change is a number, in the order the changes are made; what a change  *)
(* list makes of the changes of a layer is not modelled here.              *)
(***************************************************************************)
EXTENDS Naturals, Sequences, FiniteSets

CONSTANTS
    Thread,
    Layer,
    MaxChanges,     \* bound on the changes made
    MaxBlocks,      \* bound on the change blocks a thread has open at a time
    MaxRounds,      \* bound on the rounds inside one another
    DiffsInBlocks   \* whether CreateDiff is called of a layer that has changes
                    \* in the queue

ASSUME ChangeConstants ==
    /\ MaxChanges \in Nat /\ MaxBlocks \in Nat /\ MaxRounds \in Nat
    /\ DiffsInBlocks \in BOOLEAN

Change == 1..MaxChanges

VARIABLES
    layers,        \* the layers that have not been destroyed
    dirty,         \* SdfLayer::IsDirty
    lastDirty,     \* _lastDirtyState: the dirtiness the listeners know
    changes,       \* _Data::changes of each thread
    blocks,        \* the open change blocks of each thread
    removeIfInert, \* _Data::removeIfInert: the layers of the specs
    rounds,        \* the rounds of notices each thread is sending
    serialNumber,  \* changeSerialNumber
    made,          \* the changes made, each with its thread, its layer, and
                   \* the changes its thread was sending notices of
    heard,         \* the changes LayersDidChange told of
    aborted        \* what dereferenced a layer that is gone, if anything did

queues == <<changes, blocks, removeIfInert>>
vars == <<layers, dirty, lastDirty, queues, rounds, serialNumber, made, heard, aborted>>

Running == aborted = "no"

\* The changes in a queue.
In(queue) == UNION {queue[i].ids : i \in DOMAIN queue}

\* The part of a queue that is about the layers ls.
About(queue, ls) ==
    LET about[i \in 0..Len(queue)] ==
            IF i = 0 THEN <<>>
            ELSE IF queue[i].layer \in ls THEN Append(about[i - 1], queue[i])
            ELSE about[i - 1]
    IN about[Len(queue)]

\* The bound on the changes leaves room for n more.
Room(n) == Len(made) + n <= MaxChanges

\* _GetListFor: the changes ids of layer l join those it has in the queue.
Queued(queue, l, ids) ==
    IF \E i \in DOMAIN queue : queue[i].layer = l
    THEN [i \in DOMAIN queue |->
             IF queue[i].layer = l THEN [queue[i] EXCEPT !.ids = @ \cup ids] ELSE queue[i]]
    ELSE Append(queue, [layer |-> l, ids |-> ids])

\* The change t makes to l now.
NewChange(t, l) ==
    [ thread |-> t, layer |-> l,
      during |-> UNION {In(rounds[t][i].changes) : i \in DOMAIN rounds[t]} ]

\* What is queued and made, and a change t makes to l now.
WithChange(to, t, l) ==
    [ queue |-> Queued(to.queue, l, {Len(to.made) + 1}),
      made  |-> Append(to.made, NewChange(t, l)) ]

-----------------------------------------------------------------------------
(* _CloseChangeBlock                                                       *)

\* The part of a queue that is about layers that exist.
Live(queue) == About(queue, layers)

\* Mutant: the queue is not cleared before the notices are sent.
SendNoticesUncleared(t, queue) ==
    /\ changes' = [changes EXCEPT ![t] = queue]
    /\ rounds' = IF Live(queue) = <<>> THEN rounds
                 ELSE [rounds EXCEPT ![t] =
                          Append(@, [changes |-> Live(queue), next |-> 1,
                                     serial |-> 0])]

\* _SendNotices begins: the queue is moved aside and what is about layers that
\* are gone left out.
SendNotices(t, queue) ==
    /\ changes' = [changes EXCEPT ![t] = <<>>]
    /\ rounds' = IF Live(queue) = <<>> THEN rounds
                 ELSE [rounds EXCEPT ![t] =
                          Append(@, [changes |-> Live(queue), next |-> 1,
                                     serial |-> 0])]

\* The removals scheduled, of which those in inert are carried out; removing is
\* a change.  The queue, and the changes made.
Removed(t, queue, inert) ==
    LET done[i \in 0..Len(removeIfInert[t])] ==
            IF i = 0 THEN [queue |-> queue, made |-> made]
            ELSE IF i \in inert THEN WithChange(done[i - 1], t, removeIfInert[t][i])
            ELSE done[i - 1]
    IN done[Len(removeIfInert[t])]

-----------------------------------------------------------------------------
(* What a thread does, as a client or as a listener                        *)

OpenBlock(t) ==
    /\ Running
    /\ blocks[t] < MaxBlocks
    /\ Len(rounds[t]) < MaxRounds
    /\ blocks' = [blocks EXCEPT ![t] = @ + 1]
    /\ UNCHANGED <<layers, dirty, lastDirty, changes, removeIfInert, rounds,
                   serialNumber, made, heard, aborted>>

\* An edit of l, in a change block of its own.
Edit(t, l) ==
    /\ Running
    /\ l \in layers
    /\ Room(1)
    /\ Len(rounds[t]) < MaxRounds
    /\ dirty' = dirty \cup {l}
    /\ LET r == WithChange([queue |-> changes[t], made |-> made], t, l) IN
       /\ made' = r.made
       /\ IF blocks[t] = 0
          THEN SendNotices(t, r.queue)
          ELSE changes' = [changes EXCEPT ![t] = r.queue] /\ UNCHANGED rounds
    /\ UNCHANGED <<layers, lastDirty, blocks, removeIfInert, serialNumber, heard, aborted>>

\* ScheduleRemoveIfInert, with a block open.  (Without one the removal is an
\* edit at once.)
ScheduleRemoveIfInert(t, l) ==
    /\ Running
    /\ l \in layers
    /\ blocks[t] > 0
    /\ Room(Len(removeIfInert[t]) + 1)
    /\ removeIfInert' = [removeIfInert EXCEPT ![t] = Append(@, l)]
    /\ UNCHANGED <<layers, dirty, lastDirty, changes, blocks, rounds, serialNumber,
                   made, heard, aborted>>

\* A block that is not the outermost one does nothing when it is closed.
CloseInnerBlock(t) ==
    /\ Running
    /\ blocks[t] > 1
    /\ blocks' = [blocks EXCEPT ![t] = @ - 1]
    /\ UNCHANGED <<layers, dirty, lastDirty, changes, removeIfInert, rounds,
                   serialNumber, made, heard, aborted>>

\* Mutant: the notices are sent before the removals are processed.
CloseBlockEarly(t) ==
    /\ Running
    /\ blocks[t] = 1
    /\ \A i \in DOMAIN removeIfInert[t] : removeIfInert[t][i] \in layers
    /\ blocks' = [blocks EXCEPT ![t] = 0]
    /\ removeIfInert' = [removeIfInert EXCEPT ![t] = <<>>]
    /\ \E inert \in SUBSET (DOMAIN removeIfInert[t]) :
          LET r == Removed(t, <<>>, inert) IN
          /\ Len(r.made) <= MaxChanges
          /\ made' = r.made
          /\ dirty' = dirty \cup {removeIfInert[t][i] : i \in inert}
          /\ changes' = [changes EXCEPT ![t] = r.queue]
          /\ rounds' = IF Live(changes[t]) = <<>> THEN rounds
                       ELSE [rounds EXCEPT ![t] =
                                Append(@, [changes |-> Live(changes[t]), next |-> 1,
                                           serial |-> 0])]
    /\ UNCHANGED <<layers, lastDirty, serialNumber, heard, aborted>>

\* The outermost block is closed.
CloseBlock(t) ==
    /\ Running
    /\ blocks[t] = 1
    /\ \A i \in DOMAIN removeIfInert[t] : removeIfInert[t][i] \in layers
    /\ blocks' = [blocks EXCEPT ![t] = 0]
    /\ removeIfInert' = [removeIfInert EXCEPT ![t] = <<>>]
    /\ \E inert \in SUBSET (DOMAIN removeIfInert[t]) :
          LET r == Removed(t, changes[t], inert) IN
          /\ Len(r.made) <= MaxChanges
          /\ made' = r.made
          /\ dirty' = dirty \cup {removeIfInert[t][i] : i \in inert}
          /\ SendNotices(t, r.queue)
    /\ UNCHANGED <<layers, lastDirty, serialNumber, heard, aborted>>

\* The same, when the layer of a spec that is to be removed is gone:
\* GetLayer() returns an expired handle, which is dereferenced.
CloseBlockAborts(t) ==
    /\ Running
    /\ blocks[t] = 1
    /\ \E i \in DOMAIN removeIfInert[t] : removeIfInert[t][i] \notin layers
    /\ aborted' = "removal"
    /\ UNCHANGED <<layers, dirty, lastDirty, queues, rounds, serialNumber, made,
                   heard>>

\* CreateDiff: the differences are queued for the layer and taken out again,
\* with whatever was queued for it before (unless clients avoid that).
CreateDiff(t, l) ==
    /\ Running
    /\ DiffsInBlocks \/ \A i \in DOMAIN changes[t] : changes[t][i].layer # l
    /\ l \in layers
    /\ changes' = [changes EXCEPT ![t] = About(@, Layer \ {l})]
    /\ UNCHANGED <<layers, dirty, lastDirty, blocks, removeIfInert, rounds,
                   serialNumber, made, heard, aborted>>

\* Mutant: nobody is told.
MarkCleanSilently(l) ==
    /\ Running
    /\ l \in layers
    /\ dirty' = dirty \ {l}
    /\ UNCHANGED <<layers, lastDirty, queues, rounds, serialNumber, made, heard, aborted>>

\* _MarkCurrentStateAsClean, after a save or a reload; LayerDirtinessChanged
\* tells of it at once.
MarkClean(l) ==
    /\ Running
    /\ l \in layers
    /\ dirty' = dirty \ {l}
    /\ lastDirty' = lastDirty \ {l}
    /\ UNCHANGED <<layers, queues, rounds, serialNumber, made, heard, aborted>>

\* The last reference to a layer is dropped.
Expire(l) ==
    /\ Running
    /\ l \in layers
    /\ layers' = layers \ {l}
    /\ UNCHANGED <<dirty, lastDirty, queues, rounds, serialNumber, made, heard, aborted>>

-----------------------------------------------------------------------------
(* _SendNotices                                                            *)

Round(t) == rounds[t][Len(rounds[t])]

\* The listener of the notice before has returned.
Sending(t) == Running /\ rounds[t] # <<>> /\ blocks[t] = 0

SetRound(t, r) == rounds' = [rounds EXCEPT ![t][Len(rounds[t])] = r]

\* _UpdateLastDirtinessState, and the notices of one layer of the round.
NotifyLayer(t) ==
    LET r == Round(t)
        l == r.changes[r.next].layer
    IN
    /\ Sending(t)
    /\ r.serial = 0
    /\ r.next <= Len(r.changes)
    /\ IF l \in layers
       THEN /\ lastDirty' = IF l \in dirty THEN lastDirty \cup {l} ELSE lastDirty \ {l}
            /\ SetRound(t, [r EXCEPT !.next = @ + 1])
            /\ UNCHANGED aborted
       ELSE /\ aborted' = "notice"
            /\ UNCHANGED <<lastDirty, rounds>>
    /\ UNCHANGED <<layers, dirty, queues, serialNumber, made, heard>>

\* LayersDidChange, with a new serial number.
NotifyAll(t) ==
    LET r == Round(t) IN
    /\ Sending(t)
    /\ r.serial = 0
    /\ r.next > Len(r.changes)
    /\ serialNumber' = serialNumber + 1
    /\ SetRound(t, [r EXCEPT !.serial = serialNumber, !.next = 1])
    /\ heard' = heard \cup In(r.changes)
    /\ UNCHANGED <<layers, dirty, lastDirty, queues, made, aborted>>

\* LayersDidChangeSentPerLayer; a handle that has expired only has no listeners.
NotifyPerLayer(t) ==
    LET r == Round(t) IN
    /\ Sending(t)
    /\ r.serial > 0
    /\ r.next <= Len(r.changes)
    /\ SetRound(t, [r EXCEPT !.next = @ + 1])
    /\ UNCHANGED <<layers, dirty, lastDirty, queues, serialNumber, made, heard, aborted>>

\* The round ends.  The queue of the thread is empty, or is left as it is.
EndRound(t) ==
    /\ Sending(t)
    /\ Round(t).serial > 0
    /\ Round(t).next > Len(Round(t).changes)
    /\ rounds' = [rounds EXCEPT ![t] = SubSeq(@, 1, Len(@) - 1)]
    /\ UNCHANGED <<layers, dirty, lastDirty, queues, serialNumber, made, heard, aborted>>

-----------------------------------------------------------------------------
Init ==
    /\ layers = Layer
    /\ dirty = {}
    /\ lastDirty = {}
    /\ changes = [t \in Thread |-> <<>>]
    /\ blocks = [t \in Thread |-> 0]
    /\ removeIfInert = [t \in Thread |-> <<>>]
    /\ rounds = [t \in Thread |-> <<>>]
    /\ serialNumber = 1
    /\ made = <<>>
    /\ heard = {}
    /\ aborted = "no"

Notify(t) == NotifyLayer(t) \/ NotifyAll(t) \/ NotifyPerLayer(t) \/ EndRound(t)

Close(t) == CloseInnerBlock(t) \/ CloseBlock(t) \/ CloseBlockAborts(t)

Next ==
    \/ \E t \in Thread :
          \/ OpenBlock(t) \/ Close(t) \/ Notify(t)
          \/ \E l \in Layer : Edit(t, l) \/ ScheduleRemoveIfInert(t, l) \/ CreateDiff(t, l)
    \/ \E l \in Layer : MarkClean(l) \/ Expire(l)

Spec == Init /\ [][Next]_vars

\* The threads go on: they leave the blocks they opened, and listeners return.
FairSpec ==
    /\ Spec
    /\ \A t \in Thread :
          /\ WF_vars(Close(t)) /\ SF_vars(CloseBlock(t) \/ CloseBlockAborts(t))
          /\ SF_vars(Notify(t))

-----------------------------------------------------------------------------
(* Properties                                                              *)

Queue(C) == Seq([layer : Layer, ids : SUBSET C])

\* Every variable has its type.
TypeOK ==
    /\ layers \subseteq Layer
    /\ dirty \subseteq Layer
    /\ lastDirty \subseteq Layer
    /\ changes \in [Thread -> Queue(Change)]
    /\ blocks \in [Thread -> 0..MaxBlocks]
    /\ removeIfInert \in [Thread -> Seq(Layer)]
    /\ rounds \in
          [Thread -> Seq([changes : Queue(Change), next : Nat \ {0}, serial : Nat])]
    /\ serialNumber \in Nat \ {0}
    /\ made \in Seq([thread : Thread, layer : Layer, during : SUBSET Change])
    /\ heard \subseteq Change
    /\ aborted \in {"no", "removal", "notice"}

\* No change waits for a block that is not there: what a thread has queued is
\* sent at the latest when the thread closes its outermost block, the removals
\* that closing brings about and the edits of listeners included.
NothingStuck ==
    \A t \in Thread : blocks[t] = 0 => changes[t] = <<>> /\ removeIfInert[t] = <<>>

\* The changes nobody heard of yet.
Told(r) == IF r.serial > 0 THEN In(r.changes) ELSE {}

Waiting ==
    (UNION {In(changes[t]) : t \in Thread})
    \cup (UNION {UNION {In(rounds[t][i].changes) \ Told(rounds[t][i]) : i \in DOMAIN rounds[t]} :
                    t \in Thread})

\* A change is heard of later than one its thread made after it, to whatever
\* layer, only if a listener made the later one while notices of the earlier
\* were being sent.
OnlyListenersOvertake ==
    \A a, b \in DOMAIN made :
        a < b /\ made[a].thread = made[b].thread /\ a \in Waiting /\ b \in heard
        => a \in made[b].during

\* Changes are sent with the block they were made in, and in the order they were made in
\* but for those of listeners (changeManager.cpp).
RoundsInOrder == NothingStuck /\ OnlyListenersOvertake

\* The listeners know whether a layer is dirty, unless they are still to be told
\* of a change of it.
DirtinessKnown ==
    \A l \in layers :
        (\A c \in Waiting : made[c].layer # l) => (l \in dirty <=> l \in lastDirty)

\* "The change manager should only send notifications for existing layers."
\* It does not hold: see the README.
NoticesToExistingLayers == aborted # "notice"

\* A change is heard of in the end, unless its layer is gone before, or the
\* process is.
HeardInTheEnd ==
    \A c \in Change :
        c \in Waiting ~> \/ c \in heard
                         \/ c \in DOMAIN made /\ made[c].layer \notin layers
                         \/ ~Running

\* The change manager does what its clients are promised.
Abstract == INSTANCE Notification WITH waiting <- Waiting

ImplementsNotification == Abstract!Spec

=============================================================================
