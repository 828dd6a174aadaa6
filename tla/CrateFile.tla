------------------------------ MODULE CrateFile ------------------------------
(***************************************************************************)
(* Crate files (crateFile.cpp): the tables of tokens, paths, fields, field *)
(* sets and specs, and the values stored before them.                      *)
(*                                                                         *)
(* An offset is the place of a value in the sequence of the stored ones;   *)
(* what is packed goes behind the values that are there already, so that   *)
(* the representations of values which nobody changed stay as they are.    *)
(* A representation is <<"inline", value>> or <<"at", type, offset>>.      *)
(*                                                                         *)
(* A value is <<type, what>>: "plain" values fit into their representation *)
(* (strings, tokens and paths do, by their index), an "array" of floats, a *)
(* "timecode", a "payload" and the list op "payloads", the list op "paths",*)
(* "samples" in memory and "fileSamples" that are read on demand, and a    *)
(* "rep", the representation of a value nobody asked for yet.  Versions    *)
(* are the minor ones, 0 is 0.0.1.                                         *)
(***************************************************************************)
EXTENDS Integers, Sequences, FiniteSets, SequencesExt

P == INSTANCE PathAlgebra WITH KnownProperties <- {}
Lists == INSTANCE ListOps
Arrays == INSTANCE CrateArrays WITH SmallBits <- 8, MediumBits <- 16, LargeBits <- 28,
    MinCompressedArraySize <- 16, LutShare <- 4

Index(s, x) == SelectInSeq(s, LAMBDA y : y = x)
With(s, x) == IF x \in ToSet(s) THEN s ELSE Append(s, x)

-----------------------------------------------------------------------------
(* Paths in files: each under its parent, in order, with the token of its   *)
(* last element.                                                            *)

\* The text of the first field is also the name of a property.
FieldToken(f) == IF f = "info" THEN <<"name", 1>> ELSE <<"field", f>>
Special == <<"field", ";-)">>
RootToken == <<"field", "">>

ElementOf(p) == IF p.prop # <<>> THEN Last(p.prop) ELSE Last(p.prim)
IsPrimPropertyPath(p) == P!NodeType(p.prop) = P!PrimProperty
PathToken(p) ==
    CASE p \in {P!AbsoluteRoot, P!Empty} -> RootToken
      [] ElementOf(p)[1] \in {P!Prim, P!PrimProperty} -> <<"name", ElementOf(p)[2]>>
      [] OTHER -> <<"element", ElementOf(p)>>

\* An element is appended as what its text says; a name is that of a prim unless it is
\* marked as a property's.
Appended(parent, token, isProperty) ==
    CASE isProperty -> P!AppendProperty(parent, token[2])
      [] token[1] = "name" -> P!AppendChild(parent, token[2])
      [] OTHER -> P!AppendNode(parent, token[2])

\* The items of sorted paths: where the subtree ends, whether there is a child, which is
\* next, and a sibling, which is at the end.
NextSubtree(sorted, i) ==
    LET after == {j \in i + 1 .. Len(sorted) : ~P!HasPrefix(sorted[j], sorted[i])}
    IN  IF after = {} THEN Len(sorted) + 1 ELSE CHOOSE j \in after : \A k \in after : j <= k
TreeItem(sorted, i, end, index, token) ==
    [index |-> index, token |-> token - 1, property |-> IsPrimPropertyPath(sorted[i]),
     child |-> i + 1 < end /\ P!GetParentPath(sorted[i + 1]) = sorted[i],
     sibling |-> /\ end <= Len(sorted)
                 /\ P!GetParentPath(sorted[end]) = P!GetParentPath(sorted[i]),
     next |-> end]
PathTree(sorted, paths, tokens) ==
    [i \in DOMAIN sorted |->
        TreeItem(sorted, i, NextSubtree(sorted, i), Index(paths, sorted[i]),
                 Index(tokens, PathToken(sorted[i])))]

\* Since 0.4.0: an item is an index, a token that is negative for a property, and a jump.
Compressed(tree) ==
    [i \in DOMAIN tree |->
        [index |-> tree[i].index,
         token |-> IF tree[i].property THEN -tree[i].token ELSE tree[i].token,
         jump |-> CASE tree[i].sibling /\ tree[i].child -> tree[i].next - i
                    [] tree[i].sibling -> 0
                    [] tree[i].child -> -1
                    [] OTHER -> -2]]
Decompressed(items) ==
    [i \in DOMAIN items |->
        [index |-> items[i].index, property |-> items[i].token < 0,
         token |-> IF items[i].token < 0 THEN -items[i].token ELSE items[i].token,
         child |-> items[i].jump > 0 \/ items[i].jump = -1, sibling |-> items[i].jump >= 0,
         next |-> i + items[i].jump]]

\* From item i on; the siblings of an item with children are done by another task, which
\* writes other paths.
RECURSIVE BuildPaths(_, _, _, _, _)
BuildBelow(tree, tokens, i, parent, path, paths) ==
    CASE tree[i].child ->
            BuildPaths(tree, tokens, i + 1, path,
                IF tree[i].sibling THEN BuildPaths(tree, tokens, tree[i].next, parent, paths)
                ELSE paths)
      [] ~tree[i].child /\ tree[i].sibling -> BuildPaths(tree, tokens, i + 1, parent, paths)
      [] OTHER -> paths
BuildAt(tree, tokens, i, parent, path, paths) ==
    BuildBelow(tree, tokens, i, parent, path, [paths EXCEPT ![tree[i].index] = path])
BuildPaths(tree, tokens, i, parent, paths) ==
    CASE i > Len(tree) -> paths
      [] i <= Len(tree) /\ parent = P!Empty ->
            BuildAt(tree, tokens, i, P!AbsoluteRoot, P!AbsoluteRoot, paths)
      [] OTHER ->
            BuildAt(tree, tokens, i, parent,
                    Appended(parent, tokens[tree[i].token + 1], tree[i].property), paths)

PathItems(tree, version) == IF version < 4 THEN tree ELSE Compressed(tree)
WritePaths(paths, tokens, version) ==
    [n |-> Len(paths),
     items |-> PathItems(PathTree(P!Sorted(ToSet(paths) \ {P!Empty}), paths, tokens), version)]
ReadPaths(written, tokens, version) ==
    BuildPaths(IF version < 4 THEN written.items ELSE Decompressed(written.items),
               tokens, 1, P!Empty, [i \in 1 .. written.n |-> P!Empty])

-----------------------------------------------------------------------------
(* Packing.  w is the crate with what is written so far, rep or index is    *)
(* the result of the last step.                                             *)

NewCrate(version) ==
    [version |-> version, tokens |-> <<>>, paths |-> <<>>, stored |-> <<>>]

\* No property has the first token: github issue 811.
StartPacking(c) ==
    [version |-> c.version, writing |-> c.version,
     tokens |-> IF c.tokens = <<>> THEN <<Special>> ELSE c.tokens, paths |-> c.paths,
     stored |-> c.stored, fields |-> <<>>, fieldSets |-> <<>>, sets |-> <<>>, specs |-> <<>>,
     deferred |-> <<>>, dedup |-> <<>>, rep |-> <<"inline", <<>>>>, index |-> 0]

AddToken(w, token) == [w EXCEPT !.tokens = With(@, token)]
RECURSIVE AddPath(_, _)
AddTarget(w, p) == IF P!NodeType(p.prop) = P!Target THEN AddPath(w, ElementOf(p)[2]) ELSE w
AddParent(w, p) ==
    IF p \in {P!AbsoluteRoot, P!Empty} THEN w ELSE AddPath(w, P!GetParentPath(p))
AddPath(w, p) ==
    IF p \in ToSet(w.paths) THEN w
    ELSE [AddToken(AddParent(AddTarget(w, p), p), PathToken(p)) EXCEPT !.paths = Append(@, p)]
AddPaths(w, paths) == FoldLeft(AddPath, w, paths)

RequestWriteVersionUpgrade(w, version) ==
    IF w.writing < version THEN [w EXCEPT !.writing = version] ELSE w

\* A payload is <<asset, offset>>; it has no offset before 0.8.0.
Written(payload, version) == IF version >= 8 THEN payload ELSE <<payload[1]>>
ItemsOf(op) == FlattenSeq(<<op.items["explicit"], op.items["added"], op.items["prepended"],
                            op.items["appended"], op.items["deleted"], op.items["ordered"]>>)
MappedOp(op, f(_)) ==
    [op EXCEPT !.items =
        [kind \in DOMAIN op.items |-> [i \in DOMAIN op.items[kind] |-> f(op.items[kind][i])]]]

\* What has to be there before a value is written: a version, and paths.
Prepared(w, value) ==
    CASE value[1] = "timecode" -> RequestWriteVersionUpgrade(w, 9)
      [] value[1] = "payloads" -> AddPath(RequestWriteVersionUpgrade(w, 8), P!Empty)
      [] value[1] = "payload" ->
            AddPath(IF value[2][2] # 0 THEN RequestWriteVersionUpgrade(w, 8) ELSE w, P!Empty)
      [] value[1] = "paths" ->
            AddPaths(IF value[2].items["prepended"] # <<>> \/ value[2].items["appended"] # <<>>
                     THEN RequestWriteVersionUpgrade(w, 2) ELSE w, ItemsOf(value[2]))
      [] OTHER -> w
Contents(w, value) ==
    CASE value[1] = "array" -> Arrays!WriteFloats(value[2], w.writing)
      [] value[1] = "payload" -> Written(value[2], w.writing)
      [] value[1] = "payloads" -> MappedOp(value[2], LAMBDA p : Written(p, w.writing))
      [] value[1] = "paths" -> MappedOp(value[2], LAMBDA p : Index(w.paths, p))
      [] OTHER -> value[2]

Result(w, rep) == [w EXCEPT !.rep = rep]
Store(w, value) ==
    [w EXCEPT !.stored = Append(@, Contents(w, value)),
              !.rep = <<"at", value[1], Len(w.stored) + 1>>,
              !.dedup = (value :> <<"at", value[1], Len(w.stored) + 1>>) @@ @]
PackOne(w, value) ==
    CASE value[1] = "plain" -> Result(w, <<"inline", value>>)
      [] value = <<"array", <<>>>> -> Result(w, <<"at", "array", 0>>)
      [] value[1] # "plain" /\ value \in DOMAIN w.dedup -> Result(w, w.dedup[value])
      [] OTHER -> Store(Prepared(w, value), value)

-----------------------------------------------------------------------------
(* Reading values.                                                          *)

Garbage == <<-1, 0>>
\* A payload that was written without an offset cannot be read with one.
ReadPayload(stored, version) ==
    CASE version >= 8 /\ Len(stored) = 1 -> Garbage
      [] version < 8 -> <<stored[1], 0>>
      [] OTHER -> stored
Unpack(c, rep) ==
    IF rep[1] = "inline" THEN rep[2]
    ELSE CASE rep[2] = "array" /\ rep[3] = 0 -> <<"array", <<>>>>
           [] rep[2] = "array" /\ rep[3] # 0 -> <<"array", Arrays!ReadArray(c.stored[rep[3]], c.version)>>
           [] rep[2] = "payload" -> <<"payload", ReadPayload(c.stored[rep[3]], c.version)>>
           [] rep[2] = "payloads" ->
                 <<"payloads", MappedOp(c.stored[rep[3]], LAMBDA p : ReadPayload(p, c.version))>>
           [] rep[2] = "paths" ->
                 <<"paths", MappedOp(c.stored[rep[3]], LAMBDA i : c.paths[i])>>
           [] rep[2] = "samples" ->
                 <<"fileSamples", [times |-> c.stored[c.stored[rep[3]].times[3]], at |-> rep[3]]>>
           [] OTHER -> <<rep[2], c.stored[rep[3]]>>

\* Mutant: payloads are no special case.
PackValueAsIs(w, value) ==
    CASE value[1] = "rep" -> Result(w, value[2])
      [] value[1] = "fileSamples" -> Result(w, <<"at", "samples", value[2].at>>)
      [] OTHER -> PackOne(w, value)
\* A representation is kept, but that of a payload which the new version reads otherwise.
PackValue(w, value) ==
    CASE value[1] = "rep" ->
            IF value[2][2] = "payload" /\ w.version < 8 /\ w.writing >= 8
            THEN PackOne(w, Unpack(w, value[2])) ELSE Result(w, value[2])
      [] value[1] = "fileSamples" -> Result(w, <<"at", "samples", value[2].at>>)
      [] OTHER -> PackOne(w, value)

\* The times and the values are packed first, each where it is found already.
Collected(r, w) == [w |-> w, reps |-> Append(r.reps, w.rep)]
PackReps(w, values) ==
    FoldLeft(LAMBDA r, value : Collected(r, PackValue(r.w, value)), [w |-> w, reps |-> <<>>], values)
PackTimesAndReps(r, times) == PackOne(r.w, <<"samples", [times |-> times, reps |-> r.reps]>>)
PackValuesAfter(w, samples) == PackTimesAndReps(PackReps(w, samples.values), w.rep)
PackSamples(w, samples) == PackValuesAfter(PackOne(w, <<"times", samples.times>>), samples)

-----------------------------------------------------------------------------
(* Fields and specs.                                                        *)

InMemory(value) == value[1] = "samples"
Pack(w, value) == IF InMemory(value) THEN PackSamples(w, value[2]) ELSE PackValue(w, value)
PutField(w, fields, entry) == [w EXCEPT !.fields = fields, !.index = Index(fields, entry)]
PutEntry(w, entry) == PutField(w, With(w.fields, entry), entry)
Named(w, token) == PutEntry(w, [token |-> Index(w.tokens, token), rep |-> w.rep])
AddField(w, field) ==
    Named(Pack(AddToken(w, FieldToken(field[1])), field[2]), FieldToken(field[1]))
Indexed(r, w) == [r EXCEPT !.w = w, !.indexes = Append(@, w.index)]
AddFields(w, fields, indexes) ==
    FoldLeft(LAMBDA r, field : Indexed(r, AddField(r.w, field)), [w |-> w, indexes |-> indexes],
             fields)

\* Equal sets of fields are stored once; 0 ends each.
AddFieldSet(w, indexes) ==
    IF indexes \in DOMAIN w.sets THEN [w EXCEPT !.index = w.sets[indexes]]
    ELSE [w EXCEPT !.fieldSets = (@ \o indexes) \o <<0>>, !.index = Len(w.fieldSets) + 1,
                   !.sets = (indexes :> (Len(w.fieldSets) + 1)) @@ @]
Specified(w, pathIndex, type) ==
    [w EXCEPT !.specs = Append(@, [path |-> pathIndex, type |-> type, set |-> w.index])]
PutSpec(w, pathIndex, type, indexes) == Specified(AddFieldSet(w, indexes), pathIndex, type)

\* A value that every version can have and that is written otherwise since 0.8.0.
IsCompatiblePre08Payload(w, value) ==
    \/ value[1] = "payload" /\ value[2][2] = 0
    \/ w.version < 8 /\ value[1] = "rep" /\ value[2][2] = "payload"
Pending(w, value) == w.writing < 8 /\ IsCompatiblePre08Payload(w, value)

\* Specs with samples or payloads that may have to be written otherwise wait for the end.
SortField(r, field) ==
    CASE InMemory(field[2]) -> [r EXCEPT !.samples = Append(@, field)]
      [] Pending(r.w, field[2]) -> [r EXCEPT !.pending = Append(@, field)]
      [] OTHER -> Indexed(r, AddField(r.w, field))
Placed(w, at, type, r) ==
    IF r.samples = <<>> /\ r.pending = <<>> THEN PutSpec(w, at, type, r.indexes)
    ELSE [w EXCEPT !.deferred =
             Append(@, [path |-> at, type |-> type, indexes |-> r.indexes,
                        samples |-> r.samples, pending |-> r.pending])]
PlacedAt(w, path, type, r) == Placed(w, Index(w.paths, path), type, r)
SpecAfter(r, path, type) == PlacedAt(AddPath(r.w, path), path, type, r)
AddSpec(w, path, type, fields) ==
    SpecAfter(FoldLeft(SortField, [w |-> w, indexes |-> <<>>, samples |-> <<>>, pending |-> <<>>],
                       fields), path, type)

\* The values of a time are stored together: they are packed time by time, the specs
\* then find their representations.
TimesOf(deferred) ==
    UNION {ToSet(deferred[i].samples[1][2][2].times) :
              i \in {j \in DOMAIN deferred : deferred[j].samples # <<>>}}
ValuesAt(w, time) ==
    FlattenSeq([i \in DOMAIN w.deferred |->
        LET samples == w.deferred[i].samples
        IN  IF samples = <<>> THEN <<>>
            ELSE LET at == Index(samples[1][2][2].times, time)
                 IN  IF at = 0 THEN <<>> ELSE <<samples[1][2][2].values[at]>>])
Collate(w, time) == FoldLeft(PackValue, w, ValuesAt(w, time))
PutDeferred(r, spec) == PutSpec(r.w, spec.path, spec.type, r.indexes)
AddDeferred(w, spec) ==
    PutDeferred(AddFields(w, spec.pending \o spec.samples, spec.indexes), spec)
AddDeferredSpecs(w) ==
    FoldLeft(AddDeferred,
             FoldLeft(Collate, w, SetToSortSeq(TimesOf(w.deferred), LAMBDA s, t : s < t)),
             w.deferred)

\* Every section, and last of all the version it came to.
Sections(w) ==
    [version |-> w.writing, tokens |-> w.tokens, fields |-> w.fields,
     fieldSets |-> w.fieldSets, specs |-> w.specs, stored |-> w.stored,
     paths |-> WritePaths(w.paths, w.tokens, w.writing)]
Write(w) == Sections(AddDeferredSpecs(w))
\* The structural sections; the checks of damaged files are left out.
Read(file) ==
    [version |-> file.version, tokens |-> file.tokens, stored |-> file.stored,
     paths |-> ReadPaths(file.paths, file.tokens, file.version)]

-----------------------------------------------------------------------------
\* The paths and the parents they need are read in the places they were written from.
TablesComeBack(w) ==
    \A version \in {3, 4} :
        ReadPaths(WritePaths(w.paths, w.tokens, version), w.tokens, version) = w.paths
PathsComeBack(paths) == TablesComeBack(AddPaths(StartPacking(NewCrate(8)), paths))

-----------------------------------------------------------------------------
(* The data of a layer that is backed by a crate file (crateData.cpp).     *)
(*                                                                         *)
(* d is the crate, the table of specs, and the field vectors: specs with   *)
(* equal fields share one after a file is read, until one of them changes  *)
(* it.  A field vector is a sequence of <<field, value>>, a value is that  *)
(* of CrateFile.  lastSet is the spec that was set last, or NoSpec; it is  *)
(* kept as an iterator of the table, which an erased spec would leave      *)
(* dangling.                                                               *)
(*                                                                         *)
(* plain is what the same calls make of SdfData (data.cpp): the values of  *)
(* the fields of each spec.                                                *)

NoSpec == P!Empty
NewData(version) ==
    [crate |-> NewCrate(version), data |-> <<>>, vectors |-> <<>>, lastSet |-> NoSpec]

IsTargetPath(p) == P!NodeType(p.prop) = P!Target

FieldsOf(d, p) == d.vectors[d.data[p].at]
FieldIndex(fields, name) == SelectInSeq(fields, LAMBDA field : field[1] = name)
\* The stored value, or nothing.
FieldValue(d, p, name) ==
    IF p \notin DOMAIN d.data THEN <<"none">>
    ELSE LET i == FieldIndex(FieldsOf(d, p), name)
         IN  IF i = 0 THEN <<"none">> ELSE FieldsOf(d, p)[i][2]

DetachIfNotUnique(d, p) ==
    IF \A q \in DOMAIN d.data \ {p} : d.data[q].at # d.data[p].at THEN d
    ELSE [d EXCEPT !.vectors = Append(@, FieldsOf(d, p)), !.data[p].at = Len(d.vectors) + 1]
Filled(d, p, fields) == [d EXCEPT !.vectors[d.data[p].at] = fields]
PutFields(d, p, fields) == Filled(DetachIfNotUnique(d, p), p, fields)

-----------------------------------------------------------------------------
\* Payload list ops that old readers understand are stored as a payload; one without an
\* asset stands for no payload at all.
FromPayloadListOpValue(value) ==
    LET items == value[2].items["explicit"]
    IN  CASE ~value[2].explicit -> value
          [] items = <<>> -> <<"payload", <<0, 0>>>>
          [] Len(items) = 1 /\ items[1][1] # 0 -> <<"payload", items[1]>>
          [] OTHER -> value
ToPayloadListOpValue(value) ==
    CASE value[1] # "payload" -> value
      [] value[2][1] = 0 -> <<"payloads", Lists!ClearAndMakeExplicit>>
      [] OTHER -> <<"payloads", Lists!SetItems(Lists!NewListOp, <<value[2]>>, "explicit")>>

DetachValue(d, value) == IF value[1] = "rep" THEN Unpack(d.crate, value[2]) ELSE value
ValuesOf(d, samples) ==
    IF samples[1] = "samples" THEN samples[2].values
    ELSE [i \in DOMAIN samples[2].times |-> <<"rep", d.crate.stored[samples[2].at].reps[i]>>]
Detached(d, values) == [i \in DOMAIN values |-> DetachValue(d, values[i])]
MakeTimeSampleMap(d, samples) ==
    <<"samples", [times |-> samples[2].times, values |-> Detached(d, ValuesOf(d, samples))]>>
Converted(d, value) ==
    IF value[1] \in {"samples", "fileSamples"} THEN MakeTimeSampleMap(d, value)
    ELSE ToPayloadListOpValue(value)
Has(d, p, name) == Converted(d, DetachValue(d, FieldValue(d, p, name)))

\* Targets are not stored, they are where the list op says.
TargetListOp(d, p) == IF IsPrimPropertyPath(p) THEN Has(d, p, "targetPaths") ELSE <<"none">>
TargetsIn(op) ==
    IF op.explicit THEN ToSet(op.items["explicit"])
    ELSE ToSet(op.items["added"]) \cup ToSet(op.items["prepended"]) \cup ToSet(op.items["appended"])
ChildrenIn(op, items) ==
    LET kept == Lists!Applied(MappedOp(op, LAMBDA t : Index(items, t)), <<>>)
    IN  {items[kept[i]] : i \in DOMAIN kept}
HasTargetSpec(op, target) == op[1] = "paths" /\ target \in TargetsIn(op[2])
TargetChildren(op) == IF op[1] = "paths" THEN ChildrenIn(op[2], ItemsOf(op[2])) ELSE {}

-----------------------------------------------------------------------------
CreateSpec(d, p, type) ==
    IF IsTargetPath(p) THEN d
    ELSE IF p \in DOMAIN d.data THEN [d EXCEPT !.data[p].type = type, !.lastSet = p]
    ELSE [d EXCEPT !.data = (p :> [type |-> type, at |-> Len(d.vectors) + 1]) @@ @,
                   !.vectors = Append(@, <<>>), !.lastSet = p]
EraseSpec(d, p) ==
    [d EXCEPT !.data = Restrict(@, DOMAIN @ \ {p}), !.lastSet = NoSpec]
MoveSpec(d, p, q) ==
    [d EXCEPT !.data = (q :> d.data[p]) @@ Restrict(@, DOMAIN @ \ {p}), !.lastSet = NoSpec]

Replaced(s, i, x) == SubSeq(s, 1, i - 1) \o <<x>> \o SubSeq(s, i + 1, Len(s))
Put(fields, name, value) ==
    LET i == FieldIndex(fields, name)
    IN  IF i = 0 THEN Append(fields, <<name, value>>) ELSE Replaced(fields, i, <<name, value>>)
SetField(d, p, name, value) ==
    LET stored == IF value[1] = "payloads" THEN FromPayloadListOpValue(value) ELSE value
    IN  IF p \notin DOMAIN d.data THEN d
        ELSE PutFields([d EXCEPT !.lastSet = p], p, Put(FieldsOf(d, p), name, stored))
EraseField(d, p, name) ==
    IF FieldValue(d, p, name) = <<"none">> THEN d
    ELSE PutFields(d, p, RemoveAt(FieldsOf(d, p), FieldIndex(FieldsOf(d, p), name)))

\* The samples become those in memory; the values that stay are still in the file.
LowerBound(times, t) == Cardinality({i \in DOMAIN times : times[i] < t}) + 1
Samples(times, values) == <<"samples", [times |-> times, values |-> values]>>
NoSamples == Samples(<<>>, <<>>)
WithSample(times, values, i, t, value) ==
    IF i <= Len(times) /\ times[i] = t THEN Samples(times, Replaced(values, i, value))
    ELSE Samples(InsertAt(times, i, t), InsertAt(values, i, value))
SetSample(d, p, old, t, value) ==
    SetField(d, p, "timeSamples",
             WithSample(old[2].times, ValuesOf(d, old), LowerBound(old[2].times, t), t, value))
SetTimeSample(d, p, t, value) ==
    IF FieldValue(d, p, "timeSamples") = <<"none">> THEN SetSample(d, p, NoSamples, t, value)
    ELSE SetSample(d, p, FieldValue(d, p, "timeSamples"), t, value)
\* Of a time that has a sample: that is all a layer asks for.
EraseSample(d, p, old, i) ==
    IF Len(old[2].times) = 1 THEN EraseField(d, p, "timeSamples")
    ELSE SetField(d, p, "timeSamples",
                  Samples(RemoveAt(old[2].times, i), RemoveAt(ValuesOf(d, old), i)))
EraseTimeSample(d, p, t) ==
    EraseSample(d, p, FieldValue(d, p, "timeSamples"),
                LowerBound(FieldValue(d, p, "timeSamples")[2].times, t))
HasSample(d, p, t) ==
    LET value == FieldValue(d, p, "timeSamples")
    IN  value # <<"none">> /\ t \in ToSet(value[2].times)

-----------------------------------------------------------------------------
\* The specs of a file, those with the same field set with the same vector.  What is not
\* in its representation is read when it is asked for.
UnpackForField(crate, rep) ==
    IF rep[1] = "inline" \/ rep[2] = "samples" THEN Unpack(crate, rep) ELSE <<"rep", rep>>
FieldSet(sets, start) ==
    SubSeq(sets, start, start + SelectInSeq(SubSeq(sets, start, Len(sets)), LAMBDA i : i = 0) - 2)
NameOf(token) == IF token = <<"name", 1>> THEN "info" ELSE token[2]
Pair(crate, field) == <<NameOf(crate.tokens[field.token]), UnpackForField(crate, field.rep)>>
Pairs(crate, fields, indexes) == [i \in DOMAIN indexes |-> Pair(crate, fields[indexes[i]])]
Populated(crate, file, starts) ==
    [crate |-> crate, lastSet |-> NoSpec,
     data |-> [p \in {crate.paths[spec.path] : spec \in ToSet(file.specs)} |->
                  LET spec == CHOOSE s \in ToSet(file.specs) : crate.paths[s.path] = p
                  IN  [type |-> spec.type, at |-> Index(starts, spec.set)]],
     vectors |-> [i \in DOMAIN starts |->
                     Pairs(crate, file.fields, FieldSet(file.fieldSets, starts[i]))]]
PopulateFromCrateFile(crate, file) ==
    Populated(crate, file, SetToSeq({spec.set : spec \in ToSet(file.specs)}))
Open(file) == PopulateFromCrateFile(Read(file), file)

\* Prims before properties, properties by name.
SpecsInOrder(paths) ==
    LET Properties(name) == P!Sorted({p \in paths : P!IsPropertyPath(p) /\ ElementOf(p)[2] = name})
    IN  P!Sorted({p \in paths : ~P!IsPropertyPath(p)})
        \o FlattenSeq([name \in 1 .. 3 |-> Properties(name)])
Packed(d) ==
    FoldLeft(LAMBDA w, p : AddSpec(w, p, d.data[p].type, FieldsOf(d, p)),
             StartPacking(d.crate), SpecsInOrder(DOMAIN d.data))
Save(d) == Open(Write(Packed(d)))

\* A copy with every value read, in a new file.
Copied(d, value) ==
    IF value[1] \in {"samples", "fileSamples"} THEN MakeTimeSampleMap(d, value) ELSE value
CopyOf(d, version) ==
    [d EXCEPT !.crate = NewCrate(version), !.lastSet = NoSpec,
        !.vectors = [i \in DOMAIN @ |-> [k \in DOMAIN @[i] |->
                        <<@[i][k][1], Copied(d, DetachValue(d, @[i][k][2]))>>]]]
Export(d, version) == Save(CopyOf(d, version))

-----------------------------------------------------------------------------
\* What a layer sees.
View(d) ==
    [p \in DOMAIN d.data |->
        [type |-> d.data[p].type,
         fields |-> [name \in {field[1] : field \in ToSet(FieldsOf(d, p))} |-> Has(d, p, name)]]]

\* The calls, on plain data.
PlainCreate(plain, p, type) ==
    IF IsTargetPath(p) THEN plain
    ELSE IF p \in DOMAIN plain THEN [plain EXCEPT ![p].type = type]
    ELSE (p :> [type |-> type, fields |-> <<>>]) @@ plain
PlainErase(plain, p) == Restrict(plain, DOMAIN plain \ {p})
PlainMove(plain, p, q) == (q :> plain[p]) @@ PlainErase(plain, p)
PlainSet(plain, p, name, value) ==
    IF p \in DOMAIN plain THEN [plain EXCEPT ![p].fields = (name :> value) @@ @] ELSE plain
PlainEraseField(plain, p, name) ==
    IF p \in DOMAIN plain THEN [plain EXCEPT ![p].fields = Restrict(@, DOMAIN @ \ {name})] ELSE plain
\* Samples as a map from times to values.
MapOf(samples) ==
    [t \in ToSet(samples.times) |-> samples.values[Index(samples.times, t)]]
SamplesOf(map) ==
    LET times == SetToSortSeq(DOMAIN map, LAMBDA s, t : s < t)
    IN  <<"samples", [times |-> times, values |-> [i \in DOMAIN times |-> map[times[i]]]]>>
OldMap(plain, p) ==
    IF "timeSamples" \in DOMAIN plain[p].fields THEN MapOf(plain[p].fields["timeSamples"][2]) ELSE <<>>
PlainSetSample(plain, p, t, value) ==
    PlainSet(plain, p, "timeSamples", SamplesOf((t :> value) @@ OldMap(plain, p)))
PlainEraseSample(plain, p, t) ==
    LET left == Restrict(OldMap(plain, p), DOMAIN OldMap(plain, p) \ {t})
    IN  IF left = <<>> THEN PlainEraseField(plain, p, "timeSamples")
        ELSE PlainSet(plain, p, "timeSamples", SamplesOf(left))

\* The data is what the calls would make of plain data, also when it is saved or exported
\* and opened, and the spec set last is one of them.
AgreeOn(op) ==
    op[1] = "paths" =>
        \A t \in ToSet(ItemsOf(op[2])) : HasTargetSpec(op, t) <=> t \in TargetChildren(op)
TargetsAgree(d) == \A p \in DOMAIN d.data : AgreeOn(TargetListOp(d, p))
CrateRight(d, plain) ==
    /\ View(d) = plain
    /\ d.lastSet \in {NoSpec} \cup DOMAIN d.data
    /\ TargetsAgree(d)
    /\ View(Save(d)) = plain /\ \A version \in {7, 8} : View(Export(d, version)) = plain

=============================================================================
