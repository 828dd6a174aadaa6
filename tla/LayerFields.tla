----------------------------- MODULE LayerFields -----------------------------
(***************************************************************************)
(* The fields of specs as SdfLayer reads and writes them: required fields  *)
(* with fallbacks, edits of fields, of keys of dictionaries and of time    *)
(* samples, and the transfer of other data into a layer (_SetData) or the  *)
(* list of the changes it would take (CreateDiff), which share their code. *)
(*                                                                         *)
(* Data is a function from paths to specs; a spec is its type and a        *)
(* function from fields to values.  A value is a function on numbers: a    *)
(* plain value x is 0 :> x, a dictionary is a function on its keys, time   *)
(* samples are one on their times.  A call returns a record of the data    *)
(* and the changes the change manager was told, in order.                  *)
(***************************************************************************)
EXTENDS Integers, SequencesExt

CONSTANTS KnownTypes, KnownFields   \* what the schema of the layer knows

Plain(x) == 0 :> x
NoValue == -1 :> 0                  \* the empty VtValue
IsDict(v) == v # NoValue /\ 0 \notin DOMAIN v

Prim == "P"          \* a prim and a property of it
Property == "P.a"
InOrder == <<Prim, Property>>       \* a set of paths is ordered by namespace
Fields == <<"specifier", "typeName", "custom", "properties", "info", "timeSamples", "alien">>

Required(type) == CASE type = "prim" -> {"specifier"}
                    [] type = "attribute" -> {"custom", "typeName"}
                    [] type = "relationship" -> {"custom"}
                    [] type = "unknown" -> {}

Fallback == Plain(0)   \* an over, not custom, no type name
Children == "properties"

-----------------------------------------------------------------------------
TypeOf(d, p) == IF p \in DOMAIN d THEN d[p].type ELSE "unknown"
Has(d, p, field) == p \in DOMAIN d /\ field \in DOMAIN d[p].fields

\* Required fields are always there, with their fallback.
ListFields(d, p) == IF p \in DOMAIN d THEN DOMAIN d[p].fields \cup Required(d[p].type) ELSE {}
GetField(d, p, field) ==
    IF Has(d, p, field) THEN d[p].fields[field]
    ELSE IF field \in Required(TypeOf(d, p)) THEN Fallback ELSE NoValue

\* SdfData: nothing is set where there is no spec.
Erase(d, p, field) ==
    IF Has(d, p, field)
    THEN [d EXCEPT ![p].fields = [f \in DOMAIN @ \ {field} |-> @[f]]] ELSE d
Set(d, p, field, value) ==
    IF value = NoValue THEN Erase(d, p, field)
    ELSE IF p \notin DOMAIN d THEN d
    ELSE [d EXCEPT ![p].fields = (field :> value) @@ @]

\* Everything the children fields lead to from p.
Traverse(d, p) == {p} \cup (IF p = Prim /\ Has(d, p, Children) THEN {Property} ELSE {})

IsInert(d, p, ignoreChildren, requiredOnly) ==
    \/ ListFields(d, p) = {}
    \/ /\ GetField(d, p, "custom") \in {NoValue, Fallback}
       /\ TypeOf(d, p) = "prim" => \A f \in {"specifier", "typeName"} :
                                       GetField(d, p, f) \in {NoValue, Fallback}
       /\ TypeOf(d, p) # "prim" => requiredOnly
       /\ \A f \in ListFields(d, p) :
             f \in Required(TypeOf(d, p)) \/ (ignoreChildren /\ TypeOf(d, p) = "prim" /\ f = Children)

\* SdfAbstractData::Equals.
DataEquals(d, e) ==
    /\ DOMAIN d \subseteq DOMAIN e /\ DOMAIN e \subseteq DOMAIN d
    /\ \A p \in DOMAIN e : d[p].type = e[p].type /\ DOMAIN d[p].fields = DOMAIN e[p].fields
                          /\ \A f \in DOMAIN e[p].fields : d[p].fields[f] = e[p].fields[f]

-----------------------------------------------------------------------------
(* The edits that change data and tell.                                    *)

Start(d) == [data |-> d, told |-> <<>>]
Tell(r, change) == [r EXCEPT !.told = Append(@, change)]
Changed(p, field, old, new) == [what |-> "field", path |-> p, field |-> field, old |-> old, new |-> new]
Spec(what, p, inert) == [what |-> what, path |-> p, inert |-> inert]

PrimSetField(r, p, field, value, old) ==
    [Tell(r, Changed(p, field, old, value)) EXCEPT !.data = Set(@, p, field, value)]

PrimCreateSpec(r, p, type, inert) ==
    [Tell(r, Spec("added", p, inert)) EXCEPT !.data =
        (p :> [type |-> type, fields |-> IF p \in DOMAIN @ THEN @[p].fields ELSE <<>>]) @@ @]

PrimDeleteSpec(r, p, inert) ==
    LET gone == Traverse(r.data, p)
    IN  [Tell(r, Spec("removed", p, inert)) EXCEPT !.data = [q \in DOMAIN @ \ gone |-> @[q]]]

EraseField(d, p, field) ==
    IF \/ ~Has(d, p, field)
       \/ field \in Required(TypeOf(d, p)) /\ GetField(d, p, field) = Fallback
    THEN Start(d)
    ELSE PrimSetField(Start(d), p, field, NoValue, GetField(d, p, field))

\* _validateAuthoring: whether fields are checked against the schema.
SetField(d, p, field, value, validate) ==
    IF value = NoValue THEN EraseField(d, p, field)
    ELSE IF (validate /\ field \notin KnownFields) \/ value = GetField(d, p, field) THEN Start(d)
    ELSE PrimSetField(Start(d), p, field, value, GetField(d, p, field))

DictValue(d, p, field, key) ==
    LET dict == GetField(d, p, field)
    IN  IF IsDict(dict) /\ key \in DOMAIN dict THEN Plain(dict[key]) ELSE NoValue

\* SdfAbstractData::SetDictValueByKey: a value that is no dictionary gives way to one.
WithKey(d, p, field, key, value) ==
    LET old == IF Has(d, p, field) /\ IsDict(d[p].fields[field]) THEN d[p].fields[field] ELSE <<>>
        smaller == [k \in DOMAIN old \ {key} |-> old[k]]
    IN  IF value # NoValue THEN Set(d, p, field, (key :> value[0]) @@ old)
        ELSE IF ~(Has(d, p, field) /\ IsDict(d[p].fields[field])) THEN d
        ELSE IF smaller = <<>> THEN Erase(d, p, field) ELSE Set(d, p, field, smaller)

\* With an empty value, EraseFieldDictValueByKey.
SetFieldDictValueByKey(d, p, field, key, value) ==
    LET new == WithKey(d, p, field, key, value)
    IN  IF value = DictValue(d, p, field, key) THEN Start(d)
        ELSE Tell(Start(new), Changed(p, field, GetField(d, p, field), GetField(new, p, field)))

\* SdfData::SetTimeSample and EraseTimeSample.
WithSample(d, p, time, value) == WithKey(d, p, "timeSamples", time, value)

Block == 9           \* SdfValueBlock

\* A value block goes to any spec.  fits: the value has, or casts to, the attribute's type.
SetTimeSample(d, p, time, value, fits) ==
    IF value # Plain(Block) /\ (TypeOf(d, p) # "attribute" \/ ~fits) THEN Start(d)
    ELSE Tell(Start(WithSample(d, p, time, value)), [what |-> "samples", path |-> p])

EraseTimeSample(d, p, time) ==
    IF DictValue(d, p, "timeSamples", time) = NoValue THEN Start(d)
    ELSE Tell(Start(WithSample(d, p, time, NoValue)), [what |-> "samples", path |-> p])

-----------------------------------------------------------------------------
(* _ProcessIncomingData.  real: the layer is changed (_SetData); else the  *)
(* changes are only told (CreateDiff).  withFields: property fields are    *)
(* compared.  different: the new data is of another schema.                *)

DoSet(r, p, field, value, old, real) ==
    IF real THEN PrimSetField(r, p, field, value, old) ELSE Tell(r, Changed(p, field, old, value))
DoCreate(r, p, type, inert, real) ==
    IF real THEN PrimCreateSpec(r, p, type, inert) ELSE Tell(r, Spec("added", p, inert))
DoDelete(r, p, inert, real) ==
    IF real THEN PrimDeleteSpec(r, p, inert) ELSE Tell(r, Spec("removed", p, inert))

\* Fields are folded over in some order: the result depends on none.
OverFields(Op(_, _), r, fields) == FoldLeft(Op, r, SelectSeq(Fields, LAMBDA f : f \in fields))

\* Mutant: a spec of another type stays.
DeleteOldByPath(r, new, withFields, real) ==
    FoldLeft(LAMBDA s, p : DoDelete(s, p, FALSE, real), r,
             SelectSeq(Reverse(InOrder), LAMBDA p : p \in DOMAIN r.data \ DOMAIN new))

DeleteOld(r, new, withFields, real) ==
    LET gone == SelectSeq(Reverse(InOrder), LAMBDA p :
                    p \in DOMAIN r.data /\ TypeOf(new, p) # TypeOf(r.data, p))
        Delete(s, p) ==
            LET fields == ListFields(s.data, p) \ Required(TypeOf(s.data, p))
                emptied == OverFields(LAMBDA t, f :
                    DoSet(t, p, f, NoValue, GetField(t.data, p, f), real), s, fields)
            IN  IF ~withFields /\ p = Property THEN DoDelete(s, p, FALSE, real)
                ELSE DoDelete(emptied, p, IsInert(emptied.data, p, TRUE, TRUE), real)
    IN  FoldLeft(Delete, r, gone)

InertNew(new, p, withFields) ==
    IF p = Prim THEN \A f \in {"specifier", "typeName"} : ~Has(new, p, f) \/ new[p].fields[f] = Fallback
    ELSE withFields /\ (~Has(new, p, "custom") \/ new[p].fields["custom"] = Fallback)

CreateNew(r, new, withFields, different, real) ==
    LET made == SelectSeq(InOrder, LAMBDA p : p \in DOMAIN new /\ p \notin DOMAIN r.data)
        Create(s, p) == IF different /\ new[p].type \notin KnownTypes THEN s
                        ELSE DoCreate(s, p, new[p].type, InertNew(new, p, withFields), real)
    IN  FoldLeft(Create, r, made)

UpdateFields(r, new, withFields, different, real) ==
    LET Old(d, p, f) == IF ~real /\ p = Prim /\ f = "specifier" /\ GetField(d, p, f) = NoValue
                        THEN Fallback ELSE GetField(d, p, f)
        SetOne(s, p, f) ==
            IF \/ Old(s.data, p, f) = GetField(new, p, f)
               \/ different /\ Old(s.data, p, f) = NoValue /\ f \notin KnownFields
            THEN s ELSE DoSet(s, p, f, GetField(new, p, f), Old(s.data, p, f), real)
        Update(s, p) ==
            IF ~withFields /\ p = Property
            THEN IF p \in DOMAIN s.data
                 THEN DoCreate(DoDelete(s, p, FALSE, real), p, s.data[p].type, FALSE, real) ELSE s
            ELSE IF different /\ p \notin DOMAIN s.data THEN s
            ELSE OverFields(LAMBDA t, f : SetOne(t, p, f),
                     OverFields(LAMBDA t, f : DoSet(t, p, f, NoValue, GetField(t.data, p, f), real),
                                s, ListFields(s.data, p) \ ListFields(new, p)),
                     ListFields(new, p))
    IN  FoldLeft(Update, r, SelectSeq(InOrder, LAMBDA p : p \in DOMAIN new))

Process(d, new, withFields, different, real) ==
    LET deleted == DeleteOld(Start(d), new, withFields, real)
        made == CreateNew(deleted, new, withFields, different, real)
    IN  UpdateFields(made, new, withFields, different, real)

SetData(d, new, different) == Process(d, new, TRUE, different, TRUE)
CreateDiff(d, new, withFields) == Process(d, new, withFields, FALSE, FALSE)

-----------------------------------------------------------------------------
(* Time samples: lower and upper bounds among the times of the samples.    *)

None == <<>>
Lowest(times) == CHOOSE t \in times : \A u \in times : t <= u
Highest(times) == CHOOSE t \in times : \A u \in times : t >= u

Bracketing(times, time) ==
    IF times = {} THEN None
    ELSE IF time <= Lowest(times) THEN <<Lowest(times), Lowest(times)>>
    ELSE IF time >= Highest(times) THEN <<Highest(times), Highest(times)>>
    ELSE LET upper == Lowest({t \in times : t >= time})
         IN  IF upper = time THEN <<upper, upper>>
             ELSE <<Highest({t \in times : t < upper}), upper>>

\* SdfData has its own way to the sample before a time.
PreviousOfData(times, time) ==
    IF times = {} \/ time <= Lowest(times) THEN None
    ELSE IF time > Highest(times) THEN <<Highest(times)>>
    ELSE <<Highest({t \in times : t < Lowest({u \in times : u >= time})})>>

\* SdfAbstractData: by the bracket of the nearest number below.  Samples are at even numbers.
Previous(times, time) ==
    LET here == Bracketing(times, time)
        before == Bracketing(times, time - 1)
    IN  IF here = None \/ time < here[1] THEN None
        ELSE IF time # here[1] THEN <<here[1]>>
        ELSE IF before = None \/ time = before[1] THEN None ELSE <<before[1]>>

-----------------------------------------------------------------------------
ToldOf(r, p) == SelectSeq(r.told, LAMBDA c : c.path = p)
ToldFields(r, p, f) == SelectSeq(ToldOf(r, p), LAMBDA c : c.what = "field" /\ c.field = f)
SpecsTold(r, what) == {c.path : c \in {c \in ToSet(r.told) : c.what = what}}

\* What a call changes it tells: specs that come and go, and of each field of a spec that
\* stays the value it had and the one it has, or, of a required field that is erased, none
\* (layer.cpp:4463).
ToldRight(d, r) ==
    /\ SpecsTold(r, "added") = {p \in DOMAIN r.data : TypeOf(d, p) # TypeOf(r.data, p)}
    /\ SpecsTold(r, "removed") = {p \in DOMAIN d : TypeOf(d, p) # TypeOf(r.data, p)}
    /\ \A p \in DOMAIN d : TypeOf(d, p) = TypeOf(r.data, p) =>
          \A f \in ListFields(d, p) \cup ListFields(r.data, p) :
             LET told == ToldFields(r, p, f)
                 old == GetField(d, p, f)
                 new == GetField(r.data, p, f)
             IN  IF told = <<>>
                 THEN old = new \/ (f = "timeSamples" /\ [what |-> "samples", path |-> p] \in ToSet(r.told))
                 ELSE /\ Head(told).old = old
                      /\ Last(told).new = new \/ (Last(told).new = NoValue /\ new = Fallback)

Transferred(d, new, different, r, again) ==
    LET kept == IF different THEN {p \in DOMAIN new : new[p].type \in KnownTypes} ELSE DOMAIN new
    IN  /\ ToldRight(d, r)
        /\ again.told = <<>>
        /\ DataEquals(again.data, r.data)
        /\ DOMAIN r.data = kept
        /\ \A p \in kept : \A f \in ListFields(new, p) \cup ListFields(r.data, p) :
              /\ r.data[p].type = new[p].type
              /\ GetField(r.data, p, f) =
                    IF different /\ f \notin KnownFields THEN NoValue ELSE GetField(new, p, f)
TransferredTwice(d, new, different, r) ==
    Transferred(d, new, different, r, SetData(r.data, new, different))

\* Afterwards the layer says what the new data says, as far as its schema goes, and a
\* second transfer tells nothing (layer.cpp:3992).
TransferRight(d, new, different) ==
    TransferredTwice(d, new, different, SetData(d, new, different))

TellsTheSame(d, new, done, diff) ==
    /\ \A what \in {"added", "removed"} : SpecsTold(diff, what) = SpecsTold(done, what)
    /\ \A p \in DOMAIN d \cup DOMAIN new :
          \A f \in ListFields(d, p) \cup ListFields(new, p) :
             IF p \in DOMAIN d
             THEN ToldFields(diff, p, f) = ToldFields(done, p, f)
             ELSE ToldFields(done, p, f) # <<>> =>
                     Last(ToldFields(diff, p, f)).new = Last(ToldFields(done, p, f)).new

\* The diff tells what the transfer would: every spec and every field it does, and no other
\* but required fields of new specs (layer.h:1650).
DiffRight(d, new) == TellsTheSame(d, new, SetData(d, new, FALSE), CreateDiff(d, new, TRUE))

\* Both ways lead to the last sample before the time (data.cpp:447).
SamplesRight(times, time) ==
    LET before == {t \in times : t < time}
        bracket == Bracketing(times, time)
    IN  /\ PreviousOfData(times, time) = Previous(times, time)
        /\ Previous(times, time) = IF before = {} THEN None ELSE <<Highest(before)>>
        /\ bracket # None =>
              /\ bracket[1] \in times /\ bracket[2] \in times
              /\ \A t \in times : t \notin bracket[1] + 1..bracket[2] - 1
              /\ time \in bracket[1]..bracket[2] \/ (bracket[1] = bracket[2] /\
                    (time > bracket[1] => bracket[1] = Highest(times))
                    /\ (time < bracket[1] => bracket[1] = Lowest(times)))

=============================================================================
