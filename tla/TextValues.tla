----------------------------- MODULE TextValues -----------------------------
(***************************************************************************)
(* Values in text layers.  A value is written as an atom, a tuple or a     *)
(* list; it is read by a value context that is told of atoms and brackets  *)
(* one after the other, counts what comes in every tuple and dimension,    *)
(* and makes the value of its type at the end (parserValueContext.cpp,     *)
(* parserHelpers, textFileFormatParser.cpp).  The context can record the   *)
(* text of a value of unknown type instead.                                *)
(*                                                                         *)
(* A type has a kind of parts, the sizes of its tuples, and may be an      *)
(* array (shaped).  A value is the sequence of its parts.  Doubles are     *)
(* counted in halves.                                                      *)
(***************************************************************************)
EXTENDS Integers, Sequences, SequencesExt

\* 64 bit integers, in the small.
Int64 == -4..3
UInt64 == 0..7
Held == [uchar |-> 0..3, int |-> -2..1, int64 |-> Int64, uint64 |-> UInt64]

TypeOf(kind, dims, shaped) == [kind |-> kind, dims |-> dims, shaped |-> shaped]
Size(type) == FoldLeft(LAMBDA a, b : a * b, 1, type.dims)

Atom(literal) == <<"atom", literal>>
Tuple(items) == <<"tuple", items>>
List(items) == <<"list", items>>

-----------------------------------------------------------------------------
(* What the lexer makes of a literal, and what can be got out of it.        *)

Finite(h) == <<"finite", h>>
Truncated(h) == IF h >= 0 THEN h \div 2 ELSE -((-h) \div 2)

NumericValue(n) ==
    CASE n >= 0 /\ n \in UInt64 -> <<"uint", n>>
      [] n < 0 /\ n \in Int64 -> <<"int", n>>
      [] OTHER -> <<"double", Finite(2 * n)>>

LexedValue(literal) ==
    CASE literal[1] = "digits" -> NumericValue(literal[2])
      [] literal[1] = "decimal" -> <<"double", Finite(literal[2])>>
      [] literal[1] = "word" -> <<"double", <<"special", literal[2]>>>>
      [] literal[1] = "identifier" -> <<"token", literal[2]>>
      [] literal[1] = "quoted" -> <<"string", literal[2]>>
      [] literal[1] = "asset" -> <<"asset", literal[2]>>

BoolWords == ("yes" :> TRUE) @@ ("true" :> TRUE) @@ ("1" :> TRUE)
             @@ ("no" :> FALSE) @@ ("false" :> FALSE) @@ ("0" :> FALSE)

\* Each gives the part in a sequence, or the empty one when the variant cannot be accessed.
GetIntegral(kind, v) ==
    LET n == IF v[1] = "double" THEN Truncated(v[2][2]) ELSE v[2]
    IN  IF v[1] \in {"uint", "int"} \/ (v[1] = "double" /\ v[2][1] = "finite")
        THEN (IF n \in Held[kind] THEN <<<<"int", n>>>> ELSE <<>>)
        ELSE IF v = <<"double", <<"special", "-0">>>> THEN <<<<"int", 0>>>> ELSE <<>>
GetFloat(v) ==
    CASE v[1] \in {"uint", "int"} -> <<Finite(2 * v[2])>>
      [] v[1] = "double" -> <<v[2]>>
      [] v[1] \in {"string", "token"} /\ v[2] \in {"inf", "-inf", "nan"} -> <<<<"special", v[2]>>>>
      [] OTHER -> <<>>
GetBool(v) ==
    CASE v[1] \in {"uint", "int"} -> <<<<"bool", v[2] # 0>>>>
      [] v[1] = "double" -> <<<<"bool", v[2] \notin {Finite(0), <<"special", "-0">>}>>>>
      [] v[1] \in {"string", "token"} /\ v[2] \in DOMAIN BoolWords -> <<<<"bool", BoolWords[v[2]]>>>>
      [] OTHER -> <<>>
GetText(kind, v) ==
    IF v[1] = "string" \/ (v[1] = "asset" /\ kind = "asset") THEN <<<<kind, v[2]>>>> ELSE <<>>

GetPart(kind, v) ==
    CASE kind \in DOMAIN Held -> GetIntegral(kind, v)
      [] kind = "float" -> GetFloat(v)
      [] kind = "bool" -> GetBool(v)
      [] OTHER -> GetText(kind, v)

Refused == [ok |-> FALSE, parts |-> <<>>]

\* The parts of n elements, taken from the first values on: there may be too few.
MakeValue(type, n, vars) ==
    LET parts == [i \in 1..(n * Size(type)) |->
                     IF i <= Len(vars) THEN GetPart(type.kind, vars[i]) ELSE <<>>]
    IN  IF \E i \in DOMAIN parts : parts[i] = <<>> THEN Refused
        ELSE [ok |-> TRUE, parts |-> [i \in DOMAIN parts |-> parts[i][1]]]

-----------------------------------------------------------------------------
(* The value context.                                                       *)

Cleared == [dim |-> 0, pushDim |-> -1, shape |-> <<>>, working |-> <<>>, depth |-> 0,
            dims |-> <<0, 0>>, vars |-> <<>>, recording |-> FALSE, comma |-> FALSE,
            text |-> <<>>, error |-> FALSE]
\* The errors of the context do not end the reading.
Error(c) == [c EXCEPT !.error = TRUE]

\* An opening bracket and an atom come after a comma when something came before them.
RecordNext(c, token, comma) ==
    IF ~c.recording THEN c
    ELSE [c EXCEPT !.text = @ \o (IF c.comma THEN <<<<",", 0>>>> ELSE <<>>) \o <<token>>, !.comma = comma]
RecordClose(c, token) ==
    IF ~c.recording THEN c ELSE [c EXCEPT !.text = Append(@, token), !.comma = TRUE]

\* One more in the dimension, unless a tuple is open.
Tally(c) == IF c.depth = 0 /\ c.dim > 0 THEN [c EXCEPT !.working[c.dim] = @ + 1] ELSE c

Counted(c, type) ==
    IF c.depth > 0 /\ c.depth = Len(type.dims) THEN [c EXCEPT !.dims[c.depth] = @ - 1] ELSE c
AppendKept(c, type) ==
    IF c.pushDim \notin {-1, c.dim} THEN Error(c)
    ELSE Counted(Tally([c EXCEPT !.pushDim = c.dim]), type)
AppendValue(c, type, literal) ==
    AppendKept(IF c.recording THEN RecordNext(c, Atom(literal), TRUE)
               ELSE [c EXCEPT !.vars = Append(@, LexedValue(literal))], type)

Grow(sizes, dim) == IF dim > Len(sizes) THEN Append(sizes, 0) ELSE sizes
BeginList(c) ==
    LET d == c.dim + 1
    IN  RecordNext([c EXCEPT !.dim = d, !.shape = Grow(@, d), !.working = Grow(c.working, d)],
                   <<"[", 0>>, FALSE)

\* Back in the dimension around.
LeaveList(c) ==
    LET d == c.dim
        left == [c EXCEPT !.working[d] = 0, !.dim = d - 1]
    IN  IF d > 1 THEN [left EXCEPT !.working[d - 1] = @ + 1] ELSE left
EndListOf(c) ==
    LET d == c.dim
    IN  CASE d = 0 -> Error(c)
          [] d > 0 /\ c.shape[d] = 0 /\ c.working[d] = 0 -> Error(c)
          [] d > 0 /\ c.shape[d] = 0 /\ c.working[d] # 0 ->
                LeaveList([c EXCEPT !.shape[d] = c.working[d]])
          [] d > 0 /\ c.shape[d] # 0 /\ c.shape[d] # c.working[d] -> Error(c)
          [] OTHER -> LeaveList(c)
EndList(c) == EndListOf(RecordClose(c, <<"]", 0>>))

EnterTuple(c, type) ==
    IF c.depth >= Len(type.dims) THEN Error(c)
    ELSE [c EXCEPT !.dims[c.depth + 1] = type.dims[c.depth + 1], !.depth = @ + 1]
BeginTuple(c, type) == EnterTuple(RecordNext(c, <<"(", 0>>, FALSE), type)

LeaveTuple(c) ==
    CASE c.depth = 0 -> Error(c)
      [] c.depth > 0 /\ c.dims[c.depth] # 0 -> Error([c EXCEPT !.depth = @ - 1])
      [] c.depth > 1 /\ c.dims[c.depth] = 0 -> [c EXCEPT !.depth = @ - 1, !.dims[c.depth - 1] = @ - 1]
      [] OTHER -> Tally([c EXCEPT !.depth = 0])
EndTuple(c) == LeaveTuple(RecordClose(c, <<")", 0>>))

RECURSIVE Fed(_, _, _)
\* The context after it was told of the text.
Fed(c, type, text) ==
    IF text = <<>> THEN c
    ELSE LET token == Head(text)
         IN  Fed(CASE token[1] = "atom" -> AppendValue(c, type, token[2])
                   [] token[1] = "[" -> BeginList(c)
                   [] token[1] = "]" -> EndList(c)
                   [] token[1] = "(" -> BeginTuple(c, type)
                   [] token[1] = ")" -> EndTuple(c)
                   [] OTHER -> c, type, Tail(text))

ProduceValue(c, type) ==
    MakeValue(type, IF ~type.shaped THEN 1
                    ELSE IF c.shape = <<>> THEN 0 ELSE FoldLeft(LAMBDA a, b : a * b, 1, c.shape), c.vars)

-----------------------------------------------------------------------------
(* The text of a tree.  "[]" is a rule of its own, before lists.            *)

Between(texts) ==
    FlattenSeq([i \in DOMAIN texts |-> IF i = 1 THEN texts[i] ELSE <<<<",", 0>>>> \o texts[i]])
RECURSIVE TextOf(_)
TextOf(tree) ==
    CASE tree[1] = "atom" -> <<tree>>
      [] tree[1] = "list" -> <<<<"[", 0>>>> \o Between([i \in DOMAIN tree[2] |-> TextOf(tree[2][i])]) \o <<<<"]", 0>>>>
      [] tree[1] = "tuple" -> <<<<"(", 0>>>> \o Between([i \in DOMAIN tree[2] |-> TextOf(tree[2][i])]) \o <<<<")", 0>>>>
EmptyList == List(<<>>)

\* What TypedValue sets: a context with errors stands for a layer that is read with errors.
ValueSet(c, type, isList) ==
    IF isList # type.shaped \/ c.error THEN Refused ELSE ProduceValue(c, type)
ReadValue(type, tree) ==
    ValueSet(IF tree = EmptyList THEN Cleared ELSE Fed(Cleared, type, TextOf(tree)), type, tree[1] = "list")

\* The text recorded for a value of unregistered metadata, with the type set up last.
RecordedString(last, tree) ==
    IF tree = EmptyList THEN TextOf(tree)
    ELSE Fed([Cleared EXCEPT !.recording = TRUE], last, TextOf(tree)).text

-----------------------------------------------------------------------------
(* What is written for a value.                                             *)

Stringify(part) ==
    CASE part[1] = "int" -> Atom(<<"digits", part[2]>>)
      [] part[1] = "bool" -> Atom(<<"digits", IF part[2] THEN 1 ELSE 0>>)
      [] part[1] = "finite" -> Atom(IF part[2] % 2 = 0 THEN <<"digits", part[2] \div 2>>
                                    ELSE <<"decimal", part[2]>>)
      [] part[1] = "special" -> Atom(<<"word", part[2]>>)
      [] part[1] = "asset" -> Atom(<<"asset", part[2]>>)
      [] OTHER -> Atom(<<"quoted", part[2]>>)

RECURSIVE Grouped(_, _)
Grouped(dims, parts) ==
    IF dims = <<>> THEN Stringify(parts[1])
    ELSE LET n == Len(parts) \div Head(dims)
         IN  Tuple([i \in 1..Head(dims) |-> Grouped(Tail(dims), SubSeq(parts, (i - 1) * n + 1, i * n))])
StringFromVtValue(type, parts) ==
    IF ~type.shaped THEN Grouped(type.dims, parts)
    ELSE LET n == Size(type)
         IN  List([i \in 1..(Len(parts) \div n) |->
                     Grouped(type.dims, SubSeq(parts, (i - 1) * n + 1, i * n))])

-----------------------------------------------------------------------------
(* Dictionaries: a function from keys to <<"value", type, parts>> and       *)
(* <<"dictionary", function>>.  The reader keeps stacks.                    *)

RECURSIVE WriteDictionary(_)
WriteEntry(key, entry) ==
    IF entry[1] = "dictionary"
    THEN <<<<"KeywordDictionary", 0>>, <<"DictionaryKey", key>>>> \o WriteDictionary(entry[2])
         \o <<<<"DictionaryValueItem", 0>>>>
    ELSE <<<<"DictionaryType", entry[2]>>, <<"DictionaryKey", key>>,
           <<"TypedValue", StringFromVtValue(entry[2], entry[3])>>, <<"DictionaryValueItem", 0>>>>
\* Keys are written in their order.
WriteDictionary(d) ==
    <<<<"DictionaryValueOpen", 0>>>>
    \o FlattenSeq([i \in 1..2 |-> IF i \in DOMAIN d THEN WriteEntry(i, d[i]) ELSE <<>>])
    \o <<<<"DictionaryValueClose", 0>>, <<"DictionaryValue", 0>>>>

NoValue == <<"none", 0, 0>>
Reader == [context |-> <<"KeyValueMetadata">>, expect |-> <<>>, keys |-> <<>>,
           dictionaries |-> <<<<>>>>, value |-> NoValue, type |-> TypeOf("int", <<>>, FALSE)]

DictionaryValueOpen(r) ==
    [r EXCEPT !.expect = Append(@, FALSE), !.context = @ \o <<"Dictionary", "DictionaryTypeName">>,
              !.dictionaries = Append(@, <<>>)]
DictionaryValueClose(r) ==
    [r EXCEPT !.expect = Front(@), !.dictionaries = Front(@), !.context = Front(Front(@))]
KeywordDictionary(r) ==
    [r EXCEPT !.expect = Append(Front(@), TRUE), !.context = Append(Front(@), "DictionaryKey")]
DictionaryType(r, type) ==
    [r EXCEPT !.context = Append(Front(@), "DictionaryKey"), !.type = type]
DictionaryKey(r, key) == [r EXCEPT !.keys = Append(@, key), !.context = Front(@)]
TypedValue(r, tree) ==
    LET read == ReadValue(r.type, tree)
    IN  [r EXCEPT !.value = IF read.ok THEN <<"value", r.type, read.parts>> ELSE NoValue]

\* As when the last dictionary were copied and not emptied.
DictionaryValueItemCopied(r) ==
    LET n == Len(r.dictionaries)
        key == Last(r.keys)
        put == IF Last(r.expect)
               THEN [r EXCEPT !.dictionaries[n - 1] = (key :> <<"dictionary", r.dictionaries[n]>>) @@ @]
               ELSE [r EXCEPT !.dictionaries[n - 1] = (key :> r.value) @@ @]
    IN  [put EXCEPT !.context = Append(@, "DictionaryTypeName"), !.expect = Append(Front(@), FALSE),
                    !.keys = Front(@)]
\* A nested dictionary is moved out of the last one, which may be filled again.
DictionaryValueItem(r) ==
    LET n == Len(r.dictionaries)
        key == Last(r.keys)
        put == IF Last(r.expect)
               THEN [r EXCEPT !.dictionaries[n - 1] = (key :> <<"dictionary", r.dictionaries[n]>>) @@ @,
                              !.dictionaries[n] = <<>>]
               ELSE [r EXCEPT !.dictionaries[n - 1] = (key :> r.value) @@ @]
    IN  [put EXCEPT !.context = Append(@, "DictionaryTypeName"), !.expect = Append(Front(@), FALSE),
                    !.keys = Front(@)]
DictionaryValue(r) ==
    IF Last(r.context) # "KeyValueMetadata" THEN r
    ELSE [r EXCEPT !.value = <<"dictionary", r.dictionaries[1]>>, !.dictionaries[1] = <<>>,
                   !.context = Front(@)]

RECURSIVE ReadDictionary(_, _)
ReadDictionary(r, text) ==
    IF text = <<>> THEN r
    ELSE LET token == Head(text)
         IN  ReadDictionary(
                CASE token[1] = "DictionaryValueOpen" -> DictionaryValueOpen(r)
                  [] token[1] = "DictionaryValueClose" -> DictionaryValueClose(r)
                  [] token[1] = "KeywordDictionary" -> KeywordDictionary(r)
                  [] token[1] = "DictionaryType" -> DictionaryType(r, token[2])
                  [] token[1] = "DictionaryKey" -> DictionaryKey(r, token[2])
                  [] token[1] = "TypedValue" -> TypedValue(r, token[2])
                  [] token[1] = "DictionaryValueItem" -> DictionaryValueItem(r)
                  [] token[1] = "DictionaryValue" -> DictionaryValue(r), Tail(text))

-----------------------------------------------------------------------------
(* Laws.                                                                    *)

RECURSIVE FitsTuple(_, _)
FitsTuple(dims, tree) ==
    IF dims = <<>> THEN tree[1] = "atom"
    ELSE /\ tree[1] = "tuple" /\ Len(tree[2]) = Head(dims)
         /\ \A i \in DOMAIN tree[2] : FitsTuple(Tail(dims), tree[2][i])
RECURSIVE FitsArray(_, _, _)
\* Lists of one shape, all the way down to elements.
FitsArray(dims, shape, tree) ==
    IF shape = <<>> THEN FitsTuple(dims, tree)
    ELSE /\ tree[1] = "list" /\ Len(tree[2]) = Head(shape)
         /\ \A i \in DOMAIN tree[2] : FitsArray(dims, Tail(shape), tree[2][i])
Shapes == UNION {[1..n -> 1..3] : n \in 1..3}
Atoms(tree) == LET atoms == SelectSeq(TextOf(tree), LAMBDA token : token[1] = "atom")
               IN  [i \in DOMAIN atoms |-> LexedValue(atoms[i][2])]
Fits(type, tree) ==
    IF ~type.shaped THEN FitsTuple(type.dims, tree)
    ELSE tree = EmptyList \/ \E shape \in Shapes : FitsArray(type.dims, shape, tree)

\* A text is a value of the type when it has its shape and its atoms are such parts, and then
\* the value is that of its atoms.
ReadRight(type, tree, read) ==
    /\ read.ok <=> /\ Fits(type, tree)
                   /\ \A v \in ToSet(Atoms(tree)) : GetPart(type.kind, v) # <<>>
    /\ read.ok => read.parts = [i \in DOMAIN Atoms(tree) |-> GetPart(type.kind, Atoms(tree)[i])[1]]
RecordedRight(last, tree) == RecordedString(last, tree) = TextOf(tree)

ValueReadsBack(type, parts) ==
    ReadValue(type, StringFromVtValue(type, parts)) = [ok |-> TRUE, parts |-> parts]
DictionaryReadsBack(d, r) ==
    r.value = <<"dictionary", d>> /\ r.context = <<>> /\ r.expect = <<>> /\ r.keys = <<>>
        /\ r.dictionaries = <<<<>>>>

-----------------------------------------------------------------------------
(* Quoted strings and asset paths in text layers: how they are written     *)
(* (fileIO_Common.cpp), which text is one (textFileFormatParser.h), and    *)
(* what is read from it (parserHelpers.cpp).                               *)
(*                                                                         *)
(* A text is a sequence of characters.  "C3" and "A9" are the two bytes of *)
(* a letter in UTF-8, "01" is a control character; each of these three is  *)
(* written as its two hexadecimal digits when it stands alone.             *)

Quote1 == "'"
Quote2 == "\""
Backslash == "\\"
Newline == "NL"
Bytes == ("C3" :> <<"c", "3">>) @@ ("A9" :> <<"a", "9">>) @@ ("01" :> <<"0", "1">>)

Has(s, c) == \E i \in DOMAIN s : s[i] = c
At(s, i) == IF i \in DOMAIN s THEN s[i] ELSE "end"
Ahead(s, i, n) == [k \in 1..n |-> At(s, i + k - 1)]

-----------------------------------------------------------------------------
(* Writing.                                                                 *)

IsUTF8MultiByte(s, i) == Ahead(s, i, 2) = <<"C3", "A9">>

WriteASCIIorHex(c, quote, triple) ==
    CASE c = Newline -> IF triple THEN <<c>> ELSE <<Backslash, "n">>
      [] c = Backslash -> <<Backslash, Backslash>>
      [] c = quote -> <<Backslash, quote>>
      [] c \in DOMAIN Bytes -> <<Backslash, "x">> \o Bytes[c]
      [] OTHER -> <<c>>

RECURSIVE Escaped(_, _, _, _)
Escaped(s, i, quote, triple) ==
    CASE i > Len(s) -> <<>>
      [] i <= Len(s) /\ IsUTF8MultiByte(s, i) -> <<"C3", "A9">> \o Escaped(s, i + 2, quote, triple)
      [] OTHER -> WriteASCIIorHex(s[i], quote, triple) \o Escaped(s, i + 1, quote, triple)

Times(n, c) == [k \in 1..n |-> c]
Quoted(s, quote, triple) ==
    Times(IF triple THEN 3 ELSE 1, quote) \o Escaped(s, 1, quote, triple)
        \o Times(IF triple THEN 3 ELSE 1, quote)
\* Double quotes, unless there are such in the string and no single ones.
Quote(s) == Quoted(s, IF Has(s, Quote2) /\ ~Has(s, Quote1) THEN Quote1 ELSE Quote2, Has(s, Newline))

RECURSIVE DelimitersEscaped(_)
DelimitersEscaped(s) ==
    CASE s = <<>> -> <<>>
      [] s # <<>> /\ Ahead(s, 1, 3) = Times(3, "@") ->
            <<Backslash>> \o Times(3, "@") \o DelimitersEscaped(SubSeq(s, 4, Len(s)))
      [] OTHER -> <<Head(s)>> \o DelimitersEscaped(Tail(s))
StringFromAssetPath(s) ==
    IF Has(s, "@") THEN Times(3, "@") \o DelimitersEscaped(s) \o Times(3, "@")
    ELSE <<"@">> \o s \o <<"@">>

-----------------------------------------------------------------------------
(* The rules of the grammar give where they end, 0 when they do not match.  *)

\* One character of a string: an escaped backslash or quote first.
CharacterEnd(s, i, quote, multiline) ==
    CASE At(s, i) = Backslash /\ At(s, i + 1) \in {Backslash, quote} -> i + 2
      [] IsUTF8MultiByte(s, i) -> i + 2
      [] At(s, i) \in {"C3", "A9", "end"} -> 0
      [] At(s, i) = Newline /\ ~multiline -> 0
      [] OTHER -> i + 1

RECURSIVE StringUntil(_, _, _, _)
\* From i, inside of the quotes.
StringUntil(s, i, quote, n) ==
    IF Ahead(s, i, n) = Times(n, quote) THEN i + n
    ELSE LET next == CharacterEnd(s, i, quote, n = 3)
         IN  IF next = 0 THEN 0 ELSE StringUntil(s, next, quote, n)
\* Three quotes are tried first, and there is no way back once they are seen.
StringEnd(s) ==
    CASE At(s, 1) \notin {Quote1, Quote2} -> 0
      [] At(s, 1) \in {Quote1, Quote2} /\ Ahead(s, 1, 3) = Times(3, s[1]) -> StringUntil(s, 4, s[1], 3)
      [] OTHER -> StringUntil(s, 2, s[1], 1)

\* The last three of up to five delimiters close.
CloseEnd(s, i) ==
    CASE Ahead(s, i, 5) = Times(5, "@") -> i + 5
      [] Ahead(s, i, 4) = Times(4, "@") /\ At(s, i + 4) # "@" -> i + 4
      [] OTHER -> i + 3
RECURSIVE AssetUntil(_, _)
AssetUntil(s, i) ==
    CASE i > Len(s) -> 0
      [] i <= Len(s) /\ Ahead(s, i, 3) = Times(3, "@") -> CloseEnd(s, i)
      [] i <= Len(s) /\ Ahead(s, i, 4) = <<Backslash>> \o Times(3, "@") -> AssetUntil(s, i + 4)
      [] OTHER -> AssetUntil(s, i + 1)
AssetEnd(s) ==
    IF Ahead(s, 1, 3) = Times(3, "@") THEN AssetUntil(s, 4)
    ELSE IF \E i \in 2..Len(s) : s[i] = "@"
         THEN 1 + (CHOOSE i \in 2..Len(s) : s[i] = "@" /\ ~\E j \in 2..(i - 1) : s[j] = "@")
         ELSE 0

-----------------------------------------------------------------------------
(* Reading.                                                                 *)

ByteOf(digits) == CHOOSE b \in DOMAIN Bytes : Bytes[b] = digits

RECURSIVE Unescaped(_)
\* TfEscapeStringReplaceChar takes the character after a backslash, and the digits after an x.
Unescaped(s) ==
    CASE s = <<>> -> <<>>
      [] s # <<>> /\ s[1] # Backslash -> <<s[1]>> \o Unescaped(Tail(s))
      [] s # <<>> /\ s[1] = Backslash /\ At(s, 2) = "n" -> <<Newline>> \o Unescaped(SubSeq(s, 3, Len(s)))
      [] s # <<>> /\ s[1] = Backslash /\ At(s, 2) = "x" ->
            <<ByteOf(SubSeq(s, 3, 4))>> \o Unescaped(SubSeq(s, 5, Len(s)))
      [] OTHER -> <<At(s, 2)>> \o Unescaped(SubSeq(s, 3, Len(s)))
EvalQuotedString(s, trim) ==
    IF Len(s) <= 2 * trim THEN <<>> ELSE Unescaped(SubSeq(s, trim + 1, Len(s) - trim))
StringValue(s) ==
    EvalQuotedString(s, IF Ahead(s, 1, 3) \in {Times(3, Quote1), Times(3, Quote2)} THEN 3 ELSE 1)

RECURSIVE DelimitersUnescaped(_)
DelimitersUnescaped(s) ==
    CASE s = <<>> -> <<>>
      [] s # <<>> /\ Ahead(s, 1, 4) = <<Backslash>> \o Times(3, "@") ->
            Times(3, "@") \o DelimitersUnescaped(SubSeq(s, 5, Len(s)))
      [] OTHER -> <<Head(s)>> \o DelimitersUnescaped(Tail(s))
EvalAssetPath(s, triple) ==
    IF triple THEN DelimitersUnescaped(SubSeq(s, 4, Len(s) - 3)) ELSE SubSeq(s, 2, Len(s) - 1)
AssetRefValue(s) == EvalAssetPath(s, Ahead(s, 1, 3) = Times(3, "@"))

-----------------------------------------------------------------------------
(* Laws: the text of a string is one string whatever follows, and gives it  *)
(* back; so does that of an asset path, unless delimiters have to be        *)
(* escaped and it ends in a backslash and up to two of them.                *)

QuoteReadsBack(s, rest) ==
    LET text == Quote(s)
    IN  StringEnd(text \o rest) = Len(text) + 1 /\ StringValue(text) = s

EndsEscaped(s) ==
    \E n \in 0..2 : Has(s, "@") /\ Len(s) > n /\ SubSeq(s, Len(s) - n, Len(s)) = <<Backslash>> \o Times(n, "@")
AssetReadsBack(s, rest) ==
    LET text == StringFromAssetPath(s)
    IN  EndsEscaped(s) \/ (AssetEnd(text \o rest) = Len(text) + 1 /\ AssetRefValue(text) = s)

=============================================================================
