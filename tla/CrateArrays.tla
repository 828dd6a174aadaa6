----------------------------- MODULE CrateArrays -----------------------------
(***************************************************************************)
(* Arrays in crate files (crateFile.cpp) and the coding of their integers  *)
(* (integerCoding.cpp).                                                    *)
(*                                                                         *)
(* Integers are coded as the differences from one to the next, each in the *)
(* fewest bits of three widths, the commonest in none.  The widths, and    *)
(* from what size on arrays are compressed, are parameters: those of the   *)
(* code are 8, 16 and 32 bits (16, 32 and 64), 16 elements, and a table of *)
(* values at most a quarter of the array.                                  *)
(*                                                                         *)
(* A float is <<n, what>>: the integer n, "exact" or the zero with a sign, *)
(* or a number or a NaN that is no integer.                                *)
(***************************************************************************)
EXTENDS Integers, Sequences, FiniteSets, SequencesExt

CONSTANTS SmallBits, MediumBits, LargeBits, MinCompressedArraySize, LutShare

Signed(x, bits) == ((x + 2 ^ (bits - 1)) % (2 ^ bits)) - 2 ^ (bits - 1)
Fits(x, bits) == Signed(x, bits) = x

\* Differences are of signed integers and wrap around.
Differences(ints) ==
    [i \in DOMAIN ints |->
        Signed(Signed(ints[i], LargeBits) - IF i = 1 THEN 0 ELSE Signed(ints[i - 1], LargeBits),
               LargeBits)]

\* The one that occurs most often, the largest of several.
Commonest(values) ==
    LET Count(v) == Cardinality({i \in DOMAIN values : values[i] = v})
    IN  CHOOSE v \in ToSet(values) : \A w \in ToSet(values) \ {v} :
            Count(v) > Count(w) \/ (Count(v) = Count(w) /\ v > w)

\* The bits the value of a code takes.
Bits(val, common) ==
    CASE val = common -> 0
      [] Fits(val, SmallBits) -> SmallBits
      [] Fits(val, MediumBits) -> MediumBits
      [] OTHER -> LargeBits

EncodeIntegers(ints) ==
    IF ints = <<>> THEN [common |-> 0, codes |-> <<>>, vints |-> <<>>]
    ELSE LET vals == Differences(ints)
             common == Commonest(vals)
             codes == [i \in DOMAIN vals |-> Bits(vals[i], common)]
             Coded(i) == Signed(vals[i], codes[i])
             stored == SelectSeq([i \in DOMAIN vals |-> i], LAMBDA i : codes[i] # 0)
         IN  [common |-> common, codes |-> codes,
              vints |-> [k \in DOMAIN stored |-> Coded(stored[k])]]

\* What is read is the sum of the differences so far, each a code's.
DecodeIntegers(coded) ==
    LET Decoded(r, code) ==
            LET val == IF code = 0 THEN coded.common ELSE coded.vints[r.next]
                sum == Signed(r.prev + val, LargeBits)
            IN  [prev |-> sum, next |-> IF code = 0 THEN r.next ELSE r.next + 1,
                 ints |-> Append(r.ints, sum)]
    IN  FoldLeft(Decoded, [prev |-> 0, next |-> 1, ints |-> <<>>], coded.codes).ints

-----------------------------------------------------------------------------
\* Arrays.  Versions are the minor ones, 0 the first of all.

Number(x) == IF x[2] = "-0" THEN <<0, "exact">> ELSE x
Equal(x, y) == x[2] # "nan" /\ Number(x) = Number(y)
IsIntegral(x) == x[2] \in {"exact", "-0"} /\ Fits(x[1], LargeBits)

\* The distinct values in order, or no table when there are more than a share of them.
Lut(floats) ==
    LET max == Len(floats) \div LutShare
        Looked(r, x) ==
            LET at == SelectInSeq(r.lut, LAMBDA y : Equal(x, y))
            IN  CASE r.lut = <<>> /\ r.indexes # <<>> -> r     \* given up
                  [] at # 0 -> [r EXCEPT !.indexes = Append(@, at - 1)]
                  [] Len(r.lut) < max ->
                        [lut |-> Append(r.lut, x), indexes |-> Append(r.indexes, Len(r.lut))]
                  [] OTHER -> [lut |-> <<>>, indexes |-> <<0>>]
    IN  FoldLeft(Looked, [lut |-> <<>>, indexes |-> <<>>], floats)

Stored(array, version, coding, data, lut) ==
    [ranked |-> version < 5, wide |-> version >= 7, size |-> Len(array), coding |-> coding,
     data |-> data, lut |-> lut]

\* Integers are compressed since 0.5.0 and floats since 0.6.0.
WriteInts(ints, version) ==
    IF version < 5 \/ Len(ints) < MinCompressedArraySize
    THEN Stored(ints, version, "plain", ints, <<>>)
    ELSE Stored(ints, version, "ints", EncodeIntegers(ints), <<>>)

WriteFloats(floats, version) ==
    IF version < 6 \/ Len(floats) < MinCompressedArraySize
    THEN Stored(floats, version, "plain", floats, <<>>)
    ELSE IF \A i \in DOMAIN floats : IsIntegral(floats[i])
    THEN Stored(floats, version, "i", EncodeIntegers([i \in DOMAIN floats |-> floats[i][1]]), <<>>)
    ELSE LET found == Lut(floats)
         IN  IF found.lut # <<>>
             THEN Stored(floats, version, "t", EncodeIntegers(found.indexes), found.lut)
             ELSE Stored(floats, version, "plain", floats, <<>>)

\* A reader of a version takes the sizes before the array for what it would write.
Garbage == <<"garbage">>
ReadArray(stored, version) ==
    IF stored.ranked # (version < 5) \/ stored.wide # (version >= 7) THEN Garbage
    ELSE CASE stored.coding = "plain" -> stored.data
           [] stored.coding = "ints" -> DecodeIntegers(stored.data)
           [] stored.coding = "i" ->
                 LET ints == DecodeIntegers(stored.data)
                 IN  [i \in DOMAIN ints |-> <<ints[i], "exact">>]
           [] stored.coding = "t" ->
                 LET indexes == DecodeIntegers(stored.data)
                 IN  [i \in DOMAIN indexes |-> stored.lut[indexes[i] + 1]]

-----------------------------------------------------------------------------
\* Integers come back from their code, as signed ones and, cast, as unsigned ones.
IntegersComeBack(ints) ==
    /\ DecodeIntegers(EncodeIntegers(ints)) = [i \in DOMAIN ints |-> Signed(ints[i], LargeBits)]
    /\ \A version \in {4, 5, 7} :
          LET read == ReadArray(WriteInts(ints, version), version)
          IN  [i \in DOMAIN read |-> read[i] % (2 ^ LargeBits)]
                = [i \in DOMAIN ints |-> ints[i] % (2 ^ LargeBits)]

\* Floats come back equal, but for the sign of a zero among integers and in a table.
FloatsComeBack(floats) ==
    \A version \in {4, 5, 6, 7} :
        LET read == ReadArray(WriteFloats(floats, version), version)
        IN  /\ Len(read) = Len(floats)
            /\ \A i \in DOMAIN floats : Equal(read[i], floats[i]) \/ read[i] = floats[i]
=============================================================================
