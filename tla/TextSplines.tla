----------------------------- MODULE TextSplines -----------------------------
(***************************************************************************)
(* Splines in text layers: what the writer says of a spline, the grammar   *)
(* that matches it, and the actions that make the spline again.            *)
(*                                                                         *)
(* The actions run while the grammar is tried.  An alternative that fails  *)
(* gives its text back and leaves what its actions did, so that the stack  *)
(* of contexts has to come out even whichever alternatives were tried.     *)
(*                                                                         *)
(* A spline is [curve, pre, post, loop, knots], an extrapolation <<mode,   *)
(* slope>>, loop is empty or five numbers.  A text is a sequence of words  *)
(* <<"word", w>>, numbers <<"number", n>> and dictionaries <<"dict", d>>.  *)
(***************************************************************************)
EXTENDS Integers, SequencesExt

Held == <<"held", 0>>
NoTangent == [width |-> 0, slope |-> 0, algorithm |-> "none"]
NoLoop == <<0, 0, 0, 0, 0>>
NewSpline == [curve |-> "bezier", pre |-> Held, post |-> Held, loop |-> NoLoop, knots |-> <<>>]
NewKnot == [time |-> 0, value |-> 0, preValue |-> <<>>, interp |-> "held",
            preTan |-> NoTangent, postTan |-> NoTangent, data |-> <<>>]

-----------------------------------------------------------------------------
(* The writer.                                                             *)

W(word) == <<<<"word", word>>>>
N(number) == <<<<"number", number>>>>
If(condition, text) == IF condition THEN text ELSE <<>>
Commas(numbers) == Tail(FlattenSeq([i \in DOMAIN numbers |-> W(",") \o N(numbers[i])]))

\* The words of a mode: "loop repeat" is two.
ModeWords == [none |-> <<"none">>, held |-> <<"held">>, linear |-> <<"linear">>, sloped |-> <<"sloped">>,
              repeat |-> <<"loop", "repeat">>, reset |-> <<"loop", "reset">>,
              oscillate |-> <<"loop", "oscillate">>]
Words(mode) == FlattenSeq([i \in DOMAIN ModeWords[mode] |-> W(ModeWords[mode][i])])

WriteExtrapolation(label, extrap) ==
    If(extrap # Held, W(label) \o W(":") \o Words(extrap[1])
                      \o If(extrap[1] = "sloped", W("(") \o N(extrap[2]) \o W(")")) \o W(","))

WriteTangent(label, isBezier, tan) ==
    W(";") \o label \o W("(") \o If(isBezier, N(tan.width) \o W(",")) \o N(tan.slope)
    \o If(tan.algorithm # "none", W(",") \o W(tan.algorithm)) \o W(")")

\* The segment before the first knot counts as a curve, to keep its tangent.
WriteKnot(s, i) ==
    LET knot == s.knots[i]
        before == IF i = 1 THEN "curve" ELSE s.knots[i - 1].interp
        isBezier == s.curve = "bezier"
    IN  N(knot.time) \o W(":") \o If(knot.preValue # <<>>, N(knot.preValue[1]) \o W("&")) \o N(knot.value)
        \o If(before = "curve", WriteTangent(W("pre"), isBezier, knot.preTan))
        \o (IF knot.interp = "curve" THEN WriteTangent(W("post") \o W("curve"), isBezier, knot.postTan)
            ELSE W(";") \o W("post") \o W(knot.interp))
        \o If(knot.data # <<>>, W(";") \o <<<<"dict", knot.data>>>>) \o W(",")

HasCurveSegments(s) == \E i \in 1..Len(s.knots) - 1 : s.knots[i].interp = "curve"

WriteSpline(s) ==
    W("{") \o If(HasCurveSegments(s) \/ s.curve = "hermite", W(s.curve) \o W(","))
    \o WriteExtrapolation("pre", s.pre) \o WriteExtrapolation("post", s.post)
    \o If(s.loop # NoLoop, W("loop") \o W(":") \o W("(") \o Commas(s.loop) \o W(")") \o W(","))
    \o FlattenSeq([i \in DOMAIN s.knots |-> WriteKnot(s, i)]) \o W("}")

-----------------------------------------------------------------------------
(* The grammar.                                                            *)

Word(word) == <<"word", word>>
Key(word, action) == <<"act", <<action, Word(word)>>>>
Num(action) == <<"act", <<action, <<"number", 0>>>>>>
Act(action, rule) == <<"act", <<action, rule>>>>
All(parts) == <<"seq", parts>>
Or(alternatives) == <<"or", alternatives>>
Opt(part) == Or(<<part, All(<<>>)>>)
List(part) == <<"star", All(<<part, Opt(Word(","))>>)>>

SplineCurveTypeItem == Or(<<Key("hermite", "KeywordCurveType"), Key("bezier", "KeywordCurveType")>>)
SplineExtrapolationType ==
    Or(<<Key("none", "KeywordMode"), Key("held", "KeywordMode"), Key("linear", "KeywordMode"),
         All(<<Key("sloped", "KeywordSloped"), Word("("), Num("SlopeValue"), Word(")")>>),
         All(<<Key("loop", "KeywordLoop"), Key("repeat", "KeywordLoopMode")>>),
         All(<<Key("loop", "KeywordLoop"), Key("reset", "KeywordLoopMode")>>),
         All(<<Key("loop", "KeywordLoop"), Key("oscillate", "KeywordLoopMode")>>)>>)
SplinePreExtrapItem ==
    Act("SplinePreExtrapItem", All(<<Key("pre", "KeywordPre"), Word(":"), SplineExtrapolationType>>))
SplinePostExtrapItem ==
    Act("SplinePostExtrapItem", All(<<Key("post", "KeywordPost"), Word(":"), SplineExtrapolationType>>))
SplineLoopItem ==
    Act("SplineLoopItem",
        All(<<Key("loop", "KeywordLoop"), Word(":"), Word("("), Num("SplineLoopNumber"), Word(","),
              Num("SplineLoopNumber"), Word(","), Num("SplineLoopNumber"), Word(","),
              Num("SplineLoopNumber"), Word(","), Num("SplineLoopNumber"), Word(")")>>))

Width == Num("SplineTangentWidth")
Slope == Num("SplineTangentSlope")
SplineTangentAlgorithm == Or(<<Key("custom", "KeywordAlgorithm"), Key("autoEase", "KeywordAlgorithm")>>)
SplineTangent ==
    Act("SplineTangent",
        All(<<Word("("),
              Or(<<Act("WidthSlopeAlgorithm", All(<<Width, Word(","), Slope, Word(","), SplineTangentAlgorithm>>)),
                   Act("WidthSlope", All(<<Width, Word(","), Slope>>)),
                   Act("SlopeAlgorithm", All(<<Slope, Word(","), SplineTangentAlgorithm>>)),
                   Act("SlopeOnly", Slope)>>),
              Word(")")>>))
SplineInterpMode ==
    Act("SplineInterpMode",
        Or(<<Key("none", "KeywordMode"), Key("held", "KeywordMode"), Key("linear", "KeywordMode"),
             Key("curve", "KeywordMode")>>))
SplinePostShaping == Act("SplinePostShaping", All(<<Key("post", "KeywordPost"), SplineInterpMode, Opt(SplineTangent)>>))
SplineKnotParam ==
    Act("SplineKnotParam",
        Or(<<All(<<Key("pre", "KeywordPre"), SplineTangent>>), SplinePostShaping,
             Act("DictionaryValue", <<"dict", 0>>)>>))
SplineKnotValues ==
    Act("SplineKnotValues",
        Or(<<Act("ValueWithoutPreValue", All(<<Num("SplineKnotValue"), <<"notAt", Word("&")>>>>)),
             Act("ValueWithPreValue", All(<<Num("SplineKnotPreValue"), Word("&"), Num("SplineKnotValue")>>))>>))
SplineKnotItem ==
    Act("SplineKnotItem", All(<<Num("SplineKnotTime"), Word(":"), SplineKnotValues,
                                <<"star", All(<<Word(";"), SplineKnotParam>>)>>>>))
SplineItem ==
    Act("SplineItem", Or(<<SplineCurveTypeItem, SplinePreExtrapItem, SplinePostExtrapItem, SplineLoopItem, SplineKnotItem>>))
SplineValue == Act("SplineValue", All(<<Word("{"), List(SplineItem), Word("}")>>))

-----------------------------------------------------------------------------
(* The actions.                                                            *)

Start == [ctx |-> <<"SplineValues", "SplineKnotItem">>, spline |-> NewSpline, knots |-> <<>>,
          extrap |-> Held, loop |-> <<>>, knot |-> NewKnot, value |-> 0, preValue |-> 0,
          isPre |-> FALSE, tangent |-> NoTangent, dictionary |-> <<>>]

Ctx(c) == Last(c.ctx)
Push(c, context) == [c EXCEPT !.ctx = Append(@, context)]
Pop(c) == [c EXCEPT !.ctx = Front(@)]
\* A knot was expected, and something else came.
NoKnot(c) == IF Ctx(c) = "SplineKnotItem" THEN Pop(c) ELSE c
InExtrapolation(c) == Ctx(c) \in {"SplinePreExtrapItem", "SplinePostExtrapItem"}

KeywordLoop(c) ==
    LET d == NoKnot(c) IN IF InExtrapolation(d) THEN Push(d, "SplineKeywordLoop") ELSE d

KeywordMode(c, mode) ==
    CASE InExtrapolation(c) /\ mode # "curve" -> [c EXCEPT !.extrap = <<mode, 0>>]
      [] Ctx(c) = "SplineInterpMode" -> [c EXCEPT !.knot.interp = mode]
      [] OTHER -> c
KeywordLoopMode(c, mode) ==
    IF Ctx(c) = "SplineKeywordLoop" THEN Pop([c EXCEPT !.extrap = <<mode, 0>>]) ELSE c
KeywordPre(c) ==
    LET d == NoKnot(c)
    IN  CASE Ctx(d) = "SplineValues" -> Push(d, "SplinePreExtrapItem")
          [] Ctx(d) = "SplineKnotParam" ->
                Push([d EXCEPT !.isPre = TRUE, !.tangent = NoTangent], "SplineTangent")
          [] OTHER -> d
KeywordPost(c) ==
    LET d == NoKnot(c)
    IN  CASE Ctx(d) = "SplineValues" -> Push(d, "SplinePostExtrapItem")
          [] Ctx(d) = "SplineKnotParam" -> Push([d EXCEPT !.isPre = FALSE], "SplineInterpMode")
          [] OTHER -> d

SetSplineTangent(c, tangent) ==
    IF c.isPre THEN [c EXCEPT !.knot.preTan = tangent] ELSE [c EXCEPT !.knot.postTan = tangent]

\* The knot is put among the others, one of the same time stays as it is.
Insert(knots, knot) ==
    IF \E i \in DOMAIN knots : knots[i].time = knot.time THEN knots
    ELSE SelectSeq(knots, LAMBDA k : k.time < knot.time) \o <<knot>>
         \o SelectSeq(knots, LAMBDA k : k.time > knot.time)

DoSplineKnotItem(c) ==
    LET d == IF Ctx(c) = "SplineKnotParam" THEN Pop(c) ELSE c
    IN  [Pop(d) EXCEPT !.knots = Insert(@, d.knot)]

Apply(action, c, x) ==
    CASE action = "KeywordCurveType" -> [Pop(c) EXCEPT !.spline.curve = x]
      [] action = "KeywordMode" -> KeywordMode(c, x)
      [] action = "KeywordSloped" -> Push(c, "SplineExtrapSloped")
      [] action = "SlopeValue" -> Pop([c EXCEPT !.extrap = <<"sloped", x>>])
      [] action = "KeywordLoop" -> KeywordLoop(c)
      [] action = "KeywordLoopMode" -> KeywordLoopMode(c, x)
      [] action = "SplineLoopNumber" -> [c EXCEPT !.loop = Append(@, x)]
      [] action = "SplineLoopItem" -> [c EXCEPT !.spline.loop = c.loop, !.loop = <<>>]
      [] action = "KeywordPre" -> KeywordPre(c)
      [] action = "KeywordPost" -> KeywordPost(c)
      [] action = "SplinePreExtrapItem" -> Pop([c EXCEPT !.spline.pre = c.extrap])
      [] action = "SplinePostExtrapItem" -> Pop([c EXCEPT !.spline.post = c.extrap])
      [] action = "SplineItem" -> Push(c, "SplineKnotItem")
      [] action = "SplineKnotTime" -> [c EXCEPT !.knot = [NewKnot EXCEPT !.time = x], !.value = 0, !.preValue = 0]
      [] action = "SplineKnotValue" -> [c EXCEPT !.value = x]
      [] action = "SplineKnotPreValue" -> [c EXCEPT !.preValue = x]
      [] action = "ValueWithoutPreValue" -> [c EXCEPT !.knot.value = c.value]
      [] action = "ValueWithPreValue" -> [c EXCEPT !.knot.preValue = <<c.preValue>>, !.knot.value = c.value]
      [] action = "SplineKnotValues" -> Push(c, "SplineKnotParam")
      [] action = "SplineTangentWidth" -> [c EXCEPT !.tangent.width = x]
      [] action = "SplineTangentSlope" -> [c EXCEPT !.tangent.slope = x]
      [] action = "KeywordAlgorithm" -> IF Ctx(c) = "SplineTangent" THEN [c EXCEPT !.tangent.algorithm = x] ELSE c
      [] action = "WidthSlopeAlgorithm" -> SetSplineTangent(c, c.tangent)
      [] action = "WidthSlope" -> SetSplineTangent(c, [c.tangent EXCEPT !.algorithm = "none"])
      [] action = "SlopeAlgorithm" -> SetSplineTangent(c, [c.tangent EXCEPT !.width = 0])
      [] action = "SlopeOnly" -> SetSplineTangent(c, [c.tangent EXCEPT !.width = 0, !.algorithm = "none"])
      [] action = "SplineTangent" -> Pop(c)
      [] action = "SplineInterpMode" -> Push([Pop(c) EXCEPT !.tangent = NoTangent], "SplineTangent")
      [] action = "SplinePostShaping" -> IF Ctx(c) = "SplineTangent" THEN Pop(c) ELSE c
      [] action = "DictionaryValue" -> [c EXCEPT !.dictionary = x]
      \* Whatever the parameter was, the custom data is set: it has to come last.
      [] action = "SplineKnotParam" -> [c EXCEPT !.knot.data = c.dictionary, !.dictionary = <<>>]
      [] action = "SplineKnotItem" -> DoSplineKnotItem(c)
      [] action = "SplineValue" -> Pop(Pop([c EXCEPT !.spline.knots = c.knots]))

RECURSIVE Match(_, _, _)
\* m is where the text goes on (i), whether the rule matched (ok) and the context (c).
Match(rule, text, m) ==
    LET kind == rule[1]
        part == rule[2]
        here == m.i <= Len(text)
        Fail(n) == [i |-> m.i, ok |-> FALSE, c |-> n.c]
        Taken == [m EXCEPT !.i = @ + 1, !.ok = TRUE]
    IN  CASE kind = "word" -> IF here /\ text[m.i] = rule THEN Taken ELSE Fail(m)
          [] kind \in {"number", "dict"} -> IF here /\ text[m.i][1] = kind THEN Taken ELSE Fail(m)
          [] kind = "notAt" -> IF here /\ text[m.i] = part THEN Fail(m) ELSE [m EXCEPT !.ok = TRUE]
          [] kind = "seq" -> IF part = <<>> THEN [m EXCEPT !.ok = TRUE]
                             ELSE LET n == Match(Head(part), text, m)
                                      rest == Match(All(Tail(part)), text, n)
                                  IN  IF ~n.ok THEN Fail(n) ELSE IF rest.ok THEN rest ELSE Fail(rest)
          [] kind = "or" -> IF part = <<>> THEN Fail(m)
                            ELSE LET n == Match(Head(part), text, m)
                                 IN  IF n.ok THEN n ELSE Match(Or(Tail(part)), text, n)
          [] kind = "star" -> LET n == Match(part, text, m)
                              IN  IF n.ok THEN Match(rule, text, n) ELSE [n EXCEPT !.ok = TRUE]
          [] kind = "act" -> LET n == Match(part[2], text, m)
                             IN  IF n.ok THEN [n EXCEPT !.c = Apply(part[1], n.c, text[m.i][2])] ELSE n

-----------------------------------------------------------------------------
\* What of a spline is written: a tangent that faces no curve is not, nor the widths of a Hermite curve.
Tangent(s, tan, kept) ==
    CASE ~kept -> NoTangent
      [] kept /\ s.curve = "hermite" -> [tan EXCEPT !.width = 0]
      [] OTHER -> tan
Significant(s) ==
    [s EXCEPT !.knots = [i \in DOMAIN s.knots |->
        [s.knots[i] EXCEPT !.preTan = Tangent(s, @, i = 1 \/ s.knots[i - 1].interp = "curve"),
                           !.postTan = Tangent(s, @, s.knots[i].interp = "curve")]]]

\* A spline that is written is read back, and the parser ends where it began.
SplineReadsBack(s) ==
    LET text == WriteSpline(s)
        m == Match(SplineValue, text, [i |-> 1, ok |-> TRUE, c |-> Start])
    IN  m.ok /\ m.i = Len(text) + 1 /\ m.c.ctx = <<>> /\ m.c.spline = Significant(s)
=============================================================================
