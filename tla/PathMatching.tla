---------------------------- MODULE PathMatching ----------------------------
(***************************************************************************)
(* The evaluator of path expressions (pathExpressionEval.h,                *)
(* pathExpressionEval.cpp) and of the predicates in them                   *)
(* (predicateProgram.h): whether a path matches, alone or one after the    *)
(* other in a depth-first search that remembers how far each pattern has   *)
(* matched.  A result says also whether it holds for every descendant.     *)
(***************************************************************************)
EXTENDS PathExpressions

Result(value, constant) == [value |-> value, constant |-> constant]
Varying(value) == Result(value, FALSE)
Constant(value) == Result(value, TRUE)

-----------------------------------------------------------------------------
\* Programs: the operations between atoms, those of two operands infix with brackets round
\* the right one.
OpsOf(call) ==
    CASE call.op = "atom" -> <<"Run">>
      [] call.op \in Unary -> IF call.arg = 1 THEN <<"Not">> ELSE <<>>
      [] call.arg = 1 -> <<IF call.op \in {"+", " ", "or"} THEN "Or" ELSE "And", "Open">>
      [] call.arg = 2 -> (IF call.op = "-" THEN <<"Not">> ELSE <<>>) \o <<"Close">>
      [] OTHER -> <<>>
ProgramOf(calls) == FlattenSeq([i \in DOMAIN calls |-> OpsOf(calls[i])])

\* One operation: 'until' is the nesting at which the operand being skipped ends, 'at' the
\* atoms passed, 'ran' those of them that were not skipped.
Nowhere == -1
EvalOp(m, op, results) ==
    CASE op = "Open" -> [m EXCEPT !.nest = @ + 1]
      [] op = "Close" ->
            [m EXCEPT !.nest = @ - 1, !.until = IF @ = m.nest - 1 THEN Nowhere ELSE @]
      [] op = "Run" /\ m.until # Nowhere -> [m EXCEPT !.at = @ + 1]
      [] op = "Run" ->
            [m EXCEPT !.at = @ + 1, !.ran = @ \cup {m.at + 1},
                      !.result = Result(results[m.at + 1].value,
                                        @.constant /\ results[m.at + 1].constant)]
      [] m.until # Nowhere -> m
      [] op = "Not" -> [m EXCEPT !.result.value = ~@]
      [] OTHER -> IF m.result.value = (op = "Or") THEN [m EXCEPT !.until = m.nest] ELSE m
EvalExpr(ops, results) ==
    FoldLeft(LAMBDA m, op : EvalOp(m, op, results),
             [result |-> Constant(FALSE), nest |-> 0, until |-> Nowhere, at |-> 0, ran |-> {}], ops)

\* The library the predicates are bound with: some functions of a path.
LastName(path) == IF path.prop # <<>> THEN Last(path.prop)[2] ELSE Last(path.prim)[2]
CallResult(call, path) ==
    CASE call.name = "prim" -> Varying(path.prop = <<>>)
      [] call.name = "one" -> Varying(LastName(path) = 1)
      [] call.name = "below" ->
            LET found == \E i \in DOMAIN path.prim : path.prim[i][2] = 2
            IN  Result(found, found)
      [] call.name = "clear" ->
            LET free == \A i \in DOMAIN path.prim : path.prim[i][2] # 1
            IN  Result(free, ~free)
RunPredicate(e, path) ==
    EvalExpr(ProgramOf(Walk(e)), [i \in DOMAIN e.atoms |-> CallResult(e.atoms[i][2], path)]).result

-----------------------------------------------------------------------------
\* What the evaluator makes of a pattern: segments, between stretches.
IsBarePredicate(c) == c.text = NoText /\ c.predicate # Nothing

NextComponent(segments, c) ==
    IF c = Stretch THEN Append(segments, <<>>)
    ELSE Append(Front(segments), Append(Last(segments), c))
SegmentsOf(components) ==
    SelectSeq(FoldLeft(NextComponent, <<<<>>>>, components), LAMBDA segment : segment # <<>>)
MatchObjType(p) ==
    CASE p.isProperty -> "property"
      [] p.components # <<>> /\ Last(p.components).text = NoText -> "any"
      [] OTHER -> "prim"
PatternImpl(p) ==
    [prefix |-> p.prefix, segments |-> SegmentsOf(p.components),
     stretchBegin |-> p.components # <<>> /\ Head(p.components) = Stretch,
     stretchEnd |-> p.components # <<>> /\ Last(p.components) = Stretch,
     kind |-> MatchObjType(p)]

SegmentMinMatchElts(segment) ==
    Len(segment) - IF IsBarePredicate(Head(segment)) THEN 1 ELSE 0

\* The last n prefixes of a path, or all.
LastPrefixes(path, n) ==
    LET prefixes == GetPrefixes(path)
    IN  SubSeq(prefixes, IF n < Len(prefixes) THEN Len(prefixes) - n + 1 ELSE 1, Len(prefixes))

NameFits(c, path) ==
    CASE c.text = NoText -> TRUE
      [] IsLiteral(c.text) -> c.text[2] = LastName(path)
      [] OTHER -> LastName(path) \in c.text[2]
ComponentResult(c, path) ==
    CASE ~NameFits(c, path) -> Varying(FALSE)
      [] c.predicate # Nothing -> RunPredicate(c.predicate, path)
      [] OTHER -> Varying(TRUE)

\* The result of the first component that does not match.
FirstFailing(results) ==
    LET fails == SelectInSeq(results, LAMBDA result : ~result.value)
    IN  IF fails = 0 THEN Varying(TRUE) ELSE results[fails]
CheckExactMatch(segment, prefixes, at) ==
    IF Len(segment) > Len(prefixes) - at + 1 THEN Varying(FALSE)
    ELSE FirstFailing([i \in DOMAIN segment |-> ComponentResult(segment[i], prefixes[at + i - 1])])

\* The result, and where to go on after it.
Checked(result, at, segment) ==
    [result |-> result, at |-> IF result.value THEN at + Len(segment) ELSE at]
OneEarlier(segment, prefixes, at, earlier) ==
    IF earlier.value THEN Checked(earlier, at - 1, segment)
    ELSE Checked(CheckExactMatch(segment, prefixes, at), at, segment)
CheckMatch(segment, prefixes, at) ==
    OneEarlier(segment, prefixes, at,
               IF at > 1 /\ IsBarePredicate(Head(segment))
               THEN CheckExactMatch(segment, prefixes, at - 1) ELSE Varying(FALSE))

-----------------------------------------------------------------------------
\* Whether a path matches a pattern.
RECURSIVE SearchMatch(_, _, _), MatchSegments(_, _, _, _)
FoundOr(checked, segment, prefixes, at) ==
    IF checked.result.value \/ at + 1 + Len(segment) > Len(prefixes) + 1 THEN checked
    ELSE SearchMatch(segment, prefixes, at + 1)
SearchMatch(segment, prefixes, at) ==
    IF Len(segment) > Len(prefixes) - at + 1 THEN Checked(Varying(FALSE), at, segment)
    ELSE FoundOr(CheckMatch(segment, prefixes, at), segment, prefixes, at)

CheckAtEnd(segment, prefixes, at) ==
    IF Len(prefixes) - at + 1 < SegmentMinMatchElts(segment) THEN Checked(Varying(FALSE), at, segment)
    ELSE LET last == Len(prefixes) - Len(segment) + 1
         IN  Checked(CheckExactMatch(segment, prefixes, last), last, segment)
CheckAtStart(impl, prefixes, checked) ==
    IF /\ checked.result.value
       /\ ~impl.stretchEnd
       /\ Len(impl.segments) = 1
       /\ checked.at # Len(prefixes) + 1
    THEN [checked EXCEPT !.result = Varying(FALSE)] ELSE checked
CheckSegment(impl, prefixes, i, at) ==
    CASE i = 1 /\ ~impl.stretchBegin ->
            CheckAtStart(impl, prefixes, CheckMatch(impl.segments[i], prefixes, at))
      [] i = Len(impl.segments) /\ ~impl.stretchEnd -> CheckAtEnd(impl.segments[i], prefixes, at)
      [] OTHER -> SearchMatch(impl.segments[i], prefixes, at)
AfterSegment(impl, prefixes, i, checked) ==
    IF ~checked.result.value THEN checked.result ELSE MatchSegments(impl, prefixes, i + 1, checked.at)
MatchSegments(impl, prefixes, i, at) ==
    IF i > Len(impl.segments) THEN Result(TRUE, impl.stretchEnd)
    ELSE AfterSegment(impl, prefixes, i, CheckSegment(impl, prefixes, i, at))

MatchPrefixes(impl, path) ==
    LET extra == IF /\ impl.stretchBegin
                    /\ IsBarePredicate(Head(impl.segments[1]))
                    /\ ElementCount(impl.prefix) # 0
                 THEN 1 ELSE 0
    IN  LastPrefixes(path, ElementCount(path) - ElementCount(impl.prefix) + extra)
PatternMatch(impl, path) ==
    CASE ~HasPrefix(path, impl.prefix) -> Result(FALSE, ~HasPrefix(impl.prefix, path))
      [] impl.kind = "property" /\ ~IsPrimPropertyPath(path) -> Varying(FALSE)
      [] impl.kind = "prim" /\ IsPrimPropertyPath(path) -> Constant(FALSE)
      [] impl.segments = <<>> ->
            CASE impl.stretchBegin -> Constant(TRUE)
              [] path = impl.prefix -> Varying(TRUE)
              [] OTHER -> Constant(FALSE)
      [] MatchPrefixes(impl, path) = <<>> -> Varying(FALSE)
      [] OTHER -> MatchSegments(impl, MatchPrefixes(impl, path), 1, 1)

-----------------------------------------------------------------------------
\* The next step of a search: the depths at which segments matched on the way, and the depth
\* from which the result no longer changes.
NewSearch == [depths |-> <<>>, constantDepth |-> Nowhere, constantValue |-> FALSE]
\* Mutant: what matched at the depth of the next path is kept.
PopBelow(search, newDepth) ==
    [search EXCEPT !.depths = SelectSeq(@, LAMBDA depth : depth <= newDepth),
                   !.constantDepth = IF newDepth <= @ THEN Nowhere ELSE @]
Pop(search, newDepth) ==
    [search EXCEPT !.depths = SelectSeq(@, LAMBDA depth : depth < newDepth),
                   !.constantDepth = IF newDepth <= @ THEN Nowhere ELSE @]

Found(result, search) == [result |-> result, search |-> search]
ConstantFrom(search, depth, value) ==
    Found(Constant(value), [search EXCEPT !.constantDepth = depth, !.constantValue = value])

RECURSIVE NextSegment(_, _, _)
AllMatched(impl, search, path) ==
    CASE impl.stretchEnd -> ConstantFrom(search, Last(search.depths), TRUE)
      [] Last(search.depths) = ElementCount(path) -> Found(Varying(TRUE), search)
      [] OTHER -> ConstantFrom(search, Last(search.depths), FALSE)
AfterCheck(impl, search, path, checked, atEnd) ==
    LET deeper == [search EXCEPT !.depths =
                       Append(@, IF checked.at = atEnd THEN ElementCount(path) ELSE ElementCount(path) - 1)]
    IN  CASE ~checked.result.value -> Found(Varying(FALSE), search)
          [] Len(deeper.depths) = Len(impl.segments) -> AllMatched(impl, deeper, path)
          [] OTHER -> NextSegment(impl, deeper, path)
CheckHere(impl, search, path, segment, prefixes) ==
    LET at == Len(prefixes) - Len(segment) + 1
    IN  IF prefixes = <<>> THEN Found(Varying(FALSE), search)
        ELSE AfterCheck(impl, search, path,
                        IF Len(search.depths) = Len(impl.segments) - 1
                        THEN Checked(CheckExactMatch(segment, prefixes, at), at, segment)
                        ELSE CheckMatch(segment, prefixes, at), Len(prefixes) + 1)
NextSegment(impl, search, path) ==
    LET current == Len(search.depths) + 1
        segment == impl.segments[current]
        hasStretch == current > 1 \/ impl.stretchBegin
        n == ElementCount(path)
             - IF current > 1 THEN Last(search.depths) ELSE ElementCount(impl.prefix)
        extra == IF hasStretch /\ IsBarePredicate(Head(segment)) /\ ElementCount(path) # 0
                 THEN 1 ELSE 0
    IN  CASE n < SegmentMinMatchElts(segment) -> Found(Varying(FALSE), search)
          [] ~hasStretch /\ n > Len(segment) -> ConstantFrom(search, ElementCount(path), FALSE)
          [] OTHER -> CheckHere(impl, search, path, segment, LastPrefixes(path, n + extra))

\* When all segments have matched the last is matched again.
ForRematch(impl, search) ==
    IF Len(search.depths) = Len(impl.segments) THEN [search EXCEPT !.depths = Front(@)] ELSE search
PatternNext(impl, search, path) ==
    LET prefixCount == ElementCount(impl.prefix)
    IN  CASE search.constantDepth # Nowhere -> Found(Constant(search.constantValue), search)
          [] search.depths = <<>> /\ ~HasPrefix(path, impl.prefix) ->
                IF HasPrefix(impl.prefix, path) THEN Found(Varying(FALSE), search)
                ELSE ConstantFrom(search, prefixCount, FALSE)
          [] impl.kind = "property" /\ ~IsPrimPropertyPath(path) -> Found(Varying(FALSE), search)
          [] impl.kind = "prim" /\ IsPrimPropertyPath(path) -> Found(Constant(FALSE), search)
          [] impl.segments = <<>> ->
                CASE impl.stretchBegin -> ConstantFrom(search, prefixCount, TRUE)
                  [] ElementCount(path) > prefixCount -> ConstantFrom(search, prefixCount, FALSE)
                  [] OTHER -> Found(Varying(TRUE), search)
          [] OTHER -> NextSegment(impl, ForRematch(impl, search), path)

-----------------------------------------------------------------------------
\* The evaluator of an expression, and a search with it.
Eval(e) ==
    [ops |-> ProgramOf(Walk(e)), impls |-> [i \in DOMAIN e.atoms |-> PatternImpl(e.atoms[i][2])]]
NoEval == [ops |-> <<>>, impls |-> <<>>]
MakePathExpressionEval(e) == IF IsComplete(e) THEN Eval(e) ELSE NoEval

Match(eval, path) ==
    IF eval.impls = <<>> THEN Constant(FALSE)
    ELSE EvalExpr(eval.ops, [i \in DOMAIN eval.impls |-> PatternMatch(eval.impls[i], path)]).result

NewSearcher(eval) == [states |-> [i \in DOMAIN eval.impls |-> NewSearch], lastPathDepth |-> 0]
Advanced(searcher, popped, found, m, depth) ==
    [searcher |-> [states |-> [i \in DOMAIN popped |->
                                   IF i \in m.ran THEN found[i].search ELSE popped[i]],
                   lastPathDepth |-> depth],
     result |-> m.result]
Stepped(eval, searcher, popped, found, depth) ==
    Advanced(searcher, popped, found,
             EvalExpr(eval.ops, [i \in DOMAIN found |-> found[i].result]), depth)
FoundBy(eval, popped, path) ==
    [i \in DOMAIN popped |-> PatternNext(eval.impls[i], popped[i], path)]
PoppedStates(searcher, depth) ==
    IF depth <= searcher.lastPathDepth
    THEN [i \in DOMAIN searcher.states |-> Pop(searcher.states[i], depth)] ELSE searcher.states
StepFrom(eval, searcher, popped, path) ==
    Stepped(eval, searcher, popped, FoundBy(eval, popped, path), ElementCount(path))
SearcherNext(eval, searcher, path) ==
    StepFrom(eval, searcher, PoppedStates(searcher, ElementCount(path)), path)

-----------------------------------------------------------------------------
\* What a pattern means: its segments lie in the path in order, the first at the start and
\* the last at the end unless a stretch comes before or after it; a segment that begins with
\* a bare predicate may lie on the last element of what comes before it.
RECURSIVE Placed(_, _, _, _)
Placed(impl, prefixes, i, end) ==
    LET segment == impl.segments[i]
        later == IF i = 1 /\ ~impl.stretchBegin THEN {end + 1} ELSE end + 1 .. Len(prefixes)
        starts == later \cup (IF IsBarePredicate(Head(segment)) /\ (i > 1 \/ impl.stretchBegin)
                              THEN {end} \ {0} ELSE {})
    IN  IF i > Len(impl.segments) THEN impl.stretchEnd \/ end = Len(prefixes)
        ELSE \E at \in starts :
                /\ CheckExactMatch(segment, prefixes, at).value
                /\ Placed(impl, prefixes, i + 1, at + Len(segment) - 1)
Means(impl, path) ==
    /\ HasPrefix(path, impl.prefix)
    /\ impl.kind = "property" => IsPrimPropertyPath(path)
    /\ impl.kind = "prim" => ~IsPrimPropertyPath(path)
    /\ Placed(impl, GetPrefixes(path), 1, ElementCount(impl.prefix))

\* Patterns of which the code matches what they mean: see the README.
Regular(impl) ==
    \A i \in DOMAIN impl.segments :
        IsBarePredicate(Head(impl.segments[i])) =>
            IF i = 1 THEN Len(impl.segments[i]) = 1 ELSE i = Len(impl.segments) /\ ~impl.stretchEnd
Searchable(impl) == Regular(impl) /\ (impl.kind = "property" => Len(impl.segments) < 2)
\* A search with it goes on rightly when it was left out for some paths.
Skippable(impl) == Searchable(impl) /\ Len(impl.segments) < 2 /\ (impl.stretchEnd => impl.segments = <<>>)

\* A path matches what the pattern means, and a constant result is that of every descendant.
PatternRight(impl, paths) ==
    LET results == [path \in paths |-> PatternMatch(impl, path)]
    IN  Regular(impl) =>
            \A path \in paths :
                /\ results[path].value = Means(impl, path)
                /\ results[path].constant =>
                        \A below \in paths :
                            HasPrefix(below, path) => results[below].value = results[path].value

\* A search finds on each path of its order what matching it alone does.
RECURSIVE Agrees(_, _, _)
AgreesFrom(eval, step, order) ==
    /\ step.result.value = Match(eval, Head(order)).value
    /\ step.result.constant =>
            \A i \in DOMAIN order :
                HasPrefix(order[i], Head(order)) => Match(eval, order[i]).value = step.result.value
    /\ Agrees(eval, step.searcher, Tail(order))
Agrees(eval, searcher, order) ==
    order = <<>> \/ AgreesFrom(eval, SearcherNext(eval, searcher, Head(order)), order)
SearchFinds(eval, order) == Agrees(eval, NewSearcher(eval), order)
SearchRight(eval, order) ==
    (\A i \in DOMAIN eval.impls : IF i = 1 THEN Searchable(eval.impls[i]) ELSE Skippable(eval.impls[i]))
        => SearchFinds(eval, order)

\* Expressions from trees of operations, and what they mean.
RECURSIVE Built(_), HoldsOn(_, _), Substituted(_, _)
Built(tree) ==
    CASE tree[1] \in {"pattern", "ref", "call"} -> MakeAtom(tree[1], tree[2])
      [] tree[1] \in Unary -> MakeUnary(tree[1], Built(tree[2]))
      [] OTHER -> MakeOp(tree[1], Built(tree[2]), Built(tree[3]))
HoldsOn(tree, path) ==
    CASE tree[1] = "pattern" -> Means(PatternImpl(tree[2]), path)
      [] tree[1] = "~" -> ~HoldsOn(tree[2], path)
      [] tree[1] \in {" ", "+"} -> HoldsOn(tree[2], path) \/ HoldsOn(tree[3], path)
      [] tree[1] = "&" -> HoldsOn(tree[2], path) /\ HoldsOn(tree[3], path)
      [] tree[1] = "-" -> HoldsOn(tree[2], path) /\ ~HoldsOn(tree[3], path)
ExpressionRight(tree, eval, order) ==
    /\ \A i \in DOMAIN order : Match(eval, order[i]).value = HoldsOn(tree, order[i])
    /\ SearchRight(eval, order)

\* References are replaced by what they stand for, in the tree or in what was built of it.
Substituted(tree, resolve) ==
    CASE tree[1] = "ref" -> resolve[tree[2]]
      [] tree[1] \in {"pattern", "call"} -> MakeAtom(tree[1], tree[2])
      [] tree[1] \in Unary -> MakeUnary(tree[1], Substituted(tree[2], resolve))
      [] OTHER -> MakeOp(tree[1], Substituted(tree[2], resolve), Substituted(tree[3], resolve))
ResolvesRight(tree, resolve) ==
    ResolveReferences(Built(tree), resolve) = Substituted(tree, resolve)

\* A pattern of names moves with its prefix, and comes back from a prefix relative to an anchor.
MatchesAs(moved, impl, path, movedPath) ==
    PatternMatch(moved, movedPath).value = PatternMatch(impl, path).value
MovesRight(p, paths, old, new) ==
    (HasPrefix(p.prefix, old) /\ \A i \in DOMAIN p.components : p.components[i].predicate = Nothing) =>
        \A path \in {q \in paths : HasPrefix(q, old)} :
            MatchesAs(PatternImpl(ExpressionReplacePrefix(MakeAtom("pattern", p), old, new).atoms[1][2]),
                      PatternImpl(p), path, ReplacePrefix(path, old, new, TRUE))
AnchoredRight(p, anchor) ==
    LET e == MakeAtom("pattern", p)
        relative == MovedAtom(e.atoms[1], LAMBDA path : MakeRelativePath(path, anchor))
    IN  MakeAbsolute([e EXCEPT !.atoms = <<relative>>], anchor) = e

\* Text: an expression is read back as it was but for the kinds of some values.
ReadValue(value) ==
    CASE value[1] = "bool" -> <<"int", IF value[2] THEN 1 ELSE 0>>
      [] value[1] = "halves" /\ value[2] % 2 = 0 -> <<"int", value[2] \div 2>>
      [] OTHER -> value
ReadCall(call) ==
    [call EXCEPT !.args = [i \in DOMAIN @ |-> <<@[i][1], ReadValue(@[i][2])>>]]
ReadPredicate(e) == [e EXCEPT !.atoms = [i \in DOMAIN @ |-> <<"call", ReadCall(@[i][2])>>]]
ReadAtom(atom) ==
    IF atom[1] = "pattern"
    THEN <<"pattern", [atom[2] EXCEPT !.components =
               [i \in DOMAIN @ |-> [@[i] EXCEPT !.predicate = ReadPredicate(@)]]]>>
    ELSE atom
\* A property has an element to follow, a reference a path that begins one: see the README.
OwnerPath(p) == IF p.prefix.prop = <<>> THEN p.prefix ELSE GetParentPath(p.prefix)
Readable(atom) ==
    IF atom[1] = "pattern"
    THEN atom[2].isProperty /\ Len(atom[2].components) < 2 =>
            OwnerPath(atom[2]).prim # <<>> /\ Last(OwnerPath(atom[2]).prim)[2] # DotDot
    ELSE \/ atom[2].path = Empty
         \/ atom[2].path.prim # <<>> /\ (atom[2].path.root = "/" \/ atom[2].path.prim[1][2] = DotDot)
AllReadable(e) == \A i \in DOMAIN e.atoms : Readable(e.atoms[i])
ReadPathExpression(e) == [e EXCEPT !.atoms = [i \in DOMAIN @ |-> ReadAtom(@[i])]]

\* A bare call takes the brackets after it as its own: see the README.
TakesBrackets(t) ==
    \E i \in 1 .. Len(t) - 2 :
        AtKind(SubSeq(t, i, i), {"call"}) /\ SubSeq(t, i + 1, i + 2) = Token("blank") \o Token("(")
ReadsAs(kind, text, e) ==
    (kind = "predicate" => ~TakesBrackets(text)) => Parse(kind, text) = Got(e, <<>>)

=============================================================================
