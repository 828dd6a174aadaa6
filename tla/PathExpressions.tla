-------------------------- MODULE PathExpressions --------------------------
(***************************************************************************)
(* Path patterns (pathPattern.cpp), the expressions of patterns and        *)
(* references (pathExpression.cpp), those of predicates                    *)
(* (predicateExpression.cpp), and the text of all three with its parsers.  *)
(*                                                                         *)
(* An expression is as in the code: its operations in reverse, and its     *)
(* atoms - patterns and references, or calls - in order.  Text is a        *)
(* sequence of tokens <<what, which>>.                                     *)
(***************************************************************************)
EXTENDS PathAlgebra

Expression0(ops, atoms) == [ops |-> ops, atoms |-> atoms]
Nothing == Expression0(<<>>, <<>>)

\* A component: its text is the name of a prim or a property, a glob with the names it
\* matches, or nothing; its predicate is an expression, perhaps the empty one.
NoText == <<"none", 0>>
Component(text, predicate) == [text |-> text, predicate |-> predicate]
Stretch == Component(NoText, Nothing)
Named(n) == <<"name", n>>
AnyName == <<"glob", 1 .. 9>>
IsLiteral(text) == text[1] = "name"

PatternOf(prefix, components, isProperty) ==
    [prefix |-> prefix, components |-> components, isProperty |-> isProperty]
NoPattern == PatternOf(Empty, <<>>, FALSE)
Everything == PatternOf(AbsoluteRoot, <<Stretch>>, FALSE)
EveryDescendant == PatternOf(ReflexiveRelative, <<Stretch>>, FALSE)

HasTrailingStretch(p) ==
    ~p.isProperty /\ p.components # <<>> /\ Last(p.components) = Stretch

-----------------------------------------------------------------------------
\* Building patterns; what cannot be appended is left out with a warning.
Begin(p) == IF p.prefix = Empty THEN [p EXCEPT !.prefix = ReflexiveRelative] ELSE p
Push(p, text, predicate) == [p EXCEPT !.components = Append(@, Component(text, predicate))]
InPrefix(p, text, predicate) == IsLiteral(text) /\ predicate = Nothing /\ p.components = <<>>

AppendElement(p, text, predicate) ==
    CASE p.isProperty \/ (Component(text, predicate) = Stretch /\ HasTrailingStretch(p)) -> p
      [] InPrefix(p, text, predicate) -> [Begin(p) EXCEPT !.prefix = AppendChild(@, text[2])]
      [] OTHER -> Push(Begin(p), text, predicate)

AppendStretchIfPossible(p) == AppendElement(p, NoText, Nothing)

AppendPropertyElement(p, text, predicate) ==
    LET owner == IF HasTrailingStretch(p) THEN AppendElement(p, AnyName, Nothing) ELSE Begin(p)
        put == IF InPrefix(p, text, predicate)
               THEN [Begin(p) EXCEPT !.prefix = AppendProperty(@, text[2])]
               ELSE Push(owner, text, predicate)
    IN  IF p.isProperty \/ Component(text, predicate) = Stretch THEN p
        ELSE [put EXCEPT !.isProperty = TRUE]

IsPrimPropertyPath(path) == Len(path.prop) = 1 /\ NodeType(path.prop) = PrimProperty
IsAbsoluteRootOrPrimPath(path) == path = AbsoluteRoot \/ IsPrimPath(path)
SetPrefix(p, path) ==
    CASE p.components # <<>> ->
            IF IsAbsoluteRootOrPrimPath(path) THEN [p EXCEPT !.prefix = path] ELSE p
      [] IsAbsoluteRootOrPrimPath(path) \/ IsPrimPropertyPath(path) ->
            PatternOf(path, <<>>, IsPrimPropertyPath(path))
      [] OTHER -> p

RemoveTrailingComponent(p) ==
    IF p.components = <<>> THEN p
    ELSE [p EXCEPT !.isProperty = FALSE, !.components = Front(@)]
RemoveTrailingStretch(p) == IF HasTrailingStretch(p) THEN RemoveTrailingComponent(p) ELSE p

-----------------------------------------------------------------------------
\* Building expressions.  Lower ranks bind tighter.
Rank == [op \in {"~", "not"} |-> 0] @@ [op \in {" ", "implied"} |-> 1] @@ [op \in {"+", "and"} |-> 2]
        @@ [op \in {"&", "or"} |-> 3] @@ ("-" :> 4)
Unary == {"~", "not"}

MakeAtom(kind, what) == Expression0(<<"atom">>, <<<<kind, what>>>>)
All == MakeAtom("pattern", Everything)

MakeComplement(right) ==
    CASE right = All -> Nothing
      [] right = Nothing -> All
      [] Last(right.ops) = "~" -> [right EXCEPT !.ops = Front(@)]
      [] OTHER -> [right EXCEPT !.ops = Append(@, "~")]
MakeNot(right) == [right EXCEPT !.ops = Append(@, "not")]
MakeUnary(op, right) == IF op = "~" THEN MakeComplement(right) ELSE MakeNot(right)

\* Operations are kept in reverse: the right ones, the left ones, the operation.
Join(op, left, right) ==
    Expression0(Append(right.ops \o left.ops, op), left.atoms \o right.atoms)

Simplified(op, left, right) ==
    CASE left = Nothing -> IF op = "&" THEN Nothing ELSE right
      [] right = Nothing -> IF op = "&" THEN Nothing ELSE left
      [] left = All -> IF op = "&" THEN right ELSE All
      [] right = All -> IF op = "&" THEN left ELSE All
      [] OTHER -> Join(op, left, right)
MakeOp(op, left, right) ==
    CASE op \in {"implied", "and", "or"} -> Join(op, left, right)
      [] op = "-" /\ {left, right} \cap {Nothing, All} # {} ->
            Simplified("&", left, MakeComplement(right))
      [] OTHER -> Simplified(op, left, right)

-----------------------------------------------------------------------------
\* WalkWithOpStack: the calls of 'logic' with an operation, the number of its operands
\* seen and the operation above it, and those of 'ref', 'pattern' or 'call' with an atom.
RECURSIVE Walked(_, _, _, _)
Walked(e, at, atom, stack) ==
    LET op == Last(stack)[1]
        arg == Last(stack)[2]
        counted == Append(Front(stack), <<op, arg + 1>>)
        above == IF Len(stack) = 1 THEN <<"", 0>> ELSE stack[Len(stack) - 1]
    IN  CASE stack = <<>> -> <<>>
          [] op = "atom" ->
                <<[op |-> op, atom |-> e.atoms[atom]]>> \o Walked(e, at, atom + 1, Front(stack))
          [] OTHER ->
                <<[op |-> op, arg |-> arg, above |-> above]>> \o
                (IF arg + 1 = (IF op \in Unary THEN 2 ELSE 3)
                 THEN Walked(e, at, atom, Front(stack))
                 ELSE Walked(e, at + 1, atom, Append(counted, <<e.ops[Len(e.ops) - at], 0>>)))
Walk(e) == IF e = Nothing THEN <<>> ELSE Walked(e, 1, 1, <<<<Last(e.ops), 0>>>>)

\* ResolveReferences, with the expression of each reference.
RECURSIVE Rebuilt(_, _, _)
Rebuilt(calls, resolve, stack) ==
    LET call == Head(calls)
        top == Last(stack)
        below == Front(stack)
        next == CASE call.op = "atom" ->
                        Append(stack, IF call.atom[1] = "ref" THEN resolve[call.atom[2]]
                                      ELSE MakeAtom(call.atom[1], call.atom[2]))
                  [] call.op = "~" /\ call.arg = 1 -> Append(below, MakeComplement(top))
                  [] call.op # "~" /\ call.arg = 2 ->
                        Append(Front(below), MakeOp(call.op, Last(below), top))
                  [] OTHER -> stack
    IN  IF calls = <<>> THEN Last(stack) ELSE Rebuilt(Tail(calls), resolve, next)
ResolveReferences(e, resolve) == IF e = Nothing THEN e ELSE Rebuilt(Walk(e), resolve, <<>>)

References(e) == {e.atoms[i][2] : i \in {i \in DOMAIN e.atoms : e.atoms[i][1] = "ref"}}
WeakerRef == [path |-> Empty, name |-> "_"]
ComposeOver(e, weaker) ==
    ResolveReferences(e, [r \in References(e) |->
                              IF r.name = "_" THEN weaker ELSE MakeAtom("ref", r)])

\* ReplacePrefix and MakeAbsolute, by what they do to a path.
MovedAtom(atom, Moved(_)) ==
    IF atom[1] = "ref" THEN <<"ref", [atom[2] EXCEPT !.path = Moved(@)]>>
    ELSE <<"pattern", SetPrefix(atom[2], Moved(atom[2].prefix))>>
ExpressionReplacePrefix(e, old, new) ==
    [e EXCEPT !.atoms = [i \in DOMAIN @ |->
        MovedAtom(@[i], LAMBDA path : ReplacePrefix(path, old, new, TRUE))]]
MakeAbsolute(e, anchor) ==
    [e EXCEPT !.atoms = [i \in DOMAIN @ |->
        MovedAtom(@[i], LAMBDA path : MakeAbsolutePath(path, anchor))]]
IsAbsolute(e) ==
    \A i \in DOMAIN e.atoms :
        IF e.atoms[i][1] = "ref" THEN e.atoms[i][2].path.root # "."
        ELSE IsAbsolutePath(e.atoms[i][2].prefix)
IsComplete(e) == References(e) = {} /\ IsAbsolute(e)

-----------------------------------------------------------------------------
\* Text.  A call has a name, the kind of its brackets, and arguments with a keyword or
\* without; its values are written as they stream.
Token(what) == <<<<what, 0>>>>

RECURSIVE Between(_, _)
Between(texts, separator) ==
    IF Len(texts) < 2 THEN FlattenSeq(texts)
    ELSE Head(texts) \o separator \o Between(Tail(texts), separator)

ValueText(value) ==
    CASE value[1] = "bool" -> <<<<"digits", IF value[2] THEN 1 ELSE 0>>>>
      [] value[1] = "int" \/ (value[1] = "halves" /\ value[2] % 2 = 0) ->
            <<<<"digits", IF value[1] = "int" THEN value[2] ELSE value[2] \div 2>>>>
      [] value[1] = "halves" -> <<<<"decimal", value[2]>>>>
      [] OTHER -> <<<<"quoted", value[2]>>>>
ArgText(arg) ==
    (IF arg[1] = "" THEN <<>> ELSE <<<<"keyword", arg[1]>>>>) \o ValueText(arg[2])
CallText(call) ==
    LET args == [i \in DOMAIN call.args |-> ArgText(call.args[i])]
    IN  <<<<"call", call.name>>>> \o
        CASE call.kind = "bare" -> <<>>
          [] call.kind = "colon" ->
                IF args = <<>> THEN <<>> ELSE Token(":") \o Between(args, Token(","))
          [] OTHER -> Token("(") \o Between(args, Token(",")) \o Token(")")

RECURSIVE GetText(_)

ElementsText(prim) ==
    Between([i \in DOMAIN prim |-> IF prim[i][2] = DotDot THEN Token("..")
                                   ELSE <<Named(prim[i][2])>>], Token("/"))
PathText(path) ==
    LET prim == ElementsText(path.prim)
        prop == FlattenSeq([i \in DOMAIN path.prop |-> Token(".") \o <<Named(path.prop[i][2])>>])
        between == IF prop # <<>> /\ prim # <<>> /\ Last(prim) = Token("..")[1]
                   THEN Token("/") ELSE <<>>
    IN  CASE path = Empty -> <<>>
          [] path = ReflexiveRelative -> Token(".")
          [] OTHER -> (IF IsAbsolutePath(path) THEN Token("/") ELSE <<>>) \o prim \o between \o prop

ComponentText(component) ==
    (IF component.text = NoText THEN <<>> ELSE <<component.text>>) \o
    (IF component.predicate = Nothing THEN <<>>
     ELSE Token("{") \o GetText(component.predicate) \o Token("}"))

PrefixText(p) ==
    CASE p.prefix # ReflexiveRelative -> PathText(p.prefix)
      [] p.components = <<>> \/ Head(p.components) = Stretch -> Token(".")
      [] OTHER -> <<>>

\* What comes before a component, with the text so far.
Separator(p, i, text) ==
    CASE p.components[i] = Stretch ->
            IF i = 1 /\ p.prefix = AbsoluteRoot THEN Token("/") ELSE Token("/") \o Token("/")
      [] i = Len(p.components) /\ p.isProperty -> Token(".")
      [] text # <<>> /\ Last(text) # Token("/")[1] -> Token("/")
      [] OTHER -> <<>>
PatternText(p) ==
    FoldLeftDomain(LAMBDA text, i : text \o Separator(p, i, text) \o ComponentText(p.components[i]),
                   PrefixText(p), p.components)

AtomText(atom) ==
    CASE atom[1] = "call" -> CallText(atom[2])
      [] atom[1] = "pattern" -> PatternText(atom[2])
      [] atom[2].name = "_" -> Token("%") \o PathText(atom[2].path) \o Token("_")
      [] OTHER -> Token("%") \o PathText(atom[2].path) \o Token(":") \o <<<<"call", atom[2].name>>>>

OpText(op) ==
    CASE op = "~" -> Token("~")
      [] op = "not" -> Token("not") \o Token("blank")
      [] op \in {" ", "implied"} -> Token("blank")
      [] OTHER -> Token("blank") \o Token(op) \o Token("blank")

LogicText(call) ==
    LET inBrackets == /\ call.above[2] > 0
                      /\ \/ Rank[call.above[1]] < Rank[call.op]
                         \/ call.above = <<call.op, 2>>
        last == IF call.op \in Unary THEN 1 ELSE 2
    IN  (IF inBrackets /\ call.arg = 0 THEN Token("(") ELSE <<>>) \o
        (IF call.arg = last - 1 THEN OpText(call.op) ELSE <<>>) \o
        (IF inBrackets /\ call.arg = last THEN Token(")") ELSE <<>>)

TextOf(calls) ==
    FlattenSeq([i \in DOMAIN calls |-> IF calls[i].op = "atom" THEN AtomText(calls[i].atom)
                                       ELSE LogicText(calls[i])])
GetText(e) == TextOf(Walk(e))

-----------------------------------------------------------------------------
(* The parsers of path expressions, patterns and predicate expressions     *)
(* (pathExpression.cpp, pathPatternParser.h, predicateExpressionParser.h). *)
(*                                                                         *)
(* A rule takes the tokens left and gives what it makes of them and what   *)
(* it leaves, fails, in which case another alternative is tried, or, where *)
(* the grammar says 'must', ends the whole parse with an error.            *)

Got(out, rest) == [is |-> "ok", out |-> out, rest |-> rest]
Fail == [is |-> "fail"]
Error == [is |-> "error"]
Must(result) == IF result.is = "fail" THEN Error ELSE result

At(t, what) == t # <<>> /\ Head(t) = Token(what)[1]
AtKind(t, kinds) == t # <<>> /\ Head(t)[1] \in kinds
Blanks(t) ==
    LET first == SelectInSeq(t, LAMBDA token : token # Token("blank")[1])
    IN  IF first = 0 THEN <<>> ELSE SubSeq(t, first, Len(t))

RECURSIVE ParseLogic(_, _), MoreLogic(_, _, _), Unaries(_, _, _), MoreElements(_, _), UpElements(_, _)
RECURSIVE MoreArgs(_, _, _, _), MorePath(_, _)

-----------------------------------------------------------------------------
\* The stack of a group: operations wait until one comes that binds less tightly.
NoStack == [ops |-> <<>>, exprs |-> <<>>]
PushExpr(b, e) == [b EXCEPT !.exprs = Append(@, e)]
Reduce(b) ==
    LET op == Last(b.ops)
        right == Last(b.exprs)
        others == Front(b.exprs)
    IN  [ops |-> Front(b.ops),
         exprs |-> IF op \in Unary THEN Append(others, MakeUnary(op, right))
                   ELSE Append(Front(others), MakeOp(op, Last(others), right))]
HigherPrecedence(left, right) == Rank[left] < Rank[right] \/ (left = right /\ left # "not")
RECURSIVE PushOp(_, _), FinishedStack(_)
PushOp(b, op) ==
    IF b.ops # <<>> /\ HigherPrecedence(Last(b.ops), op) THEN PushOp(Reduce(b), op)
    ELSE [b EXCEPT !.ops = Append(@, op)]
FinishedStack(b) == IF b.ops = <<>> THEN Last(b.exprs) ELSE FinishedStack(Reduce(b))

-----------------------------------------------------------------------------
\* Calls of predicates.
ArgVal(t) ==
    CASE AtKind(t, {"digits"}) -> Got(<<"int", Head(t)[2]>>, Tail(t))
      [] AtKind(t, {"decimal"}) -> Got(<<"halves", Head(t)[2]>>, Tail(t))
      [] AtKind(t, {"quoted"}) -> Got(<<"string", Head(t)[2]>>, Tail(t))
      [] OTHER -> Got(<<"string", "">>, t)
ParenPosArg(t) ==
    IF AtKind(t, {"keyword"}) THEN Fail
    ELSE Got(<<"", ArgVal(t).out>>, ArgVal(t).rest)
KWArg(t) ==
    IF AtKind(t, {"keyword"})
    THEN Got(<<Head(t)[2], ArgVal(Tail(t)).out>>, ArgVal(Tail(t)).rest) ELSE Fail
AnArg(kind, t) == CASE kind = "colon" -> Got(<<"", ArgVal(t).out>>, ArgVal(t).rest)
                    [] kind = "positional" -> ParenPosArg(t)
                    [] kind = "keyword" -> KWArg(t)

\* A list goes on with a comma if an argument of the kind follows it.
MoreArgs(kind, t, args, comma) ==
    LET next == IF ~comma THEN AnArg(kind, t)
                ELSE IF kind = "colon" THEN IF At(t, ",") THEN AnArg(kind, Tail(t)) ELSE Fail
                ELSE IF At(Blanks(t), ",") THEN AnArg(kind, Blanks(Tail(Blanks(t)))) ELSE Fail
    IN  IF next.is = "fail" THEN Got(args, t)
        ELSE MoreArgs(kind, next.rest, Append(args, next.out), TRUE)
KeywordArgs(positional) ==
    MoreArgs("keyword", positional.rest, positional.out, positional.out # <<>>)
ParenArgs(t) == KeywordArgs(MoreArgs("positional", t, <<>>, FALSE))

ACall(name, kind, args) == <<"call", [name |-> name, kind |-> kind, args |-> args]>>
ClosedCall(name, args) ==
    IF At(Blanks(args.rest), ")")
    THEN Got(ACall(name, "paren", args.out), Tail(Blanks(args.rest))) ELSE Error
ColonCall(name, args) == Got(ACall(name, "colon", args.out), args.rest)
ParseCall(t) ==
    LET name == Head(t)[2]
        after == Blanks(Tail(t))
    IN  CASE ~AtKind(t, {"call"}) -> Fail
          [] At(Tail(t), ":") -> ColonCall(name, MoreArgs("colon", Tail(Tail(t)), <<>>, FALSE))
          [] At(after, "(") -> ClosedCall(name, ParenArgs(Blanks(Tail(after))))
          [] OTHER -> Got(ACall(name, "bare", <<>>), Tail(t))

-----------------------------------------------------------------------------
\* References.
MorePath(t, path) ==
    IF At(t, "/") /\ AtKind(Tail(t), {"name"})
    THEN MorePath(Tail(Tail(t)), AppendChild(path, Tail(t)[1][2]))
    ELSE Got(path, t)
RefName(path, t) ==
    IF At(t, ":") /\ AtKind(Tail(t), {"call"})
    THEN Got(<<"ref", [path |-> path, name |-> Tail(t)[1][2]]>>, Tail(Tail(t))) ELSE Fail
RefPathAndName(found) == RefName(found.out, found.rest)

\* ".."s, and what follows the last of them.
UpElements(t, path) ==
    IF At(t, "/") /\ At(Tail(t), "..")
    THEN UpElements(Tail(Tail(t)), AppendChild(path, DotDot)) ELSE Got(path, t)
Ups1(t, path) == UpElements(Tail(t), AppendChild(path, DotDot))
RelativeRef(ups) ==
    IF At(ups.rest, "/") /\ AtKind(Tail(ups.rest), {"name"})
    THEN RefPathAndName(MorePath(ups.rest, ups.out))
    ELSE IF At(ups.rest, "/") THEN Fail ELSE RefName(ups.out, ups.rest)
ParseReference(t) ==
    CASE ~At(t, "%") -> Fail
      [] At(Tail(t), "_") /\ ~AtKind(Tail(Tail(t)), {"name", "call", ":"}) ->
            Got(<<"ref", WeakerRef>>, Tail(Tail(t)))
      [] At(Tail(t), "/") /\ AtKind(Tail(Tail(t)), {"name"}) ->
            RefPathAndName(MorePath(Tail(t), AbsoluteRoot))
      [] At(Tail(t), "..") -> RelativeRef(Ups1(Tail(t), ReflexiveRelative))
      [] OTHER -> RefName(Empty, Tail(t))

-----------------------------------------------------------------------------
\* Patterns.
ClosedPredicate(inner) ==
    CASE inner.is # "ok" -> Error
      [] At(Blanks(inner.rest), "}") -> Got(inner.out, Tail(Blanks(inner.rest)))
      [] OTHER -> Error
BracedPredicate(t) ==
    IF At(t, "{") THEN ClosedPredicate(ParseLogic("predicate", Blanks(Tail(t)))) ELSE Fail

WithPredicate(text, t, braced) ==
    CASE braced.is = "ok" -> Got(Component(text, braced.out), braced.rest)
      [] braced.is = "fail" /\ text # NoText -> Got(Component(text, Nothing), t)
      [] OTHER -> braced
Element(t) ==
    LET text == IF AtKind(t, {"name", "glob"}) THEN Head(t) ELSE NoText
        after == IF text = NoText THEN t ELSE Tail(t)
    IN  WithPredicate(text, after, BracedPredicate(after))

SeparatorLength(t) == IF ~At(t, "/") THEN 0 ELSE IF At(Tail(t), "/") THEN 2 ELSE 1
After(t, n) == SubSeq(t, n + 1, Len(t))
WithStretch(p, n) == IF n = 2 THEN AppendStretchIfPossible(p) ELSE p
WithElement(p, c) == AppendElement(p, c.text, c.predicate)

\* After elements: a separator and an element, a property, or perhaps a stretch.
PropertyElement(p, element) ==
    IF element.is # "ok" THEN Error
    ELSE Got(AppendPropertyElement(p, element.out.text, element.out.predicate), element.rest)
AfterElement(t, p, n, element) ==
    CASE At(t, ".") -> PropertyElement(p, element)
      [] n = 0 -> Got(p, t)
      [] element.is = "ok" -> MoreElements(element.rest, WithElement(WithStretch(p, n), element.out))
      [] element.is = "fail" -> Got(WithStretch(p, n), IF n = 2 THEN After(t, n) ELSE t)
      [] OTHER -> Error
MoreElements(t, p) ==
    LET n == SeparatorLength(t)
    IN  AfterElement(t, p, n, Element(After(t, IF At(t, ".") THEN 1 ELSE n)))
FirstElement(p, element) ==
    IF element.is = "ok" THEN MoreElements(element.rest, WithElement(p, element.out)) ELSE element
Elements(t, p) == FirstElement(p, Element(t))

\* How a pattern begins, and whether elements must, may or cannot follow.
Beginning(p, t, elements) == [p |-> p, rest |-> t, elements |-> elements]
AfterSeparator(p, t) ==
    Beginning(WithStretch(p, SeparatorLength(t)), After(t, SeparatorLength(t)), "may")
AfterUps(ups) ==
    LET p == PatternOf(ups.out, <<>>, FALSE)
    IN  IF At(ups.rest, "/") THEN AfterSeparator(p, ups.rest) ELSE Beginning(p, ups.rest, "cannot")
AfterDot(p, t) == IF SeparatorLength(t) = 2 THEN AfterSeparator(p, t) ELSE Beginning(p, t, "cannot")
BeginningOf(t) ==
    CASE At(t, "/") -> AfterSeparator(SetPrefix(NoPattern, AbsoluteRoot), t)
      [] At(t, "..") -> AfterUps(Ups1(t, ReflexiveRelative))
      [] At(t, ".") -> AfterDot(SetPrefix(NoPattern, ReflexiveRelative), Tail(t))
      [] OTHER -> Beginning(NoPattern, t, "must")
WithElements(b, elements) ==
    IF elements.is = "fail" /\ b.elements # "must" THEN Got(b.p, b.rest) ELSE elements
FromBeginning(b) ==
    WithElements(b, IF b.elements = "cannot" THEN Fail ELSE Elements(b.rest, b.p))
ParsePattern(t) == FromBeginning(BeginningOf(t))

-----------------------------------------------------------------------------
\* Expressions: factors and operations by turns, an operation only if a factor follows it.
Operations(kind) == IF kind = "path" THEN {"+", "&", "-"} ELSE {"and", "or"}
Implied(kind) == IF kind = "path" THEN " " ELSE "implied"
Operator(kind, t) ==
    LET u == Blanks(t)
    IN  CASE u # <<>> /\ Head(u)[1] \in Operations(kind) -> Got(Head(u)[1], Blanks(Tail(u)))
          [] At(t, "blank") -> Got(Implied(kind), u)
          [] OTHER -> Fail

Pushed(b, kind, atom) ==
    IF atom.is # "ok" THEN atom ELSE Got(PushExpr(b, MakeAtom(kind, atom.out)), atom.rest)
PushedAtom(b, atom) ==
    IF atom.is # "ok" THEN atom ELSE Got(PushExpr(b, MakeAtom(atom.out[1], atom.out[2])), atom.rest)
CloseGroup(b, inner) ==
    CASE inner.is # "ok" -> Error
      [] At(Blanks(inner.rest), ")") -> Got(PushExpr(b, inner.out), Tail(Blanks(inner.rest)))
      [] OTHER -> Error
Atom(kind, t, b) ==
    CASE At(t, "(") -> CloseGroup(b, ParseLogic(kind, Blanks(Tail(t))))
      [] kind = "predicate" -> PushedAtom(b, ParseCall(t))
      [] At(t, "%") -> PushedAtom(b, ParseReference(t))
      [] OTHER -> Pushed(b, "pattern", ParsePattern(t))
\* A complement, or any number of nots.
Unaries(kind, t, b) ==
    LET u == Blanks(t)
        op == IF kind = "path" THEN "~" ELSE "not"
    IN  CASE ~At(u, op) -> Got(b, t)
          [] At(Tail(u), "blank") /\ At(Blanks(Tail(u)), "not") /\ kind = "predicate" ->
                Unaries(kind, Blanks(Tail(u)), PushOp(b, op))
          [] OTHER -> Got(PushOp(b, op), Blanks(Tail(u)))
AfterUnaries(kind, unaries) == Atom(kind, unaries.rest, unaries.out)
Factor(kind, t, b) == AfterUnaries(kind, Unaries(kind, t, b))

AfterOperator(kind, t, b, next) ==
    CASE next.is = "ok" -> MoreLogic(kind, next.rest, next.out)
      [] next.is = "fail" -> Got(FinishedStack(b), t)
      [] OTHER -> Error
WithOperator(kind, t, b, op) ==
    IF op.is = "fail" THEN Got(FinishedStack(b), t)
    ELSE AfterOperator(kind, t, b, Factor(kind, op.rest, PushOp(b, op.out)))
MoreLogic(kind, t, b) == WithOperator(kind, t, b, Operator(kind, t))
FirstFactor(kind, first) ==
    IF first.is = "ok" THEN MoreLogic(kind, first.rest, first.out) ELSE first
ParseLogic(kind, t) == FirstFactor(kind, Factor(kind, t, NoStack))

\* The whole text, with blanks round it if it is a path expression.
Whole(result, rest) == IF result.is = "ok" /\ rest = <<>> THEN Got(result.out, <<>>) ELSE Error
ToTheEnd(kind, result) ==
    Whole(result, CASE result.is # "ok" -> <<>>
                    [] kind = "path" -> Blanks(result.rest)
                    [] OTHER -> result.rest)
Parse(kind, t) ==
    IF kind = "path" /\ t = <<>> THEN Got(Nothing, t)
    ELSE ToTheEnd(kind, ParseLogic(kind, IF kind = "path" THEN Blanks(t) ELSE t))

=============================================================================
