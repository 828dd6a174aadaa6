------------------------ MODULE VariableExpressions ------------------------
(***************************************************************************)
(* Expressions over variables whose values can be expressions of variables *)
(* (variableExpression.cpp, variableExpressionImpl.cpp,                    *)
(* variableExpressionParser.cpp).                                          *)
(*                                                                         *)
(* A string is a sequence of characters, which are numbers, and a variable *)
(* has a name of one character.  A value is a pair of type and content, a  *)
(* list has also the type of its elements; an expression is a tree.  What  *)
(* an error says is its function and a word.  The text of an expression is *)
(* a sequence of tokens, of which a string in quotes is one.               *)
(***************************************************************************)
EXTENDS Integers, Sequences, FiniteSets, SequencesExt

None == <<"None">>                       \* the empty VtValue
EmptyList == <<"list", "any", <<>>>>
Scalars == {"string", "bool", "int"}
TypeOf(value) == IF value[1] = "list" THEN <<"list", value[2]>> ELSE <<value[1]>>

Value(value) == [value |-> value, errors |-> <<>>]
Error(function, what) == [value |-> None, errors |-> <<<<function, what>>>>]
Errors(errors) == [value |-> None, errors |-> errors]

\* Values of variables that are not of the supported types, or are converted.
CoerceIfUnsupportedValueType(value) ==
    CASE value[1] = "int32" -> <<"int", value[2]>>
      [] value[1] = "list" /\ value[2] = "int32" -> <<"list", "int", value[3]>>
      [] OTHER -> value

-----------------------------------------------------------------------------
(* The functions, given the results of their arguments.                     *)

\* The errors of the arguments, and one for every argument without an error that does
\* not fit.
Collected(function, r, Fits(_)) ==
    FlattenSeq([i \in DOMAIN r |-> IF r[i].errors # <<>> THEN r[i].errors
                                   ELSE IF Fits(r[i].value) THEN <<>> ELSE <<<<function, "type">>>>])
AnyValue(value) == TRUE
Holds(type, value) == value[1] = type
AllOf(function, r, Fits(_), value) ==
    LET errors == Collected(function, r, Fits) IN IF errors = <<>> THEN Value(value) ELSE Errors(errors)

String(r, parts, vars) ==
    LET bad == SelectInSeq([i \in DOMAIN r |->
                               /\ parts[i][1] = "variable" /\ parts[i][2] \in DOMAIN vars
                               /\ (r[i].errors # <<>> \/ r[i].value[1] \notin {"string", "None"})],
                           LAMBDA b : b)
        Part(i) == IF parts[i][1] = "variable" /\ parts[i][2] \notin DOMAIN vars THEN <<parts[i][2]>>
                   ELSE IF r[i].value = None THEN <<>> ELSE r[i].value[2]
    IN  IF bad = 0 THEN Value(<<"string", FlattenSeq([i \in DOMAIN r |-> Part(i)])>>)
        ELSE IF r[bad].errors # <<>> THEN Errors(r[bad].errors) ELSE Error("string", "type")

List(r) ==
    LET scalar == SelectInSeq(r, LAMBDA x : x.errors = <<>> /\ x.value[1] \in Scalars)
        type == IF scalar = 0 THEN "" ELSE r[scalar].value[1]
    IN  AllOf("list", r, LAMBDA value : value[1] = type,
              IF r = <<>> THEN EmptyList ELSE <<"list", type, [i \in DOMAIN r |-> r[i].value[2]]>>)

If(r) ==
    LET else == IF Len(r) = 3 THEN r[3] ELSE Value(None)
    IN  CASE r[1].errors # <<>> -> Errors(r[1].errors)
          [] r[1].errors = <<>> /\ ~Holds("bool", r[1].value) -> Error("if", "type")
          [] /\ Holds("bool", r[1].value) /\ Len(r) = 3
             /\ TypeOf(r[2].value) # TypeOf(else.value) /\ r[2].value # None /\ else.value # None ->
                Error("if", "different")
          [] OTHER -> IF r[1].value[2] THEN r[2] ELSE else

Before(x, y) ==
    CASE x[1] = "int" -> x[2] < y[2]
      [] x[1] = "bool" -> ~x[2] /\ y[2]
      [] x[1] = "string" ->
            \/ IsStrictPrefix(x[2], y[2])
            \/ \E i \in DOMAIN x[2] \cap DOMAIN y[2] :
                  SubSeq(x[2], 1, i - 1) = SubSeq(y[2], 1, i - 1) /\ x[2][i] < y[2][i]
Compared(function, x, y) ==
    CASE function = "eq" -> x = y
      [] function = "neq" -> x # y
      [] function = "lt" -> Before(x, y)
      [] function = "leq" -> ~Before(y, x)
      [] function = "gt" -> Before(y, x)
      [] function = "geq" -> ~Before(x, y)
Comparison(function, x, y) ==
    CASE TypeOf(x) # TypeOf(y) -> Error(function, "different")
      [] TypeOf(x) = TypeOf(y) /\ (x[1] \in Scalars \/ (x \in {None, EmptyList} /\ function \in {"eq", "neq"})) ->
            Value(<<"bool", Compared(function, x, y)>>)
      [] OTHER -> Error(function, "unsupported")

Contains2(x, y) ==
    CASE x = EmptyList -> Value(<<"bool", FALSE>>)
      [] x[1] = "string" /\ Holds("string", y) ->
            Value(<<"bool", \E i \in 0 .. Len(x[2]) - Len(y[2]) : SubSeq(x[2], i + 1, i + Len(y[2])) = y[2]>>)
      [] x[1] = "list" /\ x # EmptyList /\ Holds(x[2], y) -> Value(<<"bool", Contains(x[3], y[2])>>)
      [] OTHER -> Error("contains", "type")

Elements(x) == IF x[1] = "list" THEN x[3] ELSE x[2]
At(x, index) ==
    LET normalized == IF index[2] < 0 THEN index[2] + Len(Elements(x)) ELSE index[2]
    IN  CASE ~Holds("int", index) -> Error("at", "index")
          [] Holds("int", index) /\ x[1] \notin {"list", "string"} -> Error("at", "unsupported")
          [] /\ Holds("int", index) /\ x[1] \in {"list", "string"}
             /\ normalized + 1 \notin DOMAIN Elements(x) -> Error("at", "range")
          [] OTHER -> Value(IF x[1] = "list" THEN <<x[2], Elements(x)[normalized + 1]>>
                            ELSE <<"string", <<Elements(x)[normalized + 1]>>>>)

Len1(x) == IF x[1] \in {"list", "string"} THEN Value(<<"int", Len(Elements(x))>>) ELSE Error("len", "unsupported")

Logical(function, r) ==
    LET Bool(value) == Holds("bool", value)
    IN  AllOf(function, r, Bool,
              <<"bool", CASE function = "and" -> \A i \in DOMAIN r : r[i].value[2]
                          [] function = "or" -> \E i \in DOMAIN r : r[i].value[2]
                          [] function = "not" -> ~r[1].value[2]>>)
\* Whether a variable is defined: it is not one that was asked for.
Defined(r, vars) ==
    LET Name(value) == Holds("string", value)
    IN  AllOf("defined", r, Name,
              <<"bool", \A i \in DOMAIN r : \E v \in DOMAIN vars : r[i].value[2] = <<v>>>>)

Comparisons == {"eq", "neq", "lt", "leq", "gt", "geq"}
OfTwo == Comparisons \cup {"contains", "at"}
Functions == OfTwo \cup {"if", "and", "or", "not", "len", "defined"}
Call(function, r, vars) ==
    LET collected == Collected(function, r, AnyValue)
    IN  CASE function = "if" -> If(r)
          [] function \in {"and", "or", "not"} -> Logical(function, r)
          [] function = "defined" -> Defined(r, vars)
          [] function \in OfTwo \cup {"len"} /\ collected # <<>> -> Errors(collected)
          [] function \in Comparisons /\ collected = <<>> -> Comparison(function, r[1].value, r[2].value)
          [] function = "contains" /\ collected = <<>> -> Contains2(r[1].value, r[2].value)
          [] function = "at" /\ collected = <<>> -> At(r[1].value, r[2].value)
          [] function = "len" /\ collected = <<>> -> Len1(r[1].value)

-----------------------------------------------------------------------------
(* Evaluation.  The stack holds the variables whose expressions are being   *)
(* evaluated, "used" those that were asked for.                             *)

Used(result, used) == [value |-> result.value, errors |-> result.errors, used |-> used]

Parts(node) == IF node[1] \in {"string", "list"} THEN node[2] ELSE IF node[1] = "call" THEN node[3] ELSE <<>>
Combined(node, r, vars) ==
    CASE node[1] = "text" -> Value(<<"string", node[2]>>)
      [] node[1] = "constant" -> Value(node[2])
      [] node[1] = "string" -> String(r, node[2], vars)
      [] node[1] = "list" -> List(r)
      [] node[1] = "call" -> Call(node[2], r, vars)
\* A string stops at the first part that fails, "if" at a condition that does.
Reached(node, r, vars) ==
    CASE node[1] = "string" ->
            {i \in DOMAIN r : \A j \in 1 .. i - 1 : String(SubSeq(r, j, j), SubSeq(node[2], j, j), vars).errors = <<>>}
      [] node[1] = "call" /\ node[2] = "if" /\ ~Holds("bool", r[1].value) -> {1}
      [] OTHER -> DOMAIN r

FromVariable(value) ==
    CASE value[1] = "unsupported" -> Error("variable", "unsupported")
      [] value[1] = "broken" -> Error("variable", "syntax")
      [] OTHER -> Value(CoerceIfUnsupportedValueType(value))

RECURSIVE Evaluate(_, _, _)
GetVariable(v, vars, stack) ==
    CASE Contains(stack, v) -> Used(Error("variable", "circular"), {})
      [] v \notin DOMAIN vars -> Used(Error("variable", "no value"), {v})
      [] v \in DOMAIN vars /\ ~Contains(stack, v) /\ vars[v][1] = "expression" ->
            LET r == Evaluate(vars[v][2], vars, Append(stack, v)) IN Used(r, r.used \cup {v})
      [] OTHER -> Used(FromVariable(vars[v]), {v})
Evaluate(node, vars, stack) ==
    LET parts == Parts(node)
        r == [i \in DOMAIN parts |-> Evaluate(parts[i], vars, stack)]
    IN  IF node[1] = "variable" THEN GetVariable(node[2], vars, stack)
        ELSE Used(Combined(node, r, vars), UNION {r[i].used : i \in Reached(node, r, vars)})

\* SdfVariableExpression::EvaluateTyped: an empty list takes the type that is wanted.
EvaluateTyped(result, type) ==
    CASE result.value = None \/ TypeOf(result.value) = type -> result
      [] result.value = EmptyList /\ type[1] = "list" -> [result EXCEPT !.value = <<"list", type[2], <<>>>>]
      [] OTHER -> Used(Error("typed", "type"), result.used)

-----------------------------------------------------------------------------
(* The parser.                                                              *)

Token(what) == <<what, 0>>
IsAt(what, t) == t # <<>> /\ Head(t) = Token(what)
Got(node, rest) == [ok |-> TRUE, node |-> node, rest |-> rest]
Failed == [ok |-> FALSE]

RECURSIVE SkipBlanks(_)
SkipBlanks(t) == IF IsAt("blank", t) THEN SkipBlanks(Tail(t)) ELSE t

\* How many arguments a function takes.
Takes(function, n) ==
    CASE function = "if" -> n \in {2, 3}
      [] function \in OfTwo -> n = 2
      [] function \in {"and", "or"} -> n >= 2
      [] function \in {"not", "len"} -> n = 1
      [] function = "defined" -> n >= 1
      [] OTHER -> FALSE

\* What follows a function or a list: blanks after a ")" belong to it.
Closed(head, items) ==
    CASE ~items.ok -> Failed
      [] items.ok /\ head = Token("[") -> Got(<<"list", items.node>>, items.rest)
      [] items.ok /\ head # Token("[") ->
            IF Takes(head[2], Len(items.node)) THEN Got(<<"call", head[2], items.node>>, SkipBlanks(items.rest))
            ELSE Failed
CloseOf(head) == IF head = Token("[") THEN "]" ELSE ")"

RECURSIVE Items(_, _, _)
\* ExpressionBody, or in a list ScalarExpression.
Body(t, scalar) ==
    LET open == SkipBlanks(Tail(t))
        list == IsAt("[", t) /\ ~scalar
    IN  CASE t = <<>> -> Failed
          [] t # <<>> /\ Head(t)[1] \in {"string", "variable", "constant"} -> Got(Head(t), Tail(t))
          [] t # <<>> /\ (list \/ (Head(t)[1] = "name" /\ IsAt("(", open))) ->
                Closed(Head(t), Items(<<>>, IF list THEN Tail(t) ELSE SkipBlanks(Tail(open)), Head(t)))
          [] OTHER -> Failed
\* Blanks can be around the commas and inside of an empty list, and inside of "(" and ")".
Follows(items, t, head) ==
    LET next == SkipBlanks(t)
    IN  CASE IsAt(",", next) -> Items(items, SkipBlanks(Tail(next)), head)
          [] IsAt(CloseOf(head), IF head = Token("[") THEN t ELSE next) -> Got(items, Tail(next))
          [] OTHER -> Failed
Items(items, t, head) ==
    LET item == Body(t, head = Token("["))
    IN  CASE items = <<>> /\ IsAt(CloseOf(head), SkipBlanks(t)) -> Got(items, Tail(SkipBlanks(t)))
          [] ~(items = <<>> /\ IsAt(CloseOf(head), SkipBlanks(t))) /\ item.ok ->
                Follows(Append(items, item.node), item.rest, head)
          [] OTHER -> Failed

\* What follows the closing backquote is not looked at.
Sdf_ParseVariableExpression(t) ==
    LET body == Body(Tail(t), FALSE)
    IN  IF IsAt("backquote", t) /\ body.ok /\ IsAt("backquote", body.rest) THEN body ELSE Failed

-----------------------------------------------------------------------------
(* What evaluation promises.                                                *)

RECURSIVE VariablesIn(_), FunctionsIn(_)
VariablesIn(node) ==
    IF node[1] = "variable" THEN {node[2]} ELSE UNION {VariablesIn(Parts(node)[i]) : i \in DOMAIN Parts(node)}
FunctionsIn(node) ==
    (IF node[1] = "call" THEN {node[2]} ELSE {}) \cup UNION {FunctionsIn(Parts(node)[i]) : i \in DOMAIN Parts(node)}

IsExpression(v, vars) == v \in DOMAIN vars /\ vars[v][1] = "expression"
RECURSIVE Closure(_, _)
Closure(known, vars) ==
    LET more == known \cup UNION {VariablesIn(vars[v][2]) : v \in {v \in known : IsExpression(v, vars)}}
    IN  IF more = known THEN known ELSE Closure(more, vars)
Reachable(node, vars) == Closure(VariablesIn(node), vars)
IsCircular(v, vars) == IsExpression(v, vars) /\ v \in Reachable(vars[v][2], vars)
FunctionsReachable(node, vars) ==
    FunctionsIn(node)
    \cup UNION {FunctionsIn(vars[v][2]) : v \in {v \in Reachable(node, vars) : IsExpression(v, vars)}}

Same(r, s) == r.value = s.value /\ r.errors = s.errors

\* The value of an expression is one of the supported types, and there is none if there are
\* errors (variableExpression.h:133, 166).
ResultSound(r) ==
    /\ r.errors # <<>> => r.value = None
    /\ r.value[1] \in Scalars \cup {"list", "None"}
    /\ \A type \in {<<"int">>, <<"list", "int">>} :
          LET typed == EvaluateTyped(r, type)
          IN  typed.value = None \/ TypeOf(typed.value) = type

\* Whoever remembers the used variables knows when to evaluate again: the others can change,
\* come or go (variableExpression.h:141), unless it was asked whether they are defined.
UsedVariables(node, vars, r, others) ==
    /\ r.used \subseteq Reachable(node, vars)
    /\ "defined" \notin FunctionsReachable(node, vars) =>
          \A v \in (DOMAIN vars \cup Reachable(node, vars)) \ r.used :
              /\ \A other \in others :
                    Same(r, Evaluate(node, [w \in DOMAIN vars \cup {v} |-> IF w = v THEN other ELSE vars[w]], <<>>))
              /\ Same(r, Evaluate(node, [w \in DOMAIN vars \ {v} |-> vars[w]], <<>>))

\* A variable that is an expression stands for its value (variableExpression.h:182).
ValueStandsIn(node, vars, r) ==
    (\A v \in DOMAIN vars : ~IsCircular(v, vars)) =>
        \A v \in {v \in DOMAIN vars : IsExpression(v, vars)} :
            LET sub == Evaluate(vars[v][2], vars, <<>>)
            IN  sub.errors = <<>> => Same(r, Evaluate(node, [vars EXCEPT ![v] = sub.value], <<>>))

\* Circular substitutions are errors, wherever they are met, and only they are circular
\* (testSdfVariableExpression.py:720); "if" forgets the errors of the branch it does not take.
CircularFails(node, vars, r) ==
    LET circular == {v \in Reachable(node, vars) : IsCircular(v, vars)}
    IN  /\ circular = {} => ~Contains(r.errors, <<"variable", "circular">>)
        /\ circular # {} /\ "if" \notin FunctionsReachable(node, vars) => r.errors # <<>>

EvaluatesRight(node, vars, r, others) ==
    /\ ResultSound(r) /\ UsedVariables(node, vars, r, others)
    /\ ValueStandsIn(node, vars, r) /\ CircularFails(node, vars, r)

\* How a tree is written.
RECURSIVE Spelled(_)
SpelledItems(items) ==
    FlattenSeq([i \in DOMAIN items |-> IF i = 1 THEN Spelled(items[i]) ELSE <<Token(",")>> \o Spelled(items[i])])
Spelled(node) ==
    CASE node[1] = "list" -> <<Token("[")>> \o SpelledItems(node[2]) \o <<Token("]")>>
      [] node[1] = "call" -> <<<<"name", node[2]>>, Token("(")>> \o SpelledItems(node[3]) \o <<Token(")")>>
      [] OTHER -> <<node>>
SpelledExpression(node) == <<Token("backquote")>> \o Spelled(node) \o <<Token("backquote")>>

\* An expression that is written without blanks is read, and what is read is what stands in
\* the text up to the second backquote, whatever blanks there are.
ReadRight(node) == Sdf_ParseVariableExpression(SpelledExpression(node)) = Got(node, <<Token("backquote")>>)
ParsedRight(t) ==
    LET read == Sdf_ParseVariableExpression(t)
    IN  read.ok => SelectSeq(SubSeq(t, 1, Len(t) - Len(read.rest) + 1), LAMBDA token : token # Token("blank"))
                   = SpelledExpression(read.node)

=============================================================================
