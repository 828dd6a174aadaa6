------------------------------ MODULE PathText ------------------------------
(***************************************************************************)
(* The text of a path (pathNode.cpp) and its parser (pathParser.h and      *)
(* .cpp).  Text is a sequence of tokens: positive numbers for names, 0 for *)
(* "..", and negative ones for delimiters and keywords.                   *)
(*                                                                         *)
(* The parser is the one of the grammar: a rule either matches, and gives  *)
(* its context on, or does not match and leaves the input alone, or makes  *)
(* the parsing fail (if_must).                                             *)
(***************************************************************************)
EXTENDS PathAlgebra

Slash == -1
Dot == -2
Open == -3
Close == -4
SelOpen == -5
SelClose == -6
Equals == -7
MapperKW == -8
ExpressionKW == -9

\* _WriteText of a node, _WriteTextToBuffer of a path.
RECURSIVE Text(_)

NodeText(node) ==
    CASE node = <<Prim, DotDot>> -> <<DotDot>>
      [] node[1] = Prim -> <<node[2]>>
      [] node[1] = Variant -> <<SelOpen, node[2], Equals, node[2], SelClose>>
      [] node[1] = Target -> <<Open>> \o Text(node[2]) \o <<Close>>
      [] node[1] = Mapper -> <<Dot, MapperKW, Open>> \o Text(node[2]) \o <<Close>>
      [] node[1] = Expression -> <<Dot, ExpressionKW>>
      [] OTHER -> <<Dot, node[2]>>

Text(p) ==
    LET Delimited(i) ==
            (IF i > 1 /\ p.prim[i][1] = Prim /\ p.prim[i - 1][1] = Prim THEN <<Slash>> ELSE <<>>)
                \o NodeText(p.prim[i])
        prim == FlattenSeq([i \in DOMAIN p.prim |-> Delimited(i)])
        prop == FlattenSeq([i \in DOMAIN p.prop |-> NodeText(p.prop[i])])
        between == IF prop # <<>> /\ p.prim # <<>> /\ Last(p.prim) = <<Prim, DotDot>>
                   THEN <<Slash>> ELSE <<>>
    IN  IF p = ReflexiveRelative THEN <<Dot>>
        ELSE (IF IsAbsolutePath(p) THEN <<Slash>> ELSE <<>>) \o prim \o between \o prop

-----------------------------------------------------------------------------
\* A context: the tokens left, PPContext::paths, targetType, and whether the parsing
\* has failed for good.
Context(tokens) == [rest |-> tokens, paths |-> <<Empty>>, target |-> Target, failed |-> FALSE]

Name == Nat \ {DotDot}
Starts(c, tokens) ==
    /\ ~c.failed
    /\ Len(c.rest) >= Len(tokens)
    /\ \A i \in DOMAIN tokens : c.rest[i] = tokens[i]
StartsName(c) == ~c.failed /\ c.rest # <<>> /\ Head(c.rest) \in Name
Skip(c, n) == [c EXCEPT !.rest = SubSeq(@, n + 1, Len(@))]
Fail(c) == [c EXCEPT !.failed = TRUE]
Top(c) == Last(c.paths)
SetTop(c, p) == [c EXCEPT !.paths[Len(c.paths)] = p]
\* The actions of names begin a relative path when there is none.
Begun(c) == IF Top(c) = Empty THEN SetTop(c, ReflexiveRelative) ELSE c

RECURSIVE DotDots(_), VariantSelections(_), PrimElts(_), Path(_)

DotDots(c) ==
    LET up == SetTop(Begun(c), GetParentPath(Top(Begun(c))))
    IN  IF Starts(c, <<DotDot>>) THEN DotDots(Skip(up, 1))
        ELSE IF Starts(c, <<Slash, DotDot>>) /\ Top(c) # Empty THEN DotDots(Skip(c, 1))
        ELSE c

VariantSelections(c) ==
    IF ~Starts(c, <<SelOpen>>) THEN c
    ELSE IF Len(c.rest) < 5 \/ c.rest[2] \notin Name \/ c.rest[3] # Equals \/ c.rest[5] # SelClose
    THEN Fail(c)
    ELSE VariantSelections(Skip(SetTop(c, AppendVariantSelection(Top(c), c.rest[2])), 5))

\* Names with slashes or selections between them.
PrimElts(c) ==
    LET named == Skip(SetTop(Begun(c), AppendChild(Top(Begun(c)), Head(c.rest))), 1)
        selected == VariantSelections(named)
    IN  IF ~StartsName(c) THEN c
        ELSE IF StartsName(selected) THEN PrimElts(selected)
        ELSE IF Starts(named, <<Slash>>) /\ StartsName(Skip(named, 1)) THEN PrimElts(Skip(named, 1))
        ELSE selected

\* TargetPathOpen, the path, its type, and TargetPathClose.  Mutant: the type is told
\* when the bracket opens, so that a path inside changes it.
BracketPathOpened(c, type) ==
    LET inner == Path([Skip(c, 1) EXCEPT !.paths = Append(@, Empty), !.target = type])
        target == Top(inner)
        closed == [Skip(inner, 1) EXCEPT !.paths = Front(@)]
    IN  IF ~Starts(c, <<Open>>) THEN c
        ELSE IF ~Starts(inner, <<Close>>) THEN Fail(c)
        ELSE SetTop(closed, AppendPropNode(Top(closed), <<inner.target, target>>))

BracketPath(c, type) ==
    LET inner == [Path([Skip(c, 1) EXCEPT !.paths = Append(@, Empty)]) EXCEPT !.target = type]
        target == Top(inner)
        closed == [Skip(inner, 1) EXCEPT !.paths = Front(@)]
    IN  IF ~Starts(c, <<Open>>) THEN c
        ELSE IF ~Starts(inner, <<Close>>) THEN Fail(c)
        ELSE SetTop(closed, AppendPropNode(Top(closed), <<inner.target, target>>))

PutNodeOn(c, node, n) == Skip(SetTop(c, AppendPropNode(Top(c), node)), n)

MapperPathSeq(c) ==
    LET mapped == BracketPath(Skip(c, 2), Mapper)
    IN  IF ~Starts(Skip(c, 2), <<Open>>) THEN Fail(c)
        ELSE IF Starts(mapped, <<Dot>>) /\ StartsName(Skip(mapped, 1))
        THEN PutNodeOn(mapped, <<MapperArg, mapped.rest[2]>>, 2)
        ELSE mapped

RECURSIVE PropTail(_)
\* What may follow a property or a relational attribute.
PropTail(c) ==
    CASE Starts(c, <<Open>>) ->
            LET inside == BracketPath(c, Target)
            IN  IF NodeType(Top(c).prop) = RelationalAttribute \/ ~Starts(inside, <<Dot>>)
                THEN inside
                ELSE IF ~StartsName(Skip(inside, 1)) THEN Fail(inside)
                ELSE PropTail(PutNodeOn(inside, <<RelationalAttribute, inside.rest[2]>>, 2))
      [] Starts(c, <<Dot, MapperKW>>) -> MapperPathSeq(c)
      [] Starts(c, <<Dot, ExpressionKW>>) -> PutNodeOn(c, <<Expression, 0>>, 2)
      [] Starts(c, <<Dot>>) -> Fail(c)
      [] OTHER -> c

PropElts(c) ==
    IF Starts(c, <<Dot>>) /\ StartsName(Skip(c, 1))
    THEN PropTail(Skip(SetTop(Begun(c), AppendProperty(Top(Begun(c)), c.rest[2])), 2))
    ELSE c

PathElts(c) == PropElts(PrimElts(c))

Path(c) ==
    CASE Starts(c, <<Slash>>) ->
            LET root == Skip(SetTop(c, AbsoluteRoot), 1)
                prims == PrimElts(root)
            IN  IF prims = root THEN root ELSE PropElts(prims)
      [] Starts(c, <<DotDot>>) ->
            LET up == DotDots(c)
            IN  IF Starts(up, <<Slash>>) /\ PathElts(Skip(up, 1)) # Skip(up, 1)
                THEN PathElts(Skip(up, 1)) ELSE up
      [] PathElts(c) # c -> PathElts(c)
      [] Starts(c, <<Dot>>) -> Skip(SetTop(c, ReflexiveRelative), 1)
      [] OTHER -> Fail(c)

Sdf_ParsePath(tokens) ==
    LET c == Path(Context(tokens))
    IN  IF c.failed \/ c.rest # <<>> THEN Empty ELSE Last(c.paths)

-----------------------------------------------------------------------------
\* A selection comes after a name.
Writable(p) ==
    /\ WellFormed(p) /\ p # Empty
    /\ \A i \in DOMAIN p.prim : p.prim[i][1] = Variant =>
          i > 1 /\ p.prim[i - 1] # <<Prim, DotDot>>

\* The text of a path is parsed as that path (pathNode.cpp:628, Sdf_ParsePath).
TextComesBack(p) == Writable(p) => Sdf_ParsePath(Text(p)) = p

-----------------------------------------------------------------------------
(* Identifiers with namespaces (path.cpp).  A name is a sequence of        *)
(* characters: a letter may start an identifier, a digit only continue     *)
(* one; Other may not be in one at all.                                    *)

Delimiter == 0
Letter == 1
Digit == 2
Other == 3

IsValidIdentifier(name) ==
    /\ name # <<>>
    /\ Head(name) = Letter
    /\ \A i \in DOMAIN name : name[i] \in {Letter, Digit}

RECURSIVE IsValidNamespacedIdentifier(_)
IsValidNamespacedIdentifier(name) ==
    LET at == SelectInSeq(name, LAMBDA c : c = Delimiter)
    IN  IF at = 0 THEN IsValidIdentifier(name)
        ELSE /\ at # 1 /\ at # Len(name)
             /\ IsValidIdentifier(SubSeq(name, 1, at - 1))
             /\ IsValidNamespacedIdentifier(SubSeq(name, at + 1, Len(name)))

\* TokenizeIdentifier: one pass, with the place where the token began.  The state is
\* <<tokens, token so far>>, or None when a character does not fit.
None == <<>>
TokenizeStep(state, c) ==
    CASE state = None -> None
      [] state[2] = <<>> -> IF c = Letter THEN <<state[1], <<c>>>> ELSE None
      [] c = Delimiter -> <<Append(state[1], state[2]), <<>>>>
      [] c \in {Letter, Digit} -> <<state[1], Append(state[2], c)>>
      [] OTHER -> None

TokenizeIdentifier(name) ==
    LET end == FoldLeft(TokenizeStep, <<<<>>, <<>>>>, name)
    IN  IF name = <<>> \/ Last(name) = Delimiter \/ end = None THEN <<>>
        ELSE Append(end[1], end[2])

\* Of many names, the empty ones are left out.
JoinIdentifier(names) ==
    LET left == SelectSeq(names, LAMBDA name : name # <<>>)
    IN  FlattenSeq([i \in DOMAIN left |-> IF i = 1 THEN left[i] ELSE <<Delimiter>> \o left[i]])

StripNamespace(name) ==
    SubSeq(name, SelectLastInSeq(name, LAMBDA c : c = Delimiter) + 1, Len(name))

\* The name without the namespace, and whether it was there.
StripPrefixNamespace(name, namespace) ==
    LET n == Len(namespace)
    IN  CASE namespace = <<>> \/ ~IsPrefix(namespace, name) -> <<name, FALSE>>
          [] Last(namespace) = Delimiter -> <<SubSeq(name, n + 1, Len(name)), TRUE>>
          [] n < Len(name) /\ name[n + 1] = Delimiter -> <<SubSeq(name, n + 2, Len(name)), TRUE>>
          [] OTHER -> <<name, FALSE>>

-----------------------------------------------------------------------------
\* The two ways to look at a name agree: it has tokens exactly when it is valid, they
\* are joined to the name again, and what a namespace is stripped from has it in
\* front (IsValidNamespacedIdentifier, TokenizeIdentifier, StripPrefixNamespace).
NamesComeBack(name, namespace) ==
    LET tokens == TokenizeIdentifier(name)
        stripped == StripPrefixNamespace(name, namespace)
    IN  /\ IsValidNamespacedIdentifier(name) <=> tokens # <<>>
        /\ tokens # <<>> => JoinIdentifier(tokens) = name /\ Last(tokens) = StripNamespace(name)
        /\ \A i \in DOMAIN tokens : IsValidIdentifier(tokens[i])
        /\ stripped[2] /\ tokens # <<>> =>
              JoinIdentifier(<<IF Last(namespace) = Delimiter THEN Front(namespace)
                                         ELSE namespace, stripped[1]>>) = name

=============================================================================
