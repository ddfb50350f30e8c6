------------------------------- MODULE Parser -------------------------------
(***************************************************************************)
(* The recursive-descent parser, from tokens to a module.  A parse state p *)
(* says whether the source is still legal, the token reached and the node  *)
(* read last.  boundaryCol, which the code saves and restores around case  *)
(* and let, is the parameter b: an argument, or a constructor's field,     *)
(* that does not start to the right of it belongs to the next branch,      *)
(* binding or declaration.                                                 *)
(*                                                                         *)
(* Every node of the tree has the same fields.  Its position, which tells  *)
(* apart two equal expressions, is the index of a token.                   *)
(***************************************************************************)
EXTENDS Lexer

Node(k, pos) ==
  [k |-> k, pos |-> pos, mod |-> "", name |-> "", names |-> <<>>, v |-> 0, scale |-> 0,
   args |-> <<>>, pats |-> <<>>]

Reading(i) == [ok |-> TRUE, i |-> i, n |-> Node("", 0)]
Refuse(p) == [p EXCEPT !.ok = FALSE]
Put(p, n) == [p EXCEPT !.n = n]

Kind(ts, p) == ts[p.i].kind
KindAt(ts, p, d) == ts[LET j == p.i + d IN IF j > Len(ts) THEN Len(ts) ELSE j].kind
Skip(p, n) == [p EXCEPT !.i = @ + n]
Expect(ts, p, kind) == IF p.ok /\ Kind(ts, p) = kind THEN Skip(p, 1) ELSE Refuse(p)
Is(ts, p, kind) == p.ok /\ Kind(ts, p) = kind

\* The node read last becomes an argument of parent.
Attach(p, parent) == Put(p, [parent EXCEPT !.args = Append(@, p.n)])

\* A name as it is written, and a declared one, behind the name of its module.
Canonical(mod, name) == IF mod = "" THEN name ELSE mod \o "." \o name
JoinName(n) == Canonical(n.mod, n.name)

NumberOf(digits) == FoldLeft(LAMBDA acc, d : 10 * acc + d, 0, digits)

\* A.B.c: the modules before the last name, joined, and the last name.
RECURSIVE QualifiedRest(_, _, _, _)
QualifiedRest(ts, p, node, kinds) ==
  IF Kind(ts, p) = "." /\ KindAt(ts, p, 1) \in kinds
  THEN LET next == [node EXCEPT !.mod = IF @ = "" THEN node.name ELSE @ \o "." \o node.name,
                                !.name = ts[p.i + 1].text]
       IN  IF KindAt(ts, p, 1) = "LowerName" THEN Put(Skip(p, 2), [next EXCEPT !.k = "EQualified"])
           ELSE QualifiedRest(ts, Skip(p, 2), next, kinds)
  ELSE Put(p, node)

ParseQualifiedUpper(ts, p, k) ==
  QualifiedRest(ts, Skip(p, 1), [Node(k, p.i) EXCEPT !.name = ts[p.i].text], {"UpperName"})

\* A dotted module name, as one string.
ParseModuleName(ts, p) ==
  IF Is(ts, p, "UpperName")
  THEN LET q == ParseQualifiedUpper(ts, p, "Name")
       IN  Put(q, [q.n EXCEPT !.name = IF q.n.mod = "" THEN @ ELSE q.n.mod \o "." \o @])
  ELSE Refuse(p)

\* As many lower names as come next.
RECURSIVE ParseNames(_, _, _)
ParseNames(ts, p, node) ==
  IF Is(ts, p, "LowerName")
  THEN ParseNames(ts, Skip(p, 1), [node EXCEPT !.names = Append(@, ts[p.i].text)])
  ELSE Put(p, node)

-----------------------------------------------------------------------------
\* Types.
TypeAtomStart == {"LowerName", "UpperName", "(", "{"}

RECURSIVE ParseTypeExpr(_, _, _), ParseTypeAtom(_, _, _), ParseTypeAtoms(_, _, _, _),
          ParseTypeList(_, _, _, _), ParseTypeFields(_, _, _, _)

\* isTypeAtomStart(p.peek()) && p.peek().Column > p.boundaryCol
ParseTypeAtoms(ts, b, p, node) ==
  IF p.ok /\ Kind(ts, p) \in TypeAtomStart /\ ts[p.i].col > b
  THEN LET q == ParseTypeAtom(ts, b, p) IN ParseTypeAtoms(ts, b, q, Attach(q, node).n)
  ELSE Put(p, node)

ParseTypeApp(ts, b, p) ==
  LET q == ParseTypeAtom(ts, b, p)
  IN  IF q.ok /\ q.n.k = "TypeCon" THEN ParseTypeAtoms(ts, b, q, q.n) ELSE q

ParseTypeExpr(ts, b, p) ==
  LET left == ParseTypeApp(ts, b, p)
      right == ParseTypeExpr(ts, b, Skip(left, 1))
  IN  IF Is(ts, left, "->")
      THEN Put(right, [Node("TypeArrow", left.i) EXCEPT !.args = <<left.n, right.n>>])
      ELSE left

\* A comma list; node collects its members.
ParseTypeList(ts, b, p, node) ==
  LET q == ParseTypeExpr(ts, b, p)
      n == Attach(q, node).n
  IN  IF Is(ts, q, ",") THEN ParseTypeList(ts, b, Skip(q, 1), n) ELSE Put(q, n)

ParseTypeFields(ts, b, p, node) ==
  LET q == ParseTypeExpr(ts, b, Expect(ts, Expect(ts, p, "LowerName"), ":"))
      n == [Attach(q, node).n EXCEPT !.names = Append(@, ts[p.i].text)]
  IN  CASE ~q.ok -> q
        [] Is(ts, q, ",") -> ParseTypeFields(ts, b, Skip(q, 1), n)
        [] OTHER -> Put(q, n)

ParseTypeParens(ts, b, p) ==
  LET q == ParseTypeList(ts, b, Skip(p, 1), Node("TypeTuple", p.i))
      closed == Expect(ts, q, ")")
  IN  IF KindAt(ts, p, 1) = ")" THEN Put(Skip(p, 2), Node("TypeUnit", p.i))
      ELSE IF Len(q.n.args) = 1 THEN Put(closed, q.n.args[1]) ELSE closed

ParseTypeRecord(ts, b, p) ==
  LET extends == KindAt(ts, p, 1) = "LowerName" /\ KindAt(ts, p, 2) = "|"
      node == [Node("TypeRecord", p.i) EXCEPT !.name = IF extends THEN ts[p.i + 1].text ELSE ""]
  IN  IF KindAt(ts, p, 1) = "}" THEN Put(Skip(p, 2), node)
      ELSE Expect(ts, ParseTypeFields(ts, b, Skip(p, IF extends THEN 3 ELSE 1), node), "}")

ParseTypeAtom(ts, b, p) ==
  CASE ~p.ok -> p
    [] Is(ts, p, "LowerName") ->
         Put(Skip(p, 1), [Node("TypeVar", p.i) EXCEPT !.name = ts[p.i].text])
    [] Is(ts, p, "UpperName") -> ParseQualifiedUpper(ts, p, "TypeCon")
    [] Is(ts, p, "(") -> ParseTypeParens(ts, b, p)
    [] Is(ts, p, "{") -> ParseTypeRecord(ts, b, p)
    [] OTHER -> Refuse(p)

-----------------------------------------------------------------------------
\* Patterns.
PatternAtomStart ==
  {"LowerName", "UpperName", "_", "Int", "String", "Char", "(", "{", "["}

RECURSIVE ParsePattern(_, _), ParsePatternAtom(_, _), ParsePatternAtoms(_, _, _),
          ParsePatternList(_, _, _), ParseFieldNames(_, _, _)

ParsePatternAtoms(ts, p, node) ==
  IF p.ok /\ Kind(ts, p) \in PatternAtomStart
  THEN LET q == ParsePatternAtom(ts, p) IN ParsePatternAtoms(ts, q, Attach(q, node).n)
  ELSE Put(p, node)

\* A constructor with its arguments or an atom, and what follows "::".
ParsePattern(ts, p) ==
  LET ctor == ParseQualifiedUpper(ts, p, "PCtor")
      head == IF Is(ts, p, "UpperName") THEN ParsePatternAtoms(ts, ctor, ctor.n)
              ELSE ParsePatternAtom(ts, p)
      tail == ParsePattern(ts, Skip(head, 1))
  IN  IF Is(ts, head, "::")
      THEN Put(tail, [Node("PCons", head.i) EXCEPT !.args = <<head.n, tail.n>>])
      ELSE head

ParsePatternList(ts, p, node) ==
  LET q == ParsePattern(ts, p)
      n == Attach(q, node).n
  IN  IF Is(ts, q, ",") THEN ParsePatternList(ts, Skip(q, 1), n) ELSE Put(q, n)

ParsePatternParens(ts, p) ==
  LET q == ParsePatternList(ts, Skip(p, 1), Node("PTuple", p.i))
      closed == Expect(ts, q, ")")
  IN  IF KindAt(ts, p, 1) = ")" THEN Put(Skip(p, 2), Node("PUnit", p.i))
      ELSE IF Len(q.n.args) = 1 THEN Put(closed, q.n.args[1]) ELSE closed

ParseFieldNames(ts, p, node) ==
  LET q == Expect(ts, p, "LowerName")
      n == [node EXCEPT !.names = Append(@, ts[p.i].text)]
  IN  IF Is(ts, q, ",") THEN ParseFieldNames(ts, Skip(q, 1), n) ELSE Put(q, n)

ParsePatternAtom(ts, p) ==
  LET node(k) == Node(k, p.i)
      one(n) == Put(Skip(p, 1), n)
  IN
  CASE ~p.ok -> p
    [] Is(ts, p, "LowerName") -> one([node("PVar") EXCEPT !.name = ts[p.i].text])
    [] Is(ts, p, "_") -> one(node("PWildcard"))
    [] Is(ts, p, "UpperName") -> ParseQualifiedUpper(ts, p, "PCtor")
    [] Is(ts, p, "Int") -> one([node("PInt") EXCEPT !.v = NumberOf(ts[p.i].digits)])
    [] Is(ts, p, "String") -> one([node("PString") EXCEPT !.name = ts[p.i].text])
    [] Is(ts, p, "Char") -> one([node("PChar") EXCEPT !.name = ts[p.i].text])
    [] Is(ts, p, "(") -> ParsePatternParens(ts, p)
    [] Is(ts, p, "{") ->
         IF KindAt(ts, p, 1) = "}" THEN Put(Skip(p, 2), node("PRecord"))
         ELSE Expect(ts, ParseFieldNames(ts, Skip(p, 1), node("PRecord")), "}")
    [] Is(ts, p, "[") ->
         IF KindAt(ts, p, 1) = "]" THEN Put(Skip(p, 2), node("PList"))
         ELSE Expect(ts, ParsePatternList(ts, Skip(p, 1), node("PList")), "]")
    [] OTHER -> Refuse(p)

-----------------------------------------------------------------------------
\* Expressions.
ExprAtomStart ==
  {"Int", "Float", "String", "Char", "LowerName", "UpperName", "FieldDot", "(", "[", "{"}

\* opTable: how tightly each operator binds, and which associate to the right.
Precedence ==
  [op \in {"|>", "<|", "||", "&&", "==", "/=", "<", ">", "<=", ">=", "++", "::", "+", "-", "*",
           "/", "//"} |->
     CASE op \in {"|>", "<|"} -> 1
       [] op = "||" -> 2
       [] op = "&&" -> 3
       [] op \in {"==", "/=", "<", ">", "<=", ">="} -> 4
       [] op \in {"++", "::"} -> 5
       [] op \in {"+", "-"} -> 6
       [] OTHER -> 7]
RightAssociative == {"<|", "||", "&&", "++", "::"}

\* The least precedence the right operand of op may continue with.  The mutant lets every
\* operator associate to the right.
NextMin_AllRight(op) == Precedence[op]
NextMin(op) == IF op \in RightAssociative THEN Precedence[op] ELSE Precedence[op] + 1

\* Digits after leading zeros, at most so many of them.
SignificantDigits(digits) ==
  LET nonZero == {i \in DOMAIN digits : digits[i] # 0}
  IN  IF nonZero = {} THEN 1
      ELSE 1 + Len(digits) - CHOOSE i \in nonZero : \A j \in nonZero : i <= j
MaxDecimalDigits == 34

RECURSIVE ParseExpr(_, _, _), ParseBinop(_, _, _, _), ParseBinopRest(_, _, _, _),
          ParseApp(_, _, _), ParseAppArgs(_, _, _), ParseExprAtom(_, _, _),
          ParseExprList(_, _, _, _), ParseRecordFields(_, _, _, _), ParseBranches(_, _, _, _),
          ParseBindings(_, _, _, _), ParseParams(_, _, _), FieldAccesses(_, _)

ParseExpr(ts, b, p) == ParseBinop(ts, b, p, 0)

ParseBinopRest(ts, b, p, minPrec) ==
  LET op == Kind(ts, p)
      right == ParseBinop(ts, b, Skip(p, 1), NextMin(op))
      node == [Node("EBinop", p.i) EXCEPT !.name = op, !.args = <<p.n, right.n>>]
  IN  IF ~p.ok \/ op \notin DOMAIN Precedence \/ Precedence[op] < minPrec THEN p
      ELSE ParseBinopRest(ts, b, Put(right, node), minPrec)

ParseBinop(ts, b, p, minPrec) == ParseBinopRest(ts, b, ParseApp(ts, b, p), minPrec)

\* atom ("." lowerName)*: field access binds tighter than application.
FieldAccesses(ts, p) ==
  IF p.ok /\ Kind(ts, p) = "." /\ KindAt(ts, p, 1) = "LowerName"
  THEN FieldAccesses(ts, Put(Skip(p, 2), [Node("EFieldAccess", p.i + 1) EXCEPT
                                            !.name = ts[p.i + 1].text, !.args = <<p.n>>]))
  ELSE p
ParseAtomChain(ts, b, p) == FieldAccesses(ts, ParseExprAtom(ts, b, p))

\* The layout rule: what starts at or left of the boundary column is no argument.
StartsArgument(ts, b, p) == Kind(ts, p) \in ExprAtomStart /\ ts[p.i].col > b

ParseAppArgs(ts, b, p) ==
  LET arg == ParseAtomChain(ts, b, p)
  IN  IF p.ok /\ StartsArgument(ts, b, p)
      THEN ParseAppArgs(ts, b, Put(arg, [Node("EApp", p.n.pos) EXCEPT !.args = <<p.n, arg.n>>]))
      ELSE p

ParseApp(ts, b, p) ==
  LET inner == ParseApp(ts, b, Skip(p, 1))
  IN  IF Is(ts, p, "-") THEN Attach(inner, Node("ENegate", p.i))
      ELSE ParseAppArgs(ts, b, ParseAtomChain(ts, b, p))

ParseExprList(ts, b, p, node) ==
  LET q == ParseExpr(ts, b, p)
      n == Attach(q, node).n
  IN  IF Is(ts, q, ",") THEN ParseExprList(ts, b, Skip(q, 1), n) ELSE Put(q, n)

ParseExprParens(ts, b, p) ==
  LET q == ParseExprList(ts, b, Skip(p, 1), Node("ETuple", p.i))
      closed == Expect(ts, q, ")")
  IN  IF KindAt(ts, p, 1) = ")" THEN Put(Skip(p, 2), Node("EUnit", p.i))
      ELSE IF Len(q.n.args) = 1 THEN Put(closed, q.n.args[1]) ELSE closed

ParseRecordFields(ts, b, p, node) ==
  LET q == ParseExpr(ts, b, Expect(ts, Expect(ts, p, "LowerName"), "="))
      n == [Attach(q, node).n EXCEPT !.names = Append(@, ts[p.i].text)]
  IN  CASE ~q.ok -> q
        [] Is(ts, q, ",") -> ParseRecordFields(ts, b, Skip(q, 1), n)
        [] OTHER -> Put(q, n)

\* { a = 1, b = 2 }, and { r | a = 1 }, whose first argument is r.
ParseExprRecord(ts, b, p) ==
  LET update == KindAt(ts, p, 1) = "LowerName" /\ KindAt(ts, p, 2) = "|"
      base == [Node("EVar", p.i + 1) EXCEPT !.name = ts[p.i + 1].text]
      node == IF update THEN [Node("ERecordUpdate", p.i) EXCEPT !.args = <<base>>]
              ELSE Node("ERecord", p.i)
  IN  IF KindAt(ts, p, 1) = "}" THEN Put(Skip(p, 2), node)
      ELSE Expect(ts, ParseRecordFields(ts, b, Skip(p, IF update THEN 3 ELSE 1), node), "}")

\* The patterns up to the arrow.
ParseParams(ts, p, node) ==
  IF ~p.ok \/ Is(ts, p, "->") THEN Put(p, node)
  ELSE LET q == ParsePatternAtom(ts, p)
       IN  ParseParams(ts, q, [node EXCEPT !.pats = Append(@, q.n)])

ParseLambda(ts, b, p) ==
  LET head == ParseParams(ts, Skip(p, 1), Node("ELambda", p.i))
  IN  Attach(ParseExpr(ts, b, Expect(ts, head, "->")), head.n)

ParseIf(ts, b, p) ==
  LET cond == ParseExpr(ts, b, Skip(p, 1))
      then == ParseExpr(ts, b, Expect(ts, cond, "then"))
      else == ParseExpr(ts, b, Expect(ts, then, "else"))
  IN  Put(else, [Node("EIf", p.i) EXCEPT !.args = <<cond.n, then.n, else.n>>])

\* Branches start in the column of the first one, which is their boundary.
ParseBranches(ts, col, p, node) ==
  LET pat == ParsePattern(ts, p)
      body == ParseExpr(ts, col, Expect(ts, pat, "->"))
  IN  IF p.ok /\ Kind(ts, p) \in PatternAtomStart /\ ts[p.i].col = col
      THEN ParseBranches(ts, col, body, [Attach(body, node).n EXCEPT !.pats = Append(@, pat.n)])
      ELSE Put(p, node)

ParseCase(ts, b, p) ==
  LET subject == ParseExpr(ts, b, Skip(p, 1))
      first == Expect(ts, subject, "of")
      node == [Node("ECase", p.i) EXCEPT !.args = <<subject.n>>]
  IN  IF first.ok /\ Kind(ts, first) \in PatternAtomStart
      THEN ParseBranches(ts, ts[first.i].col, first, node)
      ELSE Refuse(first)

\* A binding `p <- e` is told from `p = e` by its name.
ParseBindings(ts, col, p, node) ==
  LET pat == ParsePattern(ts, p)
      bind == Is(ts, pat, "<-")
      body == ParseExpr(ts, col, IF bind THEN Skip(pat, 1) ELSE Expect(ts, pat, "="))
      more == [Attach(body, node).n EXCEPT !.pats = Append(@, pat.n),
                                           !.names = Append(@, IF bind THEN "<-" ELSE "=")]
  IN  IF p.ok /\ Kind(ts, p) # "in" /\ ts[p.i].col = col
      THEN ParseBindings(ts, col, body, more)
      ELSE Put(p, node)

ParseLet(ts, b, p) ==
  LET first == Skip(p, 1)
      bound == ParseBindings(ts, ts[first.i].col, first, Node("ELet", p.i))
  IN  IF Kind(ts, first) = "in" THEN Refuse(p)
      ELSE Attach(ParseExpr(ts, b, Expect(ts, bound, "in")), bound.n)

\* An integer literal is refused beyond the range of Int (which no run's literals reach), a
\* decimal one beyond 34 digits.
ParseExprAtom(ts, b, p) ==
  LET t == ts[p.i]
      node(k) == Node(k, p.i)
      one(n) == Put(Skip(p, 1), n)
  IN
  CASE ~p.ok -> p
    [] Is(ts, p, "Int") -> one([node("EInt") EXCEPT !.v = NumberOf(t.digits)])
    [] Is(ts, p, "Float") ->
         IF SignificantDigits(t.digits) > MaxDecimalDigits THEN Refuse(p)
         ELSE one([node("EDecimal") EXCEPT !.v = NumberOf(t.digits), !.scale = t.scale])
    [] Is(ts, p, "String") -> one([node("EString") EXCEPT !.name = t.text])
    [] Is(ts, p, "Char") -> one([node("EChar") EXCEPT !.name = t.text])
    [] Is(ts, p, "LowerName") -> one([node("EVar") EXCEPT !.name = t.text])
    [] Is(ts, p, "UpperName") ->
         QualifiedRest(ts, Skip(p, 1), [node("ECtor") EXCEPT !.name = t.text],
                       {"UpperName", "LowerName"})
    [] Is(ts, p, ".") ->
         IF KindAt(ts, p, 1) # "LowerName" THEN Refuse(p)
         ELSE Put(Skip(p, 2), [node("EFieldAccessor") EXCEPT !.name = ts[p.i + 1].text])
    [] Is(ts, p, "FieldDot") -> one([node("EFieldAccessor") EXCEPT !.name = t.text])
    [] Is(ts, p, "(") -> ParseExprParens(ts, b, p)
    [] Is(ts, p, "[") ->
         IF KindAt(ts, p, 1) = "]" THEN Put(Skip(p, 2), node("EList"))
         ELSE Expect(ts, ParseExprList(ts, b, Skip(p, 1), node("EList")), "]")
    [] Is(ts, p, "{") -> ParseExprRecord(ts, b, p)
    [] Is(ts, p, "\\") -> ParseLambda(ts, b, p)
    [] Is(ts, p, "if") -> ParseIf(ts, b, p)
    [] Is(ts, p, "case") -> ParseCase(ts, b, p)
    [] Is(ts, p, "let") -> ParseLet(ts, b, p)
    [] OTHER -> Refuse(p)

-----------------------------------------------------------------------------
\* Declarations and the module.
Boundary == 1

RECURSIVE ParseExposedItems(_, _, _), ParseConstructors(_, _, _), ParseValueParams(_, _, _),
          ParseImports(_, _, _), ParseDecls(_, _, _)

\* What a module or an import exposes is a node: named ".." for everything, else with an
\* argument per item; the `mod` of an opened type is "..".
IsDots(ts, p, d) == KindAt(ts, p, d) = "." /\ KindAt(ts, p, d + 1) = "."

ParseExposedItems(ts, p, node) ==
  LET open == Is(ts, p, "UpperName") /\ KindAt(ts, p, 1) = "("
      item == IF ~open THEN Skip(p, 1)
              ELSE IF IsDots(ts, p, 2) THEN Expect(ts, Skip(p, 4), ")") ELSE Refuse(p)
      n == Attach(Put(p, [Node("Exposed", p.i) EXCEPT !.name = ts[p.i].text,
                                                      !.mod = IF open THEN ".." ELSE ""]), node).n
  IN  CASE ~p.ok \/ Kind(ts, p) \notin {"LowerName", "UpperName"} -> Refuse(p)
        [] Is(ts, item, ",") -> ParseExposedItems(ts, Skip(item, 1), n)
        [] OTHER -> Put(item, n)

ParseExposing(ts, p) ==
  LET open == Expect(ts, p, "(")
      node == Node("Exposing", p.i)
  IN  IF open.ok /\ IsDots(ts, open, 0)
      THEN Put(Expect(ts, Skip(open, 2), ")"), [node EXCEPT !.name = ".."])
      ELSE Expect(ts, ParseExposedItems(ts, open, node), ")")

\* The module, its alias ("" for none) and the Exposing node, if there is one.
ParseImport(ts, p) ==
  LET name == ParseModuleName(ts, Skip(p, 1))
      alias == IF Is(ts, name, "as") THEN Expect(ts, Skip(name, 1), "UpperName") ELSE name
      exposing == ParseExposing(ts, Skip(alias, 1))
      node == [Node("Import", p.i) EXCEPT
                 !.mod = name.n.name,
                 !.name = IF Is(ts, name, "as") THEN ts[name.i + 1].text ELSE ""]
  IN  IF Is(ts, alias, "exposing") THEN Attach(exposing, node) ELSE Put(alias, node)

\* Name and parameters, up to the equals sign.
ParseTypeHead(ts, p, k, pos) ==
  Expect(ts, ParseNames(ts, Expect(ts, p, "UpperName"),
                        [Node(k, pos) EXCEPT !.name = ts[p.i].text]), "=")

ParseTypeAlias(ts, p) ==
  LET head == ParseTypeHead(ts, Skip(p, 2), "TypeAliasDecl", p.i)
  IN  Attach(ParseTypeExpr(ts, Boundary, head), head.n)

ParseConstructors(ts, p, node) ==
  LET named == Expect(ts, p, "UpperName")
      q == ParseTypeAtoms(ts, Boundary, named,
                          [Node("Constructor", p.i) EXCEPT !.name = ts[p.i].text])
      n == Attach(q, node).n
  IN  IF Is(ts, q, "|") THEN ParseConstructors(ts, Skip(q, 1), n) ELSE Put(q, n)

ParseCustomType(ts, p) ==
  LET head == ParseTypeHead(ts, Skip(p, 1), "CustomTypeDecl", p.i)
  IN  ParseConstructors(ts, head, head.n)

\* name : Type, also behind the keyword port.
ParseAnnotation(ts, p, k, pos) ==
  LET q == Expect(ts, Expect(ts, p, "LowerName"), ":")
  IN  Attach(ParseTypeExpr(ts, Boundary, q), [Node(k, pos) EXCEPT !.name = ts[p.i].text])

ParseValueParams(ts, p, node) ==
  IF p.ok /\ Kind(ts, p) # "=" /\ ts[p.i].col > Boundary
  THEN LET q == ParsePatternAtom(ts, p)
       IN  ParseValueParams(ts, q, [node EXCEPT !.pats = Append(@, q.n)])
  ELSE Put(p, node)

ParseValueDecl(ts, p) ==
  LET head == ParseValueParams(ts, Skip(p, 1),
                               [Node("ValueDecl", p.i) EXCEPT !.name = ts[p.i].text])
  IN  Attach(ParseExpr(ts, Boundary, Expect(ts, head, "=")), head.n)

ParseDecl(ts, p) ==
  CASE ~p.ok -> p
    [] Is(ts, p, "type") ->
         IF KindAt(ts, p, 1) = "alias" THEN ParseTypeAlias(ts, p) ELSE ParseCustomType(ts, p)
    [] Is(ts, p, "port") -> ParseAnnotation(ts, Skip(p, 1), "PortDecl", p.i)
    [] Is(ts, p, "LowerName") ->
         IF KindAt(ts, p, 1) = ":" THEN ParseAnnotation(ts, p, "AnnotationDecl", p.i)
         ELSE ParseValueDecl(ts, p)
    [] OTHER -> Refuse(p)

ParseImports(ts, p, imports) ==
  IF Is(ts, p, "import")
  THEN LET q == ParseImport(ts, p) IN ParseImports(ts, q, Append(imports, q.n))
  ELSE [p |-> p, imports |-> imports]

ParseDecls(ts, p, decls) ==
  IF ~p.ok \/ Kind(ts, p) = "EOF" THEN [p |-> p, decls |-> decls]
  ELSE LET q == ParseDecl(ts, p) IN ParseDecls(ts, q, Append(decls, q.n))

ParseModule(ts) ==
  LET header == ParseModuleName(ts, Expect(ts, Reading(1), "module"))
      exposing == ParseExposing(ts, Expect(ts, header, "exposing"))
      imported == ParseImports(ts, exposing, <<>>)
      declared == ParseDecls(ts, imported.p, <<>>)
  IN  IF ts = <<>> THEN [ok |-> FALSE]
      ELSE [ok |-> declared.p.ok, name |-> header.n.name, exposing |-> exposing.n,
            imports |-> imported.imports, decls |-> declared.decls]
=============================================================================
