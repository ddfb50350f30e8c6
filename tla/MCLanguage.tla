----------------------------- MODULE MCLanguage -----------------------------
(***************************************************************************)
(* The programs that TLC runs Language on.  Six families are generated:    *)
(* expressions of two or three operators, printed with the fewest          *)
(* parentheses; cases over small types, with up to three branches; calls   *)
(* of every builtin; the values of a module in every order; entities and   *)
(* what a task does with their rows; sign-ins over them.  The others       *)
(* combine short texts written out for what the generators do not reach:   *)
(* generalisation, records, recursion, modules and what they import,       *)
(* pages, services.  BoolCases is a set of its own.                        *)
(***************************************************************************)
EXTENDS Language

\* A text is a string: units are its characters, but a literal in quotes is one unit.
UnitOf(c) ==
  CASE c = " " -> Blank
    [] c = "\n" -> Newline
    [] In(c, LowerLetters) -> Lower(c)
    [] In(c, UpperLetters) -> Upper(c)
    [] In(c, DecimalDigits) -> Digit(NumberIn(c))
    [] OTHER -> Char(c)
TextUnits(s) ==
  LET quotes == {i \in 1 .. Len(s) : CharAt(s, i) \in {"\"", "'"}}
      Before(i) == Cardinality({q \in quotes : q < i})
      kept == SelectSeq([i \in 1 .. Len(s) |-> i], LAMBDA i : Before(i) % 2 = 0)
      Closing(i) == CHOOSE j \in quotes : j > i /\ Before(j) = Before(i) + 1
  IN  [n \in DOMAIN kept |->
         IF kept[n] \in quotes
         THEN Literal(IF CharAt(s, kept[n]) = "'" THEN "char" ELSE "string",
                      SubSeq(s, kept[n] + 1, Closing(kept[n]) - 1))
         ELSE UnitOf(CharAt(s, kept[n]))]

\* The stages, each behind a local definition, which TLC's statistics do not follow.
ParseText(text) == LET units == TextUnits(text) IN ParseModule(Lex(units))
LoadModules(mods) == LET loaded == LoadProject(mods) IN loaded
StartPage(program1) == LET started == RunProgram(program1) IN started
CallFromOutside(G, f, x) == LET answer == CalledOn(G, f, x) IN answer
\* A task is run; where there is a sign-in, the same address signs in twice.
Perform(G, db, v) ==
  LET SignIn(before) == EnsureUser(G, before, v, "a")
  IN  IF v.k = "auth" THEN AndThen(SignIn(db), LAMBDA id, after : SignIn(after)) ELSE RunTask(G, db, v)

Header == "module Main exposing (..)\n\n"
Written(texts) == [texts |-> texts, tree |-> <<>>, subjects |-> {}]
Main(body) == Written(<<Header \o body \o "\n">>)
Lines(ls) == FoldLeft(LAMBDA t, l : t \o l \o "\n", "", ls)

-----------------------------------------------------------------------------
\* Expressions as trees, and their text.

Name(x) == [Node("EVar", 0) EXCEPT !.name = x]
Op(op, l, r) == [Node("EBinop", 0) EXCEPT !.name = op, !.args = <<l, r>>]
Call(f, x) == [Node("EApp", 0) EXCEPT !.args = <<f, x>>]
Minus(e) == [Node("ENegate", 0) EXCEPT !.args = <<e>>]
Field(e, f) == [Node("EFieldAccess", 0) EXCEPT !.name = f, !.args = <<e>>]
If(c, t, e) == [Node("EIf", 0) EXCEPT !.args = <<c, t, e>>]
Lambda(e) == [Node("ELambda", 0) EXCEPT !.pats = <<Wildcard>>, !.args = <<e>>]

Levels == <<{"|>", "<|"}, {"||"}, {"&&"}, {"==", "/=", "<", ">", "<=", ">="}, {"++", "::"},
            {"+", "-"}, {"*", "/", "//"}>>
Level(op) == CHOOSE i \in DOMAIN Levels : op \in Levels[i]
LeftToRight(op) == op \in {"|>", "==", "/=", "<", ">", "<=", ">=", "+", "-", "*", "/", "//"}

\* gap: what stands before an operator.
RECURSIVE Text(_, _)
Text(e, gap) ==
  LET Or(kinds, x) == IF x.k \in kinds THEN "(" \o Text(x, gap) \o ")" ELSE Text(x, gap)
      Open == {"EIf", "ELambda"}
      Left(x) ==
        IF x.k = "EBinop" /\ (Level(x.name) < Level(e.name)
                              \/ (Level(x.name) = Level(e.name) /\ ~LeftToRight(x.name)))
        THEN "(" \o Text(x, gap) \o ")" ELSE Or(Open, x)
      Right(x) ==
        IF x.k = "EBinop" /\ (Level(x.name) < Level(e.name)
                              \/ (Level(x.name) = Level(e.name) /\ LeftToRight(e.name)))
        THEN "(" \o Text(x, gap) \o ")" ELSE Text(x, gap)
      x1 == e.args[1]
  IN
  CASE e.k = "EVar" -> e.name
    [] e.k = "EBinop" -> Left(x1) \o gap \o e.name \o " " \o Right(e.args[2])
    [] e.k = "EApp" -> Or({"EBinop", "ENegate"} \cup Open, x1) \o " "
                       \o Or({"EBinop", "ENegate", "EApp"} \cup Open, e.args[2])
    [] e.k = "ENegate" -> "- " \o Or({"EBinop"} \cup Open, x1)
    [] e.k = "EFieldAccess" -> Or({"EBinop", "ENegate", "EApp"} \cup Open, x1) \o "." \o e.name
    [] e.k = "EIf" -> "if " \o Text(x1, gap) \o " then " \o Text(e.args[2], gap)
                      \o " else " \o Text(e.args[3], gap)
    [] e.k = "ELambda" -> "\\_ -> " \o Text(x1, gap)

a == Name("a")
b == Name("b")
c == Name("c")
Pairs(ops) == {Op(p, Op(q, a, b), c) : p, q \in ops} \cup {Op(p, a, Op(q, b, c)) : p, q \in ops}
Simple == {Op("+", a, b), Op("::", a, b), Call(a, b), Minus(a), Field(a, "f"), If(a, b, c), Lambda(a)}
Around(x) ==
  {Call(x, c), Call(c, x), Minus(x), Field(x, "g"), Op("-", x, c), Op("-", c, x), Op("&&", x, x),
   If(x, x, x), Lambda(x), Call(Call(c, x), x)}
Trees ==
  Pairs(UNION Range(Levels)) \cup UNION {Around(x) : x \in Simple}
  \cup UNION {Around(Op("<|", x, Minus(x))) : x \in Simple}
Gaps == {" ", "\n        ", " {- of {- a -} sum -} ", " -- to come\n    "}
Printed(tree, gap) ==
  [texts |-> <<Header \o "main =\n    " \o Text(tree, gap) \o "\n">>, tree |-> tree, subjects |-> {}]
Expressions ==
  {Printed(t, " ") : t \in Trees} \cup {Printed(t, g) : t \in Pairs({"+", "::", "<|"}), g \in Gaps}

-----------------------------------------------------------------------------
\* Cases: the type of the subject, the patterns to choose from, the values there are.

C0(tag) == VCtor(tag, <<>>)
C1(tag, v) == VCtor(tag, <<v>>)
Sides2 == {C0("L"), C0("R")}
SeqsUpTo(s, n) == UNION {[1 .. m -> s] : m \in 0 .. n}
Subjects ==
  {[type |-> "Maybe Side", pats |-> {"_", "Nothing", "Just _", "Just L", "Just R"},
    values |-> {Nothing} \cup {Just(s) : s \in Sides2}],
   [type |-> "(Side, Side)", pats |-> {"_", "(L, _)", "(_, R)", "(R, x)", "(L, L)"},
    values |-> {VTuple(<<s, t>>) : s, t \in Sides2}],
   [type |-> "List Side", pats |-> {"[]", "x :: _", "L :: _", "R :: _", "[_, x]"},
    values |-> {VList(es) : es \in SeqsUpTo(Sides2, 3)}],
   [type |-> "Box (Box Side)",
    pats |-> {"Empty", "Full _", "Full Empty", "Full (Full x)", "Full (Full L)"},
    values |-> {C0("Empty"), C1("Full", C0("Empty"))} \cup {C1("Full", C1("Full", s)) : s \in Sides2}],
   [type |-> "Int", pats |-> {"_", "0", "1", "n"}, values |-> {VInt(n) : n \in 0 .. 2}]}

Case(subject, pats) ==
  [texts |->
     <<Header \o Lines(<<"type Side = L | R", "type Box a = Full a | Empty",
                         "pick : " \o subject.type \o " -> Int", "pick s =", "    case s of">>)
       \o Lines([i \in DOMAIN pats |-> "        " \o pats[i] \o " -> " \o ToString(i)])
       \o "main = pick\n">>,
   tree |-> <<>>, subjects |-> subject.values]
\* A pattern is repeated only among two.
Cases ==
  UNION {{Case(s, pats) : pats \in {q \in SeqsUpTo(s.pats, 3) : q # <<>> /\ (Len(q) = 3 => IsInjective(q))}} :
           s \in Subjects}

\* A case over a Bool.
BoolCases ==
  {Main("main = case " \o value \o " of\n  " \o p \o " -> 1\n  " \o q \o " -> 2") :
     value \in {"True", "False", "(1 == 2)"}, p, q \in {"True", "False", "_"}}

-----------------------------------------------------------------------------
\* Calls: expressions of a type, the first the plainest.  A variable of a builtin's type stands
\* for Int, or what its kind allows.

RECURSIVE Samples(_)
Samples(t) ==
  LET First(s) == Samples(s)[1]
      Each2(f, xs) == [i \in DOMAIN xs |-> "(" \o f \o " " \o xs[i] \o ")"]
      x1 == Samples(t.args[1])
      x2 == Samples(t.args[2])
  IN
  CASE t.k = "var" -> IF t.kind = "appendable" THEN <<"\"a\"">> ELSE <<"2", "0">>
    [] t.k = "rec" -> <<"{ none = 1 }">>
    [] OTHER ->
       CASE t.name = "Int" -> <<"2", "0", "(-3)", "7">>
         [] t.name = "Decimal" -> <<"1.5", "(-0.25)", "99.9">>
         [] t.name = "String" -> <<"\"b a\"", "\"\"", "\" -7.5\"", "\"a\"">>
         [] t.name = "Char" -> <<"'b'", "'Z'", "'7'">>
         [] t.name = "Bool" -> <<"True", "False">>
         [] t.name = "Order" -> <<"LT", "GT">>
         [] t.name = "Decimal.Rounding" -> <<"Decimal.HalfEven", "Decimal.Floor">>
         [] t.name = "Decimal.Division" -> <<"(1.0 / 3.0)", "(1.0 / 0.0)">>
         [] t.name = "Maybe" -> Each2("Just", x1) \o <<"Nothing">>
         [] t.name = "Result" -> Each2("Ok", x2) \o Each2("Err", x1)
         [] t.name = "List" -> <<"[" \o x1[1] \o ", " \o x1[Len(x1)] \o "]", "[]">>
         [] t.name = "#tuple" -> <<"(" \o x1[1] \o ", " \o x2[1] \o ")">>
         [] t.name = "Dict" -> <<"(Dict.singleton " \o x1[1] \o " " \o x2[1] \o ")", "Dict.empty">>
         [] t.name = "Set" -> <<"(Set.fromList [" \o x1[1] \o "])", "Set.empty">>
         [] t.name = "->" -> <<"(\\_ -> " \o First(t.args[2]) \o ")">>
         [] OTHER -> <<"()">>

RECURSIVE Params(_)
Params(t) == IF t.k = "con" /\ t.name = "->" THEN <<t.args[1]>> \o Params(t.args[2]) ELSE <<>>

Operators == DOMAIN Precedence
Apply2(f, xs) ==
  IF f \in Operators THEN xs[1] \o " " \o f \o " " \o xs[2]
  ELSE FoldLeft(LAMBDA t, x : t \o " " \o x, f, xs)

\* A call with the plainest arguments but one; that one is any sample, or of another type.
CallsOf(f) ==
  LET params == Params(BuiltinTypes[f].body)
      plain == [i \in DOMAIN params |-> Samples(params[i])[1]]
      With(i, x) == Apply2(f, [plain EXCEPT ![i] = x])
  IN  {Apply2(f, plain)}
      \cup UNION {{With(i, x) : x \in Range(Samples(params[i])) \cup {"()"}} : i \in DOMAIN params}

Callable == (DOMAIN BuiltinTypes) \ (DOMAIN EffectTakes \cup DOMAIN EffectValues \cup {"listSumDecimal", "listProductDecimal"})
Calls == {Main("main = " \o call) : call \in UNION {CallsOf(f) : f \in Callable}}

-----------------------------------------------------------------------------
\* Declarations: one text each, in every order.

Module(name, lines) == "module " \o name \o " exposing (..)\n\n" \o Lines(lines)
Single(lines) == Written(<<Module("Main", lines)>>)
InEveryOrder(decls) == {Single(order) : order \in SetToSeqs(decls)}

Orders ==
  UNION {InEveryOrder(decls) : decls \in
    {{"main = b + c", "b = f c", "c = 2", "f n = n + 1"},
     {"main = (d, x)", "x = let d = 3 in d", "d = x + 1"},
     {"main = [y, z]", "y = z + z", "z = y"},
     {"main = g 3", "g n = h n", "h n = if n == 0 then 7 else g (n - 1)", "k = main"},
     {"main = k", "k = g 3", "g n = if n == 0 then k else g (n - 1)"},
     {"type alias Here = Spot", "type Spot = At Point", "type alias Point = { x : Int }",
      "main = here (At (Point 2))\nhere : Here -> Int\nhere s = case s of\n  At p -> p.x"}}}

\* What is generalised, and what is not.
Generality ==
  {Main(body) : body \in
    {"main = let same = \\x -> x in (same 1, same \"a\")",
     "f x = let y = x in (y + 1, y ++ \"a\")\nmain = f 1",
     "f x = let y = \\z -> (x, z) in (y 1, y \"a\")\nmain = f 1",
     "f x = let y = \\z -> [x, z] in (y 1, y \"a\")\nmain = f 1",
     "same x = x\nmain = (same 1, same \"a\")", "f x = x x\nmain = f f", "f x = f\nmain = f 1",
     "main = let (p, q) = (1, \"a\") in (q, p)", "same : a -> a\nsame x = x\nmain = same same 2",
     "main = let none = [] in (1 :: none, \"a\" :: none)",
     "main = let x = 1 in let x = x + 1 in x", "x = 1\nmain = let y = x in \\x -> (x, y)"}}

\* A literal is an Int or a Decimal by what is done with it.
Numbers ==
  {Main("main = " \o e) : e \in
    {"1 + 1.5", "List.sum [1, 1.5]", "List.sum (List.drop 1 [1.5])", "List.product (List.drop 1 [2])",
     "List.map (\\x -> x + 1) [1.5]", "(\\x -> x * 2) 1.5", "if True then 1 else 2.5", "- 1 + 2.5",
     "[1, 2.5, 3]", "let half = 0.5 in 1 - half", "7 * 7", "99.9 * 99.9", "1 + \"a\"", "- \"a\""}}

\* Records, their constructors and their fields.
Records ==
  {Main("type alias P = { x : Int, y : Int }\nmain = " \o e) : e \in
    {"P 1 2", "(P 1 2).y", "P 1", "List.map (P 1) [2, 3]", "let p = P 1 2 in { p | x = 3 }",
     "List.map .x [P 1 2, { y = 1, x = 2 }]", "let p = P 1 2 in { p | z = 3 }", "(P 1 2).z",
     "case P 1 2 of\n  { x, y } -> x - y", "P 1 \"a\"", "{ x = 1, x = \"a\" }", "{ x = 1 } == { y = 1 }"}}

\* Recursion that ends, and that does not: by itself, by an operator, by a builtin, by a field.
Recursions ==
  {Main(body) : body \in
    {"f n = f n\nmain = f 1", "f n = 1 + f n\nmain = f 1", "f n = List.any f [n]\nmain = f 1",
     "f n = List.any (\\x -> f x) [n]\nmain = f 1", "f n = n |> f\nmain = f 1",
     "f n = f <| n\nmain = f 1", "f n = Maybe.withDefault 1 (Maybe.map f (Just n))\nmain = f 1",
     "f n = g n\ng n = List.any f [n]\nmain = f 1", "f n = { a = f n }.a\nmain = f 1",
     "f n = if n == 0 then 0 else n + f (n - 1)\nmain = f 3",
     "f xs = case xs of\n  [] -> 0\n  y :: ys -> y + f ys\nmain = f [1, 2, 3]"}}

\* Tasks and commands, which are values until somebody runs them.
Tasks ==
  {Main("main = " \o e) : e \in
    {"Task.map (\\x -> x + 1) (Task.succeed 1)", "Task.map (\\x -> x + 1) (Task.succeed \"a\")",
     "Task.forEach (\\_ -> Task.succeed ()) [1]", "Task.forEach (\\x -> Task.succeed x) [1]",
     "Task.sequence [Task.succeed 1, Task.fail \"no\"]", "Task.sequence [Task.succeed 1, Cmd.none]",
     "Cmd.batch [Cmd.perform (\\x -> x) (Task.succeed 1), Cmd.none]", "Cmd.batch [Task.succeed 1]"}}

\* Texts that are no module, or whose names mean nothing.
Refusals ==
  {Written(texts) : texts \in
    {<<"main = 1">>, <<Header \o "main = (1">>, <<Header \o "main = 1 +">>, <<Header \o "main = x">>,
     <<Header \o "main = \\x 1">>, <<Header \o "main = if True then 1">>,
     <<Header \o "main = 1 == 2 == 3">>, <<Header \o "main = X">>, <<Header \o "type Int = X\nmain = X">>,
     <<Header \o "type T = Just\nmain = Just">>, <<Header \o "f : Nowhere.T\nf = 1\nmain = f">>,
     <<Header \o "import Nowhere\nmain = 1">>, <<Header \o "main = 1", Header \o "main = 2">>}}

-----------------------------------------------------------------------------
\* Projects of several modules: what is imported under which name, and what a page needs.

Geo == Module("Geo", <<"type alias P = { x : Int, y : Int }", "type Kind = Near | Far Int",
                       "origin = P 0 0", "far n = Far (n + origin.x)">>)
Imports ==
  {"import Geo exposing (..)", "import Geo exposing (P, Kind(..), far, origin)",
   "import Geo exposing (P, Kind, far)", "import Geo", "import Geo as G"}
Usages ==
  {"(P 1 2).x", "Geo.P 1 2", "Near", "Geo.Near", "[far 1, Far 2]", "Geo.far 3", "{ origin | x = 1 }",
   "case far 1 of\n  Near -> 0\n  Far n -> n", "List.map (Geo.P 1) [2]"}
Naming ==
  {Written(<<Geo, Module("Main", <<import, "main = " \o use>>)>>) : import \in Imports, use \in Usages}
  \cup {Written(<<Module("A", <<"import B exposing (b)", "a = 1">>),
                 Module("B", <<"import A exposing (a)", "b = a">>), Module("Main", <<"main = 1">>)>>),
        Written(<<Module("A", <<"import B exposing (..)", "main = b + 1">>),
                  Module("B", <<"import C exposing (c)", "b = c + c">>), Module("C", <<"c = 2">>)>>)}

PageOf(path, init, step, view) ==
  "Page.create { path = \"" \o path \o "\", init = (" \o init \o ", Cmd.none), update = \\m n -> "
  \o step \o ", view = \\n -> UI.text [] (" \o view \o "), subscriptions = \\_ -> Sub.none }"
App(services, pages) == "main = App.fullstack { services = [" \o services \o "], pages = [" \o pages \o "] }"

\* Two pages in modules of their own over a third, which has more than they need.
Labels(msg) ==
  Module("Labels", <<"type Msg = Clicked | Got (Result Service.Error Int)", msg,
                     "label n = if n == 0 then zero else more ++ mark", "more = zero ++ mark",
                     "mark = \"!\"", "zero = \"0\"", "spare = label 2">>)
PageModule(name, imports, body) == Module(name, imports \o <<body>>)
Step == "(n + 1, Cmd.none)"
Stepped == "case m of\n    Clicked -> (n + 1, Cmd.none)\n    Got r -> (Result.withDefault n r, Cmd.none)"
TwoPagesOf(homeImports, homeView, aboutImports, aboutView) ==
  Written(<<PageModule("About", aboutImports, "about = " \o PageOf("/about", "1", Step, aboutView)),
            PageModule("Home", homeImports, "home = " \o PageOf("/", "0", "(" \o Stepped \o ")", homeView)),
            Labels("next = Clicked"),
            Module("Main", <<"import Home exposing (home)", "import About", App("", "home, About.about")>>)>>)
TwoPages ==
  {TwoPagesOf(<<"import Labels exposing (..)">>, "label n", <<imports>>, view) :
     imports \in {"import Labels", "import Labels exposing (label)", "import Labels exposing (..)"},
     view \in {"Labels.label n", "label n", "Labels.more ++ Labels.label n"}}
  \cup {TwoPagesOf(<<"import Labels exposing (Msg(..), label)", "import About exposing (..)">>, view,
             <<"import Labels exposing (mark)">>, "mark") :
          view \in {"label n", "let mark = \"?\" in mark", "let label = \\_ -> \"?\" in label n"}}
  \cup {Single(<<App("", PageOf("/", "0", Step, "\"\""))>>),
        Single(<<"type Msg = Clicked", "price = 2 * 1.5",
                 "home = " \o PageOf("/", "0", Step, "Decimal.toString (1 - price)"), App("", "home")>>)}

\* A page whose view calls itself so many times, in one way or another.
Depths ==
  {Single(<<"type Msg = Clicked", "f n = if n == 0 then \"\" else " \o way,
            "home = " \o PageOf("/", n, Step, "f n"), App("", "home")>>) :
     n \in {"0", "2", "6"},
     way \in {"\"x\" ++ f (n - 1)", "(n - 1) |> f", "Maybe.withDefault \"\" (Maybe.map f (Just (n - 1)))",
              "String.join \"\" (List.map f [n - 1, 0])", "f n"}}
  \cup {Single(<<"type Msg = Clicked", "down n = if n == 0 then 0 else 1 + down (n - 1)",
                 "home = " \o PageOf("/", "down " \o n, Step, "\"\""), App("", "home")>>) : n \in {"2", "6"}}

\* One module with a table, a service over it and a page that calls the service.
Table == "notes = Entity.define { name = \"notes\", columns = { id = Entity.serial, n = Entity.int Entity.notNull }, uniques = [] }"
Handlers ==
  {"Repo.all notes", "Task.andThen (\\_ -> Repo.all notes) (add r)", "add r",
   "Task.andThen (\\_ -> later r) (Repo.all notes)", "Task.succeed []",
   "Task.map List.length (Repo.all notes)", "Task.andThen (\\_ -> Task.fail \"no\") (add r)",
   "Task.forEach (\\_ -> Task.map (\\_ -> ()) (add r)) [1, 2]",
   "Task.sequence [Repo.all notes, Task.fail \"no\"]",
   "Task.sequence [Task.succeed [], Task.map (\\x -> [x]) (add r)]"}
Helpers == <<"later r = add r", "add r = Repo.create notes { n = 1 }">>
Served(verb, handler, view) ==
  Written(<<Module("Main",
    <<"type Msg a = Clicked | Got a", Table>> \o Helpers
    \o <<"list = Service.declare " \o verb \o " \"/notes\"",
          "serve = Service.implement list (\\r -> " \o handler \o ")", "note = \"n\"",
          "home = " \o PageOf("/", "0", "(n + 1, Service.call list () Got)", view),
          App("serve", "home")>>)>>)
Services1 == {Served(verb, handler, "note") : verb \in {"GET", "POST"}, handler \in Handlers}
             \cup {Served("GET", "Repo.all notes", "let x = add in note")}

\* The same with the writes in another module, under every way to name them.
Store == Module("Store", <<Table>> \o Helpers)
Stored(verb, import, handler) ==
  Written(<<Module("Main",
    <<import, "list = Service.declare " \o verb \o " \"/notes\"",
      "serve = Service.implement list (\\r -> " \o handler \o ")",
      "home = " \o PageOf("/", "0", Step, "\"\""), App("serve", "home")>>), Store>>)
Services2 ==
  {Stored(verb, "import Store exposing (..)", handler) : verb \in {"GET", "POST"}, handler \in Handlers}
  \cup {Stored("GET", "import Store", handler) :
           handler \in {"Store.later r", "Repo.all Store.notes", "Task.andThen Store.add (Store.later r)"}}

-----------------------------------------------------------------------------
\* One row of one table, by each operation that takes a record.

\* The values to choose from, by the name they are given: literals, what is computed, what is
\* wrapped, what the clock says, and what is no scalar.
FieldValues1 ==
  {"1", "(1 + 2)", "\"b\"", "(\"b\" ++ \"c\")", "True", "(1 == 2)", "On", "Elsewhere",
   "1.5", "1.234", "now", "(Just 1)", "(Just \"b\")", "[1]"}
ColumnsOf ==
  {"Entity.int Entity.notNull", "Entity.text Entity.notNull", "Entity.bool Entity.notNull",
   "Entity.timestamp Entity.notNull", "Entity.decimal 2 Entity.notNull", "Entity.enum [On, Off] Entity.notNull"}
Own == [id |-> "id = Entity.serial, ", types |-> "type Lamp = On | Off\n\ntype Other = Elsewhere\n\n"]
Entity(name, columns, uniques) ==
  "rows = Entity.define { name = " \o name \o ", columns = { " \o columns \o " }, uniques = [" \o uniques \o "] }\n"
OneColumn(column) == Entity("\"rows\"", Own.id \o "c = " \o column, "")
Does(entity, task) == Main(Own.types \o entity \o "main = Task.andThen (\\now -> " \o task \o ") Time.now")
Creates(entity, fields) == Does(entity, "Repo.create rows { " \o fields \o " }")

\* A row to begin with, and then another look at it.
First(column) ==
  CASE column = "Entity.int Entity.notNull" -> "1" [] column = "Entity.text Entity.notNull" -> "\"b\""
    [] column = "Entity.bool Entity.notNull" -> "True" [] column = "Entity.timestamp Entity.notNull" -> "now"
    [] column = "Entity.decimal 2 Entity.notNull" -> "1.5" [] OTHER -> "On"
Again(column, task) ==
  Does(OneColumn(column), "Task.andThen (\\_ -> " \o task \o ") (Repo.create rows { c = " \o First(column) \o " })")

Rows ==
  {Creates(OneColumn(column), "c = " \o v) : column \in ColumnsOf, v \in FieldValues1}
  \cup {Again(column, task \o " { c = " \o v \o " }") :
          column \in ColumnsOf, task \in {"Repo.findBy rows", "Repo.update rows 1"}, v \in FieldValues1}
  \cup {Again("Entity.int Entity.notNull", task) :
          task \in {"Repo.findById rows 1", "Repo.findById rows 2", "Repo.update rows 1 {}",
                    "Repo.update rows 2 { c = 2 }", "Repo.update rows 1 { id = 2 }", "Repo.findBy rows { id = 1 }",
                    "Repo.findBy rows { d = 1 }", "Repo.update rows 1 { d = 1 }", "Repo.findBy rows {}",
                    "Task.andThen (\\_ -> Repo.all rows) (Repo.deleteById rows 1)", "Repo.create rows { c = 2, id = 1 }"}}

\* Declarations of every kind, and rows that have too little or too much.
Declarations ==
  LET two == Own.id \o "c = Entity.int Entity.notNull, d = Entity.timestamp Entity.notNull"
      one == Own.id \o "c = Entity.int Entity.notNull"
      Twice(entity) == Does(entity, "Task.andThen (\\_ -> Repo.create rows { c = 1 + 0 }) (Repo.create rows { c = 1 })")
  IN
  {Creates(Entity("\"rows\"", two, uniques), fields) :
     uniques \in {"", "[\"c\"]", "[\"c\", \"c\"]", "[\"e\"]", "[]"},
     fields \in {"c = 1, d = now", "c = 1", "d = now", "c = 1, d = now, e = 1", "c = 1, c = 2, d = now"}}
  \cup {Creates(Entity(name, one, ""), "c = 1") :
          name \in {"\"a row\"", "\"_mar_rows\"", "\"sqlite_rows\"", "\"\"", "\"7rows\"", "\"Rows_7\"", "(\"ro\" ++ \"ws\")"}}
  \cup {Twice(Entity("\"rows\"", one, uniques)) : uniques \in {"", "[\"c\"]", "[\"c\", \"id\"]"}}
  \cup {Creates(entity, "c = 1") : entity \in
          {Entity("\"rows\"", "c = Entity.int Entity.notNull", ""), Entity("\"rows\"", "id = Entity.serial", ""),
           Entity("\"rows\"", Own.id \o "c = count", "") \o "count = Entity.int Entity.notNull\n",
           Entity("\"rows\"", Own.id \o "c = Entity.enum [] Entity.notNull", ""),
           Entity("\"rows\"", Own.id \o "c = Entity.decimal 7 Entity.notNull", ""),
           Entity("\"rows\"", one, "") \o "more = Entity.define { name = \"rows\", columns = { " \o one \o " }, uniques = [] }\n",
           "spec = { name = \"rows\", columns = { " \o one \o " }, uniques = [] }\nrows = Entity.define spec\nmore = Entity.define spec\n"}}

\* Signing up.
Users(columns) == Entity("\"rows\"", Own.id \o columns, "")
SignsUp(columns, email, signup) ==
  Main(Own.types \o Users(columns) \o "main = Auth.config { entity = rows, identify = \\u -> u.email, email = "
       \o email \o ", signup = \\e -> " \o signup \o " }")
Mail == "{ subject = \"hello\" }"
Signups ==
  LET columns == "email = Entity.text Entity.notNull, at = Entity.timestamp Entity.notNull"
  IN
  {SignsUp(columns, Mail, "{ " \o fields \o " }") : fields \in
     {"email = e", "email = e, at = 0", "email = 1", "email = 1 == 1", "at = 0", "mail = e", "email = e, id = 1",
      "email = e ++ e"}}
  \cup {SignsUp(columns, mail, "{ email = e }") : mail \in {"{}", "{ subject = \"\" }", "{ subject = \"a\", from = \"b\" }"}}
  \cup {SignsUp("name = Entity.text Entity.notNull", Mail, "{ name = e }"), SignsUp("n = Entity.int Entity.notNull", Mail, "{ n = 1 }"),
        SignsUp(columns, Mail, "if e == \"\" then { email = 1 } else { email = 2 }")}

\* Two modules with an entity of one name, whose schemas the lint takes for each other.
SameName ==
  {Written(<<Module("Main", <<"import Store", Entity("\"rows\"", Own.id \o "c = Entity." \o column \o " Entity.notNull", ""),
                              "main = Repo.create rows { c = " \o v \o " }">>),
             Module("Store", <<Entity("\"other\"", Own.id \o "c = Entity.text Entity.notNull", "")>>)>>) :
     column \in {"int", "text"}, v \in {"1", "\"b\""}}

MCPrograms ==
  LET generated == Expressions \cup Cases \cup Calls \cup Orders
      written == Generality \cup Numbers \cup Records \cup Recursions \cup Tasks \cup Refusals
      projects == Naming \cup TwoPages \cup Depths \cup Services1 \cup Services2
      rows == Rows \cup Declarations \cup Signups \cup SameName
  IN  generated \cup written \cup projects \cup rows
=============================================================================
