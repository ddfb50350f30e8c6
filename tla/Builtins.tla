------------------------------ MODULE Builtins ------------------------------
(***************************************************************************)
(* The types of the operators and of the standard library, under the names *)
(* a program calls them by.  The variables in a type are those it is       *)
(* general over.                                                           *)
(***************************************************************************)
EXTENDS Infer

A == Var(101, "any")
B == Var(102, "any")
C == Var(103, "any")
D == Var(104, "any")
K == Var(105, "comparable")
J == Var(106, "comparable")
Num == Var(107, "number")
Joined == Var(108, "appendable")
Row == Var(109, "any")

IntType == Base("Int")
BoolType == Base("Bool")
DecimalType == Base("Decimal")
StringType == Base("String")
CharType == Base("Char")
OrderType == Base("Order")
Rounding == Base("Decimal.Rounding")
Division == Base("Decimal.Division")
MaybeOf(t) == Con("Maybe", <<t>>)
ResultOf(e, t) == Con("Result", <<e, t>>)
DictOf(t) == Con("Dict", <<K, t>>)
SetOf(t) == Con("Set", <<t>>)
PairOf(s, t) == TupleOfTypes(<<s, t>>)

\* names, each a function of these arguments (or a value, of none).
Typed(names, args, result) ==
  LET t == Curried(args, result) IN [n \in names |-> Scheme(VarsIn(t), t)]

OperatorTypes ==
  Typed({"+", "-", "*"}, <<Num, Num>>, Num)
  @@ Typed({"//", "modBy", "remainderBy"}, <<IntType, IntType>>, IntType)
  @@ Typed({"/"}, <<DecimalType, DecimalType>>, Division)
  @@ Typed({"always"}, <<A, B>>, A)
  @@ Typed({"==", "/="}, <<A, A>>, BoolType)
  @@ Typed({"<", ">", "<=", ">="}, <<K, K>>, BoolType)
  @@ Typed({"&&", "||"}, <<BoolType, BoolType>>, BoolType)
  @@ Typed({"not"}, <<BoolType>>, BoolType)
  @@ Typed({"max", "min"}, <<K, K>>, K)
  @@ Typed({"clamp"}, <<K, K, K>>, K)
  @@ Typed({"abs"}, <<Num>>, Num)
  @@ Typed({"++"}, <<Joined, Joined>>, Joined)
  @@ Typed({"::"}, <<A, ListOf(A)>>, ListOf(A))
  @@ Typed({"|>"}, <<A, Arrow(A, B)>>, B)
  @@ Typed({"<|"}, <<Arrow(A, B), A>>, B)

ConstructorTypes ==
  Typed({"True", "False"}, <<>>, BoolType)
  @@ Typed({"Nothing"}, <<>>, MaybeOf(A))
  @@ Typed({"Just"}, <<A>>, MaybeOf(A))
  @@ Typed({"Ok"}, <<B>>, ResultOf(A, B))
  @@ Typed({"Err"}, <<A>>, ResultOf(A, B))
  @@ Typed({"LT", "EQ", "GT"}, <<>>, OrderType)

DecimalTypes ==
  Typed({"Decimal.HalfEven", "Decimal.HalfUp", "Decimal.Down", "Decimal.Up", "Decimal.Floor",
         "Decimal.Ceiling"}, <<>>, Rounding)
  @@ Typed({"Decimal.zero"}, <<>>, DecimalType)
  @@ Typed({"Decimal.fromInt", "Decimal.fromCents"}, <<IntType>>, DecimalType)
  @@ Typed({"Decimal.toCents", "Decimal.truncate", "Decimal.round", "Decimal.floor",
            "Decimal.ceiling"}, <<DecimalType>>, IntType)
  @@ Typed({"Decimal.toIntWith"}, <<Rounding, DecimalType>>, IntType)
  @@ Typed({"Decimal.toScale"}, <<Rounding, IntType, DecimalType>>, DecimalType)
  @@ Typed({"Decimal.abs", "Decimal.negate"}, <<DecimalType>>, DecimalType)
  @@ Typed({"Decimal.compare"}, <<DecimalType, DecimalType>>, OrderType)
  @@ Typed({"Decimal.fromString"}, <<StringType>>, MaybeOf(DecimalType))
  @@ Typed({"Decimal.toString"}, <<DecimalType>>, StringType)
  @@ Typed({"Decimal.rounded"}, <<Rounding, IntType, Division>>, DecimalType)
  @@ Typed({"Decimal.withRemainder"}, <<IntType, Division>>,
           Record([f \in {"quotient", "remainder"} |-> DecimalType], Closed))

\* Sorting and the extremes put no kind on the element type.
ListTypes ==
  LET L == ListOf(A)
      Test == Arrow(A, BoolType)
  IN
  Typed({"List.length"}, <<L>>, IntType)
  @@ Typed({"List.map"}, <<Arrow(A, B), L>>, ListOf(B))
  @@ Typed({"List.filter"}, <<Test, L>>, L)
  @@ Typed({"List.foldl", "List.foldr"}, <<Curried(<<A, B>>, B), B, L>>, B)
  @@ Typed({"List.sum", "List.product"}, <<ListOf(Num)>>, Num)
  @@ Typed({"List.range"}, <<IntType, IntType>>, ListOf(IntType))
  @@ Typed({"List.reverse", "List.sort"}, <<L>>, L)
  @@ Typed({"List.head", "List.maximum", "List.minimum"}, <<L>>, MaybeOf(A))
  @@ Typed({"List.tail"}, <<L>>, MaybeOf(L))
  @@ Typed({"List.isEmpty"}, <<L>>, BoolType)
  @@ Typed({"List.concat"}, <<ListOf(L)>>, L)
  @@ Typed({"List.take", "List.drop"}, <<IntType, L>>, L)
  @@ Typed({"List.move"}, <<IntType, IntType, L>>, L)
  @@ Typed({"List.member"}, <<A, L>>, BoolType)
  @@ Typed({"List.any", "List.all"}, <<Test, L>>, BoolType)
  @@ Typed({"List.indexedMap"}, <<Curried(<<IntType, A>>, B), L>>, ListOf(B))
  @@ Typed({"List.repeat"}, <<IntType, A>>, L)
  @@ Typed({"List.intersperse"}, <<A, L>>, L)
  @@ Typed({"List.partition"}, <<Test, L>>, PairOf(L, L))
  @@ Typed({"List.concatMap"}, <<Arrow(A, ListOf(B)), L>>, ListOf(B))
  @@ Typed({"List.filterMap"}, <<Arrow(A, MaybeOf(B)), L>>, ListOf(B))
  @@ Typed({"List.sortBy"}, <<Arrow(A, B), L>>, L)
  @@ Typed({"List.sortWith"}, <<Curried(<<A, A>>, OrderType), L>>, L)
  @@ [n \in {"listSumDecimal", "listProductDecimal"} |-> Mono(Arrow(ListOf(DecimalType), DecimalType))]

ResultTypes ==
  LET M == MaybeOf(A)
      R == ResultOf(A, B)
  IN
  Typed({"Maybe.withDefault"}, <<A, M>>, A)
  @@ Typed({"Maybe.map"}, <<Arrow(A, B), M>>, MaybeOf(B))
  @@ Typed({"Maybe.andThen"}, <<Arrow(A, MaybeOf(B)), M>>, MaybeOf(B))
  @@ Typed({"Result.map"}, <<Arrow(B, C), R>>, ResultOf(A, C))
  @@ Typed({"Result.andThen"}, <<Arrow(B, ResultOf(A, C)), R>>, ResultOf(A, C))
  @@ Typed({"Result.mapError"}, <<Arrow(A, C), R>>, ResultOf(C, B))
  @@ Typed({"Result.withDefault"}, <<B, R>>, B)
  @@ Typed({"Result.fromMaybe"}, <<A, MaybeOf(B)>>, R)
  @@ Typed({"Result.toMaybe"}, <<R>>, MaybeOf(B))
  @@ Typed({"Maybe.map2"}, <<Curried(<<A, B>>, C), M, MaybeOf(B)>>, MaybeOf(C))
  @@ Typed({"Maybe.map3"}, <<Curried(<<A, B, C>>, D), M, MaybeOf(B), MaybeOf(C)>>, MaybeOf(D))
  @@ Typed({"Maybe.andMap"}, <<M, MaybeOf(Arrow(A, B))>>, MaybeOf(B))
  @@ Typed({"Maybe.filter"}, <<Arrow(A, BoolType), M>>, M)

TupleTypes ==
  LET T == PairOf(A, B)
  IN
  Typed({"Tuple.first"}, <<T>>, A)
  @@ Typed({"Tuple.second"}, <<T>>, B)
  @@ Typed({"Tuple.pair"}, <<A, B>>, T)
  @@ Typed({"Tuple.mapFirst"}, <<Arrow(A, C), T>>, PairOf(C, B))
  @@ Typed({"Tuple.mapSecond"}, <<Arrow(B, C), T>>, PairOf(A, C))
  @@ Typed({"Tuple.mapBoth"}, <<Arrow(A, C), Arrow(B, D), T>>, PairOf(C, D))

StringTypes ==
  LET Test == Arrow(CharType, BoolType)
      Texts == ListOf(StringType)
  IN
  Typed({"String.length"}, <<StringType>>, IntType)
  @@ Typed({"String.contains", "String.startsWith", "String.endsWith"},
           <<StringType, StringType>>, BoolType)
  @@ Typed({"String.fromInt"}, <<IntType>>, StringType)
  @@ Typed({"String.toUpper", "String.toLower", "String.trim"}, <<StringType>>, StringType)
  @@ Typed({"String.split"}, <<StringType, StringType>>, Texts)
  @@ Typed({"String.join"}, <<StringType, Texts>>, StringType)
  @@ Typed({"String.toInt"}, <<StringType>>, MaybeOf(IntType))
  @@ Typed({"String.replace"}, <<StringType, StringType, StringType>>, StringType)
  @@ Typed({"String.repeat"}, <<IntType, StringType>>, StringType)
  @@ Typed({"String.padLeft", "String.padRight"}, <<IntType, CharType, StringType>>, StringType)
  @@ Typed({"String.indexes"}, <<StringType, StringType>>, ListOf(IntType))
  @@ Typed({"String.toList"}, <<StringType>>, ListOf(CharType))
  @@ Typed({"String.fromList"}, <<ListOf(CharType)>>, StringType)
  @@ Typed({"String.cons"}, <<CharType, StringType>>, StringType)
  @@ Typed({"String.map"}, <<Arrow(CharType, CharType), StringType>>, StringType)
  @@ Typed({"String.filter"}, <<Test, StringType>>, StringType)
  @@ Typed({"String.foldl"}, <<Curried(<<CharType, B>>, B), B, StringType>>, B)
  @@ Typed({"String.any"}, <<Test, StringType>>, BoolType)

CharTypes ==
  Typed({"Char.toCode"}, <<CharType>>, IntType)
  @@ Typed({"Char.fromCode"}, <<IntType>>, CharType)
  @@ Typed({"Char.isDigit", "Char.isAlpha", "Char.isUpper", "Char.isLower"}, <<CharType>>, BoolType)
  @@ Typed({"Char.toUpper", "Char.toLower"}, <<CharType>>, CharType)

DictTypes ==
  LET Of == DictOf(B)
      Test == Curried(<<K, B>>, BoolType)
  IN
  Typed({"Dict.empty"}, <<>>, Of)
  @@ Typed({"Dict.singleton"}, <<K, B>>, Of)
  @@ Typed({"Dict.insert"}, <<K, B, Of>>, Of)
  @@ Typed({"Dict.update"}, <<K, Arrow(MaybeOf(B), MaybeOf(B)), Of>>, Of)
  @@ Typed({"Dict.remove"}, <<K, Of>>, Of)
  @@ Typed({"Dict.isEmpty"}, <<Of>>, BoolType)
  @@ Typed({"Dict.member"}, <<K, Of>>, BoolType)
  @@ Typed({"Dict.get"}, <<K, Of>>, MaybeOf(B))
  @@ Typed({"Dict.size"}, <<Of>>, IntType)
  @@ Typed({"Dict.keys"}, <<Of>>, ListOf(K))
  @@ Typed({"Dict.values"}, <<Of>>, ListOf(B))
  @@ Typed({"Dict.toList"}, <<Of>>, ListOf(PairOf(K, B)))
  @@ Typed({"Dict.fromList"}, <<ListOf(PairOf(K, B))>>, Of)
  @@ Typed({"Dict.map"}, <<Curried(<<K, B>>, C), Of>>, DictOf(C))
  @@ Typed({"Dict.foldl", "Dict.foldr"}, <<Curried(<<K, B, C>>, C), C, Of>>, C)
  @@ Typed({"Dict.filter"}, <<Test, Of>>, Of)
  @@ Typed({"Dict.partition"}, <<Test, Of>>, PairOf(Of, Of))
  @@ Typed({"Dict.union", "Dict.intersect", "Dict.diff"}, <<Of, Of>>, Of)

SetTypes ==
  LET Of == SetOf(K)
      Test == Arrow(K, BoolType)
  IN
  Typed({"Set.empty"}, <<>>, Of)
  @@ Typed({"Set.singleton"}, <<K>>, Of)
  @@ Typed({"Set.insert", "Set.remove"}, <<K, Of>>, Of)
  @@ Typed({"Set.isEmpty"}, <<Of>>, BoolType)
  @@ Typed({"Set.member"}, <<K, Of>>, BoolType)
  @@ Typed({"Set.size"}, <<Of>>, IntType)
  @@ Typed({"Set.toList"}, <<Of>>, ListOf(K))
  @@ Typed({"Set.fromList"}, <<ListOf(K)>>, Of)
  @@ Typed({"Set.map"}, <<Arrow(K, J), Of>>, SetOf(J))
  @@ Typed({"Set.foldl", "Set.foldr"}, <<Curried(<<K, B>>, B), B, Of>>, B)
  @@ Typed({"Set.filter"}, <<Test, Of>>, Of)
  @@ Typed({"Set.partition"}, <<Test, Of>>, PairOf(Of, Of))
  @@ Typed({"Set.union", "Set.intersect", "Set.diff"}, <<Of, Of>>, Of)

TaskOf(t) == Con("Task", <<t>>)
EntityOf(t) == Con("Entity", <<t>>)
ColumnOf(t) == Con("Column", <<t>>)
Constraint == Base("Constraint")
TimeType == Base("Time")
ServiceOf(req, resp) == Con("Service", <<req, resp>>)
CmdOf(t) == Con("Cmd", <<t>>)
ViewType == Con("View", <<B>>)

TaskTypes ==
  Typed({"Cmd.none"}, <<>>, CmdOf(A))
  @@ Typed({"Sub.none"}, <<>>, Con("Sub", <<A>>))
  @@ Typed({"Task.succeed"}, <<B>>, TaskOf(B))
  @@ Typed({"Task.fail"}, <<StringType>>, TaskOf(B))
  @@ Typed({"Task.map"}, <<Arrow(B, C), TaskOf(B)>>, TaskOf(C))
  @@ Typed({"Task.andThen"}, <<Arrow(B, TaskOf(C)), TaskOf(B)>>, TaskOf(C))
  @@ Typed({"Task.forEach"}, <<Arrow(B, TaskOf(UnitType)), ListOf(B)>>, TaskOf(UnitType))
  @@ Typed({"Task.sequence"}, <<ListOf(TaskOf(B))>>, TaskOf(ListOf(B)))
  @@ Typed({"Cmd.batch"}, <<ListOf(CmdOf(B))>>, CmdOf(B))
  @@ Typed({"Cmd.perform"}, <<Arrow(B, C), TaskOf(B)>>, CmdOf(C))
  @@ Typed({"Time.now"}, <<>>, TaskOf(TimeType))

\* The columns of an entity may be any record, and so may what is written or looked for.
EntityTypes ==
  LET entity == [name |-> StringType, columns |-> B, uniques |-> ListOf(ListOf(StringType))]
  IN
  Typed({"Entity.notNull"}, <<>>, Constraint)
  @@ Typed({"Entity.serial"}, <<>>, ColumnOf(IntType))
  @@ Typed({"Entity.int"}, <<Constraint>>, ColumnOf(IntType))
  @@ Typed({"Entity.text"}, <<Constraint>>, ColumnOf(StringType))
  @@ Typed({"Entity.bool"}, <<Constraint>>, ColumnOf(BoolType))
  @@ Typed({"Entity.timestamp"}, <<Constraint>>, ColumnOf(TimeType))
  @@ Typed({"Entity.decimal"}, <<IntType, Constraint>>, ColumnOf(DecimalType))
  @@ Typed({"Entity.enum"}, <<ListOf(A), Constraint>>, ColumnOf(A))
  @@ Typed({"Entity.define"}, <<Record(entity, Closed)>>, EntityOf(A))
  @@ Typed({"Repo.all"}, <<EntityOf(A)>>, TaskOf(ListOf(A)))
  @@ Typed({"Repo.findById"}, <<EntityOf(A), IntType>>, TaskOf(MaybeOf(A)))
  @@ Typed({"Repo.findBy"}, <<EntityOf(A), B>>, TaskOf(ListOf(A)))
  @@ Typed({"Repo.create"}, <<EntityOf(A), B>>, TaskOf(A))
  @@ Typed({"Repo.update"}, <<EntityOf(A), IntType, B>>, TaskOf(MaybeOf(A)))
  @@ Typed({"Repo.deleteById"}, <<EntityOf(A), IntType>>, TaskOf(UnitType))

\* Any other field of a page's record is its own business.
PageTypes ==
  LET Step == PairOf(A, CmdOf(B))
      page == [path |-> StringType, init |-> Step, update |-> Curried(<<B, A>>, Step),
               view |-> Arrow(A, ViewType), subscriptions |-> Arrow(A, Con("Sub", <<B>>))]
  IN  Typed({"UI.text"}, <<ListOf(Base("Attr")), StringType>>, ViewType)
      @@ Typed({"Page.create"}, <<Record(page, Row)>>, Base("Page"))

ServiceTypes ==
  LET app == [services |-> ListOf(Base("ExposedService")), pages |-> ListOf(Base("Page"))]
      Service == ServiceOf(A, B)
      Answer == ResultOf(Base("Service.Error"), B)
  IN
  Typed({"GET", "POST"}, <<>>, Base("Method"))
  @@ Typed({"Service.declare"}, <<Base("Method"), StringType>>, Service)
  @@ Typed({"Service.implement"}, <<Service, Arrow(A, TaskOf(B))>>, Base("ExposedService"))
  @@ Typed({"Service.call"}, <<Service, A, Arrow(Answer, C)>>, CmdOf(C))
  @@ Typed({"App.fullstack"}, <<Record(app, Closed)>>, CmdOf(UnitType))
  @@ Typed({"Auth.config"}, <<A>>, Con("Auth", <<B>>))

BuiltinTypes ==
  OperatorTypes @@ ConstructorTypes @@ DecimalTypes @@ ListTypes @@ ResultTypes @@ TupleTypes
  @@ StringTypes @@ CharTypes @@ DictTypes @@ SetTypes @@ TaskTypes @@ EntityTypes @@ PageTypes @@ ServiceTypes

-----------------------------------------------------------------------------
\* The union types a program starts with, for the exhaustiveness check.
Ctor(name, args, result) == [name |-> name, args |-> args, result |-> result]
BuiltinCustoms ==
  "Maybe" :> <<Ctor("Just", <<A>>, MaybeOf(A)), Ctor("Nothing", <<>>, MaybeOf(A))>>
  @@ "Result" :> <<Ctor("Ok", <<B>>, ResultOf(A, B)), Ctor("Err", <<A>>, ResultOf(A, B))>>
  @@ "Bool" :> <<Ctor("True", <<>>, BoolType), Ctor("False", <<>>, BoolType)>>
  @@ "Order" :> <<Ctor("LT", <<>>, OrderType), Ctor("EQ", <<>>, OrderType),
                  Ctor("GT", <<>>, OrderType)>>

\* The names behind a module's, among all that are known.
ExportedNames(names, mod) ==
  LET n == Len(mod) + 1
  IN  {SubSeq(q, n + 1, Len(q)) : q \in {x \in names : Len(x) > n /\ SubSeq(x, 1, n) = mod \o "."}}

BuiltinModules ==
  {"List", "String", "Char", "Maybe", "Result", "Tuple", "Decimal", "Dict", "Set", "Cmd", "Sub", "UI",
   "Page", "Task", "Time", "Entity", "Repo", "Service", "Auth", "App"}

\* BaseEnv.
BaseEnv ==
  [vals |-> BuiltinTypes, free |-> {}, customs |-> BuiltinCustoms,
   exports |-> [m \in BuiltinModules |-> ExportedNames(DOMAIN BuiltinTypes, m)]]
=============================================================================
