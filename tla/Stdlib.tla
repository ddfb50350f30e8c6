------------------------------- MODULE Stdlib -------------------------------
(***************************************************************************)
(* The pure part of the standard library: lists, Maybe, Result, the basic  *)
(* functions, tuples, decimals, Dict and Set.  A builtin is given by the   *)
(* name a program calls it by.  It is called with all of its arguments xs, *)
(* and applies a function it was given for its caller.  A Dict keeps its   *)
(* pairs, and a Set its items, in the order of their keys.                 *)
(***************************************************************************)
EXTENDS Values

CONSTANT ApplyFor(_, _, _)   \* what a caller gets from a function it gives an argument (CallBack of Eval)

Last1(xs) == xs[Len(xs)]
App2(caller, f, x, y) == Then(ApplyFor(caller, f, x), LAMBDA g : ApplyFor(caller, g, y))

\* The elements that a predicate keeps, in order.
Keep(es, Test(_)) ==
  Each(es, <<>>, LAMBDA acc, e :
         Then(Truth(Test(e)), LAMBDA yes : Value(IF yes THEN Append(acc, e) ELSE acc)))

\* Both halves, each element being asked once.
Split(es, Test(_)) ==
  Each(es, [yes |-> <<>>, no |-> <<>>], LAMBDA acc, e :
         Then(Truth(Test(e)), LAMBDA yes :
                Value(IF yes THEN [acc EXCEPT !.yes = Append(@, e)]
                      ELSE [acc EXCEPT !.no = Append(@, e)])))

\* Whether some element (all, negated) passes; nothing is asked after the answer is known.
Some(es, Test(_), stop) ==
  Each(es, ~stop, LAMBDA found, e :
         IF found = stop THEN Value(found)
         ELSE Then(Truth(Test(e)), LAMBDA yes : Value(IF yes = stop THEN stop ELSE found)))

\* From the first element on, the later one where it is better.
Best(es, sign) ==
  Each(Tail(es), es[1], LAMBDA best, e :
         Then(CompareValues(best, e), LAMBDA c : Value(IF c = sign THEN e ELSE best)))

\* Stable insertion: an element moves left past those it is less than.
StableSort(es, Less(_, _)) ==
  Each(es, <<>>, LAMBDA sorted, e :
         Then(Each(Reverse(sorted), [n |-> 0, stop |-> FALSE], LAMBDA s, x :
                     IF s.stop THEN Value(s)
                     ELSE Then(Less(e, x), LAMBDA less :
                                 Value(IF less THEN [s EXCEPT !.n = @ + 1]
                                       ELSE [s EXCEPT !.stop = TRUE]))),
              LAMBDA s : Value(InsertAt(sorted, Len(sorted) - s.n + 1, e))))
LessThan(a, b) == Then(CompareValues(a, b), LAMBDA c : Value(c = -1))

\* numericFold: of an empty list, `empty`.
NumericFold(es, op, empty) ==
  IF es = <<>> THEN Value(empty)
  ELSE IF es[1].k \notin {"int", "decimal"} THEN Error("kind")
  ELSE Each(Tail(es), es[1], LAMBDA acc, e : Arithmetic(op, acc, e))

-----------------------------------------------------------------------------
\* What kind of value each argument has to be; their number is the builtin's arity.
NativeTakes ==
  LET Of(names, kinds) == [n \in names |-> kinds]
  IN
  Of({"List.length", "List.sum", "listSumDecimal", "List.product", "listProductDecimal",
      "List.reverse", "List.head", "List.tail", "List.isEmpty", "List.concat", "List.maximum",
      "List.minimum", "List.sort", "Dict.fromList", "Set.fromList"}, <<"list">>)
  @@ Of({"List.map", "List.filter", "List.member", "List.any", "List.all", "List.indexedMap",
         "List.intersperse", "List.partition", "List.concatMap", "List.filterMap",
         "List.sortBy", "List.sortWith"}, <<"any", "list">>)
  @@ Of({"List.foldl", "List.foldr"}, <<"any", "any", "list">>)
  @@ Of({"List.take", "List.drop"}, <<"int", "list">>)
  @@ Of({"List.range", "modBy", "remainderBy"}, <<"int", "int">>)
  @@ Of({"List.move"}, <<"int", "int", "list">>)
  @@ Of({"List.repeat"}, <<"int", "any">>)
  @@ Of({"Maybe.withDefault", "Maybe.map", "Maybe.andThen", "Maybe.filter", "Result.map",
         "Result.andThen", "Result.mapError", "Result.withDefault", "Result.fromMaybe"},
        <<"any", "ctor">>)
  @@ Of({"Result.toMaybe"}, <<"ctor">>)
  @@ Of({"Maybe.map2"}, <<"any", "ctor", "ctor">>)
  @@ Of({"Maybe.map3"}, <<"any", "ctor", "ctor", "ctor">>)
  @@ Of({"Maybe.andMap"}, <<"ctor", "ctor">>)
  @@ Of({"Just", "Ok", "Err", "abs", "Set.singleton"}, <<"any">>)
  @@ Of({"not"}, <<"bool">>)
  @@ Of({"always", "max", "min", "Tuple.pair", "Dict.singleton", "|>", "<|"}, <<"any", "any">>)
  @@ Of({"clamp"}, <<"any", "any", "any">>)
  @@ Of({"Tuple.first", "Tuple.second"}, <<"tuple">>)
  @@ Of({"Tuple.mapFirst", "Tuple.mapSecond"}, <<"any", "tuple">>)
  @@ Of({"Tuple.mapBoth"}, <<"any", "any", "tuple">>)
  @@ Of({"Decimal.fromInt", "Decimal.fromCents"}, <<"int">>)
  @@ Of({"Decimal.toCents", "Decimal.truncate", "Decimal.round", "Decimal.floor",
         "Decimal.ceiling", "Decimal.abs", "Decimal.negate"}, <<"decimal">>)
  @@ Of({"Decimal.toIntWith"}, <<"ctor", "decimal">>)
  @@ Of({"Decimal.toScale"}, <<"ctor", "int", "decimal">>)
  @@ Of({"Decimal.compare"}, <<"decimal", "decimal">>)
  @@ Of({"Decimal.rounded"}, <<"ctor", "int", "division">>)
  @@ Of({"Decimal.withRemainder"}, <<"int", "division">>)
  @@ Of({"Dict.isEmpty", "Dict.size", "Dict.keys", "Dict.values", "Dict.toList"}, <<"dict">>)
  @@ Of({"Dict.remove", "Dict.member", "Dict.get", "Dict.map", "Dict.filter", "Dict.partition"},
        <<"any", "dict">>)
  @@ Of({"Dict.insert", "Dict.update", "Dict.foldl", "Dict.foldr"}, <<"any", "any", "dict">>)
  @@ Of({"Dict.union", "Dict.intersect", "Dict.diff"}, <<"dict", "dict">>)
  @@ Of({"Set.isEmpty", "Set.size", "Set.toList"}, <<"set">>)
  @@ Of({"Set.insert", "Set.remove", "Set.member", "Set.map", "Set.filter", "Set.partition"},
        <<"any", "set">>)
  @@ Of({"Set.foldl", "Set.foldr"}, <<"any", "any", "set">>)
  @@ Of({"Set.union", "Set.intersect", "Set.diff"}, <<"set", "set">>)

\* The values in the library that are not functions.
NativeValues ==
  [n \in {"True", "False"} |-> VBool(n = "True")]
  @@ [n \in {"Nothing", "LT", "EQ", "GT"} |-> VCtor(n, <<>>)]
  @@ [n \in {"Decimal.HalfEven", "Decimal.HalfUp", "Decimal.Down", "Decimal.Up",
             "Decimal.Floor", "Decimal.Ceiling"} |-> VCtor(SubSeq(n, 9, Len(n)), <<>>)]
  @@ ("Decimal.zero" :> VDecimal(0, 0) @@ "Dict.empty" :> VDict(<<>>) @@ "Set.empty" :> VSet(<<>>))

-----------------------------------------------------------------------------
\* Lists, in the order of the source.
Count(es) == Value(VInt(Len(es)))
AsList(r) == Then(r, LAMBDA es : Value(VList(es)))
AsBool(r) == Then(r, LAMBDA b : Value(VBool(b)))

FoldlList(xs, caller) ==
  Each(xs[3].elements, xs[2], LAMBDA acc, e : App2(caller, xs[1], e, acc))

ListRange(from, to) ==
  CASE from > to -> Value(VList(<<>>))
    [] from <= to /\ to - from >= MaxExpansion -> Error("limit")
    [] OTHER -> Value(VList([i \in 1 .. (to - from + 1) |-> VInt(from + i - 1)]))

ListConcat(es) ==
  AsList(Each(es, <<>>, LAMBDA acc, e :
                IF e.k = "list" THEN Value(acc \o e.elements) ELSE Error("kind")))

ListBasics(name, xs, caller) ==
  LET es == Last1(xs).elements
  IN
  CASE name = "List.length" -> Count(es)
    [] name = "List.map" -> AsList(MapEach(es, LAMBDA e : ApplyFor(caller, xs[1], e)))
    [] name = "List.filter" -> AsList(Keep(es, LAMBDA e : ApplyFor(caller, xs[1], e)))
    [] name = "List.foldl" -> FoldlList(xs, caller)
    [] name = "List.sum" -> NumericFold(es, "+", VInt(0))
    [] name = "listSumDecimal" -> NumericFold(es, "+", VDecimal(0, 0))
    [] name = "List.range" -> ListRange(xs[1].int, xs[2].int)
    [] name = "List.reverse" -> Value(VList(Reverse(es)))
    [] name = "List.head" -> Value(IF es = <<>> THEN Nothing ELSE Just(es[1]))
    [] name = "List.tail" -> Value(IF es = <<>> THEN Nothing ELSE Just(VList(Tail(es))))
    [] name = "List.isEmpty" -> Value(VBool(es = <<>>))
    [] name = "List.concat" -> ListConcat(es)

\* No element moves when an index is out of range.
ListMove(from, to, es) ==
  IF from = to \/ ~({from, to} \subseteq 0 .. (Len(es) - 1)) THEN es
  ELSE InsertAt(RemoveAt(es, from + 1), to + 1, es[from + 1])

ListSearches(name, xs, caller) ==
  LET es == Last1(xs).elements
      Test(e) == ApplyFor(caller, xs[1], e)
      n == xs[1].int
  IN
  CASE name = "List.take" -> Value(VList(SubSeq(es, 1, IF n < Len(es) THEN n ELSE Len(es))))
    [] name = "List.drop" -> Value(VList(IF n <= 0 THEN es ELSE SubSeq(es, n + 1, Len(es))))
    [] name = "List.move" -> Value(VList(ListMove(n, xs[2].int, es)))
    [] name = "List.member" -> Value(VBool(\E i \in DOMAIN es : EqualValues(xs[1], es[i])))
    [] name = "List.any" -> AsBool(Some(es, Test, TRUE))
    [] name = "List.all" -> AsBool(Some(es, Test, FALSE))
    [] name = "List.foldr" ->
         Each(Reverse(es), xs[2], LAMBDA acc, e : App2(caller, xs[1], e, acc))
    [] name = "List.indexedMap" ->
         AsList(MapEach([i \in DOMAIN es |-> [at |-> i - 1, of |-> es[i]]],
                        LAMBDA p : App2(caller, xs[1], VInt(p.at), p.of)))

\* A function's answers, all of one kind.
Gathered(caller, f, es, kind) ==
  MapEach(es, LAMBDA e : Then(ApplyFor(caller, f, e), LAMBDA v : IF v.k = kind THEN Value(v) ELSE Error("kind")))

ListBuilders(name, xs, caller) ==
  LET es == Last1(xs).elements
  IN
  CASE name = "List.repeat" ->
         IF xs[1].int > MaxExpansion THEN Error("limit")
         ELSE Value(VList([i \in 1 .. xs[1].int |-> xs[2]]))
    [] name = "List.intersperse" ->
         Value(VList([i \in 1 .. (2 * Len(es) - 1) |->
                        IF i % 2 = 1 THEN es[(i + 1) \div 2] ELSE xs[1]]))
    [] name = "List.partition" ->
         Then(Split(es, LAMBDA e : ApplyFor(caller, xs[1], e)),
              LAMBDA h : Value(VTuple(<<VList(h.yes), VList(h.no)>>)))
    [] name = "List.concatMap" ->
         Then(Gathered(caller, xs[1], es, "list"), LAMBDA vs :
                Value(VList(FlattenSeq([i \in DOMAIN vs |-> vs[i].elements]))))
    [] name = "List.filterMap" ->
         Then(Gathered(caller, xs[1], es, "ctor"), LAMBDA vs :
                LET kept == SelectSeq(vs, LAMBDA v : v.tag = "Just")
                IN  Value(VList([i \in DOMAIN kept |-> kept[i].args[1]])))

\* Where the elements have no order the largest is Nothing, and sorting fails.
BestOrNothing(es, sign) ==
  IF es = <<>> \/ Best(es, sign).err # "" THEN Value(Nothing) ELSE Value(Just(Best(es, sign).value))

\* Each key is computed once.
SortByKeys(caller, f, es) ==
  Then(MapEach(es, LAMBDA e : Then(ApplyFor(caller, f, e), LAMBDA key : Value([key |-> key, of |-> e]))),
       LAMBDA keyed : Then(StableSort(keyed, LAMBDA a, b : LessThan(a.key, b.key)),
                           LAMBDA sorted : Value(VList([i \in DOMAIN sorted |-> sorted[i].of]))))

ComparedLess(caller, f, a, b) ==
  Then(App2(caller, f, a, b), LAMBDA v :
         IF v.k = "ctor" /\ v.tag \in {"LT", "EQ", "GT"} THEN Value(v.tag = "LT") ELSE Error("kind"))

ListSorting(name, xs, caller) ==
  LET es == Last1(xs).elements
  IN
  CASE name = "List.maximum" -> BestOrNothing(es, -1)
    [] name = "List.minimum" -> BestOrNothing(es, 1)
    [] name = "List.product" -> NumericFold(es, "*", VInt(1))
    [] name = "listProductDecimal" -> NumericFold(es, "*", VDecimal(1, 0))
    [] name = "List.sort" -> AsList(StableSort(es, LessThan))
    [] name = "List.sortBy" -> SortByKeys(caller, xs[1], es)
    [] name = "List.sortWith" ->
         AsList(StableSort(es, LAMBDA a, b : ComparedLess(caller, xs[1], a, b)))

-----------------------------------------------------------------------------
\* Maybe and Result.  c is the last argument; Is asks for its constructor.
Wrapped(tag, r) == Then(r, LAMBDA v : Value(VCtor(tag, <<v>>)))

MaybeAndResult(name, xs, caller) ==
  LET c == Last1(xs)
      Is(tag) == c.tag = tag
      Call == ApplyFor(caller, xs[1], c.args[1])
  IN
  CASE name = "Maybe.withDefault" -> Value(IF Is("Just") THEN c.args[1] ELSE xs[1])
    [] name = "Maybe.map" -> IF Is("Just") THEN Wrapped("Just", Call) ELSE Value(c)
    [] name = "Maybe.andThen" -> IF Is("Just") THEN Call ELSE Value(c)
    [] name = "Result.map" -> IF Is("Ok") THEN Wrapped("Ok", Call) ELSE Value(c)
    [] name = "Result.andThen" -> IF Is("Ok") THEN Call ELSE Value(c)
    [] name = "Result.mapError" -> IF Is("Err") THEN Wrapped("Err", Call) ELSE Value(c)
    [] name = "Result.withDefault" -> Value(IF Is("Ok") THEN c.args[1] ELSE xs[1])
    [] name = "Result.fromMaybe" ->
         Value(IF Is("Just") THEN VCtor("Ok", c.args) ELSE VCtor("Err", <<xs[1]>>))
    [] name = "Result.toMaybe" -> Value(IF Is("Ok") THEN Just(c.args[1]) ELSE Nothing)

MaybeMore(name, xs, caller) ==
  LET AllJust(from) == \A i \in from .. Len(xs) : xs[i].tag = "Just"
      At1(i) == xs[i].args[1]
      c == Last1(xs)
  IN
  CASE name = "Maybe.map2" ->
         IF AllJust(2) THEN Wrapped("Just", App2(caller, xs[1], At1(2), At1(3))) ELSE Value(Nothing)
    [] name = "Maybe.map3" ->
         IF AllJust(2)
         THEN Wrapped("Just", Then(App2(caller, xs[1], At1(2), At1(3)), LAMBDA f : ApplyFor(caller, f, At1(4))))
         ELSE Value(Nothing)
    [] name = "Maybe.andMap" ->
         IF AllJust(1) THEN Wrapped("Just", ApplyFor(caller, At1(2), At1(1))) ELSE Value(Nothing)
    [] name = "Maybe.filter" ->
         IF c.tag # "Just" THEN Value(Nothing)
         ELSE Then(Truth(ApplyFor(caller, xs[1], c.args[1])), LAMBDA yes : Value(IF yes THEN c ELSE Nothing))

\* Of two values, the first one where they are equal.
Pick(a, b, signs) ==
  Then(CompareValues(a, b), LAMBDA c : Value(IF c \in signs THEN a ELSE b))

\* The low bound is asked first: it wins when the bounds are crossed.
Clamp(low, high, x) ==
  Then(CompareValues(x, low), LAMBDA cl :
         IF cl <= 0 THEN Value(low)
         ELSE Then(CompareValues(x, high), LAMBDA ch : Value(IF ch >= 0 THEN high ELSE x)))

Basics(name, xs) ==
  CASE name = "always" -> Value(xs[1])
    [] name = "not" -> Value(VBool(~xs[1].bool))
    [] name = "max" -> Pick(xs[1], xs[2], {0, 1})
    [] name = "min" -> Pick(xs[1], xs[2], {-1, 0})
    [] name = "clamp" -> Clamp(xs[1], xs[2], xs[3])
    [] name = "abs" ->
         (CASE xs[1].k = "int" -> Value(VInt(Magnitude(xs[1].int)))
            [] xs[1].k = "decimal" -> Value(VDecimal(Magnitude(xs[1].coef), xs[1].scale))
            [] OTHER -> Error("kind"))
    [] name = "modBy" -> Value(VInt(Modulo(xs[2].int, xs[1].int)))
    [] name = "remainderBy" -> Value(VInt(Remainder(xs[2].int, xs[1].int)))

Tuples(name, xs, caller) ==
  LET m == Last1(xs).members
      Pair(a, b) == Value(VTuple(<<a, b>>))
  IN
  CASE name = "Tuple.pair" -> Pair(xs[1], xs[2])
    [] name # "Tuple.pair" /\ Len(m) < 2 -> Error("kind")
    [] name = "Tuple.first" /\ Len(m) >= 2 -> Value(m[1])
    [] name = "Tuple.second" /\ Len(m) >= 2 -> Value(m[2])
    [] name = "Tuple.mapFirst" /\ Len(m) >= 2 -> Then(ApplyFor(caller, xs[1], m[1]), LAMBDA v : Pair(v, m[2]))
    [] name = "Tuple.mapSecond" /\ Len(m) >= 2 -> Then(ApplyFor(caller, xs[1], m[2]), LAMBDA v : Pair(m[1], v))
    [] name = "Tuple.mapBoth" /\ Len(m) >= 2 ->
         Then(ApplyFor(caller, xs[1], m[1]), LAMBDA a : Then(ApplyFor(caller, xs[2], m[2]), LAMBDA b : Pair(a, b)))

-----------------------------------------------------------------------------
\* Decimals.
AsInt(r) == Then(r, LAMBDA d : IF Magnitude(d.coef) <= MaxInt64 THEN Value(VInt(d.coef)) ELSE Error("overflow"))

\* The quotient cut off, and what is left of num: quotient * den + remainder = num.
WithRemainder(scale, division) ==
  Then(Resolve(division, scale, "Down"), LAMBDA q :
         Then(DecMul(q, division.den), LAMBDA product :
                Then(DecSub(division.num, product), LAMBDA r :
                       Value(VRecord([quotient |-> q, remainder |-> r])))))

DecimalConversions(name, xs) ==
  LET d == Last1(xs)
  IN
  CASE name = "Decimal.fromInt" -> Value(VDecimal(d.int, 0))
    [] name = "Decimal.fromCents" -> Value(VDecimal(d.int, 2))
    [] name = "Decimal.toCents" -> IF d.scale > 2 THEN Error("limit") ELSE AsInt(DecToScale(d, 2, "Down"))
    [] name = "Decimal.truncate" -> DecToInt(d, "Down")
    [] name = "Decimal.round" -> DecToInt(d, "HalfEven")
    [] name = "Decimal.floor" -> DecToInt(d, "Floor")
    [] name = "Decimal.ceiling" -> DecToInt(d, "Ceiling")
    [] name = "Decimal.toIntWith" -> DecToInt(d, xs[1].tag)
    [] name = "Decimal.toScale" -> DecToScale(d, xs[2].int, xs[1].tag)

DecimalArithmetic(name, xs) ==
  CASE name = "Decimal.abs" -> Value(VDecimal(Magnitude(xs[1].coef), xs[1].scale))
    [] name = "Decimal.negate" -> Negated(xs[1])
    [] name = "Decimal.compare" ->
         Value(VCtor(CASE DecCompare(xs[1], xs[2]) = -1 -> "LT"
                       [] DecCompare(xs[1], xs[2]) = 0 -> "EQ"
                       [] DecCompare(xs[1], xs[2]) = 1 -> "GT", <<>>))
    [] name = "Decimal.rounded" -> Resolve(xs[3], xs[2].int, xs[1].tag)
    [] name = "Decimal.withRemainder" -> WithRemainder(xs[1].int, xs[2])

-----------------------------------------------------------------------------
\* Dict and Set.  A search compares keys: where keys have no order it fails, on anything that
\* is not empty.
KeysOf(d) == [i \in DOMAIN d.pairs |-> d.pairs[i].key]
Pair(key, value) == [key |-> key, value |-> value]

\* Where the key is or would go, among keys in order.
Search(keys, key) ==
  Then(MapEach(keys, LAMBDA k : CompareValues(k, key)), LAMBDA signs :
         LET at == 1 + Cardinality({i \in DOMAIN signs : signs[i] = -1})
         IN  Value([at |-> at, found |-> at \in DOMAIN signs /\ signs[at] = 0]))

Place(seq, s, x) == IF s.found THEN [seq EXCEPT ![s.at] = x] ELSE InsertAt(seq, s.at, x)
Without(seq, s) == IF s.found THEN RemoveAt(seq, s.at) ELSE seq

DictInsert(d, key, value) ==
  Then(Search(KeysOf(d), key), LAMBDA s : Value(VDict(Place(d.pairs, s, Pair(key, value)))))
SetInsert(set, item) ==
  Then(Search(set.items, item), LAMBDA s : Value(IF s.found THEN set ELSE VSet(Place(set.items, s, item))))

DictUpdate(key, d, caller, f) ==
  Then(Search(KeysOf(d), key), LAMBDA s :
         Then(ApplyFor(caller, f, IF s.found THEN Just(d.pairs[s.at].value) ELSE Nothing), LAMBDA v :
                IF v.k # "ctor" THEN Error("kind")
                ELSE Value(VDict(IF v.tag = "Just" THEN Place(d.pairs, s, Pair(key, v.args[1]))
                                 ELSE Without(d.pairs, s)))))

DictGet(key, d) ==
  Then(Search(KeysOf(d), key), LAMBDA s :
         Value(IF s.found THEN Just(d.pairs[s.at].value) ELSE Nothing))

DictBasics(name, xs, caller) ==
  LET d == Last1(xs)
      s == Search(KeysOf(d), xs[1])
  IN
  CASE name = "Dict.singleton" -> Value(VDict(<<Pair(xs[1], xs[2])>>))
    [] name = "Dict.insert" -> DictInsert(d, xs[1], xs[2])
    [] name = "Dict.update" -> DictUpdate(xs[1], d, caller, xs[2])
    [] name = "Dict.remove" -> Then(s, LAMBDA at : Value(VDict(Without(d.pairs, at))))
    [] name = "Dict.isEmpty" -> Value(VBool(d.pairs = <<>>))
    [] name = "Dict.member" -> Then(s, LAMBDA at : Value(VBool(at.found)))
    [] name = "Dict.get" -> DictGet(xs[1], d)
    [] name = "Dict.size" -> Count(d.pairs)
    [] name = "Dict.keys" -> Value(VList(KeysOf(d)))
    [] name = "Dict.values" -> Value(VList([i \in DOMAIN d.pairs |-> d.pairs[i].value]))
    [] name = "Dict.toList" ->
         Value(VList([i \in DOMAIN d.pairs |-> VTuple(<<d.pairs[i].key, d.pairs[i].value>>)]))
    [] name = "Dict.fromList" ->
         Each(d.elements, VDict(<<>>), LAMBDA acc, e :
                IF e.k = "tuple" THEN DictInsert(acc, e.members[1], e.members[2]) ELSE Error("kind"))

DictFold(ps, f, start, caller) ==
  Each(ps, start, LAMBDA acc, p :
         Then(App2(caller, f, p.key, p.value), LAMBDA g : ApplyFor(caller, g, acc)))
AsDict(r) == Then(r, LAMBDA ps : Value(VDict(ps)))

DictWalks(name, xs, caller) ==
  LET ps == Last1(xs).pairs
      Test(p) == App2(caller, xs[1], p.key, p.value)
  IN
  CASE name = "Dict.map" ->
         AsDict(MapEach(ps, LAMBDA p : Then(Test(p), LAMBDA v : Value(Pair(p.key, v)))))
    [] name = "Dict.foldl" -> DictFold(ps, xs[1], xs[2], caller)
    [] name = "Dict.foldr" -> DictFold(Reverse(ps), xs[1], xs[2], caller)
    [] name = "Dict.filter" -> AsDict(Keep(ps, Test))
    [] name = "Dict.partition" ->
         Then(Split(ps, Test), LAMBDA h : Value(VTuple(<<VDict(h.yes), VDict(h.no)>>)))

\* The entries of the left whose key the right has (`has`), or has not.
Matching(left, keys, rightKeys, has) ==
  Then(MapEach(keys, LAMBDA key : Search(rightKeys, key)), LAMBDA found :
         LET kept == SelectSeq([i \in DOMAIN left |-> i], LAMBDA i : found[i].found = has)
         IN  Value([n \in DOMAIN kept |-> left[kept[n]]]))

DictUnion(a, b) == Each(a.pairs, b, LAMBDA acc, p : DictInsert(acc, p.key, p.value))

DictMerges(name, xs) ==
  LET Common(has) ==
        AsDict(Matching(xs[1].pairs, KeysOf(xs[1]), KeysOf(xs[2]), has))
  IN
  CASE name = "Dict.union" -> DictUnion(xs[1], xs[2])
    [] name = "Dict.intersect" -> Common(TRUE)
    [] name = "Dict.diff" -> Common(FALSE)

SetBasics(name, xs, caller) ==
  LET set == Last1(xs)
      s == Search(set.items, xs[1])
  IN
  CASE name = "Set.singleton" -> Value(VSet(xs))
    [] name = "Set.insert" -> SetInsert(set, xs[1])
    [] name = "Set.remove" -> Then(s, LAMBDA at : Value(VSet(Without(set.items, at))))
    [] name = "Set.isEmpty" -> Value(VBool(set.items = <<>>))
    [] name = "Set.member" -> Then(s, LAMBDA at : Value(VBool(at.found)))
    [] name = "Set.size" -> Count(set.items)
    [] name = "Set.toList" -> Value(VList(set.items))
    [] name = "Set.fromList" -> Each(set.elements, VSet(<<>>), SetInsert)
    [] name = "Set.map" -> Each(set.items, VSet(<<>>), LAMBDA acc, e :
                            Then(ApplyFor(caller, xs[1], e), LAMBDA v : SetInsert(acc, v)))

SetWalks(name, xs, caller) ==
  LET items == Last1(xs).items
      Test(e) == ApplyFor(caller, xs[1], e)
      Fold(es) == Each(es, xs[2], LAMBDA acc, e : App2(caller, xs[1], e, acc))
      Common(has) == Then(Matching(xs[1].items, xs[1].items, items, has),
                          LAMBDA es : Value(VSet(es)))
  IN
  CASE name = "Set.foldl" -> Fold(items)
    [] name = "Set.foldr" -> Fold(Reverse(items))
    [] name = "Set.filter" -> Then(Keep(items, Test), LAMBDA es : Value(VSet(es)))
    [] name = "Set.partition" ->
         Then(Split(items, Test), LAMBDA h : Value(VTuple(<<VSet(h.yes), VSet(h.no)>>)))
    [] name = "Set.union" -> Each(xs[1].items, xs[2], SetInsert)
    [] name = "Set.intersect" -> Common(TRUE)
    [] name = "Set.diff" -> Common(FALSE)

-----------------------------------------------------------------------------
\* A call of a builtin with all of its arguments.
CallNative(name, xs, caller) ==
  LET OfKind(i) == NativeTakes[name][i] \in {"any", xs[i].k}
  IN
  CASE \E i \in DOMAIN xs : ~OfKind(i) -> Error("kind")
    [] name \in {"Just", "Ok", "Err"} -> Value(VCtor(name, xs))
    [] name = "|>" -> ApplyFor(caller, xs[2], xs[1])
    [] name = "<|" -> ApplyFor(caller, xs[1], xs[2])
    [] name \in {"List.length", "List.map", "List.filter", "List.foldl", "List.sum",
                 "listSumDecimal", "List.range", "List.reverse", "List.head", "List.tail",
                 "List.isEmpty", "List.concat"} -> ListBasics(name, xs, caller)
    [] name \in {"List.take", "List.drop", "List.move", "List.member", "List.any", "List.all",
                 "List.foldr", "List.indexedMap"} -> ListSearches(name, xs, caller)
    [] name \in {"List.repeat", "List.intersperse", "List.partition", "List.concatMap",
                 "List.filterMap"} -> ListBuilders(name, xs, caller)
    [] name \in {"List.maximum", "List.minimum", "List.product", "listProductDecimal",
                 "List.sort", "List.sortBy", "List.sortWith"} -> ListSorting(name, xs, caller)
    [] name \in {"Maybe.map2", "Maybe.map3", "Maybe.andMap", "Maybe.filter"} ->
         MaybeMore(name, xs, caller)
    [] name \in {"Maybe.withDefault", "Maybe.map", "Maybe.andThen", "Result.map",
                 "Result.andThen", "Result.mapError", "Result.withDefault",
                 "Result.fromMaybe", "Result.toMaybe"} -> MaybeAndResult(name, xs, caller)
    [] name \in {"always", "not", "max", "min", "clamp", "abs", "modBy", "remainderBy"} ->
         Basics(name, xs)
    [] name \in {"Tuple.pair", "Tuple.first", "Tuple.second", "Tuple.mapFirst",
                 "Tuple.mapSecond", "Tuple.mapBoth"} -> Tuples(name, xs, caller)
    [] name \in {"Decimal.fromInt", "Decimal.fromCents", "Decimal.toCents", "Decimal.truncate",
                 "Decimal.round", "Decimal.floor", "Decimal.ceiling", "Decimal.toIntWith",
                 "Decimal.toScale"} -> DecimalConversions(name, xs)
    [] name \in {"Decimal.abs", "Decimal.negate", "Decimal.compare", "Decimal.rounded",
                 "Decimal.withRemainder"} -> DecimalArithmetic(name, xs)
    [] name \in {"Dict.map", "Dict.foldl", "Dict.foldr", "Dict.filter", "Dict.partition"} ->
         DictWalks(name, xs, caller)
    [] name \in {"Dict.union", "Dict.intersect", "Dict.diff"} -> DictMerges(name, xs)
    [] name \in {"Dict.singleton", "Dict.insert", "Dict.update", "Dict.remove", "Dict.isEmpty",
                 "Dict.member", "Dict.get", "Dict.size", "Dict.keys", "Dict.values",
                 "Dict.toList", "Dict.fromList"} -> DictBasics(name, xs, caller)
    [] name \in {"Set.foldl", "Set.foldr", "Set.filter", "Set.partition", "Set.union",
                 "Set.intersect", "Set.diff"} -> SetWalks(name, xs, caller)
    [] OTHER -> SetBasics(name, xs, caller)
=============================================================================
