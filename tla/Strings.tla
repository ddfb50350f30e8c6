------------------------------- MODULE Strings -------------------------------
(***************************************************************************)
(* The part of the library that works on text: String, Char and the texts  *)
(* of decimals.  A String is a string of characters from Alphabet, each    *)
(* one byte long, so that the bytes the code counts are the characters of  *)
(* the model.  The code of a character is its place in Alphabet, and a     *)
(* blank is the only white space.                                          *)
(***************************************************************************)
EXTENDS Stdlib

UpperLetters == "ABCDEFGHIJKLMNOPQRSTUVWXYZ"
LowerLetters == "abcdefghijklmnopqrstuvwxyz"
DecimalDigits == "0123456789"

CharAt(s, i) == SubSeq(s, i, i)
In(c, s) == \E i \in 1 .. Len(s) : CharAt(s, i) = c
Chars(s) == [i \in 1 .. Len(s) |-> CharAt(s, i)]
Glued(parts) == FoldLeft(LAMBDA t, part : t \o part, "", parts)

\* A letter in the other case, and anything else as it is.
Recased(c, from, to) ==
  IF In(c, from) THEN CharAt(to, CHOOSE i \in 1 .. Len(from) : CharAt(from, i) = c) ELSE c
ToUpper(c) == Recased(c, LowerLetters, UpperLetters)
ToLower(c) == Recased(c, UpperLetters, LowerLetters)

-----------------------------------------------------------------------------
\* Where a needle that is not empty stands in s, from i on; a hit is passed as a whole.
RECURSIVE IndexesFrom(_, _, _)
IndexesFrom(needle, s, i) ==
  LET end == i + Len(needle)
  IN  IF end > Len(s) + 1 THEN <<>>
      ELSE IF SubSeq(s, i, end - 1) = needle THEN <<i>> \o IndexesFrom(needle, s, end)
      ELSE IndexesFrom(needle, s, i + 1)
Indexes(needle, s) == IF needle = "" THEN <<>> ELSE IndexesFrom(needle, s, 1)

StartsWith(s, prefix) == Len(prefix) <= Len(s) /\ SubSeq(s, 1, Len(prefix)) = prefix
EndsWith(s, suffix) ==
  Len(suffix) <= Len(s) /\ SubSeq(s, Len(s) - Len(suffix) + 1, Len(s)) = suffix

\* What is between the separators; with an empty one, every character.
SplitText(sep, s) ==
  LET at == Indexes(sep, s)
      From(n) == IF n = 1 THEN 1 ELSE at[n - 1] + Len(sep)
      To(n) == IF n > Len(at) THEN Len(s) ELSE at[n] - 1
  IN  IF sep = "" THEN Chars(s) ELSE [n \in 1 .. (Len(at) + 1) |-> SubSeq(s, From(n), To(n))]
Join(sep, parts) == Glued([i \in DOMAIN parts |-> IF i = 1 THEN parts[i] ELSE sep \o parts[i]])

\* An empty needle stands before every character and at the end.
Replace(needle, by, s) ==
  IF needle = "" THEN by \o Glued([i \in 1 .. Len(s) |-> CharAt(s, i) \o by])
  ELSE Join(by, SplitText(needle, s))

Trim(s) ==
  LET kept == {i \in 1 .. Len(s) : CharAt(s, i) # " "}
      first == CHOOSE i \in kept : \A j \in kept : i <= j
      last == CHOOSE i \in kept : \A j \in kept : i >= j
  IN  IF kept = {} THEN "" ELSE SubSeq(s, first, last)

Padding(s, width, pad) == Glued([i \in 1 .. (width - Len(s)) |-> pad])

\* A number without its sign; "" is the digits of none.
Unsigned(s) == IF s # "" /\ CharAt(s, 1) \in {"+", "-"} THEN SubSeq(s, 2, Len(s)) ELSE s
AllDigits(s) == \A i \in 1 .. Len(s) : In(CharAt(s, i), DecimalDigits)
NumberIn(s) ==
  FoldLeft(LAMBDA n, c : 10 * n + (CHOOSE d \in 0 .. 9 : CharAt(DecimalDigits, d + 1) = c), 0, Chars(s))
Signed(s, n) == IF StartsWith(s, "-") THEN -n ELSE n

TextToInt(s) ==
  LET digits == Unsigned(s)
      n == Signed(s, NumberIn(digits))
  IN  IF digits # "" /\ AllDigits(digits) /\ InIntRange(n) THEN Just(VInt(n)) ELSE Nothing

\* parseDecimalString: the first point is the decimal point, and either side of it may be empty.
TextToDecimal(s) ==
  LET parts == SplitText(".", Unsigned(s))
      digits == Glued(parts)
      coef == NumberIn(digits)
  IN  IF digits # "" /\ Len(parts) <= 2 /\ AllDigits(digits) /\ coef <= MaxCoef
      THEN Just(VDecimal(Signed(s, coef), IF Len(parts) = 1 THEN 0 ELSE Len(parts[2]))) ELSE Nothing

\* decString: as many places as the scale says.
DecimalText(d) ==
  LET plain == ToString(Magnitude(d.coef))
      digits == Padding(plain, d.scale + 1, "0") \o plain
      cut == Len(digits) - d.scale
  IN  (IF d.coef < 0 THEN "-" ELSE "") \o SubSeq(digits, 1, cut)
      \o (IF d.scale = 0 THEN "" ELSE "." \o SubSeq(digits, cut + 1, Len(digits)))

-----------------------------------------------------------------------------
\* The builtins, in the order of the source.
StringTakes ==
  LET Of(names, kinds) == [n \in names |-> kinds]
  IN
  Of({"String.length", "String.toUpper", "String.toLower", "String.trim", "String.toInt",
      "String.toList", "Decimal.fromString"}, <<"string">>)
  @@ Of({"String.contains", "String.startsWith", "String.endsWith", "String.split",
         "String.indexes"}, <<"string", "string">>)
  @@ Of({"String.fromInt", "Char.fromCode"}, <<"int">>)
  @@ Of({"String.join"}, <<"string", "list">>)
  @@ Of({"String.replace"}, <<"string", "string", "string">>)
  @@ Of({"String.repeat"}, <<"int", "string">>)
  @@ Of({"String.padLeft", "String.padRight"}, <<"int", "char", "string">>)
  @@ Of({"String.fromList"}, <<"list">>)
  @@ Of({"String.cons"}, <<"char", "string">>)
  @@ Of({"String.map", "String.filter", "String.any"}, <<"any", "string">>)
  @@ Of({"String.foldl"}, <<"any", "any", "string">>)
  @@ Of({"Char.toCode", "Char.isDigit", "Char.isAlpha", "Char.isUpper", "Char.isLower",
         "Char.toUpper", "Char.toLower"}, <<"char">>)
  @@ Of({"Decimal.toString"}, <<"decimal">>)

Text1(s) == Value(VString(s))
Truly(b) == Value(VBool(b))
AsText(r) == Then(r, LAMBDA parts : Text1(Glued(parts)))

CharText(v) == IF v.k = "char" THEN Value(v.char) ELSE Error("kind")
StringText(v) == IF v.k = "string" THEN Value(v.string) ELSE Error("kind")

StringBasics(name, xs) ==
  LET s == Last1(xs).string
      needle == xs[1].string
  IN
  CASE name = "String.length" -> Value(VInt(Len(s)))
    [] name = "String.contains" -> Truly(needle = "" \/ Indexes(needle, s) # <<>>)
    [] name = "String.startsWith" -> Truly(StartsWith(s, needle))
    [] name = "String.fromInt" -> Text1(ToString(xs[1].int))
    [] name = "String.toUpper" -> AsText(MapEach(Chars(s), LAMBDA c : Value(ToUpper(c))))
    [] name = "String.toLower" -> AsText(MapEach(Chars(s), LAMBDA c : Value(ToLower(c))))

\* A repetition is bounded by the length of what it makes; padding is not bounded.
StringExtras(name, xs) ==
  LET s == Last1(xs).string
      n == xs[1].int
  IN
  CASE name = "String.split" -> 
         LET parts == SplitText(xs[1].string, s)
         IN  Value(VList([i \in DOMAIN parts |-> VString(parts[i])]))
    [] name = "String.join" ->
         Then(MapEach(xs[2].elements, StringText), LAMBDA parts : Text1(Join(xs[1].string, parts)))
    [] name = "String.trim" -> Text1(Trim(s))
    [] name = "String.endsWith" -> Truly(EndsWith(s, xs[1].string))
    [] name = "String.toInt" -> Value(TextToInt(Trim(s)))
    [] name = "String.replace" -> Text1(Replace(xs[1].string, xs[2].string, s))
    [] name = "String.repeat" ->
         IF n > 0 /\ s # "" /\ n > MaxExpansion \div Len(s) THEN Error("limit")
         ELSE Text1(Glued([i \in 1 .. n |-> s]))
    [] name = "String.padLeft" -> Text1(Padding(s, n, xs[2].char) \o s)
    [] name = "String.padRight" -> Text1(s \o Padding(s, n, xs[2].char))
    [] name = "String.indexes" -> 
         LET at == Indexes(xs[1].string, s) IN Value(VList([i \in DOMAIN at |-> VInt(at[i] - 1)]))

\* The last place of Alphabet stands for the replacement character.
CodeOf(c) == Rank(c, 1) - 1
CharOf(n) == CharAt(Alphabet, IF n + 1 \in 1 .. Len(Alphabet) THEN n + 1 ELSE Len(Alphabet))

CharOps(name, xs) ==
  LET c == xs[1].char
  IN
  CASE name = "Char.toCode" -> Value(VInt(CodeOf(c)))
    [] name = "Char.fromCode" -> Value(VChar(CharOf(xs[1].int)))
    [] name = "Char.isDigit" -> Truly(In(c, DecimalDigits))
    [] name = "Char.isAlpha" -> Truly(In(c, UpperLetters \o LowerLetters))
    [] name = "Char.isUpper" -> Truly(In(c, UpperLetters))
    [] name = "Char.isLower" -> Truly(In(c, LowerLetters))
    [] name = "Char.toUpper" -> Value(VChar(ToUpper(c)))
    [] name = "Char.toLower" -> Value(VChar(ToLower(c)))

StringWalks(name, xs, caller) ==
  LET cs == Chars(Last1(xs).string)
      Asked(c) == ApplyFor(caller, xs[1], VChar(c))
  IN
  CASE name = "String.toList" -> Value(VList([i \in DOMAIN cs |-> VChar(cs[i])]))
    [] name = "String.fromList" -> AsText(MapEach(xs[1].elements, CharText))
    [] name = "String.cons" -> Text1(xs[1].char \o xs[2].string)
    [] name = "String.map" -> AsText(MapEach(cs, LAMBDA c : Then(Asked(c), CharText)))
    [] name = "String.filter" -> AsText(Keep(cs, Asked))
    [] name = "String.foldl" -> Each(cs, xs[2], LAMBDA acc, c : App2(caller, xs[1], VChar(c), acc))
    [] name = "String.any" -> AsBool(Some(cs, Asked, TRUE))

CallText(name, xs, caller) ==
  CASE \E i \in DOMAIN xs : StringTakes[name][i] \notin {"any", xs[i].k} -> Error("kind")
    [] name = "Decimal.fromString" -> Value(TextToDecimal(Trim(xs[1].string)))
    [] name = "Decimal.toString" -> Text1(DecimalText(xs[1]))
    [] name \in {"String.length", "String.contains", "String.startsWith", "String.fromInt",
                 "String.toUpper", "String.toLower"} -> StringBasics(name, xs)
    [] name \in {"String.toList", "String.fromList", "String.cons", "String.map",
                 "String.filter", "String.foldl", "String.any"} -> StringWalks(name, xs, caller)
    [] StartsWith(name, "Char.") -> CharOps(name, xs)
    [] OTHER -> StringExtras(name, xs)
=============================================================================
