------------------------------- MODULE Values -------------------------------
(***************************************************************************)
(* The values a Mar program computes with, and the operations on them that *)
(* have their own rules: equality, order, arithmetic within the range of   *)
(* Int, exact decimals.                                                    *)
(*                                                                         *)
(* Every step of an evaluation ends in Value(v) or in Error(why); `why` is *)
(*   "overflow"   a result outside the range of its type                   *)
(*   "limit"      a list longer than a builtin will make                   *)
(*   "recursion"  more nested calls than the guard allows                  *)
(*   "no branch", "unbound", "kind"   what only an unchecked program does: *)
(*                no branch matches, a name or field is missing, an        *)
(*                operand is of the wrong kind                             *)
(*   "crash"      the guard let the process run out of stack               *)
(*   "declaration"   an entity or a sign-in is declared as it may not be   *)
(*   "refused"    the database or the encoding of a row refuses a value    *)
(***************************************************************************)
EXTENDS Integers, SequencesExt

CONSTANTS
  MaxInt,        \* the largest Int, 2^53 - 1 in the code
  MaxCoef,       \* the largest coefficient of a Decimal, 10^34 - 1 in the code
  MaxExpansion   \* maxBuiltinExpansion

ASSUME RangesAssumption == {MaxInt, MaxCoef, MaxExpansion} \subseteq Nat \ {0}

VInt(n) == [k |-> "int", int |-> n]
VDecimal(coef, scale) == [k |-> "decimal", coef |-> coef, scale |-> scale]
VDivision(num, den) == [k |-> "division", num |-> num, den |-> den]
VString(s) == [k |-> "string", string |-> s]
VChar(c) == [k |-> "char", char |-> c]
VBool(b) == [k |-> "bool", bool |-> b]
VUnit == [k |-> "unit"]
VCtor(tag, args) == [k |-> "ctor", tag |-> tag, args |-> args]
VTuple(members) == [k |-> "tuple", members |-> members]
VList(elements) == [k |-> "list", elements |-> elements]
VRecord(fields) == [k |-> "record", fields |-> fields]
VDict(pairs) == [k |-> "dict", pairs |-> pairs]
VSet(items) == [k |-> "set", items |-> items]

Just(v) == VCtor("Just", <<v>>)
Nothing == VCtor("Nothing", <<>>)

Value(v) == [err |-> "", value |-> v]
Error(why) == [err |-> why, value |-> VUnit]

Then(r, F(_)) == IF r.err = "" THEN F(r.value) ELSE r

\* Step after step over the elements of a sequence, up to the first error.
Each(es, start, Step(_, _)) ==
  FoldLeft(LAMBDA r, e : Then(r, LAMBDA acc : Step(acc, e)), Value(start), es)
MapEach(es, F(_)) ==
  Each(es, <<>>, LAMBDA acc, e : Then(F(e), LAMBDA v : Value(Append(acc, v))))

Truth(r) == Then(r, LAMBDA v : IF v.k = "bool" THEN Value(v.bool) ELSE Error("kind"))

-----------------------------------------------------------------------------
\* Int.
Magnitude(n) == IF n < 0 THEN -n ELSE n
InIntRange(n) == Magnitude(n) <= MaxInt

IntResult(n) == IF InIntRange(n) THEN Value(VInt(n)) ELSE Error("overflow")

\* Go's division truncates; Mar's divides by zero to zero.
Quotient(a, b) ==
  IF b = 0 THEN 0
  ELSE (IF (a < 0) # (b < 0) THEN -1 ELSE 1) * (Magnitude(a) \div Magnitude(b))
Remainder(a, b) == IF b = 0 THEN 0 ELSE a - b * Quotient(a, b)
Modulo(a, b) == LET r == Remainder(a, b) IN IF r # 0 /\ (r < 0) # (b < 0) THEN r + b ELSE r

-----------------------------------------------------------------------------
\* Decimal: coef * 10^(-scale), the scale being how many places it shows.
DecimalResult(coef, scale) ==
  IF Magnitude(coef) > MaxCoef THEN Error("overflow") ELSE Value(VDecimal(coef, scale))

Wider(a, b) == IF a.scale < b.scale THEN b.scale ELSE a.scale
CoefAt(d, scale) == d.coef * 10 ^ (scale - d.scale)

DecAdd(a, b) == DecimalResult(CoefAt(a, Wider(a, b)) + CoefAt(b, Wider(a, b)), Wider(a, b))
DecSub(a, b) == DecimalResult(CoefAt(a, Wider(a, b)) - CoefAt(b, Wider(a, b)), Wider(a, b))
DecMul(a, b) == DecimalResult(a.coef * b.coef, a.scale + b.scale)

Sign(n) == IF n < 0 THEN -1 ELSE IF n > 0 THEN 1 ELSE 0
DecCompare(a, b) == Sign(CoefAt(a, Wider(a, b)) - CoefAt(b, Wider(a, b)))

\* num / den to so many places; den is not zero.
RoundQuotient(num, den, scale, mode) ==
  LET shift == scale + den.scale - num.scale
      n == Magnitude(num.coef) * (IF shift > 0 THEN 10 ^ shift ELSE 1)
      d == Magnitude(den.coef) * (IF shift < 0 THEN 10 ^ (-shift) ELSE 1)
      negative == (num.coef < 0) # (den.coef < 0)
      q == n \div d
      r == n % d
      up == /\ r # 0
            /\ \/ mode = "Up"
               \/ mode = "Floor" /\ negative
               \/ mode = "Ceiling" /\ ~negative
               \/ mode \in {"HalfUp", "HalfEven"} /\ 2 * r > d
               \/ mode = "HalfUp" /\ 2 * r = d
               \/ mode = "HalfEven" /\ 2 * r = d /\ q % 2 = 1
      rounded == IF up THEN q + 1 ELSE q
  IN  DecimalResult(IF negative THEN -rounded ELSE rounded, scale)

One == VDecimal(1, 0)
DecToScale(d, scale, mode) ==
  IF scale < 0 THEN Error("limit")
  ELSE IF scale >= d.scale THEN DecimalResult(CoefAt(d, scale), scale)
  ELSE RoundQuotient(d, One, scale, mode)

\* The code asks whether the result fits 64 bits, never whether it is in the range of Int.
MaxInt64 == 1000 * MaxInt
DecToInt(d, mode) ==
  Then(RoundQuotient(d, One, 0, mode),
       LAMBDA r : IF Magnitude(r.coef) <= MaxInt64 THEN Value(VInt(r.coef)) ELSE Error("overflow"))

\* The answer of a division, zero when it is by zero.
Resolve(division, scale, mode) ==
  IF scale < 0 THEN Error("limit")
  ELSE IF division.den.coef = 0 THEN Value(VDecimal(0, scale))
  ELSE RoundQuotient(division.num, division.den, scale, mode)

-----------------------------------------------------------------------------
\* Structural, whatever the types; functions and divisions equal nothing.
RECURSIVE EqualValues(_, _)
EqualSeqs(as, bs) == Len(as) = Len(bs) /\ \A i \in DOMAIN as : EqualValues(as[i], bs[i])

EqualValues(a, b) ==
  /\ a.k = b.k
  /\ CASE a.k = "decimal" -> DecCompare(a, b) = 0
       [] a.k \in {"int", "string", "char", "bool", "unit"} -> a = b
       [] a.k = "ctor" -> a.tag = b.tag /\ EqualSeqs(a.args, b.args)
       [] a.k = "tuple" -> EqualSeqs(a.members, b.members)
       [] a.k = "list" -> EqualSeqs(a.elements, b.elements)
       [] a.k = "set" -> EqualSeqs(a.items, b.items)
       [] a.k = "dict" ->
            /\ Len(a.pairs) = Len(b.pairs)
            /\ \A i \in DOMAIN a.pairs : /\ EqualValues(a.pairs[i].key, b.pairs[i].key)
                                         /\ EqualValues(a.pairs[i].value, b.pairs[i].value)
       [] a.k = "record" ->
            /\ DOMAIN a.fields = DOMAIN b.fields
            /\ \A f \in DOMAIN a.fields : EqualValues(a.fields[f], b.fields[f])
       [] OTHER -> FALSE

\* The characters the runs use, in their order.
Alphabet == " !+-./0123456789:?ABCDEFGHIJKLMNOPQRSTUVWXYZ_abcdefghijklmnopqrstuvwxyz~"
Rank(s, i) == CHOOSE r \in 1 .. Len(Alphabet) : SubSeq(Alphabet, r, r) = SubSeq(s, i, i)
CompareText(s, t) ==
  LET shorter == IF Len(s) < Len(t) THEN Len(s) ELSE Len(t)
      differ == {i \in 1 .. shorter : SubSeq(s, i, i) # SubSeq(t, i, i)}
      first == CHOOSE i \in differ : \A j \in differ : i <= j
  IN  IF differ = {} THEN Sign(Len(s) - Len(t)) ELSE Sign(Rank(s, first) - Rank(t, first))

\* -1, 0 or 1.
CompareValues(a, b) ==
  CASE a.k \notin {"int", "decimal", "string", "char"} \/ a.k # b.k -> Error("kind")
    [] a.k = "int" /\ b.k = "int" -> Value(Sign(a.int - b.int))
    [] a.k = "decimal" /\ b.k = "decimal" -> Value(DecCompare(a, b))
    [] a.k = "string" /\ b.k = "string" -> Value(CompareText(a.string, b.string))
    [] a.k = "char" /\ b.k = "char" -> Value(CompareText(a.char, b.char))

Ordering(a, b, signs) == Then(CompareValues(a, b), LAMBDA c : Value(VBool(c \in signs)))

-----------------------------------------------------------------------------
\* The binary operators that do not call a function.
Arithmetic(op, a, b) ==
  CASE a.k = "int" /\ b.k = "int" /\ op # "/" ->
         IntResult(CASE op = "+" -> a.int + b.int
                     [] op = "-" -> a.int - b.int
                     [] op = "*" -> a.int * b.int
                     [] op = "//" -> Quotient(a.int, b.int))
    [] a.k = "decimal" /\ b.k = "decimal" /\ op # "//" ->
         (CASE op = "+" -> DecAdd(a, b)
            [] op = "-" -> DecSub(a, b)
            [] op = "*" -> DecMul(a, b)
            [] op = "/" -> Value(VDivision(a, b)))
    [] OTHER -> Error("kind")

AppendValues(a, b) ==
  CASE a.k = "string" /\ b.k = "string" -> Value(VString(a.string \o b.string))
    [] a.k = "list" /\ b.k = "list" -> Value(VList(a.elements \o b.elements))
    [] OTHER -> Error("kind")

Operate(op, a, b) ==
  CASE op \in {"+", "-", "*", "//", "/"} -> Arithmetic(op, a, b)
    [] op = "==" -> Value(VBool(EqualValues(a, b)))
    [] op = "/=" -> Value(VBool(~EqualValues(a, b)))
    [] op = "<" -> Ordering(a, b, {-1})
    [] op = ">" -> Ordering(a, b, {1})
    [] op = "<=" -> Ordering(a, b, {-1, 0})
    [] op = ">=" -> Ordering(a, b, {0, 1})
    [] op = "++" -> AppendValues(a, b)
    [] op = "::" -> IF b.k = "list" THEN Value(VList(<<a>> \o b.elements)) ELSE Error("kind")
    [] op \in {"&&", "||"} ->
         IF a.k # "bool" \/ b.k # "bool" THEN Error("kind")
         ELSE Value(VBool(IF op = "&&" THEN a.bool /\ b.bool ELSE a.bool \/ b.bool))

Negated(a) ==
  CASE a.k = "int" -> Value(VInt(-a.int))
    [] a.k = "decimal" -> Value(VDecimal(-a.coef, a.scale))
    [] OTHER -> Error("kind")
=============================================================================
