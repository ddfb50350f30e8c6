------------------------------- MODULE Lexer -------------------------------
(***************************************************************************)
(* From source text to tokens.  The text is a sequence of units, each one  *)
(* column wide: a letter, a digit, a punctuation character, a blank, a     *)
(* newline, or a whole string or character literal (their escapes are left *)
(* out).  A token keeps its text and the column it starts in, which is all *)
(* the parser's layout rules look at.                                      *)
(***************************************************************************)
EXTENDS Naturals, SequencesExt

Unit(class, v, n) == [class |-> class, v |-> v, n |-> n]
Lower(v) == Unit("lower", v, 0)
Upper(v) == Unit("upper", v, 0)
Digit(n) == Unit("digit", ToString(n), n)
Char(v) == Unit(IF v \in {"_", "'"} THEN "tail" ELSE "punct", v, 0)
Literal(class, v) == Unit(class, v, 0)
Blank == Unit("blank", "", 0)
Newline == Unit("newline", "", 0)
EndOfText == Unit("eof", "", 0)

At(src, i) == IF i \in DOMAIN src THEN src[i] ELSE EndOfText
Starts(src, i, cs) == \A j \in DOMAIN cs : At(src, i + j - 1) = Char(cs[j])

\* digits and scale are those of a number: its digits, and how many follow the point.
Token(kind, text, digits, scale, col) ==
  [kind |-> kind, text |-> text, digits |-> digits, scale |-> scale, col |-> col]

Keywords == {"module", "exposing", "import", "as", "type", "alias", "if", "then", "else",
             "case", "of", "let", "in", "where", "port"}

TwoCharOperators ==
  {<<"-", ">">>, <<"|", ">">>, <<"<", "|">>, <<"<", "-">>, <<"=", "=">>, <<"/", "/">>,
   <<"/", "=">>, <<"<", "=">>, <<">", "=">>, <<"&", "&">>, <<"|", "|">>, <<"+", "+">>,
   <<":", ":">>}
OneCharOperators ==
  {"(", ")", "[", "]", "{", "}", ",", ";", "=", "|", ":", "<", ">", "+", "-", "*", "/", ".",
   "\\"}

-----------------------------------------------------------------------------
\* Where the reader stands.
Advanced(src, at) ==
  [i |-> at.i + 1, col |-> IF At(src, at.i).class = "newline" THEN 1 ELSE at.col + 1]
Past(at, n) == [i |-> at.i + n, col |-> at.col + n]

RECURSIVE SkipLine(_, _)
SkipLine(src, at) ==
  IF At(src, at.i).class \in {"newline", "eof"} THEN at ELSE SkipLine(src, Advanced(src, at))

\* Block comments nest; one that is never closed reaches the end of the text.
RECURSIVE SkipBlock(_, _, _)
SkipBlock(src, at, depth) ==
  CASE depth = 0 \/ At(src, at.i).class = "eof" -> at
    [] depth > 0 /\ Starts(src, at.i, <<"{", "-">>) -> SkipBlock(src, Past(at, 2), depth + 1)
    [] depth > 0 /\ Starts(src, at.i, <<"-", "}">>) -> SkipBlock(src, Past(at, 2), depth - 1)
    [] OTHER -> SkipBlock(src, Advanced(src, at), depth)

RECURSIVE SkipTrivia(_, _)
SkipTrivia(src, at) ==
  CASE At(src, at.i).class \in {"blank", "newline"} -> SkipTrivia(src, Advanced(src, at))
    [] Starts(src, at.i, <<"-", "-">>) -> SkipTrivia(src, SkipLine(src, at))
    [] Starts(src, at.i, <<"{", "-">>) -> SkipTrivia(src, SkipBlock(src, Past(at, 2), 1))
    [] OTHER -> at

\* How far a run of units of these classes reaches from i.
RECURSIVE RunEnd(_, _, _)
RunEnd(src, i, classes) ==
  IF At(src, i).class \in classes THEN RunEnd(src, i + 1, classes) ELSE i

IdentTail == {"lower", "upper", "digit", "tail"}
TextOf(src, i, j) == FoldLeft(LAMBDA t, u : t \o u.v, "", SubSeq(src, i, j - 1))
DigitsOf(src, i, j) == [k \in 1 .. (j - i) |-> src[i + k - 1].n]

\* The token that starts at i and the index after it; kind "error" where no rule applies.
ReadToken(src, i, col, spaced) ==
  LET u == At(src, i)
      nameEnd == RunEnd(src, i + 1, IdentTail)
      fieldEnd == RunEnd(src, i + 2, IdentTail)
      intEnd == RunEnd(src, i, {"digit"})
      fracEnd == RunEnd(src, intEnd + 1, {"digit"})
      name == TextOf(src, i, nameEnd)
      Got(kind, text, end) == [token |-> Token(kind, text, <<>>, 0, col), end |-> end]
      Number(kind, digits, scale, end) ==
        [token |-> Token(kind, "", digits, scale, col), end |-> end]
  IN
  CASE u.class = "digit" ->
         IF Starts(src, intEnd, <<".">>) /\ At(src, intEnd + 1).class = "digit"
         THEN Number("Float", DigitsOf(src, i, intEnd) \o DigitsOf(src, intEnd + 1, fracEnd),
                     fracEnd - intEnd - 1, fracEnd)
         ELSE Number("Int", DigitsOf(src, i, intEnd), 0, intEnd)
    [] u.class = "string" -> Got("String", u.v, i + 1)
    [] u.class = "char" -> Got("Char", u.v, i + 1)
    [] u.class = "upper" -> Got("UpperName", name, nameEnd)
    [] u.class = "lower" -> Got(IF name \in Keywords THEN name ELSE "LowerName", name, nameEnd)
    [] u.class = "tail" ->
         IF u.v # "_" THEN Got("error", "", i + 1)
         ELSE IF At(src, i + 1).class \in IdentTail THEN Got("LowerName", name, nameEnd)
         ELSE Got("_", "", i + 1)
    [] u.class = "punct" /\ u.v = "." /\ At(src, i + 1).class = "lower" /\ spaced ->
         Got("FieldDot", TextOf(src, i + 1, fieldEnd), fieldEnd)
    [] OTHER ->
         IF \E op \in TwoCharOperators : Starts(src, i, op)
         THEN Got(u.v \o At(src, i + 1).v, "", i + 2)
         ELSE Got(IF u.v \in OneCharOperators THEN u.v ELSE "error", "", i + 1)

NextToken(src, st) ==
  LET start == SkipTrivia(src, st.at)
      read == ReadToken(src, start.i, start.col, st.at.i = 1 \/ start.i > st.at.i)
  IN
  IF At(src, start.i).class = "eof"
  THEN [st EXCEPT !.done = TRUE, !.toks = Append(@, Token("EOF", "", <<>>, 0, start.col))]
  ELSE IF read.token.kind = "error" THEN [st EXCEPT !.done = TRUE, !.toks = <<>>]
  ELSE [st EXCEPT !.at = Past(start, read.end - start.i), !.toks = Append(@, read.token)]

\* At most n tokens more; by halves, which keeps the recursion shallow.
RECURSIVE Tokens(_, _, _)
Tokens(src, n, st) ==
  LET half == Tokens(src, n \div 2, st)
  IN  IF n = 1 THEN NextToken(src, st)
      ELSE IF half.done THEN half ELSE Tokens(src, n - n \div 2, half)

\* No tokens at all when some character belongs to none.
Lex(src) == Tokens(src, Len(src) + 1, [at |-> [i |-> 1, col |-> 1], toks |-> <<>>, done |-> FALSE]).toks
=============================================================================
