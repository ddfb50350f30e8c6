----------------------------- MODULE Exhaustive -----------------------------
(***************************************************************************)
(* Whether the branches of a case leave a value unmatched, and whether one *)
(* of them can never match.  Both ask the usefulness of a row of patterns  *)
(* against a matrix of rows; a column is one value being matched.          *)
(*                                                                         *)
(* customs gives each union type its constructors in declaration order, a  *)
(* constructor being its name, the types it carries and the type it makes. *)
(***************************************************************************)
EXTENDS Parser, Types

UnboundedScalars == {"Int", "String", "Char"}

Wildcard == Node("PWildcard", 0)
Sig(key, args) == [key |-> key, args |-> args]

\* Mutant: the parameter of the declaration stays a variable.
InstantiateCtorArg_Unbound(argType, result, subjectArgs) == argType

\* A declared argument type at the subject's type arguments.
InstantiateCtorArg(argType, result, subjectArgs) ==
  LET n == IF Len(result.args) < Len(subjectArgs) THEN Len(result.args) ELSE Len(subjectArgs)
      params == {i \in 1 .. n : result.args[i].k = "var"}
  IN  Substitute([id \in {result.args[i].id : i \in params} |->
                    subjectArgs[CHOOSE i \in params : result.args[i].id = id]], argType)

\* The constructors of a type, and whether they are all of its values.
TypeSignature(t, customs) ==
  LET union == customs[t.name]
      SigOf(c) == Sig(c.name, [i \in DOMAIN c.args |->
                                 InstantiateCtorArg(c.args[i], c.result, t.args)])
      Complete(sigs) == [sigs |-> sigs, complete |-> TRUE]
  IN
  IF t.k # "con" THEN [sigs |-> <<>>, complete |-> FALSE]
  ELSE CASE t.name = "()" -> Complete(<<Sig("()", <<>>)>>)
         [] t.name = "#tuple" -> Complete(<<Sig("#tuple", t.args)>>)
         [] t.name = "List" -> Complete(<<Sig("[]", <<>>), Sig("::", <<t.args[1], t>>)>>)
         [] OTHER ->
              IF t.name \in DOMAIN customs \ UnboundedScalars
              THEN Complete([i \in DOMAIN union |-> SigOf(union[i])])
              ELSE [sigs |-> <<>>, complete |-> FALSE]

\* A pattern as a constructor applied to patterns; the key is "" when it matches everything.
HeadCtor(p) ==
  CASE p.k \in {"PVar", "PWildcard", "PRecord"} -> Sig("", <<>>)
    [] p.k = "PCtor" -> Sig(p.name, p.args)
    [] p.k = "PUnit" -> Sig("()", <<>>)
    [] p.k = "PTuple" -> Sig("#tuple", p.args)
    [] p.k = "PCons" -> Sig("::", p.args)
    [] p.k = "PList" -> IF p.args = <<>> THEN Sig("[]", <<>>)
                        ELSE Sig("::", <<p.args[1], [p EXCEPT !.args = Tail(@)]>>)
    [] p.k = "PInt" -> Sig("int:" \o ToString(p.v), <<>>)
    [] p.k = "PString" -> Sig("str:" \o p.name, <<>>)
    [] p.k = "PChar" -> Sig("chr:" \o p.name, <<>>)
Key(row) == HeadCtor(row[1]).key

\* The first column of a row replaced by the arguments that sig's constructor has.
Expanded(row, sig) ==
  LET args == HeadCtor(row[1]).args
  IN  [i \in DOMAIN sig.args |-> IF i \in DOMAIN args THEN args[i] ELSE Wildcard] \o Tail(row)

RECURSIVE Specialize(_, _), DefaultMatrix(_)
Specialize(rows, sig) ==
  IF rows = <<>> THEN <<>>
  ELSE (IF Key(rows[1]) \in {"", sig.key} THEN <<Expanded(rows[1], sig)>> ELSE <<>>)
       \o Specialize(Tail(rows), sig)

\* The rows that match what the first column does not name.
DefaultMatrix(rows) ==
  IF rows = <<>> THEN <<>>
  ELSE (IF Key(rows[1]) = "" THEN <<Tail(rows[1])>> ELSE <<>>) \o DefaultMatrix(Tail(rows))

CoversEveryCtor(rows, sigs) ==
  sigs # <<>> /\ \A i \in DOMAIN sigs : \E j \in DOMAIN rows : Key(rows[j]) = sigs[i].key

\* Whether row q matches a value that no row of the matrix does.
RECURSIVE Useful(_, _, _, _)
Useful(rows, types, q, customs) ==
  LET signature == TypeSignature(types[1], customs)
      named == {i \in DOMAIN signature.sigs : signature.sigs[i].key = Key(q)}
      Under(sig) == Useful(Specialize(rows, sig), sig.args \o Tail(types), Expanded(q, sig), customs)
  IN
  CASE types = <<>> -> rows = <<>>
    [] types # <<>> /\ Key(q) # "" ->
         Under(IF named = {} THEN Sig(Key(q), <<>>) ELSE signature.sigs[CHOOSE i \in named : TRUE])
    [] OTHER ->
         IF signature.complete /\ CoversEveryCtor(rows, signature.sigs)
         THEN \E i \in DOMAIN signature.sigs : Under(signature.sigs[i])
         ELSE Useful(DefaultMatrix(rows), Tail(types), Tail(q), customs)

\* A pattern for what was forgotten, as renderWitness writes it.
WitnessOf(sig, args) ==
  LET k == CASE sig.key = "::" -> "PCons"
             [] sig.key = "[]" -> "PList"
             [] sig.key = "()" -> "PUnit"
             [] sig.key = "#tuple" -> "PTuple"
             [] OTHER -> "PCtor"
  IN  [Node(k, 0) EXCEPT !.name = IF k = "PCtor" THEN sig.key ELSE "", !.args = args]

\* No witness, or one row of patterns that the matrix leaves unmatched.
None == [found |-> FALSE, row |-> <<>>]
Witness(row) == [found |-> TRUE, row |-> row]

RECURSIVE MissingWitness(_, _, _), FirstMissing(_, _, _, _)

\* The first constructor under which something is missing.
FirstMissing(rows, types, sigs, customs) ==
  LET n == Len(sigs[1].args)
      sub == MissingWitness(Specialize(rows, sigs[1]), sigs[1].args \o Tail(types), customs)
  IN  CASE sigs = <<>> -> None
        [] sigs # <<>> /\ sub.found ->
             Witness(<<WitnessOf(sigs[1], SubSeq(sub.row, 1, n))>>
                     \o SubSeq(sub.row, n + 1, Len(sub.row)))
        [] OTHER -> FirstMissing(rows, types, Tail(sigs), customs)

MissingWitness(rows, types, customs) ==
  LET signature == TypeSignature(types[1], customs)
      sigs == signature.sigs
      sub == MissingWitness(DefaultMatrix(rows), Tail(types), customs)
      absent == {i \in DOMAIN sigs : \A j \in DOMAIN rows : Key(rows[j]) # sigs[i].key}
      first == sigs[CHOOSE i \in absent : \A j \in absent : i <= j]
      head == IF signature.complete /\ absent # {}
              THEN WitnessOf(first, [i \in DOMAIN first.args |-> Wildcard])
              ELSE Wildcard
  IN
  CASE types = <<>> -> IF rows = <<>> THEN Witness(<<>>) ELSE None
    [] types # <<>> /\ signature.complete /\ CoversEveryCtor(rows, sigs) ->
         FirstMissing(rows, types, sigs, customs)
    [] OTHER -> IF sub.found THEN Witness(<<head>> \o sub.row) ELSE None

\* checkExhaustive: the index of the first branch that can never match (0 for none), and what
\* no branch matches.
CheckExhaustive(subjectType, pats, customs) ==
  LET Rows(n) == [i \in 1 .. n |-> <<pats[i]>>]
      dead == {i \in DOMAIN pats : ~Useful(Rows(i - 1), <<subjectType>>, <<pats[i]>>, customs)}
  IN  [dead |-> IF dead = {} THEN 0 ELSE CHOOSE i \in dead : \A j \in dead : i <= j,
       missing |-> MissingWitness(Rows(Len(pats)), <<subjectType>>, customs)]
=============================================================================
