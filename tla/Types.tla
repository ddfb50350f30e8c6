------------------------------- MODULE Types -------------------------------
(***************************************************************************)
(* The types of the Mar checker and their unification.  A type is a        *)
(* variable with a kind, a constructor applied to arguments (functions,    *)
(* tuples and () are constructors of their own names) or a record with a   *)
(* tail, which is Closed, a variable or the record that variable became.   *)
(*                                                                         *)
(* The checker's mutable state is a record `st`, passed from step to step: *)
(*   ok    FALSE once something was refused; every later step is skipped   *)
(*   next  the next variable that FreshVar hands out                       *)
(*   bind  the substitution                                                *)
(*   t     the type the last step arrived at                               *)
(*   seen  the type of each expression that elaboration may rewrite        *)
(*   fields  the types of the fields of each record literal, in their order *)
(***************************************************************************)
EXTENDS Naturals, SequencesExt

Var(id, kind) == [k |-> "var", id |-> id, kind |-> kind]
Con(name, args) == [k |-> "con", name |-> name, args |-> args]
Record(fields, tail) == [k |-> "rec", fields |-> fields, tail |-> tail]

Base(name) == Con(name, <<>>)
Arrow(from, to) == Con("->", <<from, to>>)
Curried(types, result) == FoldRight(LAMBDA t, to : Arrow(t, to), types, result)
TupleOfTypes(members) == Con("#tuple", members)
ListOf(elem) == Con("List", <<elem>>)
UnitType == Base("()")
Closed == Base("#closed")

Scheme(vars, body) == [vars |-> vars, body |-> body]
Mono(t) == Scheme({}, t)

EmptyState == [ok |-> TRUE, next |-> 1, bind |-> <<>>, t |-> UnitType, seen |-> <<>>, fields |-> <<>>]
Fail(st) == [st EXCEPT !.ok = FALSE]
Yield(st, t) == [st EXCEPT !.t = t]

\* FreshVar and atomicNextVarID: the new variable is the state's type.
Fresh(st, kind) == [st EXCEPT !.next = @ + 1, !.t = Var(st.next, kind)]

-----------------------------------------------------------------------------
RECURSIVE Apply(_, _)
Apply(bind, t) ==
  CASE t.k = "var" -> IF t.id \in DOMAIN bind THEN Apply(bind, bind[t.id]) ELSE t
    [] t.k = "con" -> [t EXCEPT !.args = [i \in DOMAIN @ |-> Apply(bind, @[i])]]
    [] t.k = "rec" -> [t EXCEPT !.fields = [f \in DOMAIN @ |-> Apply(bind, @[f])],
                                !.tail = Apply(bind, @)]

RECURSIVE VarsIn(_)
VarsIn(t) ==
  CASE t.k = "var" -> {t}
    [] t.k = "con" -> UNION {VarsIn(t.args[i]) : i \in DOMAIN t.args}
    [] t.k = "rec" -> VarsIn(t.tail) \cup UNION {VarsIn(t.fields[f]) : f \in DOMAIN t.fields}

FreeVars(st, t) == VarsIn(Apply(st.bind, t))

\* substituteVars: m gives some variables a type, which is not looked into again.
RECURSIVE Substitute(_, _)
Substitute(m, t) ==
  CASE t.k = "var" -> IF t.id \in DOMAIN m THEN m[t.id] ELSE t
    [] t.k = "con" -> [t EXCEPT !.args = [i \in DOMAIN @ |-> Substitute(m, @[i])]]
    [] t.k = "rec" -> [t EXCEPT !.fields = [f \in DOMAIN @ |-> Substitute(m, @[f])],
                                !.tail = Substitute(m, @)]

\* A fresh variable of the same kind for each quantified one.
Instantiate(st, scheme) ==
  LET Rank(v) == Cardinality({w \in scheme.vars : w.id < v.id})
      m == [id \in {v.id : v \in scheme.vars} |->
              LET v == CHOOSE w \in scheme.vars : w.id = id IN Var(st.next + Rank(v), v.kind)]
  IN  [st EXCEPT !.next = @ + Cardinality(scheme.vars), !.t = Substitute(m, scheme.body)]

\* What is free in t and in no type of the environment becomes general.
Generalize(st, envFree, t) ==
  LET fixed == UNION {FreeVars(st, v) : v \in envFree}
  IN  Scheme({v \in FreeVars(st, t) : \A w \in fixed : w.id # v.id}, Apply(st.bind, t))

-----------------------------------------------------------------------------
IsBase(t, names) == t.k = "con" /\ t.name \in names /\ t.args = <<>>
IsComparableType(t) == IsBase(t, {"Int", "String", "Char", "Decimal"})
IsNumberType(t) == IsBase(t, {"Int", "Decimal"})
IsAppendableType(t) ==
  IsBase(t, {"String"}) \/ (t.k = "con" /\ t.name = "List" /\ Len(t.args) = 1)

SatisfiesKind(kind, t) ==
  CASE kind = "comparable" -> IsComparableType(t)
    [] kind = "appendable" -> IsAppendableType(t)
    [] kind = "number" -> IsNumberType(t)
    [] OTHER -> TRUE

\* The kind of a variable that has both, or "conflict".
MergedKind(a, b) ==
  CASE a = b \/ b = "any" -> a
    [] a = "any" -> b
    [] {a, b} = {"comparable", "number"} -> "number"
    [] OTHER -> "conflict"

BindTo(st, v, t) == [st EXCEPT !.bind = v.id :> t @@ @]

BindVar(st, v, t) ==
  LET merged == MergedKind(v.kind, t.kind)
      both == Fresh(st, merged)
  IN
  CASE t = v -> st
    [] t # v /\ v \in FreeVars(st, t) -> Fail(st)
    [] OTHER ->
         IF v.kind = "any" THEN BindTo(st, v, t)
         ELSE IF t.k # "var" THEN IF SatisfiesKind(v.kind, t) THEN BindTo(st, v, t) ELSE Fail(st)
         ELSE IF merged = "conflict" THEN Fail(st)
         ELSE IF merged = t.kind THEN BindTo(st, v, t)
         ELSE BindTo(BindTo(both, v, both.t), t, both.t)

\* The fields `names` of a row as a row of their own.
Extension(fields, names, tail) == Record([n \in names |-> fields[n]], tail)
ExtendTail(fields, names, tail) == IF names = {} THEN tail ELSE Extension(fields, names, tail)

RECURSIVE Unify(_, _, _)

UnifyEach(st, as, bs) ==
  FoldLeft(LAMBDA s, i : Unify(s, as[i], bs[i]), st, [i \in DOMAIN as |-> i])

\* Shared fields first (the code takes them in Go's map order: the outcome is the same up
\* to the names of variables), then what only one of the two has.
UnifyRecords(st, a, b) ==
  LET inA == DOMAIN a.fields
      inB == DOMAIN b.fields
      shared == FoldSet(LAMBDA f, s : Unify(s, a.fields[f], b.fields[f]), st, inA \cap inB)
      row == Fresh(shared, "any")
  IN
  CASE a.tail = Closed /\ b.tail = Closed -> IF inA = inB THEN shared ELSE Fail(shared)
    [] a.tail = Closed /\ b.tail # Closed ->
         IF inB \ inA # {} THEN Fail(shared)
         ELSE Unify(shared, b.tail, Extension(a.fields, inA \ inB, Closed))
    [] a.tail # Closed /\ b.tail = Closed ->
         IF inA \ inB # {} THEN Fail(shared)
         ELSE Unify(shared, a.tail, Extension(b.fields, inB \ inA, Closed))
    [] OTHER ->
         Unify(Unify(row, a.tail, ExtendTail(b.fields, inB \ inA, row.t)),
               b.tail, ExtendTail(a.fields, inA \ inB, row.t))

Unify(st, t1, t2) ==
  LET a == Apply(st.bind, t1)
      b == Apply(st.bind, t2)
  IN
  CASE ~st.ok -> st
    [] st.ok /\ a.k = "var" -> BindVar(st, a, b)
    [] st.ok /\ a.k # "var" /\ b.k = "var" -> BindVar(st, b, a)
    [] OTHER ->
         IF a.k = "rec" /\ b.k = "rec" THEN UnifyRecords(st, a, b)
         ELSE IF /\ a.k = "con" /\ b.k = "con" /\ a.name = b.name
                 /\ Len(a.args) = Len(b.args)
              THEN UnifyEach(st, a.args, b.args)
         ELSE Fail(st)
=============================================================================
