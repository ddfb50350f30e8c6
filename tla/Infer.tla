------------------------------- MODULE Infer -------------------------------
(***************************************************************************)
(* Hindley-Milner inference of an expression.  An environment `env` has    *)
(*   vals     what each name stands for, as a scheme                       *)
(*   free     the variables free in the types of its own bindings          *)
(*   customs  the constructors of each union type                          *)
(* and inference goes from one checker state to the next (see Types).      *)
(* Where a name is unknown the state fails.                                *)
(***************************************************************************)
EXTENDS Exhaustive

Bind(env, name, scheme) ==
  [env EXCEPT !.vals = name :> scheme @@ @,
              !.free = @ \cup (VarsIn(scheme.body) \ scheme.vars)]

InferName(st, env, name) ==
  IF name \in DOMAIN env.vals THEN Instantiate(st, env.vals[name]) ELSE Fail(st)

\* Elaboration wants to know what this expression turned out to be.
Remember(st, pos) == [st EXCEPT !.seen = pos :> st.t @@ @]

\* The shape lint wants to know the types of a record literal's fields.
RememberFields(st, pos, types) == [st EXCEPT !.fields = pos :> types @@ @]

\* Unify, with the state's type replaced by t.
UnifyTo(st, a, b, t) == Yield(Unify(st, a, b), t)
Applied(st, t) == Yield(st, Apply(st.bind, t))

-----------------------------------------------------------------------------
\* Patterns: pst has the state and the environment the pattern's names extend.
PState(st, env) == [st |-> st, env |-> env]

RECURSIVE InferPattern(_, _, _), InferCtorArgs(_, _, _, _), InferPatterns(_, _, _, _),
          InferElements(_, _, _, _)

\* The arguments of a constructor pattern against its type.
InferCtorArgs(st, env, pats, ctorType) ==
  LET arg == InferPattern(st, env, pats[1])
  IN  CASE ~st.ok -> PState(st, env)
        [] st.ok /\ pats = <<>> -> PState(Applied(st, ctorType), env)
        [] OTHER ->
             IF ctorType.k = "con" /\ ctorType.name = "->"
             THEN InferCtorArgs(IF arg.st.ok THEN Unify(arg.st, ctorType.args[1], arg.st.t) ELSE arg.st,
                                arg.env, Tail(pats), ctorType.args[2])
             ELSE PState(Fail(st), env)

\* The members of a tuple pattern, whose types are collected in `types`.
InferPatterns(st, env, pats, types) ==
  LET first == InferPattern(st, env, pats[1])
  IN  IF pats = <<>> \/ ~st.ok THEN PState(Yield(st, TupleOfTypes(types)), env)
      ELSE InferPatterns(first.st, first.env, Tail(pats), Append(types, first.st.t))

\* The elements of a list pattern, all of type elem.
InferElements(st, env, pats, elem) ==
  LET first == InferPattern(st, env, pats[1])
  IN  IF pats = <<>> \/ ~st.ok THEN PState(Applied(st, ListOf(elem)), env)
      ELSE InferElements(Unify(first.st, elem, first.st.t), first.env, Tail(pats), elem)

\* One fresh type per field, and a fresh tail for the fields the pattern does not name.
InferPRecord(st, env, names) ==
  LET n == Len(names)
      FieldType(i) == Var(st.next + i - 1, "any")
      Index(f) == CHOOSE i \in DOMAIN names : names[i] = f
      row == Record([f \in Range(names) |-> FieldType(Index(f))], Var(st.next + n, "any"))
  IN  IF ~IsInjective(names) THEN PState(Fail(st), env)
      ELSE PState([st EXCEPT !.next = @ + n + 1, !.t = row],
                  FoldLeft(LAMBDA e, i : Bind(e, names[i], Mono(FieldType(i))), env,
                           [i \in 1 .. n |-> i]))

InferPattern(st, env, p) ==
  LET fresh == Fresh(st, "any")
      head == InferPattern(st, env, p.args[1])
      tail == InferPattern(head.st, head.env, p.args[2])
      list == ListOf(head.st.t)
      ctor == InferName(st, env, JoinName(p))
  IN
  CASE ~st.ok -> PState(st, env)
    [] st.ok /\ p.k = "PWildcard" -> PState(fresh, env)
    [] st.ok /\ p.k = "PVar" -> PState(fresh, Bind(env, p.name, Mono(fresh.t)))
    [] st.ok /\ p.k = "PInt" -> PState(Yield(st, Base("Int")), env)
    [] st.ok /\ p.k = "PString" -> PState(Yield(st, Base("String")), env)
    [] st.ok /\ p.k = "PChar" -> PState(Yield(st, Base("Char")), env)
    [] st.ok /\ p.k = "PUnit" -> PState(Yield(st, UnitType), env)
    [] st.ok /\ p.k = "PCtor" -> InferCtorArgs(ctor, env, p.args, ctor.t)
    [] st.ok /\ p.k = "PTuple" -> InferPatterns(st, env, p.args, <<>>)
    [] st.ok /\ p.k = "PList" -> InferElements(fresh, env, p.args, fresh.t)
    [] st.ok /\ p.k = "PCons" ->
         PState(LET joined == Unify(tail.st, tail.st.t, list) IN Applied(joined, list), tail.env)
    [] st.ok /\ p.k = "PRecord" -> InferPRecord(st, env, p.names)

\* bindPattern: the patterns of a let's plain binder and of a function's parameter.  A record
\* pattern binds the fields that the type is already known to have; no other pattern binds.
BindPattern(st, env, p, scheme) ==
  LET inst == Instantiate(st, scheme)
      known == IF inst.t.k = "rec" THEN SelectSeq(p.names, LAMBDA f : f \in DOMAIN inst.t.fields)
               ELSE <<>>
  IN
  CASE p.k = "PVar" -> PState(st, Bind(env, p.name, scheme))
    [] p.k = "PRecord" ->
         PState(inst, FoldLeft(LAMBDA e, f : Bind(e, f, Mono(inst.t.fields[f])), env, known))
    [] OTHER -> PState(st, env)

-----------------------------------------------------------------------------
\* Mutant: a let binding is generalised over every variable of its type.
GeneralizeLet_All(st, env, t) == Generalize(st, {}, t)
GeneralizeLet(st, env, t) == Generalize(st, env.free, t)

RECURSIVE Infer(_, _, _), InferAll(_, _, _, _), InferSame(_, _, _, _), InferBindings(_, _, _, _),
          InferBranches(_, _, _, _, _), BindParams(_, _, _, _)

\* Types of a sequence of expressions, in a tuple.
InferAll(st, env, es, types) ==
  LET first == Infer(st, env, es[1])
  IN  IF es = <<>> \/ ~st.ok THEN Yield(st, TupleOfTypes(types))
      ELSE InferAll(first, env, Tail(es), Append(types, first.t))

\* Every expression has the type t.
InferSame(st, env, es, t) ==
  LET first == Infer(st, env, es[1])
  IN  IF es = <<>> \/ ~st.ok THEN Applied(st, t)
      ELSE InferSame(IF first.ok THEN Unify(first, t, first.t) ELSE first, env, Tail(es), t)

InferApp(st, env, e) ==
  LET fn == Infer(st, env, e.args[1])
      arg == Infer(fn, env, e.args[2])
      ret == Fresh(arg, "any")
      called == Unify(ret, fn.t, Arrow(arg.t, ret.t))
  IN  IF arg.ok THEN Applied(called, ret.t) ELSE arg

InferBinop(st, env, e) ==
  LET op == InferName(st, env, e.name)
      left == Infer(op, env, e.args[1])
      right == Infer(left, env, e.args[2])
      ret == Fresh(right, "any")
      called == Unify(ret, op.t, Arrow(left.t, Arrow(right.t, ret.t)))
  IN  IF right.ok THEN Applied(called, ret.t) ELSE right

\* The parameters, each at a fresh type; the types are collected in the state's own.
BindParams(st, env, pats, types) ==
  LET fresh == Fresh(st, "any")
      bound == BindPattern(fresh, env, pats[1], Mono(fresh.t))
  IN  IF pats = <<>> THEN PState(Yield(st, TupleOfTypes(types)), env)
      ELSE BindParams(bound.st, bound.env, Tail(pats), Append(types, fresh.t))

InferLambda(st, env, e) ==
  LET params == BindParams(st, env, e.pats, <<>>)
      body == Infer(params.st, params.env, e.args[1])
  IN  Applied(body, Curried(params.st.t.args, body.t))

InferIf(st, env, e) ==
  LET cond == Infer(st, env, e.args[1])
      bool == Unify(cond, cond.t, Base("Bool"))
      then == Infer(bool, env, e.args[2])
      else == Infer(then, env, e.args[3])
  IN  IF else.ok THEN Applied(Unify(else, then.t, else.t), then.t) ELSE else

\* A name or _ is generalised; any other pattern is matched to the bound value's type, and
\* whether it can fail to match is not asked.
InferBindings(st, env, pats, es) ==
  LET bound == Infer(st, env, es[1])
      simple == pats[1].k \in {"PVar", "PWildcard"}
      general == BindPattern(bound, env, pats[1], GeneralizeLet(bound, env, bound.t))
      matched == InferPattern(bound, env, pats[1])
      unified == Unify(matched.st, bound.t, matched.st.t)
  IN  CASE ~st.ok -> st
        [] st.ok /\ pats = <<>> -> Infer(st, env, es[1])
        [] OTHER ->
             IF ~bound.ok THEN bound
             ELSE IF simple THEN InferBindings(general.st, general.env, Tail(pats), Tail(es))
             ELSE InferBindings(unified, matched.env, Tail(pats), Tail(es))

\* The branches of a case: subject is its type, result that of the first branch.
InferBranches(st, env, pats, bodies, types) ==
  LET pat == InferPattern(st, env, pats[1])
      against == Unify(pat.st, types.subject, pat.st.t)
      body == Infer(against, pat.env, bodies[1])
      result == IF types.result = {} THEN body.t ELSE CHOOSE t \in types.result : TRUE
  IN  IF pats = <<>> \/ ~st.ok
      THEN IF st.ok THEN Applied(st, CHOOSE t \in types.result : TRUE) ELSE st
      ELSE InferBranches(IF body.ok THEN Unify(body, result, body.t) ELSE body, env, Tail(pats),
                         Tail(bodies), [types EXCEPT !.result = {result}])

InferCase(st, env, e) ==
  LET subject == Infer(st, env, e.args[1])
      branches == InferBranches(subject, env, e.pats, Tail(e.args),
                                [subject |-> subject.t, result |-> {}])
      checked == CheckExhaustive(Apply(branches.bind, subject.t), e.pats, env.customs)
  IN  IF ~branches.ok THEN branches
      ELSE IF checked.dead = 0 /\ ~checked.missing.found THEN branches ELSE Fail(branches)

FieldsOf(names, types) ==
  [f \in Range(names) |-> types[CHOOSE i \in DOMAIN names :
                                  names[i] = f /\ \A j \in DOMAIN names : names[j] = f => j <= i]]

InferRecordUpdate(st, env, e) ==
  LET base == Infer(st, env, e.args[1])
      values == InferAll(base, env, Tail(e.args), <<>>)
      row == Fresh(values, "any")
      updated == Unify(row, base.t, Record(FieldsOf(e.names, values.t.args), row.t))
  IN  IF values.ok THEN Applied(updated, base.t) ELSE values

\* { row | name : field }, at fresh variables.
InferFieldAccess(st, env, e) ==
  LET record == Infer(st, env, e.args[1])
      field == Fresh(record, "any")
      row == Fresh(field, "any")
      read == Unify(row, record.t, Record(e.name :> field.t, row.t))
  IN  IF record.ok THEN Applied(read, field.t) ELSE record

InferFieldAccessor(st, e) ==
  LET field == Fresh(st, "any")
      row == Fresh(field, "any")
  IN  Yield(row, Arrow(Record(e.name :> field.t, row.t), field.t))

Infer(st, env, e) ==
  LET inner == Infer(st, env, e.args[1])
      number == Fresh(inner, "number")
      elem == Fresh(st, "any")
      values == InferAll(st, env, e.args, <<>>)
  IN
  CASE ~st.ok -> st
    [] st.ok /\ e.k = "EInt" -> Remember(Fresh(st, "number"), e.pos)
    [] st.ok /\ e.k = "EDecimal" -> Yield(st, Base("Decimal"))
    [] st.ok /\ e.k = "EString" -> Yield(st, Base("String"))
    [] st.ok /\ e.k = "EChar" -> Yield(st, Base("Char"))
    [] st.ok /\ e.k = "EUnit" -> Yield(st, UnitType)
    [] st.ok /\ e.k = "EVar" -> InferName(st, env, e.name)
    [] st.ok /\ e.k = "EQualified" ->
         Remember(InferName(st, env, IF JoinName(e) \in DOMAIN env.vals THEN JoinName(e) ELSE e.name),
                  e.pos)
    [] st.ok /\ e.k = "ECtor" -> InferName(st, env, JoinName(e))
    [] st.ok /\ e.k = "ENegate" -> UnifyTo(number, inner.t, number.t, number.t)
    [] st.ok /\ e.k = "EApp" -> InferApp(st, env, e)
    [] st.ok /\ e.k = "EBinop" -> InferBinop(st, env, e)
    [] st.ok /\ e.k = "ELambda" -> InferLambda(st, env, e)
    [] st.ok /\ e.k = "EIf" -> InferIf(st, env, e)
    [] st.ok /\ e.k = "ELet" -> InferBindings(st, env, e.pats, e.args)
    [] st.ok /\ e.k = "ETuple" -> values
    [] st.ok /\ e.k = "EList" ->
         IF e.args = <<>> THEN Yield(elem, ListOf(elem.t))
         ELSE LET es == InferSame(inner, env, Tail(e.args), inner.t) IN Yield(es, ListOf(es.t))
    [] st.ok /\ e.k = "ERecord" ->
         IF ~values.ok THEN values
         ELSE Yield(RememberFields(values, e.pos, values.t.args),
                    Record(FieldsOf(e.names, values.t.args), Closed))
    [] st.ok /\ e.k = "ERecordUpdate" -> InferRecordUpdate(st, env, e)
    [] st.ok /\ e.k = "EFieldAccess" -> InferFieldAccess(st, env, e)
    [] st.ok /\ e.k = "EFieldAccessor" -> InferFieldAccessor(st, e)
    [] st.ok /\ e.k = "ECase" -> InferCase(st, env, e)

\* Elaborate: an integer literal whose type became Decimal is one at run time, and a sum or
\* product of Decimals gets the implementation whose empty sum is a Decimal.
DecimalImpl == [name \in {"List.sum", "List.product"} |->
                  IF name = "List.sum" THEN "listSumDecimal" ELSE "listProductDecimal"]

RECURSIVE Elaborate(_, _)
Elaborate(st, e) ==
  LET deep == [e EXCEPT !.args = [i \in DOMAIN @ |-> Elaborate(st, @[i])]]
      t == Apply(st.bind, st.seen[e.pos])
      decimal == Base("Decimal")
  IN
  CASE e.k = "EInt" /\ e.pos \in DOMAIN st.seen /\ t = decimal -> [e EXCEPT !.mod = "Decimal"]
    [] e.k = "EQualified" /\ JoinName(e) \in DOMAIN DecimalImpl /\ e.pos \in DOMAIN st.seen
         /\ t.k = "con" /\ t.name = "->" /\ t.args[2] = decimal ->
         [e EXCEPT !.mod = "", !.name = DecimalImpl[JoinName(e)]]
    [] OTHER -> deep
=============================================================================
