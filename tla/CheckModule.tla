---------------------------- MODULE CheckModule ----------------------------
(***************************************************************************)
(* CheckModuleWith: the types a module declares, the types of its values,  *)
(* the refusal of values that need themselves, and the order in which the  *)
(* evaluator can go straight through what is left.                         *)
(*                                                                         *)
(* A type is known by its canonical name Module.Name; names gives the      *)
(* canonical names that a bare name may stand for.                         *)
(***************************************************************************)
EXTENDS Infer

BareBuiltinCtors ==
  {"Just", "Nothing", "Ok", "Err", "True", "False", "LT", "EQ", "GT", "GET", "POST", "PUT",
   "PATCH", "DELETE"}
ReservedTypeNames ==
  {"Int", "String", "Bool", "Char", "Decimal", "Time", "Duration", "Angle", "Order", "List",
   "Dict", "Set", "Maybe", "Result", "Task", "Cmd", "Sub", "View", "Service", "Entity", "Auth",
   "Page", "Method"}
Primitives == {"Int", "Decimal", "String", "Bool", "Char"}

Select(seq, k) == SelectSeq(seq, LAMBDA d : d.k = k)

-----------------------------------------------------------------------------
\* What has to come before what: positions in dependency order.

\* Depth first, in the order of `todo`; a node is done as soon as it is entered.
RECURSIVE Visit(_, _, _)
Visit(deps, todo, acc) ==
  LET i == todo[1]
      below == Visit(deps, deps[i], [acc EXCEPT !.done = @ \cup {i}])
  IN  CASE todo = <<>> -> acc
        [] todo # <<>> /\ i \in acc.done -> Visit(deps, Tail(todo), acc)
        [] OTHER -> Visit(deps, Tail(todo), [below EXCEPT !.order = Append(@, i)])

\* deps[i]: what i needs, in the order it is looked at.
InDependencyOrder(deps) ==
  Visit(deps, [i \in DOMAIN deps |-> i], [done |-> {}, order |-> <<>>]).order
Ascending(s) == SetToSortSeq(s, <)

\* Unqualified type names that a type expression, or a type declaration, mentions.
RECURSIVE TypeNamesIn(_)
TypeNamesIn(te) ==
  (IF te.k = "TypeCon" /\ te.mod = "" THEN {te.name} ELSE {})
  \cup UNION {TypeNamesIn(te.args[i]) : i \in DOMAIN te.args}

TypeDeclsInDependencyOrder(decls) ==
  LET ds == SelectSeq(decls, LAMBDA d : d.k \in {"TypeAliasDecl", "CustomTypeDecl"})
      Uses(i) == {j \in DOMAIN ds : j # i /\ ds[j].name \in TypeNamesIn(ds[i])}
      order == InDependencyOrder([i \in DOMAIN ds |-> Ascending(Uses(i))])
  IN  [i \in DOMAIN order |-> ds[order[i]]]

\* The names a pattern binds, and the top-level values an expression reads.
RECURSIVE PatternBinds(_), TopLevelRefs(_, _), LetRefs(_, _, _)
PatternBinds(p) ==
  CASE p.k = "PVar" -> {p.name}
    [] p.k = "PRecord" -> Range(p.names)
    [] OTHER -> UNION {PatternBinds(p.args[i]) : i \in DOMAIN p.args}
BindsOf(pats) == UNION {PatternBinds(pats[i]) : i \in DOMAIN pats}

LetRefs(pats, es, values) ==
  TopLevelRefs(es[1], values)
  \cup (IF pats = <<>> THEN {} ELSE LetRefs(Tail(pats), Tail(es), values \ PatternBinds(pats[1])))

TopLevelRefs(e, values) ==
  CASE e.k = "EVar" -> {e.name} \cap values
    [] e.k = "ELambda" -> TopLevelRefs(e.args[1], values \ BindsOf(e.pats))
    [] e.k = "ECase" ->
         TopLevelRefs(e.args[1], values)
         \cup UNION {TopLevelRefs(e.args[i + 1], values \ PatternBinds(e.pats[i])) :
                       i \in DOMAIN e.pats}
    [] e.k = "ELet" -> LetRefs(e.pats, e.args, values)
    [] OTHER -> UNION {TopLevelRefs(e.args[i], values) : i \in DOMAIN e.args}

\* deps[n]: the top-level values that the declaration of n reads.
ValueDeps(vs) ==
  LET names == {vs[i].name : i \in DOMAIN vs}
  IN  [i \in DOMAIN vs |->
         {j \in DOMAIN vs : vs[j].name \in TopLevelRefs(vs[i].args[1], names \ BindsOf(vs[i].pats))}]

RECURSIVE ReachedFrom(_, _)
ReachedFrom(deps, s) ==
  LET more == s \cup UNION {deps[i] : i \in s}
  IN  IF more = s THEN s ELSE ReachedFrom(deps, more)

IsFunction(v) == v.pats # <<>>

\* A value, not a function, that needs itself.
ValueCycle(vs) ==
  LET deps == ValueDeps(vs)
  IN  \E i \in DOMAIN vs : ~IsFunction(vs[i]) /\ i \in ReachedFrom(deps, deps[i])

\* Functions first; then each value after the values it reads itself.  Two values of which
\* neither reads the other are left in the order written, where the code takes them by name.
OrderValueDecls(vs) ==
  LET deps == ValueDeps(vs)
      values == {i \in DOMAIN vs : ~IsFunction(vs[i])}
      order == InDependencyOrder([i \in DOMAIN vs |->
                 IF i \in values THEN Ascending(deps[i] \cap values) ELSE <<>>])
      placed == SelectSeq(order, LAMBDA i : i \in values)
  IN  SelectSeq(vs, IsFunction) \o [n \in DOMAIN placed |-> vs[placed[n]]]

-----------------------------------------------------------------------------
\* Type expressions.  tn has the type aliases (parameters and body) and custom types by
\* canonical name, and `bare`; vars gives the type variables in scope.

DeclareBare(tn, name, key) == [tn EXCEPT !.bare = name :> {key} @@ @]
BindBare(tn, name, key) ==
  [tn EXCEPT !.bare = name :> ({key} \cup IF name \in DOMAIN @ THEN @[name] ELSE {}) @@ @]

QualifiedBuiltinTypes ==
  {"Service.Error", "Decimal.Rounding", "Decimal.Division", "Auth.RequestOutcome",
   "Auth.VerifyOutcome", "Random.Generator", "Random.Seed", "Keyboard.Key", "Gamepad.Button",
   "Sound.Wave", "App.Shared"}

\* The canonical names that a written name may mean; a qualified one that its module does not
\* have is an error, not a bare name.
Candidates(tn, te) ==
  IF te.mod # "" THEN {JoinName(te)} \cap (QualifiedBuiltinTypes \cup DOMAIN tn.aliases \cup DOMAIN tn.customs)
  ELSE IF te.name \in DOMAIN tn.bare THEN tn.bare[te.name] ELSE {}

Refused == [ok |-> FALSE, t |-> UnitType]
As(t) == [ok |-> TRUE, t |-> t]

ResolveTypeCon(tn, te, args) ==
  LET cands == Candidates(tn, te)
      key == CHOOSE c \in cands : TRUE
      alias == tn.aliases[key]
  IN
  CASE Cardinality(cands) > 1 \/ (cands = {} /\ te.mod # "") -> Refused
    [] cands = {} /\ te.mod = "" ->
         As(IF te.name \in Primitives THEN Base(te.name) ELSE Con(te.name, args))
    [] OTHER ->
         IF key \in QualifiedBuiltinTypes \cup DOMAIN tn.customs THEN As(Con(key, args))
         ELSE IF key \notin DOMAIN tn.aliases THEN As(Con(key, args))
         ELSE IF Len(args) # Len(alias.params) THEN Refused
         ELSE As(Substitute([id \in Range(alias.params) |->
                               args[CHOOSE i \in DOMAIN args : alias.params[i] = id]], alias.body))

RECURSIVE ConvertType(_, _, _)
ConvertType(tn, vars, te) ==
  LET args == [i \in DOMAIN te.args |-> ConvertType(tn, vars, te.args[i])]
      ts == [i \in DOMAIN args |-> args[i].t]
      tail == IF te.name = "" THEN Closed ELSE Var(vars[te.name], "any")
  IN
  CASE \E i \in DOMAIN args : ~args[i].ok -> Refused
    [] te.k = "TypeVar" ->
         IF te.name \in DOMAIN vars THEN As(Var(vars[te.name], "any")) ELSE Refused
    [] te.k = "TypeArrow" -> As(Con("->", ts))
    [] te.k = "TypeUnit" -> As(UnitType)
    [] te.k = "TypeTuple" -> As(TupleOfTypes(ts))
    [] te.k = "TypeRecord" ->
         IF te.name \in DOMAIN vars \cup {""} THEN As(Record(FieldsOf(te.names, ts), tail)) ELSE Refused
    [] te.k = "TypeCon" -> IF \A i \in DOMAIN args : args[i].ok THEN ResolveTypeCon(tn, te, ts) ELSE Refused

\* The type variables of an annotation: the same name is the same variable throughout.
RECURSIVE TypeVarNames(_)
TypeVarNames(te) ==
  (IF te.k = "TypeVar" \/ (te.k = "TypeRecord" /\ te.name # "") THEN {te.name} ELSE {})
  \cup UNION {TypeVarNames(te.args[i]) : i \in DOMAIN te.args}

FreshFor(st, names) ==
  LET ns == SetToSeq(names) IN [n \in names |-> st.next + (CHOOSE i \in DOMAIN ns : ns[i] = n) - 1]
Used(st, names) == [st EXCEPT !.next = @ + Cardinality(names)]
SchemeOver(vars, t) == Scheme({v \in VarsIn(t) : v.id \in Range(vars)}, t)

-----------------------------------------------------------------------------
\* c: the check under way - the state st, the type names tn, the environment env and the types
\* of this module's values so far.  registry gives each module checked before its aliases,
\* custom types and values by name.

NamedValue(c, name, scheme) ==
  [c EXCEPT !.env = Bind(@, name, scheme), !.types = name :> scheme @@ @]
Refusal(c) == [c EXCEPT !.st = Fail(@)]

\* The types of an imported module, under their canonical and their bare names.
ImportTypes(tn, mod, own) ==
  LET all == (DOMAIN own.aliases) \cup DOMAIN own.customs
      keyed(f) == [key \in {Canonical(mod, n) : n \in DOMAIN f} |->
                     f[CHOOSE n \in DOMAIN f : Canonical(mod, n) = key]]
      named == [tn EXCEPT !.aliases = keyed(own.aliases) @@ @, !.customs = keyed(own.customs) @@ @]
  IN  FoldSet(LAMBDA n, acc : BindBare(acc, n, Canonical(mod, n)), named, all)

BindExport(env, mod, name) ==
  IF Canonical(mod, name) \in DOMAIN env.vals
  THEN Bind(env, name, env.vals[Canonical(mod, name)]) ELSE env
BindExports(env, mod, names) ==
  FoldSet(LAMBDA n, acc : BindExport(acc, mod, n), env, names)

\* What an import exposes becomes a bare name: a value, an opened type's constructors, or
\* everything that the module exports.
ImportValues(env, imp, registry) ==
  LET mod == imp.mod
      open == {it \in Range(imp.args[1].args) : it.mod = ".."}
      customs == IF mod \in DOMAIN registry THEN registry[mod].customs ELSE <<>>
      CtorsOf(t) == {customs[t][i].name : i \in DOMAIN customs[t]}
  IN  CASE imp.args = <<>> -> env
        [] imp.args # <<>> /\ imp.args[1].name = ".." ->
             IF mod \in DOMAIN env.exports THEN BindExports(env, mod, env.exports[mod]) ELSE env
        [] OTHER ->
             BindExports(BindExports(env, mod, {it.name : it \in Range(imp.args[1].args)}), mod,
                         UNION {CtorsOf(it.name) : it \in {o \in open : o.name \in DOMAIN customs}})

ImportAll(c, imports, registry) ==
  FoldLeft(LAMBDA acc, imp :
             [acc EXCEPT !.tn = IF imp.mod \in DOMAIN registry
                                THEN ImportTypes(@, imp.mod, registry[imp.mod]) ELSE @,
                         !.env = ImportValues(@, imp, registry)],
           c, imports)

\* The fields of a record type in the order they were declared, also behind another alias.
DeclaredOrder(tn, te) ==
  LET cands == Candidates(tn, te) \cap DOMAIN tn.aliases
  IN  IF te.k = "TypeCon" /\ cands # {} THEN tn.aliases[CHOOSE k \in cands : TRUE].order
      ELSE te.names

\* A closed record alias is also a function from its fields to the record.
DeclareAlias(c, mod, d) ==
  LET params == Range(d.names)
      vars == FreshFor(c.st, params)
      body == ConvertType(c.tn, vars, d.args[1])
      ids == [i \in DOMAIN d.names |-> vars[d.names[i]]]
      order == DeclaredOrder(c.tn, d.args[1])
      alias == [params |-> ids, body |-> body.t, order |-> order]
      key == Canonical(mod, d.name)
      declared == [c EXCEPT !.st = Used(@, params),
                            !.tn = DeclareBare([@ EXCEPT !.aliases = key :> alias @@ @], d.name, key)]
      maker == SchemeOver(ids, Curried([i \in DOMAIN order |-> body.t.fields[order[i]]], body.t))
  IN  IF d.name \in ReservedTypeNames \/ ~body.ok THEN Refusal(c)
      ELSE IF body.t.k = "rec" /\ body.t.tail = Closed THEN NamedValue(declared, d.name, maker)
      ELSE declared

DeclareCustom(c, mod, d) ==
  LET params == Range(d.names)
      vars == FreshFor(c.st, params)
      ids == [i \in DOMAIN d.names |-> vars[d.names[i]]]
      key == Canonical(mod, d.name)
      tn == DeclareBare([c.tn EXCEPT !.customs = key :> <<>> @@ @], d.name, key)
      result == Con(key, [i \in DOMAIN ids |-> Var(ids[i], "any")])
      parts(ctor) == [i \in DOMAIN ctor.args |-> ConvertType(tn, vars, ctor.args[i])]
      types(ctor) == [i \in DOMAIN ctor.args |-> parts(ctor)[i].t]
      legal(ctor) == /\ ctor.name \notin BareBuiltinCtors
                     /\ \A i \in DOMAIN ctor.args : parts(ctor)[i].ok
      ctors == [i \in DOMAIN d.args |->
                  [name |-> d.args[i].name, args |-> types(d.args[i]), result |-> result]]
      declared == [c EXCEPT !.st = Used(@, params), !.tn = tn,
                            !.env = [@ EXCEPT !.customs = key :> ctors @@ @]]
  IN  IF d.name \in ReservedTypeNames \/ \E i \in DOMAIN d.args : ~legal(d.args[i]) THEN Refusal(c)
      ELSE FoldLeft(LAMBDA acc, ctor :
                      NamedValue(acc, ctor.name, SchemeOver(ids, Curried(ctor.args, ctor.result))),
                    declared, ctors)

DeclareTypes(c, mod, decls) ==
  LET ds == TypeDeclsInDependencyOrder(decls)
      claimed == FoldLeft(LAMBDA tn, d : DeclareBare(tn, d.name, Canonical(mod, d.name)), c.tn, ds)
  IN  FoldLeft(LAMBDA acc, d : IF ~acc.st.ok THEN acc
                               ELSE IF d.k = "TypeAliasDecl" THEN DeclareAlias(acc, mod, d)
                               ELSE DeclareCustom(acc, mod, d),
               [c EXCEPT !.tn = claimed], ds)

\* a: the annotations by value name, each the variables it quantifies and its type.
Annotate(c, d) ==
  LET names == TypeVarNames(d.args[1])
      vars == FreshFor(c.st, names)
      body == ConvertType(c.tn, vars, d.args[1])
  IN  IF ~c.st.ok \/ ~body.ok THEN Refusal(c)
      ELSE [c EXCEPT !.st = Used(@, names),
                     !.a = d.name :> [ids |-> [i \in 1 .. Cardinality(names) |-> c.st.next + i - 1],
                                      t |-> body.t] @@ @]

\* Every value is known before any body is looked at: at its annotation, or at a variable.
Prebind(c, v) ==
  LET fresh == Fresh(c.st, "any")
  IN  IF v.name \in DOMAIN c.a
      THEN [c EXCEPT !.env = Bind(@, v.name, SchemeOver(c.a[v.name].ids, c.a[v.name].t))]
      ELSE [c EXCEPT !.st = fresh, !.env = Bind(@, v.name, Mono(fresh.t))]

AsLambda(v) == IF IsFunction(v) THEN [v EXCEPT !.k = "ELambda"] ELSE v.args[1]

InferValue(c, v) ==
  LET inferred == Infer(c.st, c.env, AsLambda(v))
      expected == IF v.name \in DOMAIN c.a THEN c.a[v.name].t ELSE c.env.vals[v.name].body
  IN  [c EXCEPT !.st = IF inferred.ok THEN Unify(inferred, inferred.t, expected) ELSE inferred]

TypeOfValue(c, v) ==
  IF v.name \in DOMAIN c.a THEN SchemeOver(c.a[v.name].ids, Apply(c.st.bind, c.a[v.name].t))
  ELSE Generalize(c.st, {}, c.env.vals[v.name].body)

\* ExtractExprTypes, of which only the fields of record literals are read.
ExtractFieldTypes(st) ==
  [p \in DOMAIN st.fields |-> [i \in DOMAIN st.fields[p] |-> Apply(st.bind, st.fields[p][i])]]

CheckModuleWith(mod, env, registry, next) ==
  LET start == [st |-> [EmptyState EXCEPT !.next = next], env |-> env, types |-> <<>>, a |-> <<>>,
                tn |-> [aliases |-> <<>>, customs |-> <<>>, bare |-> <<>>]]
      vs == Select(mod.decls, "ValueDecl")
      declared == DeclareTypes(ImportAll(start, mod.imports, registry), mod.name, mod.decls)
      annotated == FoldLeft(Annotate, declared, Select(mod.decls, "AnnotationDecl"))
      bound == FoldLeft(Prebind, annotated, vs)
      c == FoldLeft(LAMBDA acc, v : IF acc.st.ok THEN InferValue(acc, v) ELSE acc, bound, vs)
      own(f) == LET names == {d.name : d \in Range(mod.decls)}
                IN  [n \in {m \in names : Canonical(mod.name, m) \in DOMAIN f} |->
                       f[Canonical(mod.name, n)]]
      elaborated == [i \in DOMAIN vs |-> [vs[i] EXCEPT !.args = <<Elaborate(c.st, @[1])>>]]
  IN
  IF ~declared.st.ok \/ ~annotated.st.ok \/ ~c.st.ok \/ ValueCycle(vs) THEN [ok |-> FALSE]
  ELSE [ok |-> TRUE,
        types |-> [n \in {vs[i].name : i \in DOMAIN vs} |->
                     TypeOfValue(c, vs[CHOOSE i \in DOMAIN vs : vs[i].name = n])] @@ c.types,
        aliases |-> own(c.tn.aliases), customs |-> own(c.env.customs),
        registered |-> c.env.customs, values |-> OrderValueDecls(elaborated), next |-> c.st.next,
        fields |-> ExtractFieldTypes(c.st)]
=============================================================================
