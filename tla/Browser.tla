------------------------------- MODULE Browser -------------------------------
(***************************************************************************)
(* The program as it is sent, and the browser's runtime, which evaluates   *)
(* its modules with an evaluator of its own.  Values, patterns and the     *)
(* library are those of the server.  The calls are counted otherwise: only *)
(* the bodies that are under way count (the depth here), a builtin does not *)
(* and so cannot hide a call that goes through it; and the limit is the one *)
(* that the smallest device can keep.                                      *)
(***************************************************************************)
EXTENDS Bundle

CONSTANT MaxPageCalls   \* how many function bodies may be under way at a time, 512 in the code

ASSUME PageCallsAssumption == MaxPageCalls \in Nat \ {0} /\ MaxPageCalls <= MaxCallDepth

\* makeBuiltinEnv: no tables and no rows; a service is its contract; Service.call is complete.
BrowserValues ==
  [n \in {x \in DOMAIN BaseValues : ~(\E m \in {"Entity", "Repo"} : ExportedNames({x}, m) # {})} |->
     CASE n = "Service.implement" -> NativeFn("contract", <<>>, 2)
       [] n = "Service.call" -> NativeFn(n, <<>>, 3)
       [] OTHER -> BaseValues[n]]

-----------------------------------------------------------------------------
\* What is sent: values and the constructors of types, without the types.  A literal that the
\* checker made a Decimal travels as one.
RECURSIVE SerializeExpr(_)
SerializeExpr(e) ==
  LET sent == [e EXCEPT !.args = [i \in DOMAIN @ |-> SerializeExpr(@[i])]]
  IN  IF e.k = "EInt" /\ e.mod = "Decimal" THEN [sent EXCEPT !.k = "EDecimal"] ELSE sent

SerializeModule(mod) ==
  LET shipped == SelectSeq(mod.decls, LAMBDA d : d.k \in {"ValueDecl", "CustomTypeDecl"})
  IN  [mod EXCEPT !.decls = [i \in DOMAIN shipped |->
         IF shipped[i].k = "CustomTypeDecl" THEN shipped[i]
         ELSE [shipped[i] EXCEPT !.args = [j \in DOMAIN @ |-> SerializeExpr(@[j])]]]]
MakeProgram(mods) == [i \in DOMAIN mods |-> SerializeModule(mods[i])]

-----------------------------------------------------------------------------
RECURSIVE EvalExpr(_, _, _, _)

\* apply: arguments are collected until there are enough of them.
ApplyIn(G, f, x, depth) ==
  LET xs == Append(f.applied, x)
  IN
  CASE f.k # "fn" -> Error("kind")
    [] f.k = "fn" /\ Len(xs) < f.arity -> Value([f EXCEPT !.applied = xs])
    [] OTHER ->
         CASE f.native = "" -> IF depth >= MaxPageCalls THEN Error("recursion")
                               ELSE EvalExpr(G, Binding(f.env, Arguments(f, xs)), f.body, depth + 1)
           [] f.native = "ctor" -> Value(VCtor(f.params[1], xs))
           [] f.native = "." -> FieldOf(xs[1], f.params[1])
           [] f.native = "contract" -> Value(xs[1])
           [] OTHER -> CallBuiltin(f.native, xs, Caller(G, depth))

\* An operator is a builtin that is applied to one operand after the other.
ApplyOperator(G, op, xs, depth) ==
  IF op \in DOMAIN NativeTakes THEN CallNative(op, xs, Caller(G, depth)) ELSE Operate(op, xs[1], xs[2])

ShortCircuit(G, env, e, depth) ==
  Then(Truth(EvalExpr(G, env, e.args[1], depth)), LAMBDA left :
         IF left = (e.name = "||") THEN Value(VBool(left))
         ELSE AsBool(Truth(EvalExpr(G, env, e.args[2], depth))))

Let(G, env, e, depth) ==
  LET n == Len(e.pats)
      inner == Each([i \in 1 .. n |-> i], env, LAMBDA cur, i :
                      Then(EvalExpr(G, cur, e.args[i], depth), LAMBDA v : Value(BindLet(e.pats[i], v, cur))))
  IN  Then(inner, LAMBDA cur : EvalExpr(G, cur, e.args[n + 1], depth))

Branch(G, env, e, v, depth) ==
  LET matching == {i \in DOMAIN e.pats : MatchInto(e.pats[i], v).ok}
      i == CHOOSE j \in matching : \A l \in matching : j <= l
  IN  IF matching = {} THEN Error("no branch")
      ELSE EvalExpr(G, Binding(env, MatchInto(e.pats[i], v).binds), e.args[i + 1], depth)

\* What a name means where it has one; a constructor falls back to its bare name like any other.
\* A condition that is not True is false.
EvalExpr(G, env, e, depth) ==
  LET All(es) == MapEach(es, LAMBDA x : EvalExpr(G, env, x, depth))
      First == EvalExpr(G, env, e.args[1], depth)
  IN
  CASE e.k = "EInt" -> Value(VInt(e.v))
    [] e.k = "EDecimal" -> Value(VDecimal(e.v, e.scale))
    [] e.k = "EString" -> Value(VString(e.name))
    [] e.k = "EChar" -> Value(VChar(e.name))
    [] e.k = "EUnit" -> Value(VUnit)
    [] e.k = "EVar" -> Lookup(G, env, e.name)
    [] e.k \in {"EQualified", "ECtor"} -> LookupQualified(G, env, e)
    [] e.k = "ENegate" -> Then(First, Negated)
    [] e.k = "EApp" -> Then(All(e.args), LAMBDA xs : ApplyIn(G, xs[1], xs[2], depth))
    [] e.k = "EBinop" ->
         IF e.name \in {"&&", "||"} THEN ShortCircuit(G, env, e, depth)
         ELSE Then(All(e.args), LAMBDA xs : ApplyOperator(G, e.name, xs, depth))
    [] e.k = "ELambda" -> EvalLambda(env, e)
    [] e.k = "EIf" -> Then(First, LAMBDA yes :
                             EvalExpr(G, env, e.args[IF yes.k = "bool" /\ yes.bool THEN 2 ELSE 3], depth))
    [] e.k = "ELet" -> Let(G, env, e, depth)
    [] e.k = "ETuple" -> Then(All(e.args), LAMBDA vs : Value(VTuple(vs)))
    [] e.k = "EList" -> Then(All(e.args), LAMBDA vs : Value(VList(vs)))
    [] e.k = "ERecord" -> Then(All(e.args), LAMBDA vs : Value(VRecord(FieldValues(e.names, vs))))
    [] e.k = "ERecordUpdate" ->
         Then(First, LAMBDA r :
                IF r.k # "record" THEN Error("kind")
                ELSE Then(All(Tail(e.args)), LAMBDA vs : Value(VRecord(FieldValues(e.names, vs) @@ r.fields))))
    [] e.k = "EFieldAccess" -> Then(First, LAMBDA r : FieldOf(r, e.name))
    [] e.k = "EFieldAccessor" -> Value(FieldAccessor(e.name))
    [] e.k = "ECase" -> Then(First, LAMBDA v : Branch(G, env, e, v, depth))

-----------------------------------------------------------------------------
\* Evaluating a module, in the passes of the server's loader; the record constructors are
\* functions already, the loader having rewritten the trees in place.
LoadModule(mods, G, mod) ==
  LET known == G.shared @@ G.base
      imported == FoldLeft(LAMBDA acc, imp : ImportedFrame(mods, known, imp) @@ acc, <<>>, mod.imports)
      constructed == FoldLeft(LAMBDA g, c : BindShared(g, mod.name, c.name, Constructor(c.name, Len(c.args))),
                              [G EXCEPT !.frames = mod.name :> imported @@ @],
                              CtorsOf(mod, {d.name : d \in Range(mod.decls)}))
      placeholders == [n \in ValueNames(mod) |-> VUnit]
      Evaluated(g, v) ==
        Then(EvalExpr(g, [local |-> <<>>, mod |-> mod.name], AsLambda(v), 0),
             LAMBDA x : Value(BindShared(g, mod.name, v.name, x)))
  IN  Each(ValuesOf(mod), [constructed EXCEPT !.frames[mod.name] = placeholders @@ @], Evaluated)

\* marRun: the modules of the bundle in the order they came in.
RunProgram(mods) ==
  Each(mods, Empty("browser", BrowserValues), LAMBDA G, mod : LoadModule(mods, G, mod))

-----------------------------------------------------------------------------
\* Calls of functions of a loaded program, from a builtin and from outside, on either machine.
AppliedFor(caller, f, x) ==
  IF caller.G.machine = "browser" THEN ApplyIn(caller.G, f, x, caller.nested) ELSE CallBack(caller, f, x)
CalledOn(G, f, x) == AppliedFor(Caller(G, 0), f, x)
=============================================================================
