-------------------------------- MODULE Eval --------------------------------
(***************************************************************************)
(* The evaluator.  A function is a value with the arguments it was given   *)
(* so far (VFn): a closure carries the environment it was made in, a       *)
(* builtin its name, a record's field accessor and a constructor the name  *)
(* of the field or of the constructor.                                     *)
(*                                                                         *)
(* G is what the loader has bound: the frame of each module's bare names,  *)
(* the names every module sees, and the machine it runs on with what that  *)
(* has built in.                                                           *)
(* An environment env is a module's frame with the local names on top.     *)
(*                                                                         *)
(* Calls are counted twice: `depth` as the code counts them, `nested` as   *)
(* they really are nested on the stack.  A builtin that calls back resumes *)
(* the depth the function was stamped with.                                *)
(***************************************************************************)
EXTENDS Parser, Effects

CONSTANTS
  MaxCallDepth,   \* the guard against runaway recursion, thousands of calls in the code
  MaxStack        \* how many nested calls the stack has room for

ASSUME DepthAssumption == MaxCallDepth \in Nat \ {0} /\ MaxStack \in Nat /\ MaxCallDepth <= MaxStack

VFn(native, params, body, env, arity) ==
  [k |-> "fn", native |-> native, params |-> params, body |-> body, env |-> env, applied |-> <<>>,
   arity |-> arity, depth |-> 0]

NoEnv == [local |-> <<>>, mod |-> ""]
NativeFn(native, of, arity) == VFn(native, of, Node("EUnit", 0), NoEnv, arity)
Builtin(name) == NativeFn(name, <<>>, Len(BuiltinTakes[name]))
FieldAccessor(field) == NativeFn(".", <<field>>, 1)
Constructor(tag, arity) ==
  IF arity = 0 THEN VCtor(tag, <<>>) ELSE NativeFn("ctor", <<tag>>, arity)

\* BaseEnv of the evaluator.
BaseValues == [n \in DOMAIN BuiltinTakes |-> Builtin(n)] @@ NativeValues @@ EffectValues

Scopes(G, env) ==
  <<env.local, IF env.mod \in DOMAIN G.frames THEN G.frames[env.mod] ELSE <<>>, G.shared, G.base>>
Lookup(G, env, name) ==
  LET scopes == Scopes(G, env)
      has == {i \in DOMAIN scopes : name \in DOMAIN scopes[i]}
  IN  IF has = {} THEN Error("unbound") ELSE Value(scopes[CHOOSE i \in has : \A j \in has : i <= j][name])

\* A qualified name falls back to the bare one, a constructor does not.
LookupQualified(G, env, n) ==
  LET v == Lookup(G, env, JoinName(n)) IN IF v.err = "" THEN v ELSE Lookup(G, env, n.name)

Binding(env, binds) == [env EXCEPT !.local = binds @@ @]

-----------------------------------------------------------------------------
\* matchInto: whether the value matches, and what the pattern's names then are.
Mismatch == [ok |-> FALSE, binds |-> <<>>]
Match(binds) == [ok |-> TRUE, binds |-> binds]

RECURSIVE MatchInto(_, _)
MatchAll(pats, vs) ==
  IF Len(pats) # Len(vs) THEN Mismatch
  ELSE FoldLeft(LAMBDA m, i : LET one == MatchInto(pats[i], vs[i])
                              IN  IF m.ok /\ one.ok THEN Match(one.binds @@ m.binds) ELSE Mismatch,
                Match(<<>>), [i \in DOMAIN pats |-> i])

MatchInto(p, v) ==
  LET Only(cond) == IF cond THEN Match(<<>>) ELSE Mismatch
  IN
  CASE p.k = "PWildcard" -> Match(<<>>)
    [] p.k = "PVar" -> Match(p.name :> v)
    [] p.k = "PInt" -> Only(v.k = "int" /\ v.int = p.v)
    [] p.k = "PString" -> Only(v.k = "string" /\ v.string = p.name)
    [] p.k = "PChar" -> Only(v.k = "char" /\ v.char = p.name)
    [] p.k = "PUnit" -> Only(v.k = "unit")
    [] p.k = "PCtor" -> IF v.k = "ctor" /\ v.tag = p.name THEN MatchAll(p.args, v.args) ELSE Mismatch
    [] p.k = "PTuple" -> IF v.k = "tuple" THEN MatchAll(p.args, v.members) ELSE Mismatch
    [] p.k = "PList" -> IF v.k = "list" THEN MatchAll(p.args, v.elements) ELSE Mismatch
    [] p.k = "PCons" ->
         IF v.k = "list" /\ v.elements # <<>>
         THEN MatchAll(p.args, <<v.elements[1], VList(Tail(v.elements))>>)
         ELSE Mismatch
    [] p.k = "PRecord" ->
         IF v.k = "record" /\ Range(p.names) \subseteq DOMAIN v.fields
         THEN Match([f \in Range(p.names) |-> v.fields[f]])
         ELSE Mismatch

\* What a let binds; where the pattern does not match, nothing.
BindLet(p, v, env) == LET m == MatchInto(p, v) IN IF m.ok THEN Binding(env, m.binds) ELSE env

-----------------------------------------------------------------------------
\* A builtin that calls a function back goes on counting where it was called itself.
Stamped(v, depth) == IF v.k = "fn" THEN [v EXCEPT !.depth = depth] ELSE v

AtDepth(depth, nested) == [depth |-> depth, nested |-> nested]

RECURSIVE EvalAt(_, _, _, _), ApplyAt(_, _, _, _)

\* apply: how a builtin calls a function, from so many nested calls.
Resume(G, f, x, nested) ==
  ApplyAt(G, f, x, AtDepth(IF f.k = "fn" THEN f.depth ELSE 0, nested))

Caller(G, nested) == [G |-> G, nested |-> nested]
CallBack(caller, f, x) == Resume(caller.G, f, x, caller.nested)

\* Of two parameters of one name the last is bound.
Arguments(f, xs) ==
  [x \in Range(f.params) |->
     xs[CHOOSE i \in DOMAIN xs : f.params[i] = x /\ \A j \in DOMAIN xs : f.params[j] = x => j <= i]]

FieldOf(v, field) ==
  CASE v.k # "record" -> Error("kind")
    [] v.k = "record" /\ field \in DOMAIN v.fields -> Value(v.fields[field])
    [] OTHER -> Error("unbound")

CallWith(G, f, xs, at) ==
  LET stamped == [i \in DOMAIN xs |-> Stamped(xs[i], at.depth + 1)]
  IN
  CASE f.native = "" ->
         EvalAt(G, Binding(f.env, Arguments(f, xs)), f.body, AtDepth(at.depth + 1, at.nested + 1))
    [] f.native = "ctor" -> Value(VCtor(f.params[1], stamped))
    [] f.native = "." -> FieldOf(xs[1], f.params[1])
    [] OTHER -> CallBuiltin(f.native, stamped, Caller(G, at.nested + 1))

ApplyAt(G, f, x, at) ==
  LET xs == Append(f.applied, x)
  IN
  CASE at.depth >= MaxCallDepth -> Error("recursion")
    [] at.depth < MaxCallDepth /\ at.nested >= MaxStack -> Error("crash")
    [] OTHER ->
         IF f.k # "fn" THEN Error("kind")
         ELSE IF Len(xs) < f.arity THEN Value([f EXCEPT !.applied = xs, !.depth = at.depth])
         ELSE CallWith(G, f, xs, at)

EvalAll(G, env, es, at) == MapEach(es, LAMBDA e : EvalAt(G, env, e, at))

EvalApp(G, env, e, at) ==
  Then(EvalAt(G, env, e.args[1], at), LAMBDA f :
         Then(EvalAt(G, env, e.args[2], at), LAMBDA x : ApplyAt(G, f, x, at)))

\* && and || do not look at the right operand when the left one decides.
EvalLogical(G, env, e, at) ==
  Then(Truth(EvalAt(G, env, e.args[1], at)), LAMBDA left :
         IF left = (e.name = "||") THEN Value(VBool(left))
         ELSE Then(Truth(EvalAt(G, env, e.args[2], at)), LAMBDA right : Value(VBool(right))))

\* Every other operator is a builtin of two arguments and is called directly: the guard and
\* the stamps that a call has are repeated here.
EvalBinop(G, env, e, at) ==
  Then(EvalAll(G, env, e.args, at), LAMBDA xs :
         IF at.depth >= MaxCallDepth THEN Error("recursion")
         ELSE IF e.name \in DOMAIN NativeTakes
              THEN CallNative(e.name, [i \in DOMAIN xs |-> Stamped(xs[i], at.depth + 1)],
                              Caller(G, at.nested + 1))
         ELSE Operate(e.name, xs[1], xs[2]))

\* A parameter is a name or _.
ParamName(p, i) == IF p.k = "PVar" THEN p.name ELSE "__wild" \o ToString(i)
EvalLambda(env, e) ==
  IF \E i \in DOMAIN e.pats : e.pats[i].k \notin {"PVar", "PWildcard"} THEN Error("kind")
  ELSE Value(VFn("", [i \in DOMAIN e.pats |-> ParamName(e.pats[i], i)], e.args[1], env, Len(e.pats)))

EvalLet(G, env, e, at) ==
  LET n == Len(e.pats)
      inner == Each([i \in 1 .. n |-> i], env, LAMBDA cur, i :
                      Then(EvalAt(G, cur, e.args[i], at), LAMBDA v : Value(BindLet(e.pats[i], v, cur))))
  IN  Then(inner, LAMBDA cur : EvalAt(G, cur, e.args[n + 1], at))

\* The last value given to a field stays.
FieldValues(names, vs) ==
  [f \in Range(names) |-> vs[CHOOSE i \in DOMAIN names :
                               names[i] = f /\ \A j \in DOMAIN names : names[j] = f => j <= i]]

EvalRecordUpdate(G, env, e, at) ==
  Then(EvalAt(G, env, e.args[1], at), LAMBDA r :
         IF r.k # "record" THEN Error("kind")
         ELSE Then(EvalAll(G, env, Tail(e.args), at), LAMBDA vs :
                     Value(VRecord(FieldValues(e.names, vs) @@ r.fields))))

EvalFieldAccess(G, env, e, at) == Then(EvalAt(G, env, e.args[1], at), LAMBDA r : FieldOf(r, e.name))

\* The first branch that matches.
EvalCase(G, env, e, at) ==
  Then(EvalAt(G, env, e.args[1], at), LAMBDA v :
         LET matching == {i \in DOMAIN e.pats : MatchInto(e.pats[i], v).ok}
             i == CHOOSE j \in matching : \A l \in matching : j <= l
         IN  IF matching = {} THEN Error("no branch")
             ELSE EvalAt(G, Binding(env, MatchInto(e.pats[i], v).binds), e.args[i + 1], at))

EvalIf(G, env, e, at) ==
  Then(Truth(EvalAt(G, env, e.args[1], at)), LAMBDA yes :
         EvalAt(G, env, e.args[IF yes THEN 2 ELSE 3], at))

EvalAt(G, env, e, at) ==
  CASE e.k = "EInt" -> Value(IF e.mod = "Decimal" THEN VDecimal(e.v, 0) ELSE VInt(e.v))
    [] e.k = "EDecimal" -> Value(VDecimal(e.v, e.scale))
    [] e.k = "EString" -> Value(VString(e.name))
    [] e.k = "EChar" -> Value(VChar(e.name))
    [] e.k = "EUnit" -> Value(VUnit)
    [] e.k = "EVar" -> Lookup(G, env, e.name)
    [] e.k = "EQualified" -> LookupQualified(G, env, e)
    [] e.k = "ECtor" -> Lookup(G, env, JoinName(e))
    [] e.k = "EApp" -> EvalApp(G, env, e, at)
    [] e.k = "EBinop" -> IF e.name \in {"&&", "||"} THEN EvalLogical(G, env, e, at)
                         ELSE EvalBinop(G, env, e, at)
    [] e.k = "ENegate" -> Then(EvalAt(G, env, e.args[1], at), Negated)
    [] e.k = "ELambda" -> EvalLambda(env, e)
    [] e.k = "EIf" -> EvalIf(G, env, e, at)
    [] e.k = "ELet" -> EvalLet(G, env, e, at)
    [] e.k = "ETuple" -> Then(EvalAll(G, env, e.args, at), LAMBDA vs : Value(VTuple(vs)))
    [] e.k = "EList" -> Then(EvalAll(G, env, e.args, at), LAMBDA vs : Value(VList(vs)))
    [] e.k = "ERecord" ->
         Then(EvalAll(G, env, e.args, at), LAMBDA vs : Value(VRecord(FieldValues(e.names, vs))))
    [] e.k = "ERecordUpdate" -> EvalRecordUpdate(G, env, e, at)
    [] e.k = "EFieldAccess" -> EvalFieldAccess(G, env, e, at)
    [] e.k = "EFieldAccessor" -> Value(FieldAccessor(e.name))
    [] e.k = "ECase" -> EvalCase(G, env, e, at)

-----------------------------------------------------------------------------
\* Running a task against a database: what it produces or why it fails, and the database after
\* it - what was written before a failure stays.
Done(v, db) == Ran(Value(v), db)
AndThen(ran, After(_, _)) == IF ran.err = "" THEN After(ran.value, ran.db) ELSE ran

Now == VTime(MaxInt)

RECURSIVE RunTask(_, _, _)
\* Running what an evaluation returned, and several of these up to the first failure.
RunResult(G, db, r) ==
  CASE r.err # "" -> Ran(r, db)
    [] r.err = "" /\ r.value.k = "task" -> RunTask(G, db, r.value)
    [] OTHER -> Ran(Error("kind"), db)

RunEach(G, db, rs) ==
  FoldLeft(LAMBDA ran, r :
             AndThen(ran, LAMBDA vs, before :
               AndThen(RunResult(G, before, r), LAMBDA v, after :
                         Done(VList(Append(vs.elements, v)), after))),
           Done(VList(<<>>), db), rs)

RunTask(G, db, task) ==
  LET first == RunTask(G, db, task.args[2])
      Given(v) == Resume(G, task.args[1], v, 0)
      es == Last1(task.args).elements
  IN
  CASE task.op = "Task.succeed" -> Done(task.args[1], db)
    [] task.op = "Task.fail" -> Ran(Error("failed"), db)
    [] task.op = "Time.now" -> Done(Now, db)
    [] task.op \in {"Task.map", "Cmd.perform"} ->
         AndThen(first, LAMBDA v, after : Ran(Given(v), after))
    [] task.op = "Task.andThen" -> AndThen(first, LAMBDA v, after : RunResult(G, after, Given(v)))
    [] task.op = "Task.forEach" ->
         AndThen(RunEach(G, db, [i \in DOMAIN es |-> Given(es[i])]), LAMBDA vs, after : Done(VUnit, after))
    [] task.op = "Task.sequence" -> RunEach(G, db, [i \in DOMAIN es |-> Value(es[i])])
    [] task.op = "Cmd.batch" ->
         AndThen(RunEach(G, db, [i \in DOMAIN es |-> Value(es[i])]), LAMBDA vs, after : Done(VUnit, after))
    [] task.op \in RepoOps -> RunRepo(db, task.op, task.args)
    [] OTHER -> Done(VUnit, db)

\* EnsureUser: the id of the user with this address, who is signed up when there is none.
EnsureUser(G, db, auth, email) ==
  LET known == UserIds(db, auth.entity, email)
      hook == Resume(G, auth.signup, VString(email), 0)
      made == Create(db, auth.entity, FilledTimestamps(auth.entity, hook.value.fields, Now))
  IN
  CASE known # {} -> Done(VInt(CHOOSE id \in known : TRUE), db)
    [] known = {} /\ hook.err # "" -> Ran(hook, db)
    [] OTHER ->
         IF hook.value.k # "record" THEN Ran(Error("kind"), db)
         ELSE AndThen(made, LAMBDA user, after : Done(user.fields[PrimaryKey(auth.entity)], after))
=============================================================================
