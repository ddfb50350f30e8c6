------------------------------- MODULE Effects -------------------------------
(***************************************************************************)
(* The builtins a program describes itself with: its pages, its services,  *)
(* its entities and the tasks that read and write them.  None of them does *)
(* anything when it is called.  A task is the builtin that made it and its *)
(* arguments, until somebody runs it (see RunTask in Eval).  What a screen *)
(* does with them is left out.                                             *)
(***************************************************************************)
EXTENDS Entities

VTask(op, args) == [k |-> "task", op |-> op, args |-> args]
VService(verb, handler) == [k |-> "service", verb |-> verb, handler |-> handler]
VExposed(service) == [k |-> "exposed", service |-> service]
VPage(fields, mod, name) == [k |-> "page", fields |-> fields, mod |-> mod, name |-> name]
VAuth(entity, signup) == [k |-> "auth", entity |-> entity, signup |-> signup]
VOpaque(what, args) == [k |-> what, args |-> args]

EffectTakes ==
  [n \in {"Task.succeed", "Task.fail"} |-> <<"any">>] @@ "Task.forEach" :> <<"any", "list">>
  @@ [n \in {"Task.map", "Task.andThen", "Cmd.perform"} |-> <<"any", "task">>]
  @@ [n \in {"Task.sequence", "Cmd.batch"} |-> <<"list">>]
  @@ "Repo.all" :> <<"entity">> @@ "Repo.update" :> <<"entity", "int", "record">>
  @@ [n \in {"Repo.findBy", "Repo.create"} |-> <<"entity", "record">>]
  @@ [n \in {"Repo.findById", "Repo.deleteById"} |-> <<"entity", "int">>]
  @@ [n \in DOMAIN ColumnTypes |-> <<"constraint">>]
  @@ "Entity.decimal" :> <<"int", "constraint">> @@ "Entity.enum" :> <<"list", "constraint">>
  @@ [n \in {"Entity.define", "Page.create", "Auth.config"} |-> <<"record">>]
  @@ "Service.declare" :> <<"ctor", "string">> @@ "Service.implement" :> <<"service", "any">>
  @@ "UI.text" :> <<"list", "string">> @@ "App.fullstack" :> <<"record">>
  @@ "Service.call" :> <<"service", "any", "any", "any">>

EffectValues ==
  [n \in {"Cmd.none", "Sub.none", "Time.now"} |-> VTask(n, <<>>)]
  @@ "Entity.serial" :> SerialColumn @@ "Entity.notNull" :> VOpaque("constraint", <<>>)
  @@ [n \in {"GET", "POST"} |-> VCtor(n, <<>>)]

\* What a page has to have, and what of it is kept.
PageFields == {"path", "init", "update", "view"}

\* makeAuthConfig, and what of it the signing-up of a user needs.
AuthFields == {"entity", "identify", "email", "signup"}
AuthConfig(fields) ==
  LET email == fields["email"].fields
  IN  IF /\ AuthFields \subseteq DOMAIN fields
         /\ fields["entity"].k = "entity" /\ fields["email"].k = "record"
         /\ "from" \notin DOMAIN email
         /\ "subject" \in DOMAIN email /\ email["subject"].k = "string" /\ email["subject"].string # ""
         /\ "signInPage" \in DOMAIN fields => fields["signInPage"].k = "page"
      THEN Value(VAuth(fields["entity"], fields["signup"])) ELSE Error("declaration")

CallEffect(name, xs) ==
  CASE \E i \in DOMAIN xs : EffectTakes[name][i] \notin {"any", xs[i].k} -> Error("kind")
    [] name \in {"Task.succeed", "Task.fail", "Task.map", "Task.andThen", "Task.forEach",
                 "Task.sequence", "Cmd.perform", "Cmd.batch", "Service.call"} \cup RepoOps -> Value(VTask(name, xs))
    [] name = "App.fullstack" -> Value(VOpaque("app", xs))
    [] name \in DOMAIN ColumnTypes -> Value(VColumn(ColumnTypes[name], {}, 0))
    [] name = "Entity.decimal" -> DecimalColumn(xs[1].int)
    [] name = "Entity.enum" -> EnumColumn(xs[1].elements)
    [] name = "Entity.define" -> DefineEntity(xs[1].fields)
    [] name = "Auth.config" -> AuthConfig(xs[1].fields)
    [] name = "UI.text" -> Value(VOpaque("view", xs))
    [] name = "Service.declare" -> Value(VService(xs[1].tag, VUnit))
    [] name = "Service.implement" -> Value(VExposed(VService(xs[1].verb, xs[2])))
    [] name = "Page.create" ->
         IF PageFields \subseteq DOMAIN xs[1].fields
         THEN Value(VPage([f \in PageFields |-> xs[1].fields[f]], "", "")) ELSE Error("kind")

\* The arguments of every builtin, and a call of one.
BuiltinTakes == EffectTakes @@ StringTakes @@ NativeTakes
CallBuiltin(name, xs, caller) ==
  CASE name \in DOMAIN EffectTakes -> CallEffect(name, xs)
    [] name \in DOMAIN StringTakes -> CallText(name, xs, caller)
    [] name \in DOMAIN NativeTakes -> CallNative(name, xs, caller)
=============================================================================
