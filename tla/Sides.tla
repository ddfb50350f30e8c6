-------------------------------- MODULE Sides --------------------------------
(***************************************************************************)
(* Two checks on where a program's code will run, made on the syntax tree  *)
(* of the whole project, which nobody has evaluated yet.                   *)
(*                                                                         *)
(* RunSideCheck follows the calls from every declaration that builds a     *)
(* page, which goes to the browser, and from every one that implements a   *)
(* service, which stays on the server: neither may arrive at a builtin     *)
(* that exists on the other side only.  RunGetReadOnlyCheck follows the    *)
(* calls from the handler of every service declared GET: none may arrive   *)
(* at a write to the database.                                             *)
(***************************************************************************)
EXTENDS Parser

FrontendModules == {"Page", "Nav", "UI", "Canvas", "Sound", "Keyboard", "Gamepad", "Device", "Cmd",
                    "Sub", "Http"}
BackendModules == {"Repo", "Entity", "Db", "Server", "Mar.Admin"}
FrontendNames == {"Auth.requestCode", "Auth.verifyCode", "Auth.me", "Auth.logout",
                  "Auth.completeSignIn", "Service.call", "App.shared"}
BackendNames == {"Auth.config", "Auth.protect", "Auth.authorize", "Auth.requireRole",
                 "Auth.requireOwner", "Service.implement"}
SharedModules == {"List", "String", "Char", "Maybe", "Result", "Tuple", "Dict", "Set", "Decimal",
                  "Math", "Time", "Random", "JSON", "Task", "Auth", "Service"}

\* SideOf: "" for a name that is no builtin.
SideOf(mod, name) ==
  LET ref == Canonical(mod, name)
  IN
  CASE ref \in FrontendNames -> "frontend"
    [] ref \in BackendNames -> "backend"
    [] ref = "App.locale" -> "both"
    [] OTHER ->
         IF mod \in FrontendModules THEN "frontend"
         ELSE IF mod \in BackendModules THEN "backend"
         ELSE IF mod = "App" THEN "entry"
         ELSE IF mod \in SharedModules \cup {""} THEN "both" ELSE ""

IsBackendOnlyBuiltin(mod, name) == SideOf(mod, name) \in {"backend", "entry"}

-----------------------------------------------------------------------------
\* walkAll: an expression and everything in it.
RECURSIVE NodesIn(_)
NodesIn(e) == {e} \cup UNION {NodesIn(e.args[i]) : i \in DOMAIN e.args}
NamesIn(e) == {n \in NodesIn(e) : n.k \in {"EVar", "EQualified"}}

ValuesOf(mod) == SelectSeq(mod.decls, LAMBDA d : d.k = "ValueDecl")
ValueNames(mod) == {v.name : v \in Range(ValuesOf(mod))}
ModuleNames(mods) == {m.name : m \in Range(mods)}
ModuleNamed(mods, name) == CHOOSE m \in Range(mods) : m.name = name

ExposesAll(imp) == imp.args # <<>> /\ imp.args[1].name = ".."
ExposedItems(imp) == IF imp.args = <<>> THEN {} ELSE Range(imp.args[1].args)
Exposes(imp, name) == \E item \in ExposedItems(imp) : item.name = name

\* Everything that is reached from some names by a relation.
RECURSIVE Closure(_, _)
Closure(next, from) ==
  LET more == from \cup UNION {next[k] : k \in from \cap DOMAIN next}
  IN  IF more = from THEN from ELSE Closure(next, more)

-----------------------------------------------------------------------------
\* The call graph, by module and name.
Ref(mod, name) == [mod |-> mod, name |-> name]

\* The module a bare name was imported from: the last import that exposes it.  A builtin
\* module exposed whole brings no name.
BareOrigin(mods, mod, name) ==
  LET Brings(imp) == \/ Exposes(imp, name)
                     \/ ExposesAll(imp) /\ imp.mod \in ModuleNames(mods)
                                        /\ name \in ValueNames(ModuleNamed(mods, imp.mod))
      brings == {i \in DOMAIN mod.imports : Brings(mod.imports[i])}
  IN  IF brings = {} THEN "" ELSE mod.imports[CHOOSE i \in brings : \A j \in brings : j <= i].mod

\* What a name in a module refers to; a name of its own, or of nothing it knows, is the module's.
Resolved(mods, mod, n) ==
  CASE n.k = "EQualified" -> Ref(n.mod, n.name)
    [] n.k = "EVar" /\ n.name \in ValueNames(mod) -> Ref(mod.name, n.name)
    [] OTHER -> LET from == BareOrigin(mods, mod, n.name)
                IN  Ref(IF from = "" THEN mod.name ELSE from, n.name)

SideGraph(mods) ==
  LET Decls == UNION {{<<m, v>> : v \in Range(ValuesOf(m))} : m \in Range(mods)}
      Refs(m, v) == {Resolved(mods, m, n) : n \in NamesIn(v.args[1])}
  IN  [key \in {Ref(d[1].name, d[2].name) : d \in Decls} |->
         LET d == CHOOSE x \in Decls : Ref(x[1].name, x[2].name) = key IN Refs(d[1], d[2])]

PageBuilders == {Ref("Page", n) : n \in {"create", "dynamic", "protected", "dynamicProtected",
                                         "adminProtected", "sheet"}}
ServiceBuilders == {Ref("Service", "implement"), Ref("Auth", "protect")}

RunSideCheck(mods) ==
  LET g == SideGraph(mods)
      Building(builders) == {key \in DOMAIN g : g[key] \cap builders # {}}
      Strays(root, side) ==
        \E key \in Closure(g, {root}) : key \notin DOMAIN g /\ SideOf(key.mod, key.name) = side
  IN  /\ \A root \in Building(PageBuilders) : ~Strays(root, "backend")
      /\ \A root \in Building(ServiceBuilders) : ~Strays(root, "frontend")

-----------------------------------------------------------------------------
\* The second check knows declarations by their simple names.
WriteBuiltins == {"Repo.create", "Repo.update", "Repo.deleteById"}

CollectRefs(e) == UNION {{n.name, JoinName(n)} : n \in NamesIn(e)}

\* An application as its function and all of its arguments.
RECURSIVE FlattenApp(_)
FlattenApp(e) == IF e.k = "EApp" THEN Append(FlattenApp(e.args[1]), e.args[2]) ELSE <<e>>

IsQualified(e, mod, names) == e.k = "EQualified" /\ e.mod = mod /\ e.name \in names

\* The verb a declaration gives a service, "" when it declares none.
DeclaredVerb(v) ==
  LET app == FlattenApp(v.args[1])
  IN  IF Len(app) = 3 /\ IsQualified(app[1], "Service", {"declare"}) /\ app[2].k \in {"ECtor", "EVar"}
      THEN app[2].name ELSE ""

AllValues(mods) == FlattenSeq([i \in DOMAIN mods |-> ValuesOf(mods[i])])

\* Of several services of one name, the last one's verb.
VerbOf(mods, service) ==
  LET vs == AllValues(mods)
      own == {i \in DOMAIN vs : vs[i].name = service /\ DeclaredVerb(vs[i]) # ""}
  IN  IF own = {} THEN "" ELSE DeclaredVerb(vs[CHOOSE i \in own : \A j \in own : j <= i])

\* The handlers in an expression, each with its service.
HandlerSites(e) ==
  {app \in {FlattenApp(n) : n \in {x \in NodesIn(e) : x.k = "EApp"}} :
     /\ Len(app) >= 3
     /\ IsQualified(app[1], "Service", {"implement"}) \/ IsQualified(app[1], "Auth", {"protect"})
     /\ app[2].k \in {"EVar", "EQualified"}}

\* Mutant: only what the handler itself writes counts.
ReachesWrite_Directly(mods, e) == CollectRefs(e) \cap WriteBuiltins # {}

ReachesWrite(mods, e) ==
  LET vs == AllValues(mods)
      calls == [name \in {vs[i].name : i \in DOMAIN vs} |->
                  UNION {CollectRefs(vs[i].args[1]) : i \in {j \in DOMAIN vs : vs[j].name = name}}]
  IN  Closure(calls, CollectRefs(e)) \cap WriteBuiltins # {}

RunGetReadOnlyCheck(mods) ==
  \A m \in Range(mods), v \in Range(AllValues(mods)) :
    v \in Range(ValuesOf(m)) =>
      \A site \in HandlerSites(v.args[1]) :
        VerbOf(mods, site[2].name) = "GET" => ~ReachesWrite(mods, site[3])
=============================================================================
