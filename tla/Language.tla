------------------------------ MODULE Language ------------------------------
(***************************************************************************)
(* A program from its source text to the browser: it is parsed, checked    *)
(* and evaluated on the server, and the part of it that its pages need is  *)
(* bundled and evaluated again over there.  A stage that refuses it is the *)
(* last.  What the stages do is given by their CONSTANTS, so that this     *)
(* module is the way between them and what must hold on it.                *)
(***************************************************************************)
EXTENDS Browser

CONSTANTS
  Parsed(_),        \* the syntax tree of a text (ParseModule)
  Checked(_),       \* the check of the trees (CheckProject)
  Loaded(_),        \* the checked trees evaluated on the server (LoadProject)
  Started(_),       \* the trees of a bundle evaluated in the browser (RunProgram)
  Called(_, _, _),  \* what a function of a loaded program returns (CalledOn)
  Performed(_, _, _),  \* what a task of a loaded program, or a sign-in, does to a database
  Programs          \* records: the texts of the modules, in the order of their names, and what
                    \* the program was made from - `tree`, the body of its main, and `subjects`,
                    \* the values its case may be given (none when it was written by hand)

VARIABLES
  program,   \* the program at hand
  stage,     \* how far it has come
  modules,   \* its syntax trees, as the checker and then the loader leave them
  typing,    \* the types of its values, and of the fields of its record literals, and the
             \* union types it knows
  server,    \* what the server's loader has bound
  outcome,   \* the value of its main, or why there is none
  screens    \* what its pages show in the browser

vars == <<program, stage, modules, typing, server, outcome, screens>>

NoScreens == <<>>
Init ==
  /\ program \in Programs
  /\ stage = "text"
  /\ modules = <<>>
  /\ typing = [vals |-> <<>>, customs |-> <<>>, fields |-> <<>>]
  /\ server = [frames |-> <<>>, shared |-> <<>>]
  /\ outcome = Value(VUnit)
  /\ screens = NoScreens

-----------------------------------------------------------------------------
\* Every file is parsed before any is looked at; no two have a module of the same name.
Parse ==
  LET parsed == [i \in DOMAIN program.texts |-> Parsed(program.texts[i])]
      ok == /\ \A i \in DOMAIN parsed : parsed[i].ok
            /\ \A i, j \in DOMAIN parsed : parsed[i].name = parsed[j].name => i = j
  IN  /\ stage = "text"
      /\ stage' = IF ok THEN "parsed" ELSE "unreadable"
      /\ modules' = IF ok THEN parsed ELSE <<>>
      /\ UNCHANGED <<program, typing, server, outcome, screens>>

Check ==
  LET project == Checked(modules)
  IN  /\ stage = "parsed"
      /\ stage' = CASE project.ok -> "checked"
                    [] ~project.ok /\ project.shaped -> "refused"
                    [] OTHER -> "unshaped"
      /\ modules' = IF stage' = "refused" THEN modules ELSE project.mods
      /\ typing' = [vals |-> Restrict(project.env.vals, (DOMAIN project.env.vals) \ DOMAIN BuiltinTypes),
                    customs |-> project.env.customs, fields |-> project.fields]
      /\ UNCHANGED <<program, server, outcome, screens>>

\* To be loaded is to be linted once more, with the types that the checker has inferred.
Load ==
  LET shaped == RunShapeLint(modules, typing.fields)
      loaded == Loaded(modules)
      main == Then(loaded, LAMBDA G : LookupMain(G, modules))
  IN  /\ stage = "checked"
      /\ stage' = IF ~shaped THEN "unshaped" ELSE IF main.err = "" THEN "running" ELSE "failed"
      /\ server' = IF ~shaped \/ loaded.err # "" THEN server
                   ELSE [frames |-> loaded.value.frames, shared |-> loaded.value.shared]
      /\ modules' = IF shaped THEN [i \in DOMAIN modules |-> DesugarRecordAliasCtors(modules, modules[i])]
                    ELSE modules
      /\ outcome' = IF shaped THEN main ELSE outcome
      /\ UNCHANGED <<program, typing, screens>>

-----------------------------------------------------------------------------
OnServer == [Empty("server", BaseValues) EXCEPT !.frames = server.frames, !.shared = server.shared]

\* What a page shows at first, and after the message Clicked.
Clicked == VCtor("Clicked", <<>>)
Shows(G, page) ==
  LET View(step) == Called(G, page.fields["view"], step.members[1])
      update == Then(Called(G, page.fields["update"], Clicked),
                     LAMBDA f : Called(G, f, page.fields["init"].members[1]))
  IN  <<View(page.fields["init"]), Then(update, View)>>

IsApp == outcome.value.k = "app"
Pages == outcome.value.args[1].fields["pages"].elements
Services == outcome.value.args[1].fields["services"].elements

\* makeProgramJSON hands the pruned syntax trees to the browser, which loads them (marRun).
Bundle ==
  /\ stage = "running" /\ IsApp
  /\ \E roots \in RootOrders(Pages) :
       LET bundle == PickFrontMods(modules, Pages, roots)
           loaded == Started(MakeProgram(bundle.mods))
           Shown(G) == [i \in DOMAIN Pages |->
                          Shows(G, G.shared[Canonical(Pages[i].mod, Pages[i].name)])]
       IN  /\ stage' = CASE ~bundle.ok -> "unbundled"
                          [] bundle.ok /\ loaded.err = "" -> "shown"
                          [] bundle.ok /\ loaded.err = "recursion" -> "exhausted"
                          [] OTHER -> "broken"
           /\ screens' = IF bundle.ok /\ loaded.err = "" THEN Shown(loaded.value) ELSE NoScreens
  /\ UNCHANGED <<program, modules, typing, server, outcome>>

Next == Parse \/ Check \/ Load \/ Bundle
Spec == Init /\ [][Next]_vars

-----------------------------------------------------------------------------
MainOf(mod) == (CHOOSE v \in Range(ValuesOf(mod)) : v.name = "main").args[1]

\* A tree without the places its nodes were read at.
RECURSIVE Unplaced(_)
Unplaced(e) ==
  [e EXCEPT !.pos = 0, !.args = [i \in DOMAIN @ |-> Unplaced(@[i])],
            !.pats = [i \in DOMAIN @ |-> Unplaced(@[i])]]

\* An expression written with the fewest parentheses that its operators' precedence and
\* associativity allow, in any of its layouts, is read back as the tree it was written from.
ParsesBack ==
  program.tree # <<>> =>
    /\ stage # "unreadable"
    /\ stage = "parsed" => Unplaced(MainOf(modules[1])) = program.tree

\* The checker accepts a case exactly when the evaluator finds a branch for every value the
\* subject can have, and every branch is the one it finds for some value.
CaseOf(mod) == CHOOSE n \in UNION {NodesIn(v.args[1]) : v \in Range(ValuesOf(mod))} : n.k = "ECase"
FirstMatch(pats, v) == {i \in DOMAIN pats : /\ MatchInto(pats[i], v).ok
                                            /\ \A j \in 1 .. (i - 1) : ~MatchInto(pats[j], v).ok}
Decided(pats) ==
  /\ \A v \in program.subjects : FirstMatch(pats, v) # {}
  /\ \A i \in DOMAIN pats : \E v \in program.subjects : i \in FirstMatch(pats, v)
CasesDecided ==
  program.subjects # {} /\ stage \in {"checked", "refused"} =>
    (stage = "checked") = Decided(CaseOf(modules[1]).pats)

\* The values of a type.
KindOf == [Int |-> "int", Decimal |-> "decimal", String |-> "string", Char |-> "char",
           Bool |-> "bool"] @@ ("()" :> "unit")
RECURSIVE Inhabits(_, _, _)
Inhabits(customs, v, t) ==
  LET Each1(vs, s) == \A i \in DOMAIN vs : Inhabits(customs, vs[i], s)
      Pairwise(vs, ts) == Len(vs) = Len(ts) /\ \A i \in DOMAIN vs : Inhabits(customs, vs[i], ts[i])
      Makes(c) == /\ v.tag = c.name
                  /\ Pairwise(v.args, [i \in DOMAIN c.args |->
                                         InstantiateCtorArg(c.args[i], c.result, t.args)])
  IN
  CASE t.k = "var" -> t.kind = "number" => v.k \in {"int", "decimal"}
    [] t.k = "rec" -> /\ v.k = "record"
                      /\ \A f \in DOMAIN t.fields :
                           f \in DOMAIN v.fields /\ Inhabits(customs, v.fields[f], t.fields[f])
    [] OTHER ->
         CASE t.name \in DOMAIN KindOf -> v.k = KindOf[t.name]
           [] t.name = "->" -> v.k = "fn"
           [] t.name = "List" -> v.k = "list" /\ Each1(v.elements, t.args[1])
           [] t.name = "#tuple" -> v.k = "tuple" /\ Pairwise(v.members, t.args)
           [] t.name = "Set" -> v.k = "set" /\ Each1(v.items, t.args[1])
           [] t.name = "Dict" ->
                v.k = "dict" /\ \A i \in DOMAIN v.pairs :
                  Pairwise(<<v.pairs[i].key, v.pairs[i].value>>, t.args)
           [] t.name \in {"Task", "Cmd"} -> v.k \in {"task", "app"}
           [] t.name = "Page" -> v.k = "page" /\ v.name # ""
           [] OTHER ->
                t.name \in DOMAIN customs =>
                  v.k = "ctor" /\ \E i \in DOMAIN customs[t.name] : Makes(customs[t.name][i])

\* A program that was checked runs: it fails only by leaving the range of a number or of a
\* list, by calling too deeply, or by declaring a table or a sign-in as it may not, and
\* otherwise its main and everything it declares is a value of the type that the checker gave
\* it.
LegalFailures == {"overflow", "limit", "recursion", "declaration"}
CheckedProgramsRun ==
  /\ stage = "failed" => outcome.err \in LegalFailures
  /\ stage = "running" => \A q \in DOMAIN server.shared :
                            Inhabits(typing.customs, server.shared[q], typing.vals[q].body)

\* "every `case` a program can write is total" (runtime/recursion_test.go:243): no program that
\* was checked fails for want of a branch.
EveryCaseTotal == stage = "failed" => outcome.err # "no branch"

\* Whatever order the pages' modules are bundled in, the browser's evaluator loads the bundle
\* and shows on every page what the server's says of the whole program - or gives up for the
\* depth of the calls, of which it allows fewer.
BundleRunsSame ==
  /\ stage # "broken"
  /\ stage = "shown" =>
       \A i \in DOMAIN Pages : \A step \in DOMAIN screens[i] :
         screens[i][step].err # "recursion" => screens[i][step] = Shows(OnServer, Pages[i])[step]

\* The handler of a service declared GET writes nothing, whatever it calls and whether or not
\* it fails in the end.
Writes(ran) == \E i \in DOMAIN ran.db.done : ran.db.done[i].op \in WriteBuiltins
GetServicesOnlyRead ==
  stage = "running" /\ IsApp =>
    \A i \in DOMAIN Services :
      Services[i].service.verb = "GET" =>
        LET task == Called(OnServer, Services[i].service.handler, VUnit)
        IN  task.err = "" => ~Writes(Performed(OnServer, EmptyDatabase, task.value))

-----------------------------------------------------------------------------
\* The record literals that an operation is given, or that a signup returns and Repo.create is
\* given then.
LiteralsIn(mod) ==
  LET nodes == UNION {NodesIn(v.args[1]) : v \in Range(ValuesOf(mod))}
      apps == {FlattenApp(n) : n \in {x \in nodes : x.k = "EApp"}}
      Site(op, rec) == [mod |-> mod.name, op |-> op, rec |-> rec]
  IN  {Site("Repo." \o app[1].name, Last(app)) : app \in {x \in apps : IsRecordOp(x)}}
      \cup {Site("Repo.create", Signup(app).args[1]) : app \in {x \in apps : IsSignup(x)}}
AllLiterals == UNION {LiteralsIn(modules[i]) : i \in DOMAIN modules}

\* Where the lint can know the columns: they are written out, under a name that is, and no
\* other module has an entity of the same name.
PlainEntities ==
  LET Entities(m) == {v \in Range(ValuesOf(m)) : DefinesEntity(v)}
      Plain(spec) == /\ IsNameLiteral(spec) /\ HasField(spec, "columns")
                     /\ FieldExpr(spec, "columns").k = "ERecord"
                     /\ \A f \in Range(FieldExpr(spec, "columns").names) : f \in DOMAIN SchemaOf(spec)
  IN  /\ \A m \in Range(modules) : \A v \in Entities(m) : Plain(v.args[1].args[2])
      /\ \A m, n \in Range(modules) : \A v \in Entities(m), w \in Entities(n) : v.name = w.name => m = n

\* A field of a literal of which the lint knows what it is: by its look, or by its type.
Told(site, i) ==
  site.rec.args[i].k \in Literals \/ IsScalar(FieldType(site.rec, i, typing.fields[site.mod]))

\* A row that was written or found has in this column what the record said, as a value of the
\* column's type.
KindOfColumn == [INTEGER |-> "int", TEXT |-> "string", BOOLEAN |-> "bool", TIMESTAMP |-> "time",
                 DECIMAL |-> "decimal"]
Holds(column, v) ==
  IF column.ctors # {} THEN v.k = "ctor" /\ v.tag \in column.ctors ELSE v.k = KindOfColumn[column.sqlType]
Kept(did, f) ==
  f \in DOMAIN did.record /\ \A i \in DOMAIN did.rows :
    LET v == did.rows[i].fields[f]
    IN  Holds(did.entity.columns[f], v) /\ (v = did.record[f] \/ EqualValues(v, did.record[f]))

\* What a program does that is one task or one sign-in, whatever the lint says of it.
IsTask(v) == v.k \in {"task", "auth"}
Attempt ==
  LET loaded == Loaded(modules)
      main == Then(loaded, LAMBDA G : LookupMain(G, modules))
  IN  IF main.err = "" /\ IsTask(main.value) THEN Performed(loaded.value, EmptyDatabase, main.value)
      ELSE Ran(main, EmptyDatabase)
Doing(ran, site) == {d \in Range(ran.db.done) : d.op = site.op}

\* The shape lint stands in for the types that Repo does not have.  What it could tell of a
\* record and let pass is in the rows as the record says; and it refuses none that would have
\* done what it says: "false positives would erode trust in the lint and aren't"
\* (src/internal/typecheck/shape_lint.go:33).
LintDecides ==
  PlainEntities =>
    /\ stage = "running" /\ IsTask(outcome.value) =>
         LET ran == Performed(OnServer, EmptyDatabase, outcome.value)
         IN  \A site \in AllLiterals : \A d \in Doing(ran, site) : \A i \in DOMAIN site.rec.names :
               Told(site, i) /\ site.rec.names[i] \in DOMAIN d.record => Kept(d, site.rec.names[i])
    /\ stage = "unshaped" =>
         LET ran == Attempt
         IN  \/ ran.err # ""
             \/ \E site \in AllLiterals : \A d \in Doing(ran, site) :
                  d.rows = <<>> \/ \E f \in Range(site.rec.names) : ~Kept(d, f)
=============================================================================
