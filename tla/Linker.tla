------------------------------- MODULE Linker -------------------------------
(***************************************************************************)
(* The project loader.  A project's modules, in the order of their names,  *)
(* are put in dependency order and checked one after the other, each       *)
(* against what the modules before it declare (CheckProject); then they    *)
(* are evaluated in the same order (LoadProject).                          *)
(*                                                                         *)
(* What the loader has bound is the record G of Eval: a frame of bare      *)
(* names for each module, and the names Module.name that all of them see.  *)
(***************************************************************************)
EXTENDS CheckModule, Builtins, Eval, ShapeLint

\* The positions of the modules that each one imports; built-in ones have none.
Position(mods, name) == CHOOSE i \in DOMAIN mods : mods[i].name = name
ImportDeps(mods) ==
  LET own(m) == SelectSeq(m.imports, LAMBDA imp : imp.mod \in ModuleNames(mods))
  IN  [i \in DOMAIN mods |-> [j \in DOMAIN own(mods[i]) |-> Position(mods, own(mods[i])[j].mod)]]

\* topoSort: nothing when modules import each other in a circle.
TopoSort(mods) ==
  LET deps == ImportDeps(mods)
      order == InDependencyOrder(deps)
      needs == [i \in DOMAIN deps |-> Range(deps[i])]
  IN  IF \E i \in DOMAIN mods : i \in ReachedFrom(needs, needs[i]) THEN <<>>
      ELSE [n \in DOMAIN order |-> mods[order[n]]]

-----------------------------------------------------------------------------
\* p: the check under way - the modules checked so far, with what the checker wrote into
\* them, what the next one may refer to, and the types of their record literals' fields.
\* shaped: whether the shape lint lets them pass.
Unchecked ==
  [ok |-> TRUE, shaped |-> TRUE, mods |-> <<>>, env |-> BaseEnv, registry |-> <<>>, next |-> 1000,
   fields |-> <<>>]

CheckNext(p, mod) ==
  LET checked == CheckModuleWith(mod, p.env, p.registry, p.next)
      qualified == [q \in {Canonical(mod.name, n) : n \in DOMAIN checked.types} |->
                      checked.types[CHOOSE n \in DOMAIN checked.types : Canonical(mod.name, n) = q]]
      elaborated == [mod EXCEPT !.decls = SelectSeq(@, LAMBDA d : d.k # "ValueDecl") \o checked.values]
  IN
  IF ~p.ok \/ ~checked.ok THEN [p EXCEPT !.ok = FALSE]
  ELSE [p EXCEPT !.mods = Append(@, elaborated),
                 !.env.vals = qualified @@ @,
                 !.env.customs = checked.registered,
                 !.env.exports = mod.name :> DOMAIN checked.types @@ @,
                 !.registry = mod.name :> [aliases |-> checked.aliases, customs |-> checked.customs] @@ @,
                 !.next = checked.next,
                 !.fields = mod.name :> checked.fields @@ @]

\* Load: every import is a module of the project or a built-in one, every module checks, and
\* the three checks of the whole project pass, of which the shape lint is given no types here.
CheckProject(mods) ==
  LET known == ModuleNames(mods) \cup BuiltinModules
      order == TopoSort(mods)
      checked == FoldLeft(CheckNext, Unchecked, order)
      shaped == RunShapeLint(checked.mods, [name \in ModuleNames(mods) |-> <<>>])
  IN
  CASE \E m \in Range(mods) : \E imp \in Range(m.imports) : imp.mod \notin known ->
         [Unchecked EXCEPT !.ok = FALSE]
    [] OTHER ->
         IF order = <<>> \/ ~checked.ok THEN [checked EXCEPT !.ok = FALSE]
         ELSE [checked EXCEPT !.shaped = shaped,
                              !.ok = shaped /\ RunGetReadOnlyCheck(checked.mods) /\ RunSideCheck(checked.mods)]

-----------------------------------------------------------------------------
\* A record alias is written as a constructor and runs as a function.

IsRecordAlias(d) == d.k = "TypeAliasDecl" /\ d.args[1].k = "TypeRecord" /\ d.args[1].name = ""
ModuleRecordAliases(mod) ==
  LET ds == SelectSeq(mod.decls, IsRecordAlias)
  IN  [n \in {ds[i].name : i \in DOMAIN ds} |-> (CHOOSE d \in Range(ds) : d.name = n).args[1].names]

\* The fields in declaration order, by the name the constructor is written as in mod.
CollectRecordAliases(mods, mod) ==
  LET OfImport(imp) ==
        LET theirs == ModuleRecordAliases(ModuleNamed(mods, imp.mod))
            exposed == {n \in DOMAIN theirs : ExposesAll(imp) \/ Exposes(imp, n)}
        IN  [q \in exposed \cup {Canonical(imp.mod, n) : n \in DOMAIN theirs} |->
               theirs[IF q \in exposed THEN q
                      ELSE CHOOSE n \in DOMAIN theirs : Canonical(imp.mod, n) = q]]
  IN  FoldLeft(LAMBDA acc, imp : IF imp.mod \in ModuleNames(mods) THEN OfImport(imp) @@ acc ELSE acc,
               ModuleRecordAliases(mod), mod.imports)

RecordCtorLambda(pos, fields) ==
  LET Param(i) == "$" \o ToString(i)
      record == [Node("ERecord", pos) EXCEPT
                   !.names = fields,
                   !.args = [i \in DOMAIN fields |-> [Node("EVar", pos) EXCEPT !.name = Param(i)]]]
  IN  IF fields = <<>> THEN record
      ELSE [Node("ELambda", pos) EXCEPT
              !.pats = [i \in DOMAIN fields |-> [Node("PVar", pos) EXCEPT !.name = Param(i)]],
              !.args = <<record>>]

RECURSIVE RewriteRecordCtors(_, _)
RewriteRecordCtors(e, aliases) ==
  IF e.k = "ECtor" /\ JoinName(e) \in DOMAIN aliases
  THEN RecordCtorLambda(e.pos, aliases[JoinName(e)])
  ELSE [e EXCEPT !.args = [i \in DOMAIN @ |-> RewriteRecordCtors(@[i], aliases)]]

DesugarRecordAliasCtors(mods, mod) ==
  LET aliases == CollectRecordAliases(mods, mod)
  IN  [mod EXCEPT !.decls = [i \in DOMAIN @ |->
         IF @[i].k = "ValueDecl"
         THEN [@[i] EXCEPT !.args = <<RewriteRecordCtors(@[1], aliases)>>] ELSE @[i]]]

-----------------------------------------------------------------------------
\* Evaluating a module, in four passes.

CtorsOf(mod, types) ==
  LET ds == SelectSeq(mod.decls, LAMBDA d : d.k = "CustomTypeDecl" /\ d.name \in types)
  IN  FlattenSeq([i \in DOMAIN ds |-> ds[i].args])

\* Pass 0: what an import makes a bare name of its module.
ImportedFrame(mods, known, imp) ==
  LET opened == {item.name : item \in {x \in ExposedItems(imp) : x.mod = ".."}}
      ctors == IF imp.mod \in ModuleNames(mods) THEN Range(CtorsOf(ModuleNamed(mods, imp.mod), opened)) ELSE {}
      named == {x.name : x \in ExposedItems(imp) \cup ctors}
      names == IF ExposesAll(imp) THEN ExportedNames(DOMAIN known, imp.mod)
               ELSE {n \in named : Canonical(imp.mod, n) \in DOMAIN known}
  IN  [n \in names |-> known[Canonical(imp.mod, n)]]

BindShared(G, mod, n, v) ==
  [G EXCEPT !.frames[mod] = n :> v @@ @, !.shared = Canonical(mod, n) :> v @@ @]

\* The first name that a page is given stays its name.
WithProvenance(v, mod, name) ==
  IF v.k = "page" /\ v.name = "" THEN [v EXCEPT !.mod = mod, !.name = name] ELSE v

\* RegisterEntity.  A table is declared once; the declarations that are values of a module of
\* their own are the ones followed here.
RegisterEntity(G, v, x) ==
  CASE x.k # "entity" \/ ~IsQualified(FlattenApp(v.args[1])[1], "Entity", {"define"}) -> Value(G)
    [] OTHER -> IF x.table \in G.tables THEN Error("declaration")
                ELSE Value([G EXCEPT !.tables = @ \cup {x.table}])

LoadIntoEnv(mods, G, source) ==
  LET mod == DesugarRecordAliasCtors(mods, source)
      known == G.shared @@ G.base
      imported == FoldLeft(LAMBDA acc, imp : ImportedFrame(mods, known, imp) @@ acc, <<>>, mod.imports)
      allTypes == {d.name : d \in Range(mod.decls)}
      constructed == FoldLeft(LAMBDA g, c : BindShared(g, mod.name, c.name, Constructor(c.name, Len(c.args))),
                              [G EXCEPT !.frames = mod.name :> imported @@ @], CtorsOf(mod, allTypes))
      placeholders == [n \in ValueNames(mod) |-> VUnit]
      Evaluated(g, v) ==
        Then(EvalAt(g, [local |-> <<>>, mod |-> mod.name], AsLambda(v), AtDepth(0, 0)),
             LAMBDA x : Then(RegisterEntity(g, v, x), LAMBDA h :
                          Value(BindShared(h, mod.name, v.name, WithProvenance(x, mod.name, v.name)))))
  IN  Each(ValuesOf(mod), [constructed EXCEPT !.frames[mod.name] = placeholders @@ @], Evaluated)

Empty(machine, base) ==
  [machine |-> machine, base |-> base, frames |-> <<>>, shared |-> <<>>, tables |-> {}]
LoadProject(mods) ==
  Each(mods, Empty("server", BaseValues), LAMBDA G, mod : LoadIntoEnv(mods, G, mod))

\* LookupMain: main of the module Main, or of the last one.
LookupMain(G, mods) ==
  LET last == Canonical(mods[Len(mods)].name, "main")
      entry == IF "Main.main" \in DOMAIN G.shared THEN "Main.main" ELSE last
  IN  IF entry \in DOMAIN G.shared THEN Value(G.shared[entry]) ELSE Error("unbound")
=============================================================================
