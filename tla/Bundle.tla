------------------------------- MODULE Bundle -------------------------------
(***************************************************************************)
(* What is sent to the browser: the modules that the pages' modules import *)
(* (PickFrontMods), narrowed to the declarations the pages reach           *)
(* (PruneToPageReachable), provided that none of these calls a builtin of  *)
(* the server's.                                                           *)
(***************************************************************************)
EXTENDS Linker

\* A name's module is joined from its segments; an alias is a single one.
ResolveAlias(mod, name) ==
  LET aliased == {i \in DOMAIN mod.imports : mod.imports[i].name = name}
  IN  IF aliased = {} THEN name ELSE mod.imports[CHOOSE i \in aliased : \A j \in aliased : i <= j].mod

\* Mutant: `exposing (..)` brings no candidate.
Candidates_NamedOnly(mods, mod, name) ==
  {Ref(m.name, name) : m \in {x \in Range(mods) : name \in ValueNames(x) /\
     (x = mod \/ \E imp \in Range(mod.imports) : imp.mod = x.name /\ Exposes(imp, name))}}

\* candidates: every declaration that a bare name might mean; all of them are kept.
BareCandidates(mods, mod, name) ==
  {Ref(m.name, name) : m \in {x \in Range(mods) : name \in ValueNames(x) /\
     (x = mod \/ \E imp \in Range(mod.imports) :
                   imp.mod = x.name /\ (ExposesAll(imp) \/ Exposes(imp, name)))}}

\* walk: what a declaration refers to.
Uses(mods, mod, v) ==
  UNION {IF n.k = "EVar" THEN BareCandidates(mods, mod, n.name)
         ELSE {Ref(n.mod, n.name), Ref(ResolveAlias(mod, n.mod), n.name)} : n \in NamesIn(v.args[1])}

\* reach, from the pages.
Reached(mods, roots) ==
  LET keys == UNION {{Ref(m.name, v.name) : v \in Range(ValuesOf(m))} : m \in Range(mods)}
      Declared(key) == CHOOSE v \in Range(ValuesOf(ModuleNamed(mods, key.mod))) : v.name = key.name
  IN  Closure([key \in keys |-> Uses(mods, ModuleNamed(mods, key.mod), Declared(key))], roots)

PruneToPageReachable(mods, roots) ==
  LET reached == Reached(mods, roots)
  IN  [i \in DOMAIN mods |->
         [mods[i] EXCEPT !.decls = SelectSeq(@, LAMBDA d :
            d.k = "ValueDecl" => Ref(mods[i].name, d.name) \in reached)]]

BackendOnlyLeak(mods) ==
  \E m \in Range(mods) : \E v \in Range(ValuesOf(m)) : \E n \in NamesIn(v.args[1]) :
    n.k = "EQualified" /\ IsBackendOnlyBuiltin(n.mod, n.name)

\* The modules that one imports, directly or not, each after those it imports, then itself.
ReachableFrom(root, mods) ==
  LET order == Visit(ImportDeps(mods), <<Position(mods, root)>>, [done |-> {}, order |-> <<>>]).order
  IN  [n \in DOMAIN order |-> mods[order[n]]]

\* The modules of the pages in the order Go's map gives them, which is any.
RootOrders(pages) == SetToSeqs({p.mod : p \in Range(pages)})

Merged(mods, roots) ==
  FoldLeft(LAMBDA merged, root :
             merged \o SelectSeq(ReachableFrom(root, mods), LAMBDA m : m \notin Range(merged)),
           <<>>, roots)

NoBundle == [ok |-> FALSE, mods |-> <<>>]
PickFrontMods(mods, pages, roots) ==
  LET front == PruneToPageReachable(Merged(mods, roots), {Ref(p.mod, p.name) : p \in Range(pages)})
  IN  IF (\E p \in Range(pages) : p.k # "page" \/ p.name = "") \/ BackendOnlyLeak(front)
      THEN NoBundle ELSE [ok |-> TRUE, mods |-> front]

=============================================================================
