------------------------------ MODULE ShapeLint ------------------------------
(***************************************************************************)
(* RunShapeLint.  To the type checker the records that Repo.create,        *)
(* Repo.update, Repo.findBy and Auth.config take are any records, and the  *)
(* columns of Entity.define too.  This check reads the declarations of     *)
(* entities off the syntax tree of the whole project and compares with     *)
(* them every record literal that is given to an entity it knows.          *)
(*                                                                         *)
(* types[pos]: the types of the fields of the record literal at pos, as    *)
(* the checker has inferred them; `mar check` has none to give.  Of the    *)
(* issues found only whether there are any is kept.                        *)
(***************************************************************************)
EXTENDS Sides

\* The value of a field of a record literal: of several, the last.
HasField(rec, f) == f \in Range(rec.names)
FieldExpr(rec, f) ==
  rec.args[CHOOSE i \in DOMAIN rec.names : rec.names[i] = f /\ \A j \in DOMAIN rec.names :
                                             rec.names[j] = f => j <= i]

-----------------------------------------------------------------------------
\* parseColumnType: the kind of a column, by the way it is written; "" for any other way.
ColumnKinds == [serial |-> "Int", int |-> "Int", text |-> "String", bool |-> "Bool",
                timestamp |-> "Time", enum |-> "enum", decimal |-> "Decimal"]
Applied0 == {"serial"}
Applied1 == {"int", "text", "bool", "timestamp"}
Applied2 == {"enum", "decimal"}

ParseColumnType(e) ==
  LET app == FlattenApp(e)
      Takes(n, names) == Len(app) = n + 1 /\ IsQualified(app[1], "Entity", names)
  IN  IF Takes(0, Applied0) \/ Takes(1, Applied1) \/ Takes(2, Applied2)
      THEN ColumnKinds[app[1].name] ELSE ""

\* The columns of a declaration, by name; a column written another way is not among them.
SchemaOf(spec) ==
  LET columns == FieldExpr(spec, "columns")
      known == {f \in Range(columns.names) : ParseColumnType(FieldExpr(columns, f)) # ""}
      Column(e) == [kind |-> ParseColumnType(e), serial |-> IsQualified(e, "Entity", {"serial"})]
  IN  IF HasField(spec, "columns") /\ columns.k = "ERecord"
      THEN [f \in known |-> Column(FieldExpr(columns, f))] ELSE <<>>

\* tryParseEntityDefine: Entity.define of a record literal.
DefinesEntity(v) ==
  LET e == v.args[1]
  IN  e.k = "EApp" /\ IsQualified(e.args[1], "Entity", {"define"}) /\ e.args[2].k = "ERecord"

\* validateEntityDefineName: a string literal that is a legal name, and no reserved one.
NameLetters == "abcdefghijklmnopqrstuvwxyzABCDEFGHIJKLMNOPQRSTUVWXYZ_"
NameDigits == "0123456789"
OccursIn(c, s) == \E i \in 1 .. Len(s) : SubSeq(s, i, i) = c
HasPrefix(s, prefix) == Len(prefix) <= Len(s) /\ SubSeq(s, 1, Len(prefix)) = prefix
IsNameLiteral(spec) == HasField(spec, "name") /\ FieldExpr(spec, "name").k = "EString"
NameLiteral(spec) == FieldExpr(spec, "name").name
ValidateEntityDefineName(spec) ==
  LET name == NameLiteral(spec)
  IN  /\ IsNameLiteral(spec) /\ name # ""
      /\ ~HasPrefix(name, "sqlite_") /\ ~HasPrefix(name, "_mar_")
      /\ \A i \in 1 .. Len(name) :
           OccursIn(SubSeq(name, i, i), IF i = 1 THEN NameLetters ELSE NameLetters \o NameDigits)

\* extractEntities: the schemas, by the bare name and by the full name of the declared value,
\* a bare name meaning the last one; and whether every declaration is legal.  The second
\* declaration of a table is not.
ExtractEntities(mods) ==
  LET Declared(m) == {v \in Range(ValuesOf(m)) : DefinesEntity(v)}
      Spec(v) == v.args[1].args[2]
      Extract(acc, m) ==
        LET own == Declared(m)
            named == {v \in own : IsNameLiteral(Spec(v))}
            Schema(n) == SchemaOf(Spec(CHOOSE v \in named : n \in {v.name, Canonical(m.name, v.name)}))
        IN  [ok |-> acc.ok /\ \A v \in own : ValidateEntityDefineName(Spec(v)),
             tables |-> acc.tables \o [i \in 1 .. Cardinality(named) |-> NameLiteral(Spec(SetToSeq(named)[i]))],
             schemas |-> [n \in UNION {{v.name, Canonical(m.name, v.name)} : v \in named} |-> Schema(n)]
                           @@ acc.schemas]
  IN  FoldLeft(Extract, [ok |-> TRUE, tables |-> <<>>, schemas |-> <<>>], mods)

-----------------------------------------------------------------------------
\* A value in a column of a kind, as far as can be told.
Scalars == {"Int", "String", "Bool", "Time", "Decimal"}

\* checkInferredAgainstKind: a type that is no scalar passes, and so does an unknown one.
UnknownType == [k |-> "unknown"]
IsScalar(t) == t.k = "con" /\ t.name \in Scalars
InferredFits(t, kind) == IsScalar(t) => t.name = kind \/ (t.name = "String" /\ kind = "enum")

\* checkLiteralAgainstKind, where e is a literal that it understands.
Literals == {"EInt", "EString", "ECtor"}
LiteralFits(e, kind) ==
  CASE e.k = "EInt" -> kind \in {"Int", "enum", "Decimal"}
    [] e.k = "EString" -> kind \in {"String", "enum"}
    [] e.k = "ECtor" -> kind = "enum" \/ (kind = "Bool" /\ e.name \in {"True", "False"})

\* Mutant: an expression that is no literal passes.
ValueFits_LiteralsOnly(e, t, kind) == e.k \in Literals => LiteralFits(e, kind)

\* checkValueAgainstKind.
ValueFits(e, t, kind) ==
  IF e.k \in Literals THEN LiteralFits(e, kind) ELSE InferredFits(t, kind)

\* checkRecordAgainstSchema, and checkSignupRecord, which lets any timestamp pass.
FieldType(rec, i, types) == IF rec.pos \in DOMAIN types THEN types[rec.pos][i] ELSE UnknownType
FieldFits(rec, i, schema, types, skipped) ==
  /\ rec.names[i] \in DOMAIN schema
  /\ LET kind == schema[rec.names[i]].kind
     IN  kind \in skipped \/ ValueFits(rec.args[i], FieldType(rec, i, types), kind)
RecordFits(rec, schema, types, skipped) ==
  \A i \in DOMAIN rec.names : FieldFits(rec, i, schema, types, skipped)
Complete(rec, schema) ==
  \A f \in DOMAIN schema : schema[f].serial \/ schema[f].kind = "Time" \/ HasField(rec, f)

\* Where the schema of an expression is known (resolveEntityName).
SchemaKnown(schemas, e) == e.k \in {"EVar", "EQualified"} /\ JoinName(e) \in DOMAIN schemas

\* matchRepoOp: the last argument of an operation on a known entity, if it is a literal.
RecordOps == [create |-> 2, findBy |-> 2, update |-> 3]
IsRecordOp(app) ==
  /\ IsQualified(app[1], "Repo", DOMAIN RecordOps)
  /\ Len(app) = RecordOps[app[1].name] + 1
  /\ Last(app).k = "ERecord"
MatchRepoOp(e, schemas, types) ==
  LET app == FlattenApp(e)
      schema == schemas[JoinName(app[2])]
  IN  IsRecordOp(app) /\ SchemaKnown(schemas, app[2]) =>
        /\ RecordFits(Last(app), schema, types, {})
        /\ app[1].name = "create" => Complete(Last(app), schema)

\* matchAuthConfig: a signup that is a lambda whose body is a record literal.
Signup(app) == FieldExpr(app[2], "signup")
IsSignup(app) ==
  /\ IsQualified(app[1], "Auth", {"config"}) /\ Len(app) = 2 /\ app[2].k = "ERecord"
  /\ HasField(app[2], "entity") /\ HasField(app[2], "signup")
  /\ Signup(app).k = "ELambda" /\ Signup(app).args[1].k = "ERecord"
MatchAuthConfig(e, schemas, types) ==
  LET app == FlattenApp(e)
      entity == FieldExpr(app[2], "entity")
  IN  IsSignup(app) /\ SchemaKnown(schemas, entity) =>
        RecordFits(Signup(app).args[1], schemas[JoinName(entity)], types, {"Time"})

\* types gives each module its own.
RunShapeLint(mods, types) ==
  LET entities == ExtractEntities(mods)
  IN  /\ entities.ok /\ IsInjective(entities.tables)
      /\ entities.schemas # <<>> =>
           \A m \in Range(mods) : \A v \in Range(ValuesOf(m)) :
             \A e \in {n \in NodesIn(v.args[1]) : n.k = "EApp"} :
               /\ MatchRepoOp(e, entities.schemas, types[m.name])
               /\ MatchAuthConfig(e, entities.schemas, types[m.name])
=============================================================================
