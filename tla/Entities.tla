------------------------------ MODULE Entities ------------------------------
(***************************************************************************)
(* Entities and what Repo does with their rows: how a declaration becomes  *)
(* an entity, how a value goes into a column and comes back out of it, and *)
(* what each operation reads and writes.                                   *)
(*                                                                         *)
(* A raw value is what SQLite keeps: [int |-> n] or [text |-> s].  A       *)
(* table has its rows by id, and the id that the next one gets.  A         *)
(* database has its tables by name, and `done`: the operations carried     *)
(* out so far, each with its entity, the record it wrote or looked for and *)
(* the rows it returned.                                                   *)
(* Every column is NOT NULL, the only constraint there is to declare.      *)
(***************************************************************************)
EXTENDS Strings, FiniteSets

VTime(millis) == [k |-> "time", millis |-> millis]
VColumn(sqlType, ctors, scale) ==
  [k |-> "column", sqlType |-> sqlType, ctors |-> ctors, scale |-> scale, serial |-> FALSE]
SerialColumn == [VColumn("INTEGER", {}, 0) EXCEPT !.serial = TRUE]
VEntity(table, columns, uniques) ==
  [k |-> "entity", table |-> table, columns |-> columns, uniques |-> uniques]

-----------------------------------------------------------------------------
\* Declarations.  What a declaration may not say ends the loading of its module: "declaration".

ColumnTypes ==
  [n \in {"Entity.int", "Entity.text", "Entity.bool", "Entity.timestamp"} |->
     CASE n = "Entity.int" -> "INTEGER" [] n = "Entity.text" -> "TEXT"
       [] n = "Entity.bool" -> "BOOLEAN" [] OTHER -> "TIMESTAMP"]

CoefDigits == Len(ToString(MaxCoef))
DecimalColumn(scale) ==
  IF scale \in 0 .. CoefDigits THEN Value(VColumn("DECIMAL", {}, scale)) ELSE Error("declaration")

\* Constructors without arguments, each once.
EnumColumn(es) ==
  IF /\ es # <<>>
     /\ \A i \in DOMAIN es : es[i].k = "ctor" /\ es[i].args = <<>>
     /\ IsInjective(es)
  THEN Value(VColumn("TEXT", {es[i].tag : i \in DOMAIN es}, 0)) ELSE Error("declaration")

NameStarts == LowerLetters \o UpperLetters \o "_"
ValidEntityName(name) ==
  /\ name # "" /\ ~StartsWith(name, "sqlite_") /\ ~StartsWith(name, "_mar_")
  /\ In(CharAt(name, 1), NameStarts)
  /\ \A i \in 2 .. Len(name) : In(CharAt(name, i), NameStarts \o DecimalDigits)

\* A unique index names columns of the entity, at least one, each once.
LegalIndex(columns, index) == index # <<>> /\ IsInjective(index) /\ Range(index) \subseteq DOMAIN columns

\* Entity.define.  Whether the table is declared already is asked by the loader.
DefineEntity(spec) ==
  LET name == spec["name"].string
      columns == spec["columns"]
      lists == spec["uniques"].elements
      indexes == {[j \in DOMAIN lists[i].elements |-> lists[i].elements[j].string] : i \in DOMAIN lists}
  IN  IF /\ ValidEntityName(name)
         /\ columns.k = "record" /\ \A f \in DOMAIN columns.fields : columns.fields[f].k = "column"
         /\ \A index \in indexes : LegalIndex(columns.fields, index)
      THEN Value(VEntity(name, columns.fields, {Range(index) : index \in indexes}))
      ELSE Error("declaration")

-----------------------------------------------------------------------------
\* Values in columns.
RawInt(n) == [int |-> n]
RawText(s) == [text |-> s]
IsInt(raw) == DOMAIN raw = {"int"}

RECURSIVE Unwrapped(_)
Unwrapped(v) == IF v.k = "ctor" /\ v.tag = "Just" THEN Unwrapped(v.args[1]) ELSE v

\* decimalCoefficientAtScale: never rounded, and within 64 bits.
CoefficientAtScale(d, scale) ==
  LET coef == IF d.scale <= scale THEN CoefAt(d, scale) ELSE Quotient(d.coef, 10 ^ (d.scale - scale))
      exact == d.scale <= scale \/ coef * 10 ^ (d.scale - scale) = d.coef
  IN  IF exact /\ Magnitude(coef) <= MaxInt64 THEN Value(RawInt(coef)) ELSE Error("refused")

\* marValueToSQLForField.  Where the column asks for nothing, the value's own kind decides.
Encoded(column, wrapped) ==
  LET v == Unwrapped(wrapped)
  IN
  CASE column.ctors # {} ->
         IF v.k = "ctor" /\ v.args = <<>> /\ v.tag \in column.ctors
         THEN Value(RawText(v.tag)) ELSE Error("refused")
    [] column.sqlType = "TIMESTAMP" -> IF v.k = "time" THEN Value(RawInt(v.millis)) ELSE Error("refused")
    [] column.sqlType = "DECIMAL" ->
         IF v.k = "decimal" THEN CoefficientAtScale(v, column.scale) ELSE Error("refused")
    [] OTHER ->
         CASE v.k = "int" -> Value(RawInt(v.int))
           [] v.k = "string" -> Value(RawText(v.string))
           [] v.k = "bool" -> Value(RawInt(IF v.bool THEN 1 ELSE 0))
           [] v.k = "time" -> Value(RawInt(v.millis))
           [] OTHER -> Error("refused")

\* SQLite gives a value the type of the column where it can: a number is a text in a TEXT
\* column, and a text of digits is a number in any other.
Affine(column, raw) ==
  CASE column.sqlType = "TEXT" /\ IsInt(raw) -> RawText(ToString(raw.int))
    [] column.sqlType # "TEXT" /\ ~IsInt(raw) ->
         IF Unsigned(raw.text) # "" /\ AllDigits(Unsigned(raw.text))
         THEN RawInt(Signed(raw.text, NumberIn(Unsigned(raw.text)))) ELSE raw
    [] OTHER -> raw
ForColumn(column, v) == Then(Encoded(column, v), LAMBDA raw : Value(Affine(column, raw)))

\* decodeColumn.  A text where a number belongs comes out as the text it is.
Decoded(column, raw) ==
  IF ~IsInt(raw)
  THEN Value(IF column.ctors # {} THEN VCtor(raw.text, <<>>) ELSE VString(raw.text))
  ELSE CASE column.sqlType = "TIMESTAMP" -> Value(VTime(raw.int))
         [] column.sqlType = "DECIMAL" -> Value(VDecimal(raw.int, column.scale))
         [] column.sqlType = "BOOLEAN" -> Value(VBool(raw.int # 0))
         [] OTHER -> IntResult(raw.int)

\* scanRow.
ScannedRow(entity, row) ==
  LET read == [f \in DOMAIN entity.columns |-> Decoded(entity.columns[f], row[f])]
      bad == {f \in DOMAIN read : read[f].err # ""}
  IN  IF bad # {} THEN read[CHOOSE f \in bad : TRUE]
      ELSE Value(VRecord([f \in DOMAIN read |-> read[f].value]))

-----------------------------------------------------------------------------
\* Tables.
NoTable == [next |-> 1, rows |-> <<>>]
EmptyDatabase == [tables |-> <<>>, done |-> <<>>]
TableOf(db, entity) == IF entity.table \in DOMAIN db.tables THEN db.tables[entity.table] ELSE NoTable
WithTable(db, entity, table) == [db EXCEPT !.tables = entity.table :> table @@ @]

PrimaryKeys(entity) == {f \in DOMAIN entity.columns : entity.columns[f].serial}
PrimaryKey(entity) == CHOOSE f \in PrimaryKeys(entity) : TRUE

\* The columns a record names, as they will be stored.
StoredFields(entity, fields) ==
  LET stored == [f \in DOMAIN fields |-> IF f \in DOMAIN entity.columns
                                         THEN ForColumn(entity.columns[f], fields[f]) ELSE Error("refused")]
      bad == {f \in DOMAIN stored : stored[f].err # ""}
  IN  IF bad # {} THEN stored[CHOOSE f \in bad : TRUE] ELSE Value([f \in DOMAIN stored |-> stored[f].value])

\* What the unique indexes allow.
Admits(entity, rows) ==
  \A index \in entity.uniques : \A i, j \in DOMAIN rows :
    i # j => \E f \in index : rows[i][f] # rows[j][f]

\* runSelectMany: the rows that have these raw values, in the order of their ids.
SelectRows(db, entity, wanted) ==
  LET rows == TableOf(db, entity).rows
      found == {id \in DOMAIN rows : \A f \in DOMAIN wanted : rows[id][f] = wanted[f]}
  IN  MapEach(SetToSortSeq(found, <), LAMBDA id : ScannedRow(entity, rows[id]))
ById(db, entity, id) == SelectRows(db, entity, PrimaryKey(entity) :> RawInt(id))

-----------------------------------------------------------------------------
\* Operations, each with its result and the database after it.
Ran(r, db) == [err |-> r.err, value |-> r.value, db |-> db]
Answered(db, op, entity, record, found, F(_)) ==
  LET did == [op |-> op, entity |-> entity, record |-> record,
              rows |-> IF found.err = "" THEN found.value ELSE <<>>]
      Shaped(rows) == Value(F(rows))
  IN  Ran(Then(found, Shaped), [db EXCEPT !.done = Append(@, did)])
AsMaybe(rows) == IF rows = <<>> THEN Nothing ELSE Just(rows[1])

AllRows(db, entity) ==
  Answered(db, "Repo.all", entity, <<>>, SelectRows(db, entity, <<>>), VList)

FindById(db, entity, id) ==
  IF PrimaryKeys(entity) = {} THEN Ran(Error("refused"), db)
  ELSE Answered(db, "Repo.findById", entity, <<>>, ById(db, entity, id), AsMaybe)

FindBy(db, entity, fields) ==
  LET wanted == StoredFields(entity, fields)
  IN  IF wanted.err # "" THEN Ran(wanted, db)
      ELSE Answered(db, "Repo.findBy", entity, fields, SelectRows(db, entity, wanted.value), VList)

\* The serial column is skipped, and an INSERT of no column is no SQL.
Create(db, entity, fields) ==
  LET table == TableOf(db, entity)
      written == [f \in (DOMAIN fields) \ PrimaryKeys(entity) |-> fields[f]]
      given == StoredFields(entity, written)
      rows == table.next :> (PrimaryKey(entity) :> RawInt(table.next) @@ given.value) @@ table.rows
      after == WithTable(db, entity, [next |-> table.next + 1, rows |-> rows])
  IN
  CASE PrimaryKeys(entity) = {} -> Ran(Error("refused"), db)
    [] PrimaryKeys(entity) # {} /\ given.err # "" -> Ran(given, db)
    [] OTHER ->
         IF \/ DOMAIN given.value = {}
            \/ ~(DOMAIN entity.columns \subseteq DOMAIN rows[table.next])
            \/ ~Admits(entity, rows)
         THEN Ran(Error("refused"), db)
         ELSE Answered(after, "Repo.create", entity, written, ById(after, entity, table.next), Head)

\* An empty patch reads the row.  A row that is not there is Nothing, and nothing is written.
Update(db, entity, id, fields) ==
  LET table == TableOf(db, entity)
      given == StoredFields(entity, fields)
      rows == IF id \in DOMAIN table.rows THEN [table.rows EXCEPT ![id] = given.value @@ @] ELSE table.rows
      after == WithTable(db, entity, [table EXCEPT !.rows = rows])
  IN
  CASE PrimaryKeys(entity) = {} -> Ran(Error("refused"), db)
    [] PrimaryKeys(entity) # {} /\ DOMAIN fields = {} -> FindById(db, entity, id)
    [] OTHER ->
         IF given.err # "" THEN Ran(given, db)
         ELSE IF DOMAIN fields \cap PrimaryKeys(entity) # {} \/ ~Admits(entity, rows)
         THEN Ran(Error("refused"), db)
         ELSE Answered(after, "Repo.update", entity, fields, ById(after, entity, id), AsMaybe)

DeleteById(db, entity, id) ==
  LET table == TableOf(db, entity)
      after == WithTable(db, entity, [table EXCEPT !.rows = [i \in (DOMAIN @) \ {id} |-> @[i]]])
  IN  IF PrimaryKeys(entity) = {} THEN Ran(Error("refused"), db)
      ELSE Answered(after, "Repo.deleteById", entity, <<>>, Value(<<>>), LAMBDA rows : VUnit)

RepoOps == {"Repo.all", "Repo.findById", "Repo.findBy", "Repo.create", "Repo.update", "Repo.deleteById"}
RunRepo(db, op, xs) ==
  CASE op = "Repo.all" -> AllRows(db, xs[1])
    [] op = "Repo.findById" -> FindById(db, xs[1], xs[2].int)
    [] op = "Repo.findBy" -> FindBy(db, xs[1], xs[2].fields)
    [] op = "Repo.create" -> Create(db, xs[1], xs[2].fields)
    [] op = "Repo.update" -> Update(db, xs[1], xs[2].int, xs[3].fields)
    [] op = "Repo.deleteById" -> DeleteById(db, xs[1], xs[2].int)

\* LookupUserID: the ids of the users with this address - in the column `email`, or else in one
\* that has a text; where there is no such column there are none.
UserIds(db, entity, email) ==
  LET texts == {f \in DOMAIN entity.columns : entity.columns[f].sqlType = "TEXT"}
      column == IF "email" \in DOMAIN entity.columns THEN "email" ELSE CHOOSE f \in texts : TRUE
      rows == TableOf(db, entity).rows
  IN  IF texts = {} THEN {}
      ELSE {id \in DOMAIN rows : rows[id][column] = Affine(entity.columns[column], RawText(email))}

\* fillTimestampsForSignup: `now` in every timestamp that has no time.
FilledTimestamps(entity, fields, now) ==
  LET due == {f \in DOMAIN entity.columns :
                /\ entity.columns[f].sqlType = "TIMESTAMP"
                /\ f \notin DOMAIN fields \/ fields[f].k # "time"}
  IN  [f \in due |-> now] @@ fields
=============================================================================
