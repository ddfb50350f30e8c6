--------------------------- MODULE MigratorProofs ---------------------------
(***************************************************************************)
(* Theorems about Migrator, for every value of its constants: any number   *)
(* of requests, columns, versions, deploys, crashes and failures.          *)
(*                                                                         *)
(* The types come first; then what a run knows of the table while others   *)
(* change it (Remembered), the audit, the boot of mar dev (BootInv), hot   *)
(* reloads (ReloadInv), what no step undoes (Grows), the serial ids, and   *)
(* the rank that every step of a run lowers.                               *)
(***************************************************************************)
EXTENDS Migrator, FiniteSetTheorems, WellFoundedInduction, TLAPS

-----------------------------------------------------------------------------
(* The diff *)

LEMMA FreshType ==
  ASSUME NEW f \in Declared
  PROVE  Fresh(f) \in LiveColumn
  BY DEF Fresh, LiveColumn, Declared, Stored, Type

LEMMA ColumnsType ==
  ASSUME NEW v \in Version
  PROVE  Columns(v) \in [Column -> LiveColumn \cup {None}]
  BY MigratorAssumption, FreshType DEF Columns

LEMMA NoTableType ==
  /\ NoTable \in Table
  /\ \A v \in Version : /\ [NoTable EXCEPT !.exists = TRUE, !.cols = Columns(v)] \in Table
                        /\ [NoTable EXCEPT !.exists = TRUE, !.cols = Columns(v)].exists
                        /\ [NoTable EXCEPT !.exists = TRUE, !.cols = Columns(v)].cols = Columns(v)
<1>1. NoTable \in Table
  BY DEF NoTable, Table
<1> QED BY <1>1, ColumnsType DEF Table

\* What a plan says of its slots.
PlanShape(v, plan) ==
  /\ plan \in [Slot -> Step]
  /\ plan[0] \in {"none", "create"}
  /\ \A i \in Slot : plan[i] \in {"add", "recreate"} => i \in Column /\ Field[v][i] # None
  /\ \A i \in Slot : plan[i] = "create" => i = 0
  /\ \A i \in Slot : plan[i] = "index" => i \notin Column /\ i # 0

LEMMA StepForType ==
  ASSUME NEW f, NEW l, NEW hasRows
  PROVE  /\ StepFor(f, l, hasRows) \in {"none", "add", "recreate", "blocked"}
         /\ StepFor(f, l, hasRows) # "none" => f # None
  BY DEF StepFor

LEMMA PlanTypes ==
  ASSUME NEW v \in Version, NEW seen, NEW hasRows
  PROVE  /\ PlanShape(v, CreatePlan(v)) /\ PlanShape(v, DiffPlan(v, seen, hasRows))
         /\ \A i \in Slot : NoPlan[i] = "none"
         /\ PlanShape(v, NoPlan)
<1>1. 0 \in Slot /\ NCol + 1 \in Slot /\ 0 # NCol + 1 /\ 0 \notin Column /\ NCol + 1 \notin Column
      /\ \A i \in Slot : i \in Column \/ i = 0 \/ i = NCol + 1
  BY MigratorAssumption DEF Slot, Column
<1>2. PlanShape(v, CreatePlan(v))
  BY <1>1 DEF PlanShape, CreatePlan, IndexStep, Step
<1>3. PlanShape(v, DiffPlan(v, seen, hasRows))
  BY <1>1, StepForType DEF PlanShape, DiffPlan, IndexStep, Step
<1>4. (\A i \in Slot : NoPlan[i] = "none") /\ PlanShape(v, NoPlan)
  BY <1>1 DEF NoPlan, PlanShape, Step
<1> QED BY <1>2, <1>3, <1>4

\* Clearing a slot keeps the shape.
LEMMA ClearSlot ==
  ASSUME NEW v, NEW plan, PlanShape(v, plan), NEW i \in Slot
  PROVE  PlanShape(v, [plan EXCEPT ![i] = "none"])
  BY MigratorAssumption DEF PlanShape, Slot, Step

-----------------------------------------------------------------------------
(* The shape of the variables *)

Shaped == \A r \in Runner : PlanShape(proc[r].ver, proc[r].plan)

LEMMA ProcFields ==
  ASSUME NEW p \in Proc
  PROVE  /\ p.pc \in Pc /\ p.ver \in Version /\ p.seen \in [Column -> LiveColumn \cup {None}]
         /\ p.plan \in [Slot -> Step] /\ p.at \in Slot /\ p.changed \in BOOLEAN /\ p.id \in Nat
         /\ p.resp \in Response
         /\ \A step \in Pc : [p EXCEPT !.pc = step] \in Proc
         /\ \A step \in Pc, seen \in [Column -> LiveColumn \cup {None}] :
              [p EXCEPT !.pc = step, !.seen = seen] \in Proc
         /\ \A step \in Pc, i \in Slot, plan \in [Slot -> Step] :
              [p EXCEPT !.pc = step, !.at = i, !.plan = plan] \in Proc
         /\ \A step \in Pc, i \in Slot, change \in BOOLEAN :
              [p EXCEPT !.pc = step, !.at = i, !.changed = change] \in Proc
         /\ \A step \in Pc, n \in Nat : [p EXCEPT !.pc = step, !.id = n] \in Proc
  BY DEF Proc

LEMMA Restings ==
  ASSUME NEW v \in Version, NEW resp \in Response, NEW step \in Pc
  PROVE  /\ Resting(v, resp) \in Proc /\ Starting(v, step) \in Proc
         /\ Resting(v, resp).pc = "idle" /\ Starting(v, step).pc = step
         /\ Resting(v, resp).ver = v /\ Starting(v, step).ver = v
         /\ Resting(v, resp).plan = NoPlan /\ Starting(v, step).plan = NoPlan
<1>1. NoPlan \in [Slot -> Step] /\ 0 \in Slot
  BY MigratorAssumption DEF NoPlan, Slot, Step
<1>2. Resting(v, resp) \in Proc
  BY <1>1 DEF Resting, Proc, Pc
<1>3. Resting(v, "none") \in Proc
  BY <1>1 DEF Resting, Proc, Pc, Response
<1>4. Starting(v, step) \in Proc
  BY <1>3, ProcFields DEF Starting
<1> QED BY <1>2, <1>4 DEF Resting, Starting

LEMMA Shapes ==
  TypeOK => /\ dev \in BOOLEAN /\ version \in Version /\ listening \in BOOLEAN /\ done \in BOOLEAN
            /\ live \in Table /\ proc \in [Runner -> Proc] /\ count \in Counts
            /\ born \in Nat /\ applied \in Nat /\ audit \in Nat
            /\ rows \subseteq Row /\ dropped \subseteq Row
  BY DEF TypeOK

LEMMA TableFields ==
  ASSUME NEW t \in Table
  PROVE  /\ t.cols \in [Column -> LiveColumn \cup {None}] /\ t.next \in Nat /\ t.exists \in BOOLEAN
         /\ [t EXCEPT !.index = TRUE] \in Table /\ [t EXCEPT !.next = @ + 1] \in Table
         /\ \A c \in Column, l \in LiveColumn :
              [t EXCEPT !.cols = [@ EXCEPT ![c] = l]] \in Table
<1>1. /\ t.cols \in [Column -> LiveColumn \cup {None}] /\ t.next \in Nat /\ t.exists \in BOOLEAN
      /\ t.next + 1 \in Nat
  BY DEF Table
<1>2. [t EXCEPT !.index = TRUE] \in Table /\ [t EXCEPT !.next = @ + 1] \in Table
  BY <1>1 DEF Table
<1>3. ASSUME NEW c \in Column, NEW l \in LiveColumn
      PROVE  [t EXCEPT !.cols = [@ EXCEPT ![c] = l]] \in Table
  <2>1. [t.cols EXCEPT ![c] = l] \in [Column -> LiveColumn \cup {None}]
    BY <1>1
  <2> QED BY <2>1 DEF Table
<1> QED BY <1>1, <1>2, <1>3

LEMMA CountFields ==
  ASSUME NEW k \in Counts, NEW n \in Nat
  PROVE  /\ k.fault \in Nat /\ k.reload \in Nat /\ k.unaudited \in Nat /\ k.crash \in Nat /\ k.deploy \in Nat
         /\ [k EXCEPT !.unaudited = n] \in Counts /\ [k EXCEPT !.reload = n] \in Counts
         /\ \A m \in Nat : /\ [k EXCEPT !.fault = m, !.unaudited = n] \in Counts
                           /\ [k EXCEPT !.crash = m, !.unaudited = n] \in Counts
                           /\ [k EXCEPT !.deploy = m, !.unaudited = n] \in Counts
  BY DEF Counts

LEMMA UnauditedFinite == Cardinality(Unaudited) \in Nat
<1>1. IsFiniteSet(Runner)
  BY MigratorAssumption, FS_AddElement DEF Runner
<1>2. IsFiniteSet(Unaudited)
  BY <1>1, FS_Subset DEF Unaudited
<1> QED BY <1>2, FS_CardinalityType

LEMMA Least ==
  ASSUME NEW S \in SUBSET Nat, S # {}
  PROVE  \E x \in S : \A y \in S : x <= y
<1> DEFINE R == {p \in Nat \X Nat : p[1] < p[2]}
<1>1. IsWellFoundedOn(R, Nat)
  BY NatLessThanWellFounded DEF OpToRel
<1>2. PICK x \in S : \A y \in S : ~(<<y, x>> \in R)
  BY <1>1, WFMin
<1>3. \A y \in S : ~(y < x)
  BY <1>2
<1> QED BY <1>3

\* The next step of a plan is the first one that is left.
LEMMA NextSlotIsFirst ==
  ASSUME NEW r \in Runner, Pending(r) # {}
  PROVE  /\ NextSlot(r) \in Slot /\ NextSlot(r) >= proc[r].at
         /\ proc[r].plan[NextSlot(r)] # "none"
         /\ \A j \in Slot : proc[r].at <= j /\ j < NextSlot(r) => proc[r].plan[j] = "none"
<1>1. Pending(r) \subseteq Nat
  BY MigratorAssumption DEF Pending, Slot
<1>2. \E i \in Pending(r) : \A j \in Pending(r) : i <= j
  BY <1>1, Least
<1>3. NextSlot(r) \in Pending(r) /\ \A j \in Pending(r) : NextSlot(r) <= j
  BY <1>2 DEF NextSlot
<1>4. \A j \in Slot : j < NextSlot(r) => j \notin Pending(r)
  BY <1>1, <1>3, MigratorAssumption DEF Slot
<1> QED BY <1>3, <1>4 DEF Pending, Slot

LEMMA BootedType ==
  ASSUME NEW v \in Version
  PROVE  /\ Booted(v) \in [Runner -> Proc]
         /\ \A r \in Runner : /\ PlanShape(Booted(v)[r].ver, Booted(v)[r].plan)
                              /\ Booted(v)[r].pc \in {"idle", "schema"} /\ Booted(v)[r].ver = v
<1>1. \A r \in Runner : Booted(v)[r] \in {Resting(v, "none"), Starting(v, "schema")}
  BY DEF Booted
<1>2. /\ Resting(v, "none") \in Proc /\ Starting(v, "schema") \in Proc
      /\ PlanShape(v, Resting(v, "none").plan) /\ PlanShape(v, Starting(v, "schema").plan)
      /\ Resting(v, "none").ver = v /\ Starting(v, "schema").ver = v
      /\ Resting(v, "none").pc = "idle" /\ Starting(v, "schema").pc = "schema"
  BY Restings, PlanTypes DEF Pc, Response
<1> QED BY <1>1, <1>2 DEF Booted

LEMMA TypeInit == Init => TypeOK /\ Shaped
<1> SUFFICES ASSUME Init PROVE TypeOK /\ Shaped
  OBVIOUS
<1>1. count \in Counts
  BY DEF Init, Counts
<1>2. proc \in [Runner -> Proc] /\ Shaped
  BY BootedType DEF Init, Shaped
<1> QED BY <1>1, <1>2, NoTableType, MigratorAssumption DEF Init, TypeOK

-----------------------------------------------------------------------------
(* The steps keep the shape *)

\* One runner moves to a state of the same shape.
LEMMA Moves ==
  ASSUME TypeOK, Shaped, NEW r \in Runner, NEW p \in Proc, PlanShape(p.ver, p.plan),
         proc' = [proc EXCEPT ![r] = p]
  PROVE  proc' \in [Runner -> Proc] /\ Shaped'
  BY Shapes DEF Shaped

LEMMA GotoType ==
  ASSUME TypeOK, Shaped, NEW r \in Runner, NEW step \in Pc, Goto(r, step)
  PROVE  proc' \in [Runner -> Proc] /\ Shaped'
<1>1. proc[r] \in Proc /\ PlanShape(proc[r].ver, proc[r].plan)
  BY Shapes DEF Shaped
<1>2. [proc[r] EXCEPT !.pc = step] \in Proc
  BY <1>1, ProcFields
<1>3. /\ [proc[r] EXCEPT !.pc = step].ver = proc[r].ver
      /\ [proc[r] EXCEPT !.pc = step].plan = proc[r].plan
  BY <1>1 DEF Proc
<1> QED BY <1>1, <1>2, <1>3, Moves DEF Goto

LEMMA ReplyType ==
  ASSUME TypeOK, Shaped, NEW r \in Runner, NEW resp \in Response, Reply(r, resp)
  PROVE  proc' \in [Runner -> Proc] /\ Shaped'
<1>1. Resting(version, resp) \in Proc /\ PlanShape(version, Resting(version, resp).plan)
      /\ Resting(version, resp).ver = version
  BY Shapes, Restings, PlanTypes DEF Pc
<1> QED BY <1>1, Moves DEF Reply

LEMMA PlanWithType ==
  ASSUME TypeOK, Shaped, NEW r \in Runner, NEW hasRows, PlanWith(r, hasRows)
  PROVE  proc' \in [Runner -> Proc] /\ Shaped'
<1> DEFINE plan == DiffPlan(proc[r].ver, proc[r].seen, hasRows)
           p == [proc[r] EXCEPT !.pc = "exec", !.at = 0, !.plan = plan]
<1>1. proc[r] \in Proc /\ proc[r].ver \in Version
  BY Shapes, ProcFields
<1>2. PlanShape(proc[r].ver, plan) /\ plan \in [Slot -> Step] /\ 0 \in Slot
  BY <1>1, PlanTypes, MigratorAssumption DEF PlanShape, Slot
<1> HIDE DEF plan
<1>3. p \in Proc
  BY <1>1, <1>2, ProcFields DEF Pc
<1>4. p.ver = proc[r].ver /\ p.plan = plan
  BY <1>1, <1>2 DEF Proc
<1>5. proc' = [proc EXCEPT ![r] = p]
  BY DEF PlanWith, plan
<1> HIDE DEF p
<1> QED BY <1>2, <1>3, <1>4, <1>5, Moves

\* A step whose change of the schema has been made.
LEMMA ExecutedType ==
  ASSUME TypeOK, Shaped, NEW r \in Runner, Pending(r) # {}, NEW change \in BOOLEAN,
         Executed(r, change)
  PROVE  proc' \in [Runner -> Proc] /\ Shaped' /\ applied' \in Nat
<1> DEFINE p == [proc[r] EXCEPT !.pc = "record", !.at = NextSlot(r), !.changed = change]
<1>1. proc[r] \in Proc /\ PlanShape(proc[r].ver, proc[r].plan) /\ NextSlot(r) \in Slot
  BY Shapes, NextSlotIsFirst DEF Shaped
<1>2. p \in Proc
  BY <1>1, ProcFields DEF Pc
<1>3. p.ver = proc[r].ver /\ p.plan = proc[r].plan
  BY <1>1 DEF Proc
<1>4. proc' = [proc EXCEPT ![r] = p] /\ applied' \in Nat
  BY Shapes DEF Executed
<1> HIDE DEF p
<1> QED BY <1>1, <1>2, <1>3, <1>4, Moves

\* Replies and program counters are what the definitions list.
LEMMA Names ==
  /\ {"none", "ok", "error", "blocked"} \subseteq Response
  /\ {"idle", "lookup", "check", "schema", "rows", "exec", "record", "mark", "insert",
      "readback", "load"} \subseteq Pc
  BY DEF Response, Pc

\* The table as the version declares it.
LEMMA CreatedType ==
  ASSUME TypeOK, NEW r \in Runner,
         live' = [NoTable EXCEPT !.exists = TRUE, !.cols = Columns(proc[r].ver)]
  PROVE  live' \in Table
<1>1. proc[r].ver \in Version
  BY Shapes, ProcFields
<1> QED BY <1>1, NoTableType

LEMMA BeginType ==
  ASSUME TypeOK, Shaped, NEW r \in Runner, Begin(r)
  PROVE  (TypeOK /\ Shaped)'
<1>1. PICK step \in {"check", "lookup"} : proc' = [proc EXCEPT ![r] = Starting(version, step)]
  BY DEF Begin
<1>2. version \in Version /\ step \in Pc
  BY Shapes, Names
<1>3. /\ Starting(version, step) \in Proc /\ Starting(version, step).ver = version
      /\ Starting(version, step).plan = NoPlan
  BY <1>2, Restings, Names
<1>4. PlanShape(version, NoPlan)
  BY <1>2, PlanTypes
<1>5. proc' \in [Runner -> Proc] /\ Shaped'
  BY <1>1, <1>3, <1>4, Moves
<1> QED BY <1>5 DEF TypeOK, Begin, server, schema, data

LEMMA ServeType ==
  ASSUME TypeOK, Shaped, NEW r \in Runner, Serve(r)
  PROVE  (TypeOK /\ Shaped)'
<1> USE DEF server, schema, data
<1>0. live \in Table /\ live.next \in Nat /\ proc \in [Runner -> Proc] /\ count \in Counts
      /\ born \in Nat /\ applied \in Nat
  BY Shapes, TableFields
<1>1. CASE BareCreate(r)
  <2>1. CASE live.exists
    BY <1>1, <2>1, GotoType, Names DEF TypeOK, BareCreate
  <2>2. CASE ~live.exists
    <3>1. live' \in Table
      BY <1>1, <2>2, CreatedType DEF BareCreate
    <3>2. count' = [count EXCEPT !.unaudited = count.unaudited + 1]
      BY <1>1, <2>2 DEF BareCreate
    <3>u. count.unaudited \in Nat
      BY <1>0 DEF Counts
    <3>3. count' \in Counts
      BY <1>0, <3>2, <3>u DEF Counts
    <3>4. applied' \in Nat
      BY <1>0, <1>1, <2>2 DEF BareCreate
    <3> QED BY <1>1, <3>1, <3>3, <3>4, GotoType, Names DEF TypeOK, BareCreate
  <2> QED BY <2>1, <2>2
<1>2. CASE CheckCache(r)
  BY <1>2, GotoType, Names DEF TypeOK, CheckCache
<1>3. CASE Mark(r)
  BY <1>3, GotoType, Names DEF TypeOK, Mark
<1>4. ASSUME NEW value \in Value, Insert(r, value)
      PROVE  (TypeOK /\ Shaped)'
  <2>1. CASE Accepts(proc[r].ver, value)
    <3>1. [n |-> born + 1, id |-> live.next, value |-> value] \in Row /\ born + 1 \in Nat
      BY <1>0 DEF Row
    <3>2. rows' \subseteq Row /\ live' \in Table /\ born' \in Nat
      BY <1>0, <1>4, <2>1, <3>1, Shapes, TableFields DEF Insert
    <3> DEFINE p == [proc[r] EXCEPT !.pc = "readback", !.id = live.next]
    <3>3. p \in Proc /\ proc[r] \in Proc /\ PlanShape(proc[r].ver, proc[r].plan)
      BY <1>0, ProcFields, Names DEF Shaped
    <3>4. p.ver = proc[r].ver /\ p.plan = proc[r].plan
      BY <3>3 DEF Proc
    <3>5. proc' = [proc EXCEPT ![r] = p]
      BY <1>4, <2>1 DEF Insert
    <3> HIDE DEF p
    <3>6. proc' \in [Runner -> Proc] /\ Shaped'
      BY <3>3, <3>4, <3>5, Moves
    <3> QED BY <1>4, <3>2, <3>6 DEF TypeOK, Insert
  <2>2. CASE ~Accepts(proc[r].ver, value)
    BY <1>4, <2>2, ReplyType, Names DEF TypeOK, Insert
  <2> QED BY <2>1, <2>2
<1>5. CASE Readback(r)
  BY <1>5, ReplyType, Names DEF TypeOK, Readback
<1> QED BY <1>1, <1>2, <1>3, <1>4, <1>5 DEF Serve

LEMMA MigrateType ==
  ASSUME TypeOK, Shaped, NEW r \in Runner, Migrate(r)
  PROVE  (TypeOK /\ Shaped)'
<1> USE DEF server, schema, data
<1>0. /\ live \in Table /\ live.cols \in [Column -> LiveColumn \cup {None}]
      /\ proc \in [Runner -> Proc] /\ proc[r] \in Proc /\ proc[r].ver \in Version
      /\ proc[r].at \in Slot /\ PlanShape(proc[r].ver, proc[r].plan)
  BY Shapes, TableFields, ProcFields DEF Shaped
<1>1. CASE ReadSchema(r)
  <2> DEFINE p == IF live.exists THEN [proc[r] EXCEPT !.pc = "rows", !.seen = live.cols]
                  ELSE [proc[r] EXCEPT !.pc = "exec", !.at = 0, !.plan = CreatePlan(proc[r].ver)]
  <2>1. proc' = [proc EXCEPT ![r] = p]
    BY <1>0, <1>1 DEF ReadSchema, Proc
  <2>2. CASE live.exists
    <3>1. p \in Proc
      BY <1>0, <2>2, ProcFields, Names
    <3>2. p.ver = proc[r].ver /\ p.plan = proc[r].plan
      BY <1>0, <2>2 DEF Proc
    <3> HIDE DEF p
    <3> QED BY <1>0, <1>1, <2>1, <3>1, <3>2, Moves DEF TypeOK, ReadSchema
  <2>3. CASE ~live.exists
    <3> DEFINE plan == CreatePlan(proc[r].ver)
    <3>1. PlanShape(proc[r].ver, plan)
      BY <1>0, PlanTypes
    <3> HIDE DEF plan
    <3>2. plan \in [Slot -> Step] /\ 0 \in Slot
      BY <3>1, MigratorAssumption DEF PlanShape, Slot
    <3>3. p = [proc[r] EXCEPT !.pc = "exec", !.at = 0, !.plan = plan]
      BY <2>3 DEF plan
    <3> HIDE DEF p
    <3>4. p \in Proc
      BY <1>0, <3>2, <3>3, ProcFields, Names
    <3>5. p.ver = proc[r].ver /\ p.plan = plan
      BY <1>0, <3>3 DEF Proc
    <3> QED BY <1>1, <2>1, <3>1, <3>4, <3>5, Moves DEF TypeOK, ReadSchema
  <2> QED BY <2>2, <2>3
<1>2. CASE ReadRows(r)
  BY <1>2, PlanWithType DEF TypeOK, ReadRows
<1>3. CASE ExecCreate(r)
  <2>1. CASE ~live.exists
    <3>1. live' \in Table
      BY <1>3, <2>1, CreatedType DEF ExecCreate
    <3> QED BY <1>3, <2>1, <3>1, ExecutedType DEF TypeOK, ExecCreate, NextStep
  <2>2. CASE live.exists
    BY <1>3, <2>2, ReplyType, Names DEF TypeOK, ExecCreate, Fail
  <2> QED BY <2>1, <2>2
<1>4. CASE ExecAdd(r)
  <2>1. CASE Fail(r, "error") /\ UNCHANGED schema
    BY <1>4, <2>1, ReplyType, Names DEF TypeOK, ExecAdd, Fail
  <2>2. CASE ~(Fail(r, "error") /\ UNCHANGED schema)
    <3> DEFINE c == NextSlot(r)
               f == Field[proc[r].ver][c]
    <3>1. c \in Column /\ f \in Declared
      BY <1>0, <1>4, NextSlotIsFirst, MigratorAssumption DEF ExecAdd, NextStep, PlanShape
    <3>2. /\ live' = [live EXCEPT !.cols = [@ EXCEPT ![c] = Fresh(f)]]
          /\ Executed(r, TRUE) /\ Pending(r) # {}
      BY <1>4, <2>2 DEF ExecAdd, NextStep
    <3>3. Fresh(f) \in LiveColumn
      BY <3>1, FreshType
    <3> HIDE DEF c, f
    <3>4. live' \in Table
      BY <1>0, <3>1, <3>2, <3>3, TableFields
    <3>5. (TypeOK /\ Shaped)'
      BY <1>4, <3>2, <3>4, ExecutedType DEF TypeOK, ExecAdd
    <3> QED BY <3>5
  <2> QED BY <2>1, <2>2
<1>5. CASE ExecRecreate(r)
  <2>1. live' \in Table
    BY <1>5, CreatedType DEF ExecRecreate
  <2>2. rows' \subseteq Row /\ dropped' \subseteq Row
    BY <1>5, Shapes DEF ExecRecreate
  <2> QED BY <1>5, <2>1, <2>2, ExecutedType DEF TypeOK, ExecRecreate, NextStep
<1>6. CASE ExecIndex(r)
  <2>1. CASE Fail(r, "error") /\ UNCHANGED schema
    BY <1>6, <2>1, ReplyType, Names DEF TypeOK, ExecIndex, Fail
  <2>2. CASE ~(Fail(r, "error") /\ UNCHANGED schema)
    <3>1. \E change \in BOOLEAN : Executed(r, change)
      BY <1>6, <2>2 DEF ExecIndex
    <3>2. live' \in Table /\ Pending(r) # {}
      BY <1>0, <1>6, <2>2, TableFields DEF ExecIndex, NextStep
    <3> QED BY <1>6, <3>1, <3>2, ExecutedType DEF TypeOK, ExecIndex
  <2> QED BY <2>1, <2>2
<1>7. CASE ExecBlocked(r)
  BY <1>7, ReplyType, Names DEF TypeOK, ExecBlocked, Fail
<1>8. CASE Record(r)
  <2> DEFINE plan == [proc[r].plan EXCEPT ![proc[r].at] = "none"]
             p == [proc[r] EXCEPT !.pc = "exec", !.changed = FALSE, !.plan = plan]
  <2>1. PlanShape(proc[r].ver, plan)
    BY <1>0, ClearSlot
  <2>2. p \in Proc /\ p.ver = proc[r].ver /\ p.plan = plan
    <3>1. plan \in [Slot -> Step]
      BY <2>1 DEF PlanShape
    <3> HIDE DEF plan
    <3> QED BY <1>0, <3>1 DEF Proc, Pc
  <2>a. audit' \in Nat
    BY <1>8, Shapes DEF Record
  <2>3. proc' = [proc EXCEPT ![r] = p]
    BY <1>8 DEF Record
  <2> HIDE DEF p, plan
  <2> QED BY <1>8, <2>1, <2>2, <2>a, <2>3, Moves DEF TypeOK, Record
<1>9. CASE RunReturns(r)
  BY <1>9, GotoType, ReplyType, Names DEF TypeOK, RunReturns
<1> QED BY <1>1, <1>2, <1>3, <1>4, <1>5, <1>6, <1>7, <1>8, <1>9 DEF Migrate

LEMMA BootType ==
  ASSUME TypeOK, Shaped, NEW v \in Version, NEW cause \in {"crash", "deploy"}, Boot(v, cause)
  PROVE  (TypeOK /\ Shaped)'
<1>1. proc' \in [Runner -> Proc] /\ Shaped'
  BY BootedType DEF Boot, Shaped
<1>2. count' \in Counts
  <2> DEFINE n == Cardinality(Unaudited)
  <2>1. n \in Nat /\ count \in Counts
    BY UnauditedFinite, Shapes
  <2>2. count' = [count EXCEPT ![cause] = @ + 1, !.unaudited = @ + n]
    BY DEF Boot
  <2> HIDE DEF n
  <2>c. /\ count.crash + 1 \in Nat /\ count.deploy + 1 \in Nat /\ count.unaudited + n \in Nat
    BY <2>1 DEF Counts
  <2>3. CASE cause = "crash"
    <3>1. count' = [count EXCEPT !.crash = count.crash + 1, !.unaudited = count.unaudited + n]
      BY <2>1, <2>2, <2>3 DEF Counts
    <3> QED BY <2>1, <2>c, <3>1, CountFields
  <2>4. CASE cause = "deploy"
    <3>1. count' = [count EXCEPT !.deploy = count.deploy + 1, !.unaudited = count.unaudited + n]
      BY <2>1, <2>2, <2>4 DEF Counts
    <3> QED BY <2>1, <2>c, <3>1, CountFields
  <2> QED BY <2>3, <2>4
<1> QED BY <1>1, <1>2 DEF TypeOK, Boot, schema, data

LEMMA FailureType ==
  ASSUME TypeOK, Shaped, NEW r \in Runner, StatementFails(r)
  PROVE  (TypeOK /\ Shaped)'
<1>1. count' \in Counts
  <2> DEFINE n == IF r \in Unaudited THEN count.unaudited + 1 ELSE count.unaudited
             k == count.fault + 1
  <2>1. count \in Counts /\ n \in Nat /\ k \in Nat
    BY Shapes DEF Counts
  <2>2. count' = [count EXCEPT !.fault = k, !.unaudited = n]
    BY <2>1 DEF StatementFails, Counts
  <2> HIDE DEF n, k
  <2> QED BY <2>1, <2>2, CountFields
<1>2. proc' \in [Runner -> Proc] /\ Shaped'
  BY GotoType, PlanWithType, ReplyType, Names DEF StatementFails, Fail
<1> QED BY <1>1, <1>2 DEF TypeOK, StatementFails, server, schema, data

LEMMA ReloadType ==
  ASSUME TypeOK, Shaped, ReloadReset \/ Loaded
  PROVE  (TypeOK /\ Shaped)'
<1> USE DEF server, schema, data
<1>0. Booter \in Runner
  BY DEF Runner
<1>1. CASE ReloadReset
  <2>1. count' \in Counts
    BY <1>1, Shapes DEF ReloadReset, Counts
  <2> QED BY <1>0, <1>1, <2>1, GotoType, Names DEF TypeOK, ReloadReset
<1>2. ASSUME NEW v \in Version, ReloadSwap(v)
      PROVE  (TypeOK /\ Shaped)'
  <2>1. /\ Starting(v, "schema") \in Proc /\ Starting(v, "schema").ver = v
        /\ Starting(v, "schema").plan = NoPlan
    BY Restings, Names
  <2>2. PlanShape(v, NoPlan)
    BY PlanTypes
  <2>3. proc' \in [Runner -> Proc] /\ Shaped'
    BY <1>0, <1>2, <2>1, <2>2, Moves DEF ReloadSwap
  <2> QED BY <1>2, <2>3 DEF TypeOK, ReloadSwap
<1>3. CASE ReloadFails
  BY <1>0, <1>3, ReplyType, Names DEF TypeOK, ReloadFails
<1> QED BY <1>1, <1>2, <1>3 DEF Loaded

LEMMA TypeStep == TypeOK /\ Shaped /\ [Next]_vars => (TypeOK /\ Shaped)'
<1> SUFFICES ASSUME TypeOK, Shaped, [Next]_vars PROVE (TypeOK /\ Shaped)'
  OBVIOUS
<1>1. ASSUME NEW r \in Runner, Begin(r) \/ Serve(r) \/ Migrate(r) \/ StatementFails(r)
      PROVE  (TypeOK /\ Shaped)'
  BY <1>1, BeginType, ServeType, MigrateType, FailureType
<1>2. ASSUME NEW x \in rows, Delete(x)
      PROVE  (TypeOK /\ Shaped)'
  BY <1>2 DEF TypeOK, Shaped, Delete, server, schema
<1>3. CASE Crash \/ \E v \in Version : Deploy(v)
  BY <1>3, Shapes, BootType DEF Crash, Deploy
<1>4. CASE ReloadReset \/ Loaded
  BY <1>4, ReloadType
<1>5. CASE UNCHANGED vars
  BY <1>5 DEF vars, TypeOK, Shaped
<1> QED BY <1>1, <1>2, <1>3, <1>4, <1>5 DEF Next

LEMMA TypeInvariance == Spec => [](TypeOK /\ Shaped)
  BY TypeInit, TypeStep, PTL DEF Spec

\* Every variable keeps its shape.
THEOREM TypeCorrect == Spec => []TypeOK
  BY TypeInvariance, PTL

-----------------------------------------------------------------------------
(* What is remembered as migrated is migrated *)

\* A live column that a diff leaves alone.
Agrees(f, l) == \A hasRows \in BOOLEAN : StepFor(f, l, hasRows) = "none"

LEMMA FitsIsAgreement ==
  ASSUME NEW cols, NEW v
  PROVE  Fits(cols, v) <=> \A c \in Column : Agrees(Field[v][c], cols[c])
  BY DEF Fits, Agrees

\* Whether the table has rows never decides that there is nothing to do.
LEMMA NoStepAgrees ==
  ASSUME NEW f, NEW l, NEW hasRows, StepFor(f, l, hasRows) = "none"
  PROVE  Agrees(f, l)
  BY DEF StepFor, Agrees

\* A column made from its declaration agrees with it.
LEMMA FreshAgrees ==
  ASSUME NEW f \in Declared
  PROVE  Agrees(f, Fresh(f))
<1>1. Fresh(f) # None
  BY FreshType, NoColumn
<1> QED BY <1>1 DEF Agrees, StepFor, Fresh, Declared

LEMMA ColumnsFit ==
  ASSUME NEW v \in Version
  PROVE  Fits(Columns(v), v)
<1>1. ASSUME NEW c \in Column
      PROVE  Agrees(Field[v][c], Columns(v)[c])
  <2>1. CASE Field[v][c] = None
    BY <2>1 DEF Agrees, StepFor
  <2>2. CASE Field[v][c] # None
    BY <2>2, FreshAgrees, MigratorAssumption DEF Columns
  <2> QED BY <2>1, <2>2
<1> QED BY <1>1, FitsIsAgreement

Agreed(v, c) == Agrees(Field[v][c], live.cols[c])
Fitting(v) == live.exists /\ \A c \in Column : Agreed(v, c)

\* The step that made or changed the column has been executed, not yet recorded.
JustDone(p, c) == p.pc = "record" /\ p.at \in {0, c}

\* What a runner in the middle of a migration may count on, whatever the others do: what
\* its plan has no step for (any more) is as its version declares.
Sure(p) ==
  /\ p.pc = "rows" =>
       live.exists /\ \A c \in Column : Agrees(Field[p.ver][c], p.seen[c]) => Agreed(p.ver, c)
  /\ p.pc \in {"exec", "record"} =>
       /\ \A i \in Slot : i < p.at => p.plan[i] = "none"
       /\ p.plan[0] = "none" \/ (p.pc = "record" /\ p.at = 0) => live.exists
       /\ \A c \in Column :
            (p.plan[0] = "none" /\ p.plan[c] = "none") \/ JustDone(p, c) => Agreed(p.ver, c)
  /\ p.pc \in {"mark", "insert"} => Fitting(p.ver)

\* The table is taken to be migrated: it is in the cache, or mar dev listens.
Trusted == done \/ (dev /\ listening)

\* Without hot reloads every runner runs the version being served.
Remembered ==
  count.reload = 0 =>
    /\ \A r \in Runner : proc[r].pc # "idle" => proc[r].ver = version /\ proc[r].pc # "load"
    /\ Trusted => Fitting(version)
    /\ \A r \in Runner : Sure(proc[r])

\* A schema change of one runner takes no agreement away from the others.
Grows(v) ==
  /\ live.exists => live'.exists
  /\ \A c \in Column : Agreed(v, c) => Agreed(v, c)'

\* One runner moves on; the table grows towards the version.
LEMMA Progress ==
  ASSUME TypeOK, Remembered, NEW r \in Runner, NEW p,
         proc' = [proc EXCEPT ![r] = p], version' = version, count'.reload = count.reload,
         count.reload = 0 => /\ Grows(version) /\ Sure(p)'
                             /\ p.pc # "idle" => p.ver = version /\ p.pc # "load"
                             /\ Trusted' => Trusted \/ Fitting(version)'
  PROVE  Remembered'
<1> SUFFICES ASSUME count.reload = 0 PROVE Remembered'
  BY DEF Remembered
<1>1. \A q \in Runner : proc'[q] = IF q = r THEN p ELSE proc[q]
  BY Shapes
<1>2. ASSUME NEW q \in Runner, q # r
      PROVE  Sure(proc[q])'
  <2>1. CASE proc[q].pc = "idle"
    BY <1>1, <1>2, <2>1 DEF Sure
  <2>2. CASE proc[q].pc # "idle"
    <3>1. Sure(proc[q]) /\ Grows(proc[q].ver) /\ proc'[q] = proc[q]
      BY <1>1, <1>2, <2>2 DEF Remembered
    <3> QED BY <3>1 DEF Sure, Grows, Fitting, JustDone
  <2> QED BY <2>1, <2>2
<1>3. Sure(proc[r])'
  BY <1>1 DEF Sure, Fitting, JustDone
<1>4. Trusted' => Fitting(version)'
  BY DEF Remembered, Fitting, Grows
<1>5. \A q \in Runner : proc'[q].pc # "idle" => proc'[q].ver = version' /\ proc'[q].pc # "load"
  BY <1>1 DEF Remembered
<1> QED BY <1>2, <1>3, <1>4, <1>5 DEF Remembered

LEMMA Unmoved ==
  ASSUME NEW v, live' = live
  PROVE  Grows(v)
  BY DEF Grows, Agreed

\* Nothing is asked of a runner outside a migration.
LEMMA Outside ==
  ASSUME NEW p, p.pc \in {"idle", "lookup", "check", "schema", "readback", "load"}
  PROVE  Sure(p)'
  BY DEF Sure

LEMMA GotoKeeps ==
  ASSUME TypeOK, Remembered, NEW r \in Runner,
         NEW step \in {"lookup", "check", "schema", "mark", "insert"}, Goto(r, step), ~At(r, "idle"),
         version' = version, count'.reload = count.reload, Trusted' => Trusted \/ Fitting(version)',
         count.reload = 0 => Grows(version) /\ (step \in {"mark", "insert"} => Fitting(version)')
  PROVE  Remembered'
<1>0. PICK p : p = [proc[r] EXCEPT !.pc = step]
  OBVIOUS
<1>1. proc[r] \in Proc /\ p.pc = step /\ p.ver = proc[r].ver
  BY <1>0, Shapes DEF Proc
<1>2. proc' = [proc EXCEPT ![r] = p]
  BY <1>0 DEF Goto
<1>3. ASSUME count.reload = 0
      PROVE  p.ver = version /\ p.pc # "load" /\ Grows(version) /\ Sure(p)'
  <2>1. p.ver = version /\ p.pc # "load"
    BY <1>1, <1>3 DEF Remembered, At
  <2>2. CASE step \in {"lookup", "check", "schema"}
    BY <1>1, <1>3, <2>1, <2>2, Outside
  <2>3. CASE step \in {"mark", "insert"}
    <3>1. Sure(p)'
      BY <1>1, <1>3, <2>1, <2>3 DEF Sure, Fitting
    <3> QED BY <1>3, <2>1, <3>1
  <2> QED BY <2>2, <2>3
<1> QED BY <1>2, <1>3, Progress

LEMMA ReplyKeeps ==
  ASSUME TypeOK, Remembered, NEW r \in Runner, NEW resp \in Response, Reply(r, resp),
         version' = version, count'.reload = count.reload,
         count.reload = 0 /\ Trusted' => Trusted \/ Fitting(version)', live' = live
  PROVE  Remembered'
<1>0. PICK p : p = Resting(version, resp)
  OBVIOUS
<1>1. p.pc = "idle" /\ Sure(p)' /\ Grows(version)
  BY <1>0, Shapes, Restings, Names, Outside, Unmoved
<1>2. proc' = [proc EXCEPT ![r] = p]
  BY <1>0 DEF Reply
<1> QED BY <1>1, <1>2, Progress

\* Nothing that matters here has changed.
LEMMA SameKeeps ==
  ASSUME Remembered, proc' = proc, version' = version, count' = count, Trusted' = Trusted, live' = live
  PROVE  Remembered'
  BY DEF Remembered, Sure, Fitting, Agreed, JustDone

\* A table made as the version declares it.
LEMMA Created ==
  ASSUME NEW v \in Version,
         live' = [NoTable EXCEPT !.exists = TRUE, !.cols = Columns(v)]
  PROVE  Fitting(v)' /\ Grows(v)
<1>1. live'.exists /\ live'.cols = Columns(v)
  BY NoTableType
<1>2. \A c \in Column : Agrees(Field[v][c], Columns(v)[c])
  BY ColumnsFit, FitsIsAgreement
<1> QED BY <1>1, <1>2 DEF Fitting, Grows, Agreed

\* A plan made from a schema that was read asks for whatever did not agree in it.
LEMMA PlanWithSure ==
  ASSUME TypeOK, NEW r \in Runner, At(r, "rows"), Sure(proc[r]), live' = live,
         NEW hasRows, PlanWith(r, hasRows)
  PROVE  \E p : /\ proc' = [proc EXCEPT ![r] = p] /\ Sure(p)'
                /\ p.ver = proc[r].ver /\ p.pc = "exec"
<1> DEFINE plan == DiffPlan(proc[r].ver, proc[r].seen, hasRows)
<1>0. PICK p : p = [proc[r] EXCEPT !.pc = "exec", !.at = 0, !.plan = plan]
  OBVIOUS
<1>1. proc' = [proc EXCEPT ![r] = p]
  BY <1>0 DEF PlanWith
<1>2. proc[r] \in Proc /\ p.pc = "exec" /\ p.at = 0 /\ p.plan = plan /\ p.ver = proc[r].ver
  BY <1>0, Shapes DEF Proc
<1>3. 0 \in Slot /\ \A i \in Slot : ~(i < 0)
  BY MigratorAssumption DEF Slot
<1>4. ASSUME NEW c \in Column
      PROVE  plan[c] = StepFor(Field[p.ver][c], proc[r].seen[c], hasRows)
  BY <1>2, MigratorAssumption DEF Slot, Column, DiffPlan
<1> HIDE DEF plan
<1>5. live.exists /\ \A c \in Column : Agrees(Field[p.ver][c], proc[r].seen[c]) => Agreed(p.ver, c)
  BY <1>2 DEF Sure, At
<1>6. \A c \in Column : plan[c] = "none" => Agreed(p.ver, c)
  BY <1>4, <1>5, NoStepAgrees
<1>7. Sure(p)'
  BY <1>2, <1>3, <1>5, <1>6 DEF Sure, JustDone, Agreed
<1> QED BY <1>1, <1>2, <1>7

\* A step that was executed brings the table closer to what the plan's version declares.
LEMMA ExecutedSure ==
  ASSUME TypeOK, Shaped, NEW r \in Runner, At(r, "exec"), Pending(r) # {}, Sure(proc[r]),
         NEW change, Executed(r, change), NEW v, v = proc[r].ver, NEW s, s = NextSlot(r),
         Grows(v), s = 0 => Fitting(v)', s \in Column => Agreed(v, s)'
  PROVE  \E p : /\ proc' = [proc EXCEPT ![r] = p] /\ Sure(p)'
                /\ p.ver = v /\ p.pc = "record"
<1>0. PICK p : p = [proc[r] EXCEPT !.pc = "record", !.at = NextSlot(r), !.changed = change]
  OBVIOUS
<1>1. proc' = [proc EXCEPT ![r] = p]
  BY <1>0 DEF Executed
<1>2. p.pc = "record" /\ p.at = s /\ p.plan = proc[r].plan /\ p.ver = v
  BY <1>0, Shapes DEF Proc
<1>3. /\ \A i \in Slot : i < proc[r].at => proc[r].plan[i] = "none"
      /\ proc[r].plan[0] = "none" => live.exists
      /\ \A c \in Column : proc[r].plan[0] = "none" /\ proc[r].plan[c] = "none" => Agreed(v, c)
  BY <1>2 DEF Sure, At
<1>4. ASSUME NEW i \in Slot, i < p.at
      PROVE  p.plan[i] = "none"
  <2>1. proc[r].at \in Nat /\ i \in Nat
    <3>1. proc[r] \in Proc
      BY Shapes
    <3>2. proc[r].at \in Slot
      BY <3>1, ProcFields
    <3> QED BY <3>2, MigratorAssumption DEF Slot
  <2> QED BY <1>2, <1>3, <1>4, <2>1, NextSlotIsFirst
<1>5. p.plan[0] = "none" \/ p.at = 0 => live'.exists
  BY <1>2, <1>3 DEF Grows, Fitting
<1>6. ASSUME NEW c \in Column, (p.plan[0] = "none" /\ p.plan[c] = "none") \/ JustDone(p, c)
      PROVE  Agreed(v, c)'
  <2>1. CASE p.plan[0] = "none" /\ p.plan[c] = "none"
    BY <1>2, <1>3, <2>1 DEF Grows
  <2>2. CASE JustDone(p, c)
    <3>1. s \in {0, c}
      BY <1>2, <2>2 DEF JustDone
    <3> QED BY <3>1 DEF Fitting
  <2> QED BY <1>6, <2>1, <2>2
<1>7. Sure(p)'
  BY <1>2, <1>4, <1>5, <1>6 DEF Sure, JustDone
<1> QED BY <1>1, <1>2, <1>7

LEMMA BeginKeeps ==
  ASSUME TypeOK, Remembered, NEW r \in Runner, Begin(r)
  PROVE  Remembered'
<1>1. PICK step \in {"check", "lookup"} : proc' = [proc EXCEPT ![r] = Starting(version, step)]
  BY DEF Begin
<1>0. PICK p : p = Starting(version, step)
  OBVIOUS
<1>2. p.pc = step /\ p.ver = version /\ Sure(p)'
  BY <1>0, <1>1, Shapes, Restings, Names, Outside
<1>3. live' = live /\ version' = version /\ count' = count /\ Trusted' = Trusted
  BY DEF Begin, server, schema, Trusted
<1> QED BY <1>0, <1>1, <1>2, <1>3, Unmoved, Progress

LEMMA ServeKeeps ==
  ASSUME TypeOK, Remembered, NEW r \in Runner, Serve(r)
  PROVE  Remembered'
<1> USE DEF server, schema, data, At
<1>1. CASE BareCreate(r)
  <2>1. count'.reload = count.reload
    BY <1>1, Shapes DEF BareCreate, Counts
  <2>2. ASSUME count.reload = 0 PROVE Grows(version)
    <3>1. CASE live.exists
      BY <1>1, <3>1, Unmoved DEF BareCreate
    <3>2. CASE ~live.exists
      <4>1. proc[r].ver = version
        BY <1>1, <2>2 DEF Remembered, BareCreate
      <4>2. live' = [NoTable EXCEPT !.exists = TRUE, !.cols = Columns(version)]
        BY <1>1, <3>2, <4>1 DEF BareCreate
      <4> QED BY <4>2, Created, Shapes
    <3> QED BY <3>1, <3>2
  <2>3. Goto(r, "check") /\ ~At(r, "idle") /\ version' = version /\ Trusted' = Trusted
    BY <1>1 DEF BareCreate, Trusted
  <2> QED BY <2>1, <2>2, <2>3, GotoKeeps
<1>2. CASE CheckCache(r)
  <2>1. live' = live /\ version' = version /\ count' = count /\ Trusted' = Trusted /\ ~At(r, "idle")
    BY <1>2 DEF CheckCache, Trusted
  <2>2. CASE done
    <3>1. count.reload = 0 => Fitting(version)'
      BY <2>1, <2>2 DEF Remembered, Fitting, Agreed, Trusted
    <3> QED BY <1>2, <2>1, <2>2, <3>1, GotoKeeps, Unmoved DEF CheckCache
  <2>3. CASE ~done
    BY <1>2, <2>1, <2>3, GotoKeeps, Unmoved DEF CheckCache
  <2> QED BY <2>2, <2>3
<1>3. CASE Mark(r)
  <2>1. live' = live /\ version' = version /\ count' = count /\ ~At(r, "idle")
    BY <1>3 DEF Mark
  <2>2. CASE count.reload = 0
    <3>1. Fitting(version)'
      BY <1>3, <2>1, <2>2 DEF Mark, Remembered, Sure, Fitting, Agreed
    <3> QED BY <1>3, <2>1, <3>1, GotoKeeps, Unmoved DEF Mark
  <2>3. CASE count.reload # 0
    BY <2>1, <2>3 DEF Remembered
  <2> QED BY <2>2, <2>3
<1>4. ASSUME NEW value \in Value, Insert(r, value)
      PROVE  Remembered'
  <2>1. CASE Accepts(proc[r].ver, value)
    <3>0. PICK p : p = [proc[r] EXCEPT !.pc = "readback", !.id = live.next]
      OBVIOUS
    <3>1. proc' = [proc EXCEPT ![r] = p] /\ p.pc = "readback" /\ p.ver = proc[r].ver
      BY <1>4, <2>1, <3>0, Shapes DEF Insert, Proc
    <3>2. live'.exists = live.exists /\ live'.cols = live.cols
      BY <1>4, <2>1, Shapes DEF Insert, Table
    <3>3. Grows(version) /\ Sure(p)'
      BY <1>4, <3>1, <3>2, Outside DEF Grows, Agreed, Insert
    <3>4. version' = version /\ count' = count /\ Trusted' = Trusted /\ proc[r].pc = "insert"
      BY <1>4 DEF Insert, Trusted
    <3>5. count.reload = 0 => p.ver = version
      BY <3>1, <3>4 DEF Remembered
    <3> QED BY <3>1, <3>3, <3>4, <3>5, Progress
  <2>2. CASE ~Accepts(proc[r].ver, value)
    <3>1. Reply(r, "error") /\ live' = live /\ version' = version /\ count' = count /\ Trusted' = Trusted
      BY <1>4, <2>2 DEF Insert, Trusted
    <3> QED BY <3>1, ReplyKeeps, Names
  <2> QED BY <2>1, <2>2
<1>5. CASE Readback(r)
  <2>1. live' = live /\ version' = version /\ count' = count /\ Trusted' = Trusted
    BY <1>5 DEF Readback, Trusted
  <2>2. \E resp \in {"ok", "error"} : Reply(r, resp)
    BY <1>5 DEF Readback
  <2> QED BY <2>1, <2>2, ReplyKeeps, Names
<1> QED BY <1>1, <1>2, <1>3, <1>4, <1>5 DEF Serve

\* A migrating runner's step takes nothing away from its version, and it can count on what
\* its plan has no step for.
LEMMA MigrateSure ==
  ASSUME TypeOK, Shaped, NEW r \in Runner, Sure(proc[r]), Migrate(r), ~RunReturns(r),
         NEW v \in Version, v = proc[r].ver
  PROVE  /\ Grows(v)
         /\ \E p : /\ proc' = [proc EXCEPT ![r] = p] /\ Sure(p)'
                   /\ p.pc \in {"idle", "rows", "exec", "record"} /\ (p.pc # "idle" => p.ver = v)
                   /\ p.pc = "idle" => p.resp # "ok"
<1> USE DEF server, schema, data
<1>a. proc[r] \in Proc /\ PlanShape(v, proc[r].plan)
  BY Shapes DEF Shaped
\* The migration fails.
<1>f. ASSUME NEW resp \in Response \ {"ok"}, Reply(r, resp), live' = live
      PROVE  /\ Grows(v)
             /\ \E p : /\ proc' = [proc EXCEPT ![r] = p] /\ Sure(p)'
                       /\ p.pc = "idle" /\ p.resp # "ok"
  <2>0. PICK p : p = Resting(version, resp)
    OBVIOUS
  <2>1. p.pc = "idle" /\ p.resp # "ok" /\ Sure(p)' /\ proc' = [proc EXCEPT ![r] = p]
    BY <1>f, <2>0, Outside DEF Reply, Resting
  <2> QED BY <1>f, <2>1, Unmoved
\* It makes the table.
<1>m. ASSUME NEW change, Executed(r, change), At(r, "exec"), Pending(r) # {},
             live' = [NoTable EXCEPT !.exists = TRUE, !.cols = Columns(v)]
      PROVE  Grows(v) /\ \E p : proc' = [proc EXCEPT ![r] = p] /\ Sure(p)' /\ p.ver = v /\ p.pc = "record"
  <2>0. PICK s : s = NextSlot(r)
    OBVIOUS
  <2>1. Fitting(v)' /\ Grows(v)
    BY <1>m, Created
  <2> QED BY <1>m, <2>0, <2>1, ExecutedSure DEF Fitting
<1>1. CASE ReadSchema(r)
  <2>0. PICK p : p = IF live.exists THEN [proc[r] EXCEPT !.pc = "rows", !.seen = live.cols]
                     ELSE [proc[r] EXCEPT !.pc = "exec", !.at = 0, !.plan = CreatePlan(proc[r].ver)]
    OBVIOUS
  <2>1. proc' = [proc EXCEPT ![r] = p] /\ live' = live
    BY <1>1, <1>a, <2>0 DEF ReadSchema, Proc
  <2>2. CASE live.exists
    <3>1. p.pc = "rows" /\ p.seen = live.cols /\ p.ver = v
      BY <1>a, <2>0, <2>2 DEF Proc
    <3>2. Sure(p)'
      BY <2>1, <2>2, <3>1 DEF Sure, Agreed
    <3> QED BY <2>1, <3>1, <3>2, Unmoved
  <2>3. CASE ~live.exists
    <3>1. p.pc = "exec" /\ p.at = 0 /\ p.ver = v /\ p.plan = CreatePlan(v)
      BY <1>a, <2>0, <2>3 DEF Proc
    <3>2. p.plan[0] = "create" /\ \A i \in Slot : ~(i < 0)
      BY <3>1, MigratorAssumption DEF CreatePlan, Slot
    <3>3. Sure(p)'
      BY <3>1, <3>2 DEF Sure, JustDone
    <3> QED BY <2>1, <3>1, <3>3, Unmoved
  <2> QED BY <2>2, <2>3
<1>2. CASE ReadRows(r)
  <2>1. PICK hasRows : PlanWith(r, hasRows)
    BY <1>2 DEF ReadRows
  <2>2. At(r, "rows") /\ live' = live
    BY <1>2 DEF ReadRows
  <2>3. PICK p : proc' = [proc EXCEPT ![r] = p] /\ Sure(p)' /\ p.ver = proc[r].ver /\ p.pc = "exec"
    BY <2>1, <2>2, PlanWithSure
  <2> QED BY <2>2, <2>3, Unmoved
<1>3. CASE ExecCreate(r)
  <2>1. CASE ~live.exists
    <3>1. Executed(r, TRUE) /\ At(r, "exec") /\ Pending(r) # {}
      BY <1>3, <2>1 DEF ExecCreate, NextStep
    <3>2. live' = [NoTable EXCEPT !.exists = TRUE, !.cols = Columns(v)]
      BY <1>3, <2>1 DEF ExecCreate
    <3> QED BY <1>m, <3>1, <3>2
  <2>2. CASE live.exists
    BY <1>3, <1>f, <2>2, Names DEF ExecCreate, Fail
  <2> QED BY <2>1, <2>2
<1>4. CASE ExecAdd(r)
  <2>1. CASE Fail(r, "error") /\ UNCHANGED schema
    BY <1>f, <2>1, Names DEF Fail
  <2>2. CASE ~(Fail(r, "error") /\ UNCHANGED schema)
    <3>0. PICK s : s = NextSlot(r)
      OBVIOUS
    <3>1. /\ s \in Column /\ s # 0 /\ Field[v][s] \in Declared
      BY <1>a, <1>4, <3>0, NextSlotIsFirst, MigratorAssumption DEF ExecAdd, NextStep, PlanShape, Column
    <3>2. /\ live' = [live EXCEPT !.cols = [@ EXCEPT ![s] = Fresh(Field[v][s])]]
          /\ Executed(r, TRUE) /\ Pending(r) # {} /\ At(r, "exec")
      BY <1>4, <2>2, <3>0 DEF ExecAdd, NextStep
    <3>3. /\ live'.exists = live.exists /\ live'.cols[s] = Fresh(Field[v][s])
          /\ \A c \in Column : c # s => live'.cols[c] = live.cols[c]
      BY <3>1, <3>2, Shapes DEF Table
    <3>4. Agrees(Field[v][s], live'.cols[s])
      BY <3>1, <3>3, FreshAgrees
    <3>5. Grows(v) /\ Agreed(v, s)'
      BY <3>3, <3>4 DEF Grows, Agreed
    <3>6. PICK change : change = TRUE
      OBVIOUS
    <3>7. /\ At(r, "exec") /\ Pending(r) # {} /\ Executed(r, change)
          /\ s = 0 => Fitting(v)'
          /\ s \in Column => Agreed(v, s)'
      BY <3>1, <3>2, <3>5, <3>6
    <3>8. PICK p : proc' = [proc EXCEPT ![r] = p] /\ Sure(p)' /\ p.ver = v /\ p.pc = "record"
      BY <3>0, <3>5, <3>7, ExecutedSure
    <3> QED BY <3>5, <3>8
  <2> QED BY <2>1, <2>2
<1>5. CASE ExecRecreate(r)
  <2>1. Executed(r, TRUE) /\ At(r, "exec") /\ Pending(r) # {}
    BY <1>5 DEF ExecRecreate, NextStep
  <2>2. live' = [NoTable EXCEPT !.exists = TRUE, !.cols = Columns(v)]
    BY <1>5 DEF ExecRecreate
  <2> QED BY <1>m, <2>1, <2>2
<1>6. CASE ExecIndex(r)
  <2>1. CASE Fail(r, "error") /\ UNCHANGED schema
    BY <1>f, <2>1, Names DEF Fail
  <2>2. CASE ~(Fail(r, "error") /\ UNCHANGED schema)
    <3>1. PICK change \in BOOLEAN : Executed(r, change)
      BY <1>6, <2>2 DEF ExecIndex
    <3>2. live'.exists = live.exists /\ live'.cols = live.cols
      BY <1>6, <2>2, Shapes DEF ExecIndex, Table
    <3>3. PICK s : s = NextSlot(r)
      OBVIOUS
    <3>4. At(r, "exec") /\ Pending(r) # {} /\ s \notin Column /\ s # 0
      BY <1>6, <1>a, <3>3, NextSlotIsFirst DEF ExecIndex, NextStep, PlanShape
    <3>5. Grows(v)
      BY <3>2 DEF Grows, Agreed
    <3>6. PICK p : proc' = [proc EXCEPT ![r] = p] /\ Sure(p)' /\ p.ver = v /\ p.pc = "record"
      BY <3>1, <3>3, <3>4, <3>5, ExecutedSure
    <3> QED BY <3>5, <3>6
  <2> QED BY <2>1, <2>2
<1>7. CASE ExecBlocked(r)
  BY <1>7, <1>f, Names DEF ExecBlocked, Fail
<1>8. CASE Record(r)
  <2> DEFINE plan == [proc[r].plan EXCEPT ![proc[r].at] = "none"]
  <2>0. PICK p : p = [proc[r] EXCEPT !.pc = "exec", !.changed = FALSE, !.plan = plan]
    OBVIOUS
  <2>1. proc' = [proc EXCEPT ![r] = p] /\ live' = live /\ At(r, "record")
    BY <1>8, <2>0 DEF Record
  <2>2. p.pc = "exec" /\ p.at = proc[r].at /\ p.ver = v /\ p.plan = plan
    BY <1>a, <2>0 DEF Proc
  <2>3. \A i \in Slot : plan[i] = IF i = proc[r].at THEN "none" ELSE proc[r].plan[i]
    BY <1>a DEF PlanShape
  <2>4. 0 \in Slot /\ Column \subseteq Slot
    BY MigratorAssumption DEF Slot, Column
  <2> HIDE DEF plan
  <2>5. /\ \A i \in Slot : i < proc[r].at => proc[r].plan[i] = "none"
        /\ proc[r].plan[0] = "none" \/ proc[r].at = 0 => live.exists
        /\ \A c \in Column : (proc[r].plan[0] = "none" /\ proc[r].plan[c] = "none")
                               \/ proc[r].at \in {0, c} => Agreed(v, c)
    BY <2>1 DEF Sure, JustDone, At
  <2>6. /\ \A i \in Slot : i < p.at => p.plan[i] = "none"
        /\ p.plan[0] = "none" => live.exists
        /\ \A c \in Column : p.plan[0] = "none" /\ p.plan[c] = "none" => Agreed(v, c)
    BY <2>2, <2>3, <2>4, <2>5
  <2>7. \A c \in Column : Agreed(v, c) => Agreed(v, c)'
    BY <2>1 DEF Agreed
  <2>8. Sure(p)'
    BY <2>1, <2>2, <2>6, <2>7 DEF Sure, JustDone
  <2> QED BY <2>1, <2>2, <2>8, Unmoved
<1> QED BY <1>1, <1>2, <1>3, <1>4, <1>5, <1>6, <1>7, <1>8 DEF Migrate

LEMMA MigrateKeeps ==
  ASSUME TypeOK, Shaped, Remembered, NEW r \in Runner, Migrate(r), ~RunReturns(r)
  PROVE  Remembered'
<1>0. version' = version /\ count' = count /\ Trusted' = Trusted
  <2>1. UNCHANGED <<server, done, count>>
    <3>1. CASE ReadSchema(r) \/ ReadRows(r) \/ ExecBlocked(r) \/ Record(r)
      BY <3>1 DEF ReadSchema, ReadRows, ExecBlocked, Record, server
    <3>2. CASE ExecCreate(r) \/ ExecAdd(r)
      BY <3>2 DEF ExecCreate, ExecAdd, server
    <3>3. CASE ExecRecreate(r) \/ ExecIndex(r)
      BY <3>3 DEF ExecRecreate, ExecIndex, server
    <3> QED BY <3>1, <3>2, <3>3 DEF Migrate
  <2> QED BY <2>1 DEF Trusted, server
<1>1. ~At(r, "idle")
  BY DEF At, Migrate, ReadSchema, ReadRows, ExecCreate, ExecAdd, ExecRecreate, ExecIndex, ExecBlocked,
         Record, NextStep
<1>2. CASE count.reload = 0
  <2>1. PICK v \in Version : v = proc[r].ver
    BY Shapes, ProcFields
  <2>2. v = version /\ Sure(proc[r])
    BY <1>1, <1>2, <2>1 DEF Remembered, At
  <2>a. /\ Grows(v)
        /\ \E p : /\ proc' = [proc EXCEPT ![r] = p] /\ Sure(p)'
                  /\ p.pc \in {"idle", "rows", "exec", "record"} /\ (p.pc # "idle" => p.ver = v)
                  /\ p.pc = "idle" => p.resp # "ok"
    <3>1. Sure(proc[r])
      BY <2>2
    <3>2. v \in Version /\ v = proc[r].ver
      BY <2>1
    <3> QED BY <3>1, <3>2, MigrateSure
  <2>4. Grows(version)
    BY <1>0, <2>2, <2>a DEF Grows, Agreed
  <2>5. ASSUME NEW p, proc' = [proc EXCEPT ![r] = p], Sure(p)',
               p.pc \in {"idle", "rows", "exec", "record"} /\ (p.pc # "idle" => p.ver = v)
        PROVE  Remembered'
    BY <1>0, <2>2, <2>4, <2>5, Progress
  <2> QED BY <2>a, <2>5
<1>3. CASE count.reload # 0
  BY <1>0, <1>3 DEF Remembered
<1> QED BY <1>2, <1>3

\* A migration that is through leaves the table as its version declares it.
LEMMA ReturnFits ==
  ASSUME TypeOK, NEW r \in Runner, RunReturns(r), Sure(proc[r]), NEW v, v = proc[r].ver
  PROVE  Fitting(v)
<1>1. /\ \A i \in Slot : i < proc[r].at => proc[r].plan[i] = "none"
      /\ proc[r].plan[0] = "none" => live.exists
      /\ \A c \in Column : proc[r].plan[0] = "none" /\ proc[r].plan[c] = "none" => Agreed(v, c)
  BY DEF Sure, At, RunReturns
<1>2. 0 \in Slot /\ Column \subseteq Slot /\ proc[r].at \in Nat /\ Slot \subseteq Nat
  <2>1. proc[r].at \in Slot
    BY Shapes, ProcFields
  <2> QED BY <2>1, MigratorAssumption DEF Slot, Column
<1>3. \A i \in Slot : proc[r].plan[i] = "none"
  BY <1>1, <1>2 DEF RunReturns, Pending
<1> QED BY <1>1, <1>2, <1>3 DEF Fitting

LEMMA ReturnKeeps ==
  ASSUME TypeOK, Remembered, NEW r \in Runner, RunReturns(r)
  PROVE  Remembered'
<1>0. live' = live /\ version' = version /\ count' = count /\ At(r, "exec") /\ Pending(r) = {}
  BY DEF RunReturns, schema
<1>a. proc[r] \in Proc
  BY Shapes
<1>1. ASSUME count.reload = 0 PROVE Fitting(version)
  <2>1. Sure(proc[r]) /\ proc[r].ver = version
    BY <1>0, <1>1 DEF Remembered, At
  <2> QED BY <2>1, ReturnFits
<1>2. count.reload = 0 => Grows(version) /\ Fitting(version)'
  BY <1>0, <1>1, Unmoved DEF Fitting, Agreed
<1>3. CASE r \in Request /\ Goto(r, "mark") /\ UNCHANGED listening
  <2>1. Trusted' = Trusted /\ ~At(r, "idle")
    BY <1>0, <1>3 DEF RunReturns, Trusted, At
  <2> QED BY <1>0, <1>2, <1>3, <2>1, GotoKeeps
<1>4. CASE Reply(r, "ok")
  BY <1>0, <1>2, <1>4, ReplyKeeps, Names
<1> QED BY <1>3, <1>4 DEF RunReturns

LEMMA FailureKeeps ==
  ASSUME TypeOK, Remembered, NEW r \in Runner, StatementFails(r)
  PROVE  Remembered'
<1>1. /\ live' = live /\ version' = version /\ Trusted' = Trusted /\ count'.reload = count.reload
  BY Shapes DEF StatementFails, server, schema, Counts, Trusted
<1>2. CASE At(r, "lookup") /\ Goto(r, "check")
  <2>1. ~At(r, "idle") /\ (count.reload = 0 => Grows(version))
    BY <1>1, <1>2, Unmoved DEF At
  <2> QED BY <1>1, <1>2, <2>1, GotoKeeps
<1>3. CASE At(r, "rows") /\ PlanWith(r, FALSE)
  <2>1. CASE count.reload = 0
    <3>1. Sure(proc[r]) /\ proc[r].ver = version
      BY <1>3, <2>1 DEF Remembered, At
    <3>2. PICK p : proc' = [proc EXCEPT ![r] = p] /\ Sure(p)' /\ p.ver = proc[r].ver /\ p.pc = "exec"
      BY <1>1, <1>3, <3>1, PlanWithSure
    <3> QED BY <1>1, <3>1, <3>2, Unmoved, Progress
  <2>2. CASE count.reload # 0
    BY <1>1, <2>2 DEF Remembered
  <2> QED BY <2>1, <2>2
<1>4. CASE Reply(r, "error")
  BY <1>1, <1>4, ReplyKeeps, Names
<1> QED BY <1>2, <1>3, <1>4 DEF StatementFails, Fail

LEMMA BootKeeps ==
  ASSUME TypeOK, Remembered, NEW v \in Version, NEW cause \in {"crash", "deploy"}, Boot(v, cause)
  PROVE  Remembered'
<1>1. count'.reload = count.reload /\ version' = v /\ ~Trusted' /\ proc' = Booted(v)
  BY Shapes DEF Boot, Counts, Trusted
<1>2. \A r \in Runner : proc'[r].ver = v /\ proc'[r].pc \in {"idle", "schema"}
  BY <1>1, BootedType
<1>3. \A r \in Runner : Sure(proc[r])'
  BY <1>2 DEF Sure
<1> QED BY <1>1, <1>2, <1>3 DEF Remembered

LEMMA ReloadKeeps ==
  ASSUME TypeOK, Remembered, ReloadReset \/ Loaded
  PROVE  Remembered'
<1>1. CASE ReloadReset
  <2>1. count.reload \in Nat /\ count'.reload = count.reload + 1
    BY <1>1, Shapes DEF ReloadReset, Counts
  <2> QED BY <2>1 DEF Remembered
<1>2. CASE Loaded
  <2>1. count' = count /\ proc[Booter].pc = "load" /\ Booter \in Runner
    BY <1>2 DEF Loaded, ReloadSwap, ReloadFails, At, Runner
  <2> QED BY <2>1 DEF Remembered
<1> QED BY <1>1, <1>2

LEMMA RememberedStep == TypeOK /\ Shaped /\ Remembered /\ [Next]_vars => Remembered'
<1> SUFFICES ASSUME TypeOK, Shaped, Remembered, [Next]_vars PROVE Remembered'
  OBVIOUS
<1>1. ASSUME NEW r \in Runner, Begin(r) \/ Serve(r) \/ Migrate(r) \/ StatementFails(r)
      PROVE  Remembered'
  BY <1>1, BeginKeeps, ServeKeeps, MigrateKeeps, ReturnKeeps, FailureKeeps
<1>2. ASSUME NEW x \in rows, Delete(x)
      PROVE  Remembered'
  BY <1>2, SameKeeps DEF Delete, server, schema, Trusted
<1>3. CASE Crash \/ \E v \in Version : Deploy(v)
  BY <1>3, Shapes, BootKeeps DEF Crash, Deploy
<1>4. CASE ReloadReset \/ Loaded
  BY <1>4, ReloadKeeps
<1>5. CASE UNCHANGED vars
  BY <1>5, SameKeeps DEF vars, Trusted
<1> QED BY <1>1, <1>2, <1>3, <1>4, <1>5 DEF Next

LEMMA RememberedInit == Init => Remembered
<1> SUFFICES ASSUME Init PROVE Remembered
  OBVIOUS
<1>1. \A r \in Runner : proc[r].ver = version /\ proc[r].pc \in {"idle", "schema"}
  BY BootedType DEF Init
<1>2. \A r \in Runner : Sure(proc[r])
  BY <1>1 DEF Sure
<1> QED BY <1>1, <1>2 DEF Init, Remembered, Trusted

LEMMA RememberedInvariance == Spec => [](TypeOK /\ Remembered)
<1>1. Init => TypeOK /\ Shaped /\ Remembered
  BY TypeInit, RememberedInit
<1>2. TypeOK /\ Shaped /\ Remembered /\ [Next]_vars => (TypeOK /\ Shaped /\ Remembered)'
  BY TypeStep, RememberedStep
<1> QED BY <1>1, <1>2, PTL DEF Spec

LEMMA FittingFits ==
  ASSUME NEW v, Fitting(v)
  PROVE  live.exists /\ Fits(live.cols, v)
  BY FitsIsAgreement DEF Fitting, Agreed

\* A process that remembers the table as migrated, and every INSERT, finds the table as
\* the running version declares it, with any number of requests migrating at once.
THEOREM MigratedFitsHolds == Spec => []MigratedFits
<1>1. TypeOK /\ Remembered => MigratedFits
  <2> SUFFICES ASSUME TypeOK, Remembered, count.reload = 0 PROVE MigratedFits
    BY DEF MigratedFits
  <2>1. Request \subseteq Runner
    BY DEF Runner
  <2> QED BY <2>1, FittingFits DEF MigratedFits, Remembered, Sure, Trusted
<1> QED BY <1>1, RememberedInvariance, PTL

\* mar dev opens its listener on a migrated table only, whatever the declarations, the
\* crashes and the failing statements before it.
THEOREM ServesMigratedHolds == Spec => []ServesMigrated
<1>1. TypeOK /\ Remembered => ServesMigrated
  BY FittingFits DEF ServesMigrated, Remembered, Trusted
<1> QED BY <1>1, RememberedInvariance, PTL

-----------------------------------------------------------------------------
(* Every change of the schema is audited, about to be, or lost to a failure *)

LEMMA Counting ==
  ASSUME NEW r \in Runner
  PROVE  /\ IsFiniteSet(Unaudited) /\ Cardinality(Unaudited) \in Nat
         /\ r \in Unaudited => Cardinality(Unaudited \ {r}) + 1 = Cardinality(Unaudited)
         /\ r \notin Unaudited => Cardinality(Unaudited \cup {r}) = Cardinality(Unaudited) + 1
         /\ Cardinality(Unaudited \ {r}) \in Nat
<1>1. IsFiniteSet(Runner)
  BY MigratorAssumption, FS_AddElement DEF Runner
<1>2. IsFiniteSet(Unaudited) /\ Cardinality(Unaudited) \in Nat
  BY <1>1, FS_Subset, FS_CardinalityType DEF Unaudited
<1>3. IsFiniteSet(Unaudited \ {r}) /\ Cardinality(Unaudited \ {r}) \in Nat
  BY <1>2, FS_RemoveElement, FS_CardinalityType
<1>4. r \in Unaudited => Cardinality(Unaudited \ {r}) + 1 = Cardinality(Unaudited)
  BY <1>2, <1>3, FS_RemoveElement
<1>5. r \notin Unaudited => Cardinality(Unaudited \cup {r}) = Cardinality(Unaudited) + 1
  BY <1>2, FS_AddElement
<1> QED BY <1>2, <1>3, <1>4, <1>5

LEMMA OneMoves ==
  ASSUME TypeOK, NEW r \in Runner, NEW p, proc' = [proc EXCEPT ![r] = p]
  PROVE  /\ p.pc = "record" /\ p.changed => Unaudited' = Unaudited \cup {r}
         /\ ~(p.pc = "record" /\ p.changed) => Unaudited' = Unaudited \ {r}
<1>1. \A q \in Runner : proc'[q] = IF q = r THEN p ELSE proc[q]
  BY Shapes
<1> QED BY <1>1 DEF Unaudited, At

\* A step without a change of the schema and away from the audit.
LEMMA Quiet ==
  ASSUME TypeOK, AuditComplete, NEW r \in Runner, r \notin Unaudited,
         NEW p, ~(p.pc = "record" /\ p.changed), proc' = [proc EXCEPT ![r] = p],
         applied' = applied, audit' = audit, count'.unaudited = count.unaudited
  PROVE  AuditComplete'
<1>1. Unaudited' = Unaudited
  BY OneMoves
<1> QED BY <1>1 DEF AuditComplete

LEMMA QuietGoto ==
  ASSUME TypeOK, AuditComplete, NEW r \in Runner, ~At(r, "record"),
         NEW step, step # "record", Goto(r, step),
         applied' = applied, audit' = audit, count'.unaudited = count.unaudited
  PROVE  AuditComplete'
<1>0. PICK p : p = [proc[r] EXCEPT !.pc = step]
  OBVIOUS
<1>1. p.pc = step /\ proc' = [proc EXCEPT ![r] = p] /\ r \notin Unaudited
  BY <1>0, Shapes DEF Proc, Goto, Unaudited
<1> QED BY <1>1, Quiet

LEMMA QuietReply ==
  ASSUME TypeOK, AuditComplete, NEW r \in Runner, ~At(r, "record"),
         NEW resp, Reply(r, resp),
         applied' = applied, audit' = audit, count'.unaudited = count.unaudited
  PROVE  AuditComplete'
<1>0. PICK p : p = Resting(version, resp)
  OBVIOUS
<1>1. p.pc = "idle" /\ proc' = [proc EXCEPT ![r] = p] /\ r \notin Unaudited
  BY <1>0 DEF Reply, Resting, Unaudited
<1> QED BY <1>1, Quiet

LEMMA QuietPlan ==
  ASSUME TypeOK, AuditComplete, NEW r \in Runner, ~At(r, "record"),
         NEW hasRows, PlanWith(r, hasRows),
         applied' = applied, audit' = audit, count'.unaudited = count.unaudited
  PROVE  AuditComplete'
<1>0. PICK p : p = [proc[r] EXCEPT !.pc = "exec", !.at = 0,
                                   !.plan = DiffPlan(proc[r].ver, proc[r].seen, hasRows)]
  OBVIOUS
<1>1. p.pc = "exec" /\ proc' = [proc EXCEPT ![r] = p] /\ r \notin Unaudited
  BY <1>0, Shapes DEF Proc, PlanWith, Unaudited
<1> QED BY <1>1, Quiet

LEMMA ExecutedAudits ==
  ASSUME TypeOK, AuditComplete, NEW r \in Runner, At(r, "exec"),
         NEW change \in BOOLEAN, Executed(r, change), audit' = audit, count' = count
  PROVE  AuditComplete'
<1>0. PICK p : p = [proc[r] EXCEPT !.pc = "record", !.at = NextSlot(r), !.changed = change]
  OBVIOUS
<1>1. /\ p.pc = "record" /\ p.changed = change /\ proc' = [proc EXCEPT ![r] = p]
      /\ r \notin Unaudited
  BY <1>0, Shapes DEF Proc, Executed, Unaudited, At
<1>2. CASE change
  <2>1. Cardinality(Unaudited') = Cardinality(Unaudited) + 1 /\ Cardinality(Unaudited) \in Nat
    BY <1>1, <1>2, OneMoves, Counting
  <2>2. applied' = applied + 1 /\ audit \in Nat /\ count.unaudited \in Nat
    BY <1>2, Shapes, CountFields DEF Executed
  <2> QED BY <2>1, <2>2 DEF AuditComplete
<1>3. CASE ~change
  BY <1>1, <1>3, Quiet DEF Executed
<1> QED BY <1>2, <1>3

LEMMA ServeAudits ==
  ASSUME TypeOK, AuditComplete, NEW r \in Runner, Serve(r)
  PROVE  AuditComplete'
<1> USE DEF server, schema, data
<1>1. CASE BareCreate(r)
  <2>1. CASE live.exists
    BY <1>1, <2>1, QuietGoto DEF BareCreate, At
  <2>2. CASE ~live.exists
    <3>0. PICK p : p = [proc[r] EXCEPT !.pc = "check"]
      OBVIOUS
    <3>1. p.pc = "check" /\ proc' = [proc EXCEPT ![r] = p] /\ r \notin Unaudited
      BY <1>1, <3>0, Shapes DEF Proc, BareCreate, Goto, Unaudited, At
    <3>2. Unaudited' = Unaudited
      BY <3>1, OneMoves
    <3>3. count.unaudited \in Nat /\ audit \in Nat /\ Cardinality(Unaudited) \in Nat
      BY Shapes, CountFields, Counting
    <3>4. applied' = applied + 1 /\ audit' = audit /\ count'.unaudited = count.unaudited + 1
      BY <1>1, <2>2, Shapes DEF BareCreate, Counts
    <3> QED BY <3>2, <3>3, <3>4 DEF AuditComplete
  <2> QED BY <2>1, <2>2
<1>2. CASE CheckCache(r)
  BY <1>2, QuietGoto DEF CheckCache, At
<1>3. CASE Mark(r)
  BY <1>3, QuietGoto DEF Mark, At
<1>4. ASSUME NEW value \in Value, Insert(r, value)
      PROVE  AuditComplete'
  <2>1. ~At(r, "record") /\ applied' = applied /\ audit' = audit /\ count' = count
    BY <1>4 DEF Insert, At
  <2>2. CASE Accepts(proc[r].ver, value)
    <3>0. PICK p : p = [proc[r] EXCEPT !.pc = "readback", !.id = live.next]
      OBVIOUS
    <3>1. p.pc = "readback" /\ proc' = [proc EXCEPT ![r] = p] /\ r \notin Unaudited
      BY <1>4, <2>1, <2>2, <3>0, Shapes DEF Proc, Insert, Unaudited
    <3> QED BY <2>1, <3>1, Quiet
  <2>3. CASE ~Accepts(proc[r].ver, value)
    BY <1>4, <2>1, <2>3, QuietReply DEF Insert
  <2> QED BY <2>2, <2>3
<1>5. CASE Readback(r)
  <2>1. ~At(r, "record") /\ applied' = applied /\ audit' = audit /\ count' = count
    BY <1>5 DEF Readback, At
  <2>2. \E resp \in {"ok", "error"} : Reply(r, resp)
    BY <1>5 DEF Readback
  <2> QED BY <2>1, <2>2, QuietReply
<1> QED BY <1>1, <1>2, <1>3, <1>4, <1>5 DEF Serve

LEMMA RecordAudits ==
  ASSUME TypeOK, AuditComplete, NEW r \in Runner, Record(r)
  PROVE  AuditComplete'
<1>0. PICK p : p = [proc[r] EXCEPT !.pc = "exec", !.changed = FALSE,
                                   !.plan = [proc[r].plan EXCEPT ![proc[r].at] = "none"]]
  OBVIOUS
<1>1. /\ p.pc = "exec" /\ proc' = [proc EXCEPT ![r] = p]
      /\ applied' = applied /\ count' = count
      /\ audit' = IF r \in Unaudited THEN audit + 1 ELSE audit
  BY <1>0, Shapes DEF Proc, Record, Unaudited, At, schema
<1>2. CASE r \in Unaudited
  <2>1. /\ Cardinality(Unaudited') + 1 = Cardinality(Unaudited)
        /\ Cardinality(Unaudited') \in Nat
    BY <1>1, <1>2, OneMoves, Counting
  <2>2. audit \in Nat /\ count.unaudited \in Nat /\ applied \in Nat
    BY Shapes, CountFields
  <2> QED BY <1>1, <1>2, <2>1, <2>2 DEF AuditComplete
<1>3. CASE r \notin Unaudited
  BY <1>1, <1>3, Quiet
<1> QED BY <1>2, <1>3

LEMMA MigrateAudits ==
  ASSUME TypeOK, AuditComplete, NEW r \in Runner, Migrate(r)
  PROVE  AuditComplete'
<1> USE DEF server, schema, data
<1>1. CASE ReadSchema(r)
  <2>0. PICK p : p = IF live.exists THEN [proc[r] EXCEPT !.pc = "rows", !.seen = live.cols]
                     ELSE [proc[r] EXCEPT !.pc = "exec", !.plan = CreatePlan(proc[r].ver), !.at = 0]
    OBVIOUS
  <2>1. p.pc # "record" /\ proc' = [proc EXCEPT ![r] = p] /\ r \notin Unaudited
    BY <1>1, <2>0, Shapes DEF Proc, ReadSchema, Unaudited, At
  <2>2. applied' = applied /\ audit' = audit /\ count' = count
    BY <1>1 DEF ReadSchema
  <2> QED BY <2>1, <2>2, Quiet
<1>2. CASE ReadRows(r)
  BY <1>2, QuietPlan DEF ReadRows, At
<1>3. CASE ExecCreate(r) \/ ExecAdd(r) \/ ExecRecreate(r) \/ ExecIndex(r) \/ ExecBlocked(r)
  <2>1. At(r, "exec") /\ ~At(r, "record") /\ audit' = audit /\ count' = count
    <3>1. CASE ExecCreate(r) \/ ExecAdd(r) \/ ExecBlocked(r)
      BY <3>1 DEF ExecCreate, ExecAdd, ExecBlocked, NextStep, At
    <3>2. CASE ExecRecreate(r) \/ ExecIndex(r)
      BY <3>2 DEF ExecRecreate, ExecIndex, NextStep, At
    <3> QED BY <1>3, <3>1, <3>2
  <2>2. \/ \E change \in BOOLEAN : Executed(r, change)
        \/ /\ \E resp \in {"error", "blocked"} : Reply(r, resp)
           /\ applied' = applied
    <3>1. CASE ExecCreate(r)
      BY <3>1 DEF ExecCreate, Fail
    <3>2. CASE ExecAdd(r)
      BY <3>2 DEF ExecAdd, Fail
    <3>3. CASE ExecRecreate(r)
      BY <3>3 DEF ExecRecreate
    <3>4. CASE ExecIndex(r)
      BY <3>4 DEF ExecIndex, Fail
    <3>5. CASE ExecBlocked(r)
      BY <3>5 DEF ExecBlocked, Fail
    <3> QED BY <1>3, <3>1, <3>2, <3>3, <3>4, <3>5
  <2> QED BY <2>1, <2>2, ExecutedAudits, QuietReply
<1>4. CASE Record(r)
  BY <1>4, RecordAudits
<1>5. CASE RunReturns(r)
  <2>1. ~At(r, "record") /\ applied' = applied /\ audit' = audit /\ count' = count
    BY <1>5 DEF RunReturns, At
  <2>2. Goto(r, "mark") \/ Reply(r, "ok")
    BY <1>5 DEF RunReturns
  <2> QED BY <2>1, <2>2, QuietGoto, QuietReply
<1> QED BY <1>1, <1>2, <1>3, <1>4, <1>5 DEF Migrate

LEMMA FailureAudits ==
  ASSUME TypeOK, AuditComplete, NEW r \in Runner, StatementFails(r)
  PROVE  AuditComplete'
<1>0. applied' = applied /\ audit' = audit
  BY DEF StatementFails, schema
<1>1. count'.unaudited = IF r \in Unaudited THEN count.unaudited + 1 ELSE count.unaudited
  BY Shapes DEF StatementFails, Counts
<1>2. CASE At(r, "record")
  <2>0. PICK p : p = Resting(version, "error")
    OBVIOUS
  <2>1. p.pc = "idle" /\ proc' = [proc EXCEPT ![r] = p]
    BY <1>2, <2>0 DEF StatementFails, Fail, Reply, Resting, At
  <2>2. CASE r \in Unaudited
    <3>1. /\ Cardinality(Unaudited') + 1 = Cardinality(Unaudited)
          /\ Cardinality(Unaudited') \in Nat
      BY <2>1, <2>2, OneMoves, Counting
    <3>2. audit \in Nat /\ count.unaudited \in Nat
      BY Shapes, CountFields
    <3> QED BY <1>0, <1>1, <2>2, <3>1, <3>2 DEF AuditComplete
  <2>3. CASE r \notin Unaudited
    BY <1>0, <1>1, <2>1, <2>3, Quiet
  <2> QED BY <2>2, <2>3
<1>3. CASE ~At(r, "record")
  <2>1. r \notin Unaudited
    BY <1>3 DEF Unaudited
  <2>2. Goto(r, "check") \/ PlanWith(r, FALSE) \/ Reply(r, "error")
    BY DEF StatementFails, Fail
  <2> QED BY <1>0, <1>1, <1>3, <2>1, <2>2, QuietGoto, QuietPlan, QuietReply
<1> QED BY <1>2, <1>3

LEMMA BootAudits ==
  ASSUME TypeOK, AuditComplete, NEW v \in Version, NEW cause \in {"crash", "deploy"}, Boot(v, cause)
  PROVE  AuditComplete'
<1>1. \A r \in Runner : proc'[r].pc # "record"
  BY BootedType DEF Boot
<1>2. Unaudited' = {}
  BY <1>1 DEF Unaudited, At
<1>3. Cardinality(Unaudited') = 0
  BY <1>2, FS_EmptySet
<1>4. /\ count'.unaudited = count.unaudited + Cardinality(Unaudited)
      /\ applied' = applied /\ audit' = audit
  BY Shapes DEF Boot, Counts, schema
<1>5. count.unaudited \in Nat /\ audit \in Nat /\ Cardinality(Unaudited) \in Nat
  BY Shapes, CountFields, UnauditedFinite
<1> QED BY <1>3, <1>4, <1>5 DEF AuditComplete

LEMMA ReloadAudits ==
  ASSUME TypeOK, AuditComplete, ReloadReset \/ Loaded
  PROVE  AuditComplete'
<1>0. Booter \in Runner /\ ~At(Booter, "record")
  BY DEF Runner, ReloadReset, Loaded, ReloadSwap, ReloadFails, At
<1>1. CASE ReloadReset
  <2>1. count'.unaudited = count.unaudited
    BY <1>1, Shapes DEF ReloadReset, Counts
  <2> QED BY <1>0, <1>1, <2>1, QuietGoto DEF ReloadReset, schema
<1>2. ASSUME NEW v \in Version, ReloadSwap(v)
      PROVE  AuditComplete'
  <2>0. PICK p : p = Starting(v, "schema")
    OBVIOUS
  <2>1. p.pc = "schema" /\ proc' = [proc EXCEPT ![Booter] = p] /\ Booter \notin Unaudited
    BY <1>0, <1>2, <2>0, Restings, Names DEF ReloadSwap, Unaudited
  <2>2. applied' = applied /\ audit' = audit /\ count' = count
    BY <1>2 DEF ReloadSwap, schema
  <2> QED BY <1>0, <2>1, <2>2, Quiet
<1>3. CASE ReloadFails
  BY <1>0, <1>3, QuietReply DEF ReloadFails, schema
<1> QED BY <1>1, <1>2, <1>3 DEF Loaded

LEMMA AuditStep == TypeOK /\ AuditComplete /\ [Next]_vars => AuditComplete'
<1> SUFFICES ASSUME TypeOK, AuditComplete, [Next]_vars PROVE AuditComplete'
  OBVIOUS
<1>1. ASSUME NEW r \in Runner, Begin(r)
      PROVE  AuditComplete'
  <2>1. PICK step \in {"check", "lookup"} : proc' = [proc EXCEPT ![r] = Starting(version, step)]
    BY <1>1 DEF Begin
  <2>0. PICK p : p = Starting(version, step)
    OBVIOUS
  <2>2. p.pc = step /\ r \notin Unaudited
    BY <1>1, <2>0, Shapes, Restings, Names DEF Begin, Unaudited, At
  <2>3. applied' = applied /\ audit' = audit /\ count' = count
    BY <1>1 DEF Begin, schema
  <2> QED BY <2>0, <2>1, <2>2, <2>3, Quiet
<1>2. ASSUME NEW r \in Runner, Serve(r) \/ Migrate(r) \/ StatementFails(r)
      PROVE  AuditComplete'
  BY <1>2, ServeAudits, MigrateAudits, FailureAudits
<1>3. ASSUME NEW x \in rows, Delete(x)
      PROVE  AuditComplete'
  BY <1>3 DEF AuditComplete, Unaudited, At, Delete, schema
<1>4. CASE Crash \/ \E v \in Version : Deploy(v)
  BY <1>4, Shapes, BootAudits DEF Crash, Deploy
<1>5. CASE ReloadReset \/ Loaded
  BY <1>5, ReloadAudits
<1>6. CASE UNCHANGED vars
  BY <1>6 DEF vars, AuditComplete, Unaudited, At
<1> QED BY <1>1, <1>2, <1>3, <1>4, <1>5, <1>6 DEF Next

\* The audit table accounts for every change of the schema: it has a row of it, is about
\* to, or the process failed between the change and its row, or the sign-in lookup made it.
THEOREM AuditCompleteHolds == Spec => []AuditComplete
<1>1. Init => AuditComplete
  <2> SUFFICES ASSUME Init PROVE AuditComplete
    OBVIOUS
  <2>1. Unaudited = {}
    BY BootedType DEF Init, Unaudited, At
  <2> QED BY <2>1, FS_EmptySet DEF Init, AuditComplete
<1> QED BY <1>1, AuditStep, TypeInvariance, PTL DEF Spec

-----------------------------------------------------------------------------
(* In mar dev the migration comes before the requests *)

LastSlot == NCol + 1

\* A unique index is unique.
IndexIsUnique == live.index => \A x, y \in rows : x.value = y.value => x = y

\* The schema a request has read fits, so it plans no more than the index.
ReadsFit(p) ==
  /\ p.pc = "rows" => \A c \in Column : Agrees(Field[p.ver][c], p.seen[c])
  /\ p.pc \in {"exec", "record"} => \A i \in Slot : p.plan[i] \in {"none", "index"}

\* The index is the last step of a plan.
IndexPlanned(p, index) ==
  p.pc \in {"exec", "record"} =>
    /\ p.plan[LastSlot] = "index" \/ (p.at = LastSlot /\ index)
    /\ p.pc = "record" /\ p.at = LastSlot => index

Recreates(p) == p.pc \in {"exec", "record"} /\ \E i \in Slot : p.plan[i] = "recreate"

BooterPc == {"idle", "schema", "rows", "exec", "record", "load"}

\* mar dev before its first reload.
FirstLife == dev /\ count.reload = 0

\* Requests begin when the booter is done.
BootFirst ==
  /\ proc[Booter].pc \in BooterPc
  /\ FirstLife => /\ listening => At(Booter, "idle")
                  /\ ~listening => \A r \in Request : At(r, "idle")
                  /\ \A r \in Request : ReadsFit(proc[r])

IndexLast ==
  FirstLife /\ Unique[version] =>
    /\ listening => live.index
    /\ IndexPlanned(proc[Booter], live.index)

\* A plan to recreate the table was made when it was empty, and so it is still.
EmptyRecreate ==
  FirstLife /\ count.fault = 0 =>
    /\ dropped = {}
    /\ Recreates(proc[Booter]) => rows = {}

BootInv == IndexIsUnique /\ BootFirst /\ IndexLast /\ EmptyRecreate

LEMMA SlotFacts ==
  /\ 0 \in Slot /\ LastSlot \in Slot /\ LastSlot # 0 /\ LastSlot \notin Column
  /\ \A i \in Slot : i \in Nat /\ i <= LastSlot /\ (i = 0 \/ i = LastSlot \/ i \in Column)
  /\ \A i \in Column : i \in Slot /\ i # 0
  BY MigratorAssumption DEF Slot, Column, LastSlot

\* CREATE UNIQUE INDEX and INSERT both look at the rows.
LEMMA UniqueKept ==
  ASSUME TypeOK, IndexIsUnique, [Next]_vars
  PROVE  IndexIsUnique'
<1> USE DEF schema, data
<1>0. live \in Table
  BY Shapes
<1>1. CASE UNCHANGED <<live, rows>>
  BY <1>1 DEF IndexIsUnique
<1>2. CASE live'.index = FALSE
  BY <1>2 DEF IndexIsUnique
<1>3. NoTable.index = FALSE /\ \A cols : [NoTable EXCEPT !.exists = TRUE, !.cols = cols].index = FALSE
  BY DEF NoTable
<1>4. ASSUME NEW r \in Runner, Serve(r) \/ Migrate(r) PROVE IndexIsUnique'
  <2>1. CASE BareCreate(r) \/ ExecCreate(r) \/ ExecRecreate(r)
    <3>1. CASE BareCreate(r)
      BY <1>1, <1>2, <1>3, <3>1 DEF BareCreate
    <3>2. CASE ExecCreate(r)
      BY <1>1, <1>2, <1>3, <3>2 DEF ExecCreate
    <3>3. CASE ExecRecreate(r)
      BY <1>2, <1>3, <3>3 DEF ExecRecreate
    <3> QED BY <2>1, <3>1, <3>2, <3>3
  <2>2. CASE ExecAdd(r)
    <3>1. rows' = rows /\ live'.index = live.index
      BY <1>0, <2>2 DEF ExecAdd, Table
    <3> QED BY <3>1 DEF IndexIsUnique
  <2>3. CASE ExecIndex(r)
    <3>1. rows' = rows
      BY <2>3 DEF ExecIndex
    <3>2. live' = live \/ \A x, y \in rows : x.value = y.value => x = y
      BY <2>3 DEF ExecIndex
    <3> QED BY <3>1, <3>2 DEF IndexIsUnique
  <2>4. ASSUME NEW value \in Value, Insert(r, value) PROVE IndexIsUnique'
    <3>1. CASE Accepts(proc[r].ver, value)
      <4>1. /\ live'.index = live.index
            /\ rows' = rows \cup {[n |-> born + 1, id |-> live.next, value |-> value]}
            /\ live.index => \A x \in rows : x.value # value
        BY <1>0, <2>4, <3>1 DEF Insert, Accepts, Table
      <4> QED BY <4>1 DEF IndexIsUnique
    <3>2. CASE ~Accepts(proc[r].ver, value)
      BY <1>1, <2>4, <3>2 DEF Insert
    <3> QED BY <3>1, <3>2
  <2>5. CASE \/ CheckCache(r) \/ Mark(r) \/ Readback(r)
             \/ ReadSchema(r) \/ ReadRows(r) \/ ExecBlocked(r) \/ Record(r) \/ RunReturns(r)
    BY <1>1, <2>5 DEF CheckCache, Mark, Readback, ReadSchema, ReadRows, ExecBlocked, Record, RunReturns
  <2> QED BY <1>4, <2>1, <2>2, <2>3, <2>4, <2>5 DEF Serve, Migrate
<1>5. ASSUME NEW x \in rows, Delete(x) PROVE IndexIsUnique'
  BY <1>5 DEF Delete, IndexIsUnique
<1>6. CASE \/ \E r \in Runner : Begin(r) \/ StatementFails(r)
           \/ Crash \/ \E v \in Version : Deploy(v)
           \/ ReloadReset \/ Loaded \/ UNCHANGED vars
  BY <1>1, <1>6 DEF Begin, StatementFails, Crash, Deploy, Boot, ReloadReset, Loaded, ReloadSwap, ReloadFails, vars
<1> QED BY <1>4, <1>5, <1>6 DEF Next

LEMMA RequestMoves ==
  ASSUME TypeOK, BootInv, NEW r \in Request, NEW p, proc' = [proc EXCEPT ![r] = p],
         UNCHANGED <<dev, version, listening>>, count'.reload = count.reload,
         count'.fault = 0 => count.fault = 0, IndexIsUnique',
         FirstLife => listening /\ ReadsFit(p) /\ (live.index => live'.index) /\ dropped' = dropped
  PROVE  BootInv'
<1>1. Booter # r /\ r \in Runner /\ Booter \in Runner /\ \A q \in Request : q \in Runner
  BY MigratorAssumption DEF Runner
<1>2. /\ proc'[Booter] = proc[Booter] /\ proc'[r] = p
      /\ \A q \in Request : q # r => proc'[q] = proc[q]
  BY <1>1, Shapes
<1>3. FirstLife' = FirstLife
  BY DEF FirstLife
<1>4. FirstLife => proc[Booter].pc = "idle"
  BY DEF BootInv, BootFirst, At
<1>5. BootFirst'
  BY <1>2, <1>3 DEF BootInv, BootFirst, At
<1>6. IndexLast'
  BY <1>2, <1>3, <1>4 DEF BootInv, IndexLast, IndexPlanned
<1>7. EmptyRecreate'
  BY <1>2, <1>3, <1>4 DEF BootInv, EmptyRecreate, Recreates
<1> QED BY <1>5, <1>6, <1>7 DEF BootInv

LEMMA BooterMoves ==
  ASSUME TypeOK, BootInv, NEW p, proc' = [proc EXCEPT ![Booter] = p], p.pc \in BooterPc,
         UNCHANGED <<dev, version>>, count'.reload = count.reload,
         count'.fault = 0 => count.fault = 0, IndexIsUnique',
         FirstLife => ~At(Booter, "idle"),
         FirstLife /\ listening' => p.pc = "idle" /\ (Unique[version] => live'.index),
         FirstLife /\ Unique[version] => IndexPlanned(p, live'.index),
         FirstLife /\ count'.fault = 0 => dropped' = {} /\ (Recreates(p) => rows' = {})
  PROVE  BootInv'
<1>1. Booter \in Runner /\ \A q \in Request : q \in Runner /\ q # Booter
  BY MigratorAssumption DEF Runner
<1>2. proc'[Booter] = p /\ \A q \in Request : proc'[q] = proc[q]
  BY <1>1, Shapes
<1>3. FirstLife' = FirstLife
  BY DEF FirstLife
<1>4. FirstLife => \A q \in Request : proc[q].pc = "idle"
  BY Shapes DEF BootInv, BootFirst, At
<1>5. BootFirst'
  BY <1>2, <1>3, <1>4 DEF BootInv, BootFirst, At, ReadsFit
<1>6. IndexLast'
  BY <1>2, <1>3 DEF IndexLast
<1>7. EmptyRecreate'
  BY <1>2, <1>3 DEF EmptyRecreate
<1> QED BY <1>5, <1>6, <1>7 DEF BootInv

\* What holds of a request that is not idle in the first life.
LEMMA Served ==
  ASSUME TypeOK, Remembered, BootInv, FirstLife, NEW r \in Request, ~At(r, "idle")
  PROVE  /\ listening /\ Fitting(version) /\ proc[r].ver = version /\ ReadsFit(proc[r])
         /\ live.exists /\ \A c \in Column : Agrees(Field[version][c], live.cols[c])
<1>1. listening /\ ReadsFit(proc[r])
  BY Shapes DEF BootInv, BootFirst
<1>2. r \in Runner /\ count.reload = 0 /\ dev
  BY DEF Runner, FirstLife
<1>3. Fitting(version) /\ proc[r].ver = version
  BY <1>1, <1>2 DEF Remembered, Trusted, At
<1> QED BY <1>1, <1>3 DEF Fitting, Agreed

\* A diff of columns that fit plans nothing but the index.
LEMMA FittingPlan ==
  ASSUME NEW v \in Version, NEW seen, \A c \in Column : Agrees(Field[v][c], seen[c]),
         NEW hasRows \in BOOLEAN
  PROVE  \A i \in Slot : DiffPlan(v, seen, hasRows)[i] \in {"none", "index"}
<1>1. \A c \in Column : StepFor(Field[v][c], seen[c], hasRows) = "none"
  BY DEF Agrees
<1> QED BY <1>1, SlotFacts DEF DiffPlan, IndexStep, LastSlot

LEMMA RequestBoot ==
  ASSUME TypeOK, Shaped, Remembered, BootInv, IndexIsUnique', NEW r \in Request,
         Serve(r) \/ Migrate(r)
  PROVE  BootInv'
<1> USE DEF server, schema, data
<1>0. /\ r \in Runner /\ r # Booter /\ proc[r] \in Proc /\ proc[r].ver \in Version
      /\ proc[r].at \in Slot /\ PlanShape(proc[r].ver, proc[r].plan)
      /\ live \in Table
  BY MigratorAssumption, Shapes, ProcFields DEF Runner, Shaped
<1>1. ~At(r, "idle")
  BY DEF At, Serve, BareCreate, CheckCache, Mark, Insert, Readback, Migrate, ReadSchema, ReadRows,
         ExecCreate, ExecAdd, ExecRecreate, ExecIndex, ExecBlocked, Record, RunReturns, NextStep
<1>2. FirstLife => /\ listening /\ live.exists /\ proc[r].ver = version /\ ReadsFit(proc[r])
                   /\ \A c \in Column : Agrees(Field[version][c], live.cols[c])
  BY <1>1, Served
<1>g. ASSUME NEW step, NEW p, p = [proc[r] EXCEPT !.pc = step] PROVE p.pc = step
  BY <1>0, <1>g DEF Proc
<1>i. ASSUME NEW resp, NEW p, p = Resting(version, resp) PROVE p.pc = "idle"
  BY <1>i DEF Resting
<1>n. ASSUME NEW step, NextStep(r, step), FirstLife
      PROVE  step \in {"none", "index"}
  <2>1. proc[r].plan[NextSlot(r)] = step /\ NextSlot(r) \in Slot /\ proc[r].pc = "exec"
    BY <1>0, <1>n, NextSlotIsFirst DEF NextStep, At
  <2> QED BY <1>2, <1>n, <2>1 DEF ReadsFit
<1>3. CASE BareCreate(r)
  <2>0. PICK p : p = [proc[r] EXCEPT !.pc = "check"]
    OBVIOUS
  <2>1. count'.reload = count.reload /\ count'.fault = count.fault
    BY <1>3, Shapes DEF BareCreate, Counts
  <2>2. FirstLife => live' = live
    BY <1>2, <1>3 DEF BareCreate
  <2>3. proc' = [proc EXCEPT ![r] = p] /\ ReadsFit(p)
    BY <1>3, <1>g, <2>0 DEF BareCreate, Goto, ReadsFit
  <2> QED BY <1>2, <1>3, <2>1, <2>2, <2>3, RequestMoves DEF BareCreate
<1>4. CASE CheckCache(r) \/ Mark(r)
  <2>0. PICK step \in {"insert", "schema"} : Goto(r, step)
    BY <1>4 DEF CheckCache, Mark
  <2>1. PICK p : p = [proc[r] EXCEPT !.pc = step]
    OBVIOUS
  <2>2. proc' = [proc EXCEPT ![r] = p] /\ ReadsFit(p)
    BY <1>g, <2>0, <2>1 DEF Goto, ReadsFit
  <2> QED BY <1>2, <1>4, <2>2, RequestMoves DEF CheckCache, Mark
<1>5. ASSUME NEW value \in Value, Insert(r, value) PROVE BootInv'
  <2>0. live'.index = live.index
    BY <1>0, <1>5 DEF Insert, Table
  <2>1. PICK p : proc' = [proc EXCEPT ![r] = p] /\ ReadsFit(p)
    <3>0. PICK q : q = [proc[r] EXCEPT !.pc = "readback", !.id = live.next]
      OBVIOUS
    <3>1. ReadsFit(q)
      BY <1>0, <3>0 DEF ReadsFit, Proc
    <3>2. ReadsFit(Resting(version, "error"))
      BY <1>i DEF ReadsFit
    <3> QED BY <1>5, <3>0, <3>1, <3>2 DEF Insert, Reply
  <2> QED BY <1>2, <1>5, <2>0, <2>1, RequestMoves DEF Insert
<1>6. CASE \E resp \in Response : Reply(r, resp) /\ UNCHANGED <<server, live, dropped, count>>
  <2>0. PICK resp \in Response : Reply(r, resp)
    BY <1>6
  <2>1. PICK p : p = Resting(version, resp)
    OBVIOUS
  <2>2. proc' = [proc EXCEPT ![r] = p] /\ ReadsFit(p)
    BY <1>i, <2>0, <2>1 DEF Reply, ReadsFit
  <2> QED BY <1>2, <1>6, <2>2, RequestMoves
<1>7. CASE Readback(r)
  BY <1>6, <1>7, Names DEF Readback
<1>8. CASE ReadSchema(r)
  <2>0. PICK p : p = IF live.exists THEN [proc[r] EXCEPT !.pc = "rows", !.seen = live.cols]
                     ELSE [proc[r] EXCEPT !.pc = "exec", !.plan = CreatePlan(proc[r].ver), !.at = 0]
    OBVIOUS
  <2>1. proc' = [proc EXCEPT ![r] = p]
    BY <1>8, <2>0 DEF ReadSchema
  <2>2. FirstLife => ReadsFit(p)
    <3> SUFFICES ASSUME FirstLife PROVE ReadsFit(p)
      OBVIOUS
    <3>1. p.pc = "rows" /\ p.seen = live.cols /\ p.ver = version
      BY <1>0, <1>2, <2>0 DEF Proc
    <3> QED BY <1>2, <3>1 DEF ReadsFit
  <2> QED BY <1>2, <1>8, <2>1, <2>2, RequestMoves DEF ReadSchema
<1>9. CASE ReadRows(r)
  <2>0. PICK hasRows \in BOOLEAN : hasRows = (rows # {})
    OBVIOUS
  <2>1. PICK plan : plan = DiffPlan(proc[r].ver, proc[r].seen, hasRows)
    OBVIOUS
  <2>2. PICK p : p = [proc[r] EXCEPT !.pc = "exec", !.at = 0, !.plan = plan]
    OBVIOUS
  <2>3. proc' = [proc EXCEPT ![r] = p] /\ p.pc = "exec" /\ p.plan = plan
    BY <1>0, <1>9, <2>0, <2>1, <2>2 DEF ReadRows, PlanWith, Proc
  <2>4. FirstLife => ReadsFit(p)
    BY <1>0, <1>2, <1>9, <2>1, <2>3, FittingPlan DEF ReadsFit, ReadRows, At
  <2> QED BY <1>2, <1>9, <2>3, <2>4, RequestMoves DEF ReadRows
<1>10. CASE ExecCreate(r) \/ ExecAdd(r) \/ ExecRecreate(r) \/ ExecBlocked(r)
  <2>1. ~FirstLife
    <3>1. PICK step \in {"create", "add", "recreate", "blocked"} : NextStep(r, step)
      <4>1. ExecCreate(r) => NextStep(r, "create")
        BY DEF ExecCreate
      <4>2. ExecAdd(r) => NextStep(r, "add")
        BY DEF ExecAdd
      <4>3. ExecRecreate(r) => NextStep(r, "recreate")
        BY DEF ExecRecreate
      <4>4. ExecBlocked(r) => NextStep(r, "blocked")
        BY DEF ExecBlocked
      <4> QED BY <1>10, <4>1, <4>2, <4>3, <4>4
    <3> QED BY <1>n, <3>1
  <2>2. \E p : proc' = [proc EXCEPT ![r] = p]
    BY <1>10 DEF ExecCreate, ExecAdd, ExecRecreate, ExecBlocked, Executed, Fail, Reply
  <2>3. UNCHANGED <<server, count>>
    BY <1>10 DEF ExecCreate, ExecAdd, ExecRecreate, ExecBlocked
  <2> QED BY <2>1, <2>2, <2>3, RequestMoves
<1>11. CASE ExecIndex(r)
  <2>1. CASE Fail(r, "error") /\ UNCHANGED schema
    BY <1>6, <1>11, <2>1, Names DEF ExecIndex, Fail
  <2>2. CASE ~(Fail(r, "error") /\ UNCHANGED schema)
    <3>1. PICK change \in BOOLEAN : Executed(r, change)
      BY <1>11, <2>2 DEF ExecIndex
    <3>2. PICK p : p = [proc[r] EXCEPT !.pc = "record", !.at = NextSlot(r), !.changed = change]
      OBVIOUS
    <3>3. /\ proc' = [proc EXCEPT ![r] = p] /\ p.pc = "record" /\ p.plan = proc[r].plan
          /\ proc[r].pc = "exec"
      BY <1>0, <1>11, <3>1, <3>2 DEF Executed, Proc, ExecIndex, NextStep, At
    <3>4. FirstLife => ReadsFit(p)
      BY <1>2, <3>3 DEF ReadsFit
    <3>5. live.index => live'.index
      BY <1>0, <1>11 DEF ExecIndex, Table
    <3> QED BY <1>2, <1>11, <3>3, <3>4, <3>5, RequestMoves DEF ExecIndex
  <2> QED BY <2>1, <2>2
<1>12. CASE Record(r)
  <2>0. PICK plan : plan = [proc[r].plan EXCEPT ![proc[r].at] = "none"]
    OBVIOUS
  <2>1. PICK p : p = [proc[r] EXCEPT !.pc = "exec", !.changed = FALSE, !.plan = plan]
    OBVIOUS
  <2>2. /\ proc' = [proc EXCEPT ![r] = p] /\ p.pc = "exec" /\ p.plan = plan
        /\ proc[r].pc = "record"
    BY <1>0, <1>12, <2>0, <2>1 DEF Record, Proc, At
  <2>3. \A i \in Slot : plan[i] \in {"none", proc[r].plan[i]}
    BY <1>0, <2>0 DEF PlanShape
  <2>4. FirstLife => ReadsFit(p)
    BY <1>2, <2>2, <2>3 DEF ReadsFit
  <2> QED BY <1>2, <1>12, <2>2, <2>4, RequestMoves DEF Record
<1>13. CASE RunReturns(r)
  <2>0. PICK p : p = [proc[r] EXCEPT !.pc = "mark"]
    OBVIOUS
  <2>1. proc' = [proc EXCEPT ![r] = p] /\ ReadsFit(p) /\ listening' = listening
    BY <1>0, <1>13, <1>g, <2>0 DEF RunReturns, Goto, ReadsFit
  <2> QED BY <1>2, <1>13, <2>1, RequestMoves DEF RunReturns
<1> QED BY <1>3, <1>4, <1>5, <1>7, <1>8, <1>9, <1>10, <1>11, <1>12, <1>13 DEF Serve, Migrate

\* The booter's own steps.
LEMMA BooterBoot ==
  ASSUME TypeOK, Shaped, Remembered, BootInv, IndexIsUnique', Migrate(Booter)
  PROVE  BootInv'
<1> USE DEF server, schema, data
<1>0. PICK r : r = Booter
  OBVIOUS
<1>a. /\ r \in Runner /\ r \notin Request /\ proc[r] \in Proc /\ proc[r].ver \in Version
      /\ proc[r].at \in Slot /\ PlanShape(proc[r].ver, proc[r].plan) /\ Migrate(r)
  BY <1>0, MigratorAssumption, Shapes, ProcFields DEF Runner, Shaped
<1>b. ~At(r, "idle")
  BY <1>a DEF At, Migrate, ReadSchema, ReadRows, ExecCreate, ExecAdd, ExecRecreate, ExecIndex,
              ExecBlocked, Record, RunReturns, NextStep
<1>c. FirstLife => /\ ~listening /\ proc[r].ver = version
                   /\ Unique[version] => IndexPlanned(proc[r], live.index)
                   /\ count.fault = 0 => dropped = {} /\ (Recreates(proc[r]) => rows = {})
  <2>1. FirstLife => ~listening
    BY <1>0, <1>b, Shapes DEF BootInv, BootFirst
  <2>2. FirstLife => proc[r].ver = version
    BY <1>a, <1>b DEF FirstLife, Remembered, At
  <2> QED BY <1>0, <2>1, <2>2 DEF BootInv, IndexLast, EmptyRecreate
\* It ends.
<1>1. CASE \E resp \in Response : Reply(r, resp) /\ UNCHANGED <<server, live, dropped, count>>
  <2>0. PICK resp \in Response : Reply(r, resp)
    BY <1>1
  <2>1. PICK p : p = Resting(version, resp)
    OBVIOUS
  <2>2. /\ proc' = [proc EXCEPT ![Booter] = p] /\ p.pc = "idle"
        /\ p.pc \in BooterPc /\ IndexPlanned(p, live'.index) /\ ~Recreates(p)
    BY <1>0, <2>0, <2>1 DEF Reply, Resting, IndexPlanned, Recreates, BooterPc
  <2>3. FirstLife /\ count'.fault = 0 => dropped' = {}
    BY <1>1, <1>c
  <2>4. /\ UNCHANGED <<dev, version>> /\ count' = count
        /\ FirstLife => ~listening' /\ ~At(Booter, "idle")
    BY <1>0, <1>1, <1>b, <1>c
  <2> QED BY <2>2, <2>3, <2>4, BooterMoves
\* It reads.
<1>2. CASE ReadSchema(r)
  <2>0. PICK p : p = IF live.exists THEN [proc[r] EXCEPT !.pc = "rows", !.seen = live.cols]
                     ELSE [proc[r] EXCEPT !.pc = "exec", !.plan = CreatePlan(proc[r].ver), !.at = 0]
    OBVIOUS
  <2>1. proc' = [proc EXCEPT ![Booter] = p]
    BY <1>0, <1>2, <2>0 DEF ReadSchema
  <2>2. /\ p.pc \in {"rows", "exec"}
        /\ p.pc = "exec" => p.plan = CreatePlan(proc[r].ver)
    BY <1>a, <2>0 DEF Proc
  <2>3. FirstLife /\ Unique[version] => IndexPlanned(p, live'.index)
    BY <1>c, <2>2, SlotFacts DEF IndexPlanned, CreatePlan, IndexStep, LastSlot
  <2>4. ~Recreates(p)
    BY <2>2, SlotFacts DEF Recreates, CreatePlan, IndexStep
  <2>5. FirstLife /\ count'.fault = 0 => dropped' = {}
    BY <1>2, <1>c DEF ReadSchema
  <2> QED BY <1>0, <1>2, <1>b, <1>c, <2>1, <2>2, <2>3, <2>4, <2>5, BooterMoves DEF ReadSchema, BooterPc
<1>3. CASE ReadRows(r)
  <2>0. PICK hasRows \in BOOLEAN : hasRows = (rows # {})
    OBVIOUS
  <2>1. PICK plan : plan = DiffPlan(proc[r].ver, proc[r].seen, hasRows)
    OBVIOUS
  <2>2. PICK p : p = [proc[r] EXCEPT !.pc = "exec", !.at = 0, !.plan = plan]
    OBVIOUS
  <2>3. proc' = [proc EXCEPT ![Booter] = p] /\ p.pc = "exec" /\ p.plan = plan
    BY <1>0, <1>a, <1>3, <2>0, <2>1, <2>2 DEF ReadRows, PlanWith, Proc
  <2>4. FirstLife /\ Unique[version] => IndexPlanned(p, live'.index)
    BY <1>c, <2>1, <2>3, SlotFacts DEF IndexPlanned, DiffPlan, IndexStep, LastSlot
  <2>5. Recreates(p) => rows = {}
    <3>1. \A i \in Slot : plan[i] = "recreate" => StepFor(Field[proc[r].ver][i], proc[r].seen[i], hasRows) = "recreate"
      BY <2>1 DEF DiffPlan, IndexStep
    <3>2. \A f, l : StepFor(f, l, hasRows) = "recreate" => ~hasRows
      BY DEF StepFor
    <3> QED BY <2>0, <2>3, <3>1, <3>2 DEF Recreates
  <2>6. FirstLife /\ count'.fault = 0 => dropped' = {}
    BY <1>3, <1>c DEF ReadRows
  <2> QED BY <1>0, <1>3, <1>b, <1>c, <2>3, <2>4, <2>5, <2>6, BooterMoves DEF ReadRows, BooterPc
\* It executes a step.
<1>4. ASSUME NEW step \in {"create", "add", "recreate", "index"}, NextStep(r, step),
             NEW change \in BOOLEAN, Executed(r, change), UNCHANGED <<server, count>>,
             step = "index" => live'.index,
             IF step = "recreate" THEN rows' = {} /\ dropped' = dropped \cup rows
                                  ELSE UNCHANGED <<rows, dropped>>
      PROVE  BootInv'
  <2>0. PICK p : p = [proc[r] EXCEPT !.pc = "record", !.at = NextSlot(r), !.changed = change]
    OBVIOUS
  <2>1. /\ proc' = [proc EXCEPT ![Booter] = p] /\ p.pc = "record" /\ p.plan = proc[r].plan
        /\ p.at = NextSlot(r)
    BY <1>0, <1>a, <1>4, <2>0 DEF Executed, Proc
  <2>2. /\ NextSlot(r) \in Slot /\ NextSlot(r) >= proc[r].at /\ proc[r].plan[NextSlot(r)] = step
        /\ proc[r].pc = "exec" /\ (NextSlot(r) = LastSlot <=> step = "index")
    <3>1. /\ NextSlot(r) \in Slot /\ NextSlot(r) >= proc[r].at /\ proc[r].plan[NextSlot(r)] = step
          /\ proc[r].pc = "exec"
      BY <1>a, <1>4, NextSlotIsFirst DEF NextStep, At
    <3> QED BY <1>a, <3>1, SlotFacts DEF PlanShape
  <2>3. FirstLife /\ Unique[version] => IndexPlanned(p, live'.index)
    <3> SUFFICES ASSUME FirstLife, Unique[version] PROVE IndexPlanned(p, live'.index)
      OBVIOUS
    <3>1. proc[r].plan[LastSlot] = "index" \/ proc[r].at = LastSlot
      BY <1>c, <2>2 DEF IndexPlanned
    <3>2. proc[r].at = LastSlot => NextSlot(r) = LastSlot
      BY <1>a, <2>2, SlotFacts
    <3> QED BY <1>4, <2>1, <2>2, <3>1, <3>2 DEF IndexPlanned
  <2>4. FirstLife /\ count'.fault = 0 => dropped' = {} /\ (Recreates(p) => rows' = {})
    <3>1. Recreates(p) => Recreates(proc[r])
      BY <2>1, <2>2 DEF Recreates
    <3>2. step = "recreate" => Recreates(proc[r])
      BY <2>2 DEF Recreates
    <3> QED BY <1>4, <1>c, <3>1, <3>2
  <2> QED BY <1>0, <1>4, <1>b, <1>c, <2>1, <2>3, <2>4, BooterMoves DEF BooterPc
<1>5. CASE ExecCreate(r)
  <2>1. CASE ~live.exists
    BY <1>4, <1>5, <2>1 DEF ExecCreate
  <2>2. CASE live.exists
    BY <1>1, <1>5, <2>2, Names DEF ExecCreate, Fail
  <2> QED BY <2>1, <2>2
<1>6. CASE ExecAdd(r)
  <2>1. CASE Fail(r, "error") /\ UNCHANGED schema
    BY <1>1, <1>6, <2>1, Names DEF ExecAdd, Fail
  <2>2. CASE ~(Fail(r, "error") /\ UNCHANGED schema)
    <3>1. NextStep(r, "add") /\ Executed(r, TRUE) /\ UNCHANGED <<server, count, rows, dropped>>
      BY <1>6, <2>2 DEF ExecAdd
    <3> QED BY <1>4, <3>1
  <2> QED BY <2>1, <2>2
<1>7. CASE ExecRecreate(r)
  <2>1. NextStep(r, "recreate") /\ Executed(r, TRUE) /\ UNCHANGED <<server, count>> /\ rows' = {} /\ dropped' = dropped \cup rows
    BY <1>7 DEF ExecRecreate
  <2> QED BY <1>4, <2>1
<1>8. CASE ExecIndex(r)
  <2>1. CASE Fail(r, "error") /\ UNCHANGED schema
    BY <1>1, <1>8, <2>1, Names DEF ExecIndex, Fail
  <2>2. CASE ~(Fail(r, "error") /\ UNCHANGED schema)
    <3>1. /\ NextStep(r, "index") /\ \E change \in BOOLEAN : Executed(r, change)
          /\ UNCHANGED <<server, count, rows, dropped>> /\ live'.index
      BY <1>8, <2>2, Shapes DEF ExecIndex, Table
    <3> QED BY <1>4, <3>1
  <2> QED BY <2>1, <2>2
<1>9. CASE ExecBlocked(r)
  BY <1>1, <1>9, Names DEF ExecBlocked, Fail
<1>10. CASE Record(r)
  <2>0. PICK plan : plan = [proc[r].plan EXCEPT ![proc[r].at] = "none"]
    OBVIOUS
  <2>1. PICK p : p = [proc[r] EXCEPT !.pc = "exec", !.changed = FALSE, !.plan = plan]
    OBVIOUS
  <2>2. /\ proc' = [proc EXCEPT ![Booter] = p] /\ p.pc = "exec" /\ p.plan = plan /\ p.at = proc[r].at
        /\ proc[r].pc = "record"
    BY <1>0, <1>a, <1>10, <2>0, <2>1 DEF Record, Proc, At
  <2>3. \A i \in Slot : plan[i] = IF i = proc[r].at THEN "none" ELSE proc[r].plan[i]
    BY <1>a, <2>0 DEF PlanShape
  <2>4. FirstLife /\ Unique[version] => IndexPlanned(p, live'.index)
    BY <1>10, <1>c, <2>2, <2>3, SlotFacts DEF IndexPlanned, Record
  <2>5. FirstLife /\ count'.fault = 0 => dropped' = {} /\ (Recreates(p) => rows' = {})
    BY <1>10, <1>c, <2>2, <2>3 DEF Recreates, Record
  <2> QED BY <1>0, <1>10, <1>b, <1>c, <2>2, <2>4, <2>5, BooterMoves DEF Record, BooterPc
<1>11. CASE RunReturns(r)
  <2>0. PICK p : p = Resting(version, "ok")
    OBVIOUS
  <2>1. /\ proc' = [proc EXCEPT ![Booter] = p] /\ p.pc = "idle" /\ proc[r].pc = "exec"
        /\ p.pc \in BooterPc /\ IndexPlanned(p, live'.index) /\ ~Recreates(p)
        /\ UNCHANGED <<dev, version, live, dropped, count>>
    BY <1>0, <1>a, <1>11, <2>0 DEF RunReturns, Reply, Resting, IndexPlanned, Recreates, BooterPc, At
  <2>2. FirstLife /\ Unique[version] => live.index
    <3>1. proc[r].plan[LastSlot] # "index"
      BY <1>11, <1>a, SlotFacts DEF RunReturns, Pending
    <3> QED BY <1>c, <2>1, <3>1 DEF IndexPlanned
  <2> QED BY <1>0, <1>b, <1>c, <2>1, <2>2, BooterMoves
<1> QED BY <1>a, <1>2, <1>3, <1>5, <1>6, <1>7, <1>8, <1>9, <1>10, <1>11 DEF Migrate

LEMMA FailureBoot ==
  ASSUME TypeOK, Shaped, Remembered, BootInv, IndexIsUnique', NEW r \in Runner, StatementFails(r)
  PROVE  BootInv'
<1> USE DEF server, schema, data
<1>0. /\ proc[r] \in Proc /\ proc[r].ver \in Version
  BY Shapes, ProcFields
<1>1. count'.reload = count.reload /\ count'.fault # 0 /\ UNCHANGED <<server, live, dropped>>
  <2>1. count.fault \in Nat /\ count'.fault = count.fault + 1
    BY Shapes DEF StatementFails, Counts
  <2> QED BY <2>1, Shapes DEF StatementFails, Counts
<1>2. PICK p : /\ proc' = [proc EXCEPT ![r] = p]
               /\ \/ p.pc \in {"check", "idle"}
                  \/ /\ At(r, "rows") /\ p.pc = "exec"
                     /\ p.plan = DiffPlan(proc[r].ver, proc[r].seen, FALSE)
               /\ p.pc = "check" => At(r, "lookup")
  <2>1. CASE At(r, "lookup") /\ Goto(r, "check")
    <3>1. PICK p : p = [proc[r] EXCEPT !.pc = "check"]
      OBVIOUS
    <3> QED BY <1>0, <2>1, <3>1 DEF Goto, Proc
  <2>2. CASE At(r, "rows") /\ PlanWith(r, FALSE)
    <3>0. PICK plan : plan = DiffPlan(proc[r].ver, proc[r].seen, FALSE)
      OBVIOUS
    <3>1. PICK p : p = [proc[r] EXCEPT !.pc = "exec", !.at = 0, !.plan = plan]
      OBVIOUS
    <3>2. proc' = [proc EXCEPT ![r] = p] /\ p.pc = "exec" /\ p.plan = plan
      BY <1>0, <2>2, <3>0, <3>1 DEF PlanWith, Proc
    <3> QED BY <2>2, <3>0, <3>2
  <2>3. CASE Reply(r, "error")
    <3>1. PICK p : p = Resting(version, "error")
      OBVIOUS
    <3>2. proc' = [proc EXCEPT ![r] = p] /\ p.pc = "idle"
      BY <2>3, <3>1 DEF Reply, Resting
    <3> QED BY <3>2
  <2> QED BY <2>1, <2>2, <2>3 DEF StatementFails, Fail
<1>b. ~At(r, "idle")
  BY DEF StatementFails, At
<1>3. CASE r \in Request
  <2>1. FirstLife => listening /\ ReadsFit(proc[r]) /\ proc[r].ver = version
    BY <1>3, <1>b, Served
  <2>2. FirstLife => ReadsFit(p)
    BY <1>0, <1>2, <2>1, FittingPlan DEF ReadsFit, At
  <2> QED BY <1>1, <1>2, <1>3, <2>1, <2>2, RequestMoves
<1>4. CASE r = Booter
  <2>1. p.pc \in BooterPc
    BY <1>2, <1>4 DEF BootInv, BootFirst, BooterPc, At
  <2>2. FirstLife => ~listening /\ proc[r].ver = version
    BY <1>4, <1>b, Shapes DEF BootInv, BootFirst, FirstLife, Remembered, At
  <2>3. FirstLife /\ Unique[version] => IndexPlanned(p, live'.index)
    BY <1>2, <2>2, SlotFacts DEF IndexPlanned, DiffPlan, IndexStep, LastSlot
  <2> QED BY <1>1, <1>2, <1>4, <1>b, <2>1, <2>2, <2>3, BooterMoves
<1> QED BY <1>3, <1>4 DEF Runner

LEMMA BootStep == TypeOK /\ Shaped /\ Remembered /\ BootInv /\ [Next]_vars => BootInv'
<1> SUFFICES ASSUME TypeOK, Shaped, Remembered, BootInv, [Next]_vars PROVE BootInv'
  OBVIOUS
<1> USE DEF server, schema, data
<1>0. IndexIsUnique'
  BY UniqueKept DEF BootInv
<1>b. /\ Booter \in Runner /\ Booter \notin Request /\ proc[Booter].pc \in BooterPc
      /\ \A q \in Request : q \in Runner
  BY MigratorAssumption DEF Runner, BootInv, BootFirst
<1>1. ASSUME NEW r \in Request, Begin(r) PROVE BootInv'
  <2>1. PICK step \in {"check", "lookup"} : proc' = [proc EXCEPT ![r] = Starting(version, step)]
    BY <1>1 DEF Begin
  <2>2. PICK p : p = Starting(version, step)
    OBVIOUS
  <2>3. p.pc = step
    BY <2>2, Shapes, Restings, Names
  <2>4. proc' = [proc EXCEPT ![r] = p] /\ ReadsFit(p)
    BY <2>1, <2>2, <2>3 DEF ReadsFit
  <2> QED BY <1>0, <1>1, <2>4, RequestMoves DEF Begin
<1>2. ASSUME NEW r \in Request, Serve(r) \/ Migrate(r) PROVE BootInv'
  BY <1>0, <1>2, RequestBoot
<1>3. CASE Migrate(Booter)
  BY <1>0, <1>3, BooterBoot
<1>4. ASSUME NEW r \in Runner, StatementFails(r) PROVE BootInv'
  BY <1>0, <1>4, FailureBoot
<1>5. ~Begin(Booter) /\ ~Serve(Booter)
  BY <1>b DEF Begin, Serve, BareCreate, CheckCache, Mark, Insert, Readback, At, BooterPc
<1>6. ASSUME NEW x \in rows, Delete(x) PROVE BootInv'
  <2>1. UNCHANGED <<dev, version, listening, live, proc, count, dropped>> /\ rows' \subseteq rows
    BY <1>6 DEF Delete
  <2> QED BY <1>0, <2>1 DEF BootInv, BootFirst, IndexLast, EmptyRecreate, FirstLife, At
<1>7. ASSUME NEW v \in Version, NEW cause \in {"crash", "deploy"}, Boot(v, cause) PROVE BootInv'
  <2>1. \A q \in Runner : proc'[q] = IF dev /\ q = Booter THEN Starting(v, "schema") ELSE Resting(v, "none")
    BY <1>7 DEF Boot, Booted
  <2>2. Starting(v, "schema").pc = "schema" /\ Resting(v, "none").pc = "idle"
    BY Restings, Names
  <2>3. /\ dev' = dev /\ listening' = ~dev /\ dropped' = dropped
        /\ count'.reload = count.reload /\ count'.fault = count.fault
    BY <1>7, Shapes DEF Boot, Counts
  <2>4. BootFirst'
    BY <1>b, <2>1, <2>2, <2>3 DEF BootFirst, FirstLife, BooterPc, ReadsFit, At
  <2>5. IndexLast'
    BY <1>b, <2>1, <2>2, <2>3 DEF IndexLast, FirstLife, IndexPlanned
  <2>6. EmptyRecreate'
    BY <1>b, <2>1, <2>2, <2>3 DEF BootInv, EmptyRecreate, FirstLife, Recreates
  <2> QED BY <1>0, <2>4, <2>5, <2>6 DEF BootInv
<1>8. CASE ReloadReset
  <2>1. ~FirstLife'
    <3>1. count.reload \in Nat /\ count'.reload = count.reload + 1
      BY <1>8, Shapes DEF ReloadReset, Counts
    <3> QED BY <3>1 DEF FirstLife
  <2>2. proc'[Booter].pc = "load"
    BY <1>8, <1>b, Shapes DEF ReloadReset, Goto, Proc
  <2> QED BY <1>0, <2>1, <2>2 DEF BootInv, BootFirst, IndexLast, EmptyRecreate, BooterPc
<1>9. CASE Loaded
  <2>1. ~FirstLife /\ count' = count /\ dev' = dev
    <3>1. proc[Booter].pc = "load" /\ count' = count /\ dev' = dev
      BY <1>9 DEF Loaded, ReloadSwap, ReloadFails, At
    <3> QED BY <1>b, <3>1 DEF FirstLife, Remembered
  <2>2. proc'[Booter].pc \in BooterPc
    <3>1. \A v \in Version : ReloadSwap(v) => proc'[Booter].pc = "schema"
      BY <1>b, Shapes, Restings, Names DEF ReloadSwap
    <3>2. ReloadFails => proc'[Booter].pc = "idle"
      BY <1>b, Shapes DEF ReloadFails, Reply, Resting
    <3> QED BY <1>9, <3>1, <3>2 DEF Loaded, BooterPc
  <2> QED BY <1>0, <2>1, <2>2 DEF BootInv, BootFirst, IndexLast, EmptyRecreate, FirstLife
<1>10. CASE UNCHANGED vars
  BY <1>0, <1>10 DEF vars, BootInv, BootFirst, IndexLast, EmptyRecreate, FirstLife, At
<1>11. ASSUME NEW r \in Runner, Begin(r) \/ Serve(r) \/ Migrate(r) \/ StatementFails(r) PROVE BootInv'
  BY <1>1, <1>2, <1>3, <1>4, <1>5, <1>11 DEF Runner
<1> QED BY <1>6, <1>7, <1>8, <1>9, <1>10, <1>11, Shapes DEF Next, Crash, Deploy

LEMMA BootInvariance == Spec => [](TypeOK /\ Remembered /\ BootInv)
<1>1. Init => BootInv
  <2> SUFFICES ASSUME Init PROVE BootInv
    OBVIOUS
  <2>1. \A q \in Runner : proc[q] = IF dev /\ q = Booter THEN Starting(version, "schema") ELSE Resting(version, "none")
    BY DEF Init, Booted
  <2>2. Starting(version, "schema").pc = "schema" /\ Resting(version, "none").pc = "idle"
    BY Restings, Names DEF Init
  <2>3. Booter \in Runner /\ \A q \in Request : q \in Runner /\ q # Booter
    BY MigratorAssumption DEF Runner
  <2>4. IndexIsUnique
    BY DEF Init, IndexIsUnique, NoTable
  <2>5. BootFirst
    BY <2>1, <2>2, <2>3 DEF Init, BootFirst, FirstLife, BooterPc, ReadsFit, At
  <2>6. IndexLast
    BY <2>1, <2>2, <2>3 DEF Init, IndexLast, FirstLife, IndexPlanned
  <2>7. EmptyRecreate
    BY <2>1, <2>2, <2>3 DEF Init, EmptyRecreate, FirstLife, Recreates
  <2> QED BY <2>4, <2>5, <2>6, <2>7 DEF BootInv
<1>2. Init => TypeOK /\ Shaped /\ Remembered
  BY TypeInit, RememberedInit
<1>3. TypeOK /\ Shaped /\ Remembered /\ BootInv /\ [Next]_vars => (TypeOK /\ Shaped /\ Remembered /\ BootInv)'
  BY TypeStep, RememberedStep, BootStep
<1> QED BY <1>1, <1>2, <1>3, PTL DEF Spec

\* In mar dev, as long as no statement fails and nothing is hot-reloaded, no row is ever
\* dropped with its table, whatever the versions declare and however often the process
\* restarts with another (planEntity, recreateTable).
THEOREM BootDropsNoRowHolds == Spec => []BootDropsNoRow
<1>1. BootInv => BootDropsNoRow
  BY DEF BootInv, EmptyRecreate, FirstLife, BootDropsNoRow, NoRowDropped
<1> QED BY <1>1, BootInvariance, PTL

\* In mar dev every INSERT into a table whose entity is unique meets the index, also when
\* statements of earlier migrations failed (planUniqueIndexes).
THEOREM IndexBeforeInsertHolds == Spec => []IndexBeforeInsert
<1>1. TypeOK /\ Remembered /\ BootInv => IndexBeforeInsert
  <2> SUFFICES ASSUME TypeOK, Remembered, BootInv, FirstLife, NEW r \in Request, At(r, "insert"),
                      Unique[proc[r].ver]
               PROVE  live.index /\ \A x, y \in rows : x.value = y.value => x = y
    BY DEF IndexBeforeInsert, FirstLife
  <2>1. listening /\ proc[r].ver = version
    BY Served DEF At
  <2> QED BY <2>1 DEF BootInv, IndexLast, IndexIsUnique
<1> QED BY <1>1, BootInvariance, PTL
-----------------------------------------------------------------------------
(* Hot reloads of versions that differ in the columns they declare only *)

\* A column that two versions declare is the same in both.
Compatible ==
  \A v, w \in Version, c \in Column :
    Field[v][c] # None /\ Field[w][c] # None => Fresh(Field[v][c]) = Fresh(Field[w][c])

\* A column is missing or what every version that declares it would make of it.
Common(cols) ==
  \A v \in Version, c \in Column : Field[v][c] # None => cols[c] \in {None, Fresh(Field[v][c])}

\* A process that migrates adds to a table or makes it; exists tells whether there is one.
Adding(p, exists) ==
  /\ p.pc = "rows" => exists /\ Common(p.seen)
  /\ \A i \in Slot : p.plan[i] # "recreate" /\ (p.plan[i] = "add" => exists)

EveryoneAdds == \A r \in Runner : Adding(proc[r], live.exists)

Growing ==
  /\ Common(live.cols)
  /\ ~live.exists => \A c \in Column : live.cols[c] = None
  /\ EveryoneAdds

Reloaded ==
  /\ proc[Booter].pc \in BooterPc
  /\ proc[Booter].pc \notin {"idle", "load"} => proc[Booter].ver = version
  /\ Sure(proc[Booter])
  /\ At(Booter, "idle") /\ proc[Booter].resp = "ok" => Fitting(version)

ReloadInv == Growing /\ Reloaded

\* A diff against such a table recreates nothing.
LEMMA CommonPlan ==
  ASSUME NEW v \in Version, NEW seen, Common(seen), NEW hasRows
  PROVE  \A i \in Slot : DiffPlan(v, seen, hasRows)[i] # "recreate"
<1>1. ASSUME NEW c \in Column
      PROVE  StepFor(Field[v][c], seen[c], hasRows) # "recreate"
  <2>1. CASE Field[v][c] = None
    BY <2>1 DEF StepFor
  <2>2. CASE Field[v][c] # None
    <3>1. seen[c] \in {None, Fresh(Field[v][c])} /\ Field[v][c] \in Declared
      BY <2>2, MigratorAssumption DEF Common
    <3> QED BY <2>2, <3>1 DEF StepFor, Fresh, Declared
  <2> QED BY <2>1, <2>2
<1> QED BY <1>1, SlotFacts DEF DiffPlan, IndexStep, LastSlot

LEMMA CommonColumns ==
  ASSUME Compatible, NEW v \in Version
  PROVE  Common(Columns(v))
  BY DEF Compatible, Common, Columns

\* A column that is made where there was none disagrees with no version.
LEMMA NewColumn ==
  ASSUME NEW v \in Version, NEW c \in Column, Agrees(Field[v][c], None), NEW l
  PROVE  Agrees(Field[v][c], l)
<1>1. Field[v][c] = None
  BY MigratorAssumption DEF Agrees, StepFor, Declared
<1> QED BY <1>1 DEF Agrees, StepFor

\* What the steps that make a table, add to it, or only index or fill it do to its columns.
LEMMA MadeGrows ==
  ASSUME Growing, Compatible, NEW w \in Version, ~live.exists,
         live' = [NoTable EXCEPT !.exists = TRUE, !.cols = Columns(w)]
  PROVE  /\ Common(live'.cols) /\ live'.exists
         /\ \A v \in Version : Grows(v)
<1>1. live'.exists /\ live'.cols = Columns(w)
  BY NoTableType
<1>2. \A v \in Version, c \in Column : Agreed(v, c) => Agreed(v, c)'
  BY NewColumn DEF Growing, Agreed
<1> QED BY <1>1, <1>2, CommonColumns DEF Grows

LEMMA AddedGrows ==
  ASSUME TypeOK, Shaped, Growing, Compatible, NEW r \in Runner, ExecAdd(r)
  PROVE  /\ Common(live'.cols) /\ (~live'.exists => \A c \in Column : live'.cols[c] = None)
         /\ \A v \in Version : Grows(v)
<1>1. CASE live' = live
  BY <1>1, Unmoved DEF Growing
<1>2. CASE live' # live
  <2>0. PICK s : s = NextSlot(r)
    OBVIOUS
  <2>a. PICK w \in Version : w = proc[r].ver
    BY Shapes, ProcFields
  <2>1. At(r, "exec") /\ Pending(r) # {} /\ proc[r].plan[s] = "add"
    BY <2>0 DEF ExecAdd, NextStep
  <2>2. s \in Slot /\ s \in Column /\ Field[w][s] \in Declared
    <3>1. s \in Slot
      BY <2>0, <2>1, NextSlotIsFirst
    <3>2. PlanShape(w, proc[r].plan)
      BY <2>a DEF Shaped
    <3> QED BY <2>1, <3>1, <3>2, MigratorAssumption DEF PlanShape, Column
  <2>3. live.exists
    BY <2>1, <2>2 DEF Growing, EveryoneAdds, Adding
  <2>4. live.cols[s] = None /\ live' = [live EXCEPT !.cols = [@ EXCEPT ![s] = Fresh(Field[w][s])]]
    BY <1>2, <2>0, <2>a DEF ExecAdd, schema
  <2>5. /\ live'.exists /\ live'.cols[s] = Fresh(Field[w][s])
        /\ \A c \in Column : c # s => live'.cols[c] = live.cols[c]
    BY <2>2, <2>3, <2>4, Shapes DEF Table
  <2>6. ASSUME NEW v \in Version, NEW c \in Column, Field[v][c] # None
        PROVE  live'.cols[c] \in {None, Fresh(Field[v][c])}
    <3>1. CASE c = s
      <4>1. Field[w][s] # None
        BY <2>2, MigratorAssumption
      <4> QED BY <2>5, <2>6, <3>1, <4>1 DEF Compatible
    <3>2. CASE c # s
      BY <2>5, <2>6, <3>2 DEF Growing, Common
    <3> QED BY <3>1, <3>2
  <2>7. ASSUME NEW v \in Version, NEW c \in Column, Agreed(v, c)
        PROVE  Agreed(v, c)'
    BY <2>4, <2>5, <2>7, NewColumn DEF Agreed
  <2> QED BY <2>3, <2>5, <2>6, <2>7 DEF Common, Grows
<1> QED BY <1>1, <1>2

LEMMA TableGrows ==
  ASSUME TypeOK, Shaped, Growing, Compatible, [Next]_vars
  PROVE  /\ Common(live'.cols) /\ (~live'.exists => \A c \in Column : live'.cols[c] = None)
         /\ \A v \in Version : Grows(v)
<1> USE DEF schema, data
<1>1. CASE live'.cols = live.cols /\ live'.exists = live.exists
  BY <1>1 DEF Growing, Grows, Agreed
<1>2. ASSUME NEW r \in Runner, BareCreate(r) \/ ExecCreate(r), live' # live
      PROVE  /\ Common(live'.cols) /\ (~live'.exists => \A c \in Column : live'.cols[c] = None)
             /\ \A v \in Version : Grows(v)
  <2>1. PICK w \in Version : w = proc[r].ver
    BY Shapes, ProcFields
  <2>2. ~live.exists /\ live' = [NoTable EXCEPT !.exists = TRUE, !.cols = Columns(w)]
    BY <1>2, <2>1 DEF BareCreate, ExecCreate
  <2> QED BY <2>2, MadeGrows
<1>3. ASSUME NEW r \in Runner PROVE ~ExecRecreate(r)
  <2>1. SUFFICES ASSUME ExecRecreate(r) PROVE FALSE
    OBVIOUS
  <2>2. At(r, "exec") /\ Pending(r) # {} /\ proc[r].plan[NextSlot(r)] = "recreate"
    BY <2>1 DEF ExecRecreate, NextStep
  <2>3. NextSlot(r) \in Slot
    BY <2>2, NextSlotIsFirst
  <2> QED BY <2>2, <2>3 DEF Growing, EveryoneAdds, Adding
<1>4. ASSUME NEW r \in Runner, Serve(r) \/ Migrate(r)
      PROVE  /\ Common(live'.cols) /\ (~live'.exists => \A c \in Column : live'.cols[c] = None)
             /\ \A v \in Version : Grows(v)
  <2>1. CASE BareCreate(r) \/ ExecCreate(r)
    BY <1>1, <1>2, <2>1
  <2>2. CASE ExecAdd(r)
    BY <2>2, AddedGrows
  <2>3. CASE ExecIndex(r)
    <3>1. live'.cols = live.cols /\ live'.exists = live.exists
      BY <2>3, Shapes DEF ExecIndex, Table
    <3> QED BY <1>1, <3>1
  <2>4. ASSUME NEW value \in Value, Insert(r, value)
        PROVE  live'.cols = live.cols /\ live'.exists = live.exists
    BY <2>4, Shapes DEF Insert, Table
  <2>5. CASE \/ CheckCache(r) \/ Mark(r) \/ Readback(r)
             \/ ReadSchema(r) \/ ReadRows(r) \/ ExecBlocked(r) \/ Record(r) \/ RunReturns(r)
    BY <1>1, <2>5 DEF CheckCache, Mark, Readback, ReadSchema, ReadRows, ExecBlocked, Record, RunReturns
  <2> QED BY <1>1, <1>3, <1>4, <2>1, <2>2, <2>3, <2>4, <2>5 DEF Serve, Migrate
<1>5. CASE \/ \E r \in Runner : Begin(r) \/ StatementFails(r)
           \/ \E x \in rows : Delete(x)
           \/ Crash \/ \E v \in Version : Deploy(v)
           \/ ReloadReset \/ Loaded \/ UNCHANGED vars
  BY <1>1, <1>5 DEF Begin, StatementFails, Delete, Crash, Deploy, Boot, ReloadReset, Loaded, ReloadSwap,
     ReloadFails, vars
<1> QED BY <1>4, <1>5 DEF Next

LEMMA RestAdds ==
  ASSUME TypeOK, NEW v \in Version, NEW resp \in Response, NEW step \in Pc \ {"rows"}, NEW exists
  PROVE  Adding(Resting(v, resp), exists) /\ Adding(Starting(v, step), exists)
<1>1. NoPlan = [i \in Slot |-> "none"]
  BY DEF NoPlan
<1>2. Resting(v, resp).pc = "idle" /\ Resting(v, resp).plan = NoPlan
  BY DEF Resting
<1>3. Starting(v, step).pc = step /\ Starting(v, step).plan = NoPlan
  BY DEF Resting, Starting
<1> QED BY <1>1, <1>2, <1>3 DEF Adding

\* A process that keeps its plan, or has less of it left.
LEMMA SameAdds ==
  ASSUME Growing, NEW r \in Runner, NEW p, p.pc # "rows", live.exists => live'.exists,
         \A i \in Slot : p.plan[i] \in {"none", proc[r].plan[i]}
  PROVE  Adding(p, live'.exists)
  BY DEF Growing, EveryoneAdds, Adding

\* One process moves on.
LEMMA OneAdds ==
  ASSUME TypeOK, Growing, NEW r \in Runner, NEW p, proc' = [proc EXCEPT ![r] = p],
         Adding(p, live'.exists), live.exists => live'.exists
  PROVE  EveryoneAdds'
<1>1. ASSUME NEW q \in Runner, q # r
      PROVE  Adding(proc'[q], live'.exists)
  <2>1. proc'[q] = proc[q]
    BY <1>1, Shapes
  <2> QED BY <2>1 DEF Growing, EveryoneAdds, Adding
<1> QED BY <1>1, Shapes DEF EveryoneAdds, Adding

LEMMA GotoAdds ==
  ASSUME TypeOK, Growing, NEW r \in Runner, NEW step, step # "rows", Goto(r, step),
         live.exists => live'.exists
  PROVE  EveryoneAdds'
<1>1. PICK p : p = [proc[r] EXCEPT !.pc = step]
  OBVIOUS
<1>2. p.pc = step /\ p.plan = proc[r].plan /\ proc' = [proc EXCEPT ![r] = p]
  BY <1>1, Shapes DEF Goto, Proc
<1>3. Adding(p, live'.exists)
  BY <1>2, SameAdds
<1> QED BY <1>2, <1>3, OneAdds

LEMMA ReplyAdds ==
  ASSUME TypeOK, Growing, NEW r \in Runner, NEW resp \in Response, Reply(r, resp),
         live.exists => live'.exists
  PROVE  EveryoneAdds'
<1>1. PICK p : p = Resting(version, resp)
  OBVIOUS
<1>2. proc' = [proc EXCEPT ![r] = p]
  BY <1>1 DEF Reply
<1>3. Adding(p, live'.exists)
  BY <1>1, RestAdds, Shapes, Names
<1> QED BY <1>2, <1>3, OneAdds

LEMMA PlanAdds ==
  ASSUME TypeOK, Growing, NEW r \in Runner, At(r, "rows"), NEW hasRows, PlanWith(r, hasRows),
         live.exists => live'.exists
  PROVE  EveryoneAdds'
<1>0. PICK v \in Version : v = proc[r].ver
  BY Shapes, ProcFields
<1>1. PICK plan : plan = DiffPlan(v, proc[r].seen, hasRows)
  OBVIOUS
<1>2. PICK p : p = [proc[r] EXCEPT !.pc = "exec", !.at = 0, !.plan = plan]
  OBVIOUS
<1>3. p.pc = "exec" /\ p.plan = plan /\ proc' = [proc EXCEPT ![r] = p]
  BY <1>0, <1>1, <1>2, Shapes DEF PlanWith, Proc
<1>4. live.exists /\ Common(proc[r].seen)
  BY DEF Growing, EveryoneAdds, Adding, At
<1>5. \A i \in Slot : plan[i] # "recreate"
  BY <1>1, <1>4, CommonPlan
<1>6. Adding(p, live'.exists)
  BY <1>3, <1>4, <1>5 DEF Adding
<1> QED BY <1>3, <1>6, OneAdds

LEMMA ExecutedAdds ==
  ASSUME TypeOK, Growing, NEW r \in Runner, NEW change, Executed(r, change), live.exists => live'.exists
  PROVE  EveryoneAdds'
<1>1. PICK p : p = [proc[r] EXCEPT !.pc = "record", !.at = NextSlot(r), !.changed = change]
  OBVIOUS
<1>2. p.pc = "record" /\ p.plan = proc[r].plan /\ proc' = [proc EXCEPT ![r] = p]
  BY <1>1, Shapes DEF Executed, Proc
<1>3. Adding(p, live'.exists)
  BY <1>2, SameAdds
<1> QED BY <1>2, <1>3, OneAdds

LEMMA MigrateAdds ==
  ASSUME TypeOK, Shaped, Growing, NEW r \in Runner, Migrate(r), live.exists => live'.exists
  PROVE  EveryoneAdds'
<1>a. proc[r] \in Proc /\ proc[r].ver \in Version /\ PlanShape(proc[r].ver, proc[r].plan)
  BY Shapes, ProcFields DEF Shaped
<1>1. CASE ReadSchema(r)
  <2>0. PICK p : p = IF live.exists THEN [proc[r] EXCEPT !.pc = "rows", !.seen = live.cols]
                     ELSE [proc[r] EXCEPT !.pc = "exec", !.plan = CreatePlan(proc[r].ver), !.at = 0]
    OBVIOUS
  <2>1. proc' = [proc EXCEPT ![r] = p]
    BY <1>1, <2>0 DEF ReadSchema
  <2>2. CASE live.exists
    <3>1. p.pc = "rows" /\ p.seen = live.cols /\ p.plan = proc[r].plan
      BY <1>a, <2>0, <2>2 DEF Proc
    <3>2. Adding(p, live'.exists)
      BY <2>2, <3>1 DEF Growing, EveryoneAdds, Adding
    <3> QED BY <2>1, <3>2, OneAdds
  <2>3. CASE ~live.exists
    <3>1. p.pc = "exec" /\ p.plan = CreatePlan(proc[r].ver)
      BY <1>a, <2>0, <2>3 DEF Proc
    <3>2. Adding(p, live'.exists)
      BY <3>1 DEF Adding, CreatePlan, IndexStep
    <3> QED BY <2>1, <3>2, OneAdds
  <2> QED BY <2>2, <2>3
<1>2. CASE ReadRows(r)
  <2>1. PICK hasRows : PlanWith(r, hasRows)
    BY <1>2 DEF ReadRows
  <2> QED BY <1>2, <2>1, PlanAdds DEF ReadRows
<1>3. CASE ExecCreate(r) \/ ExecAdd(r) \/ ExecRecreate(r) \/ ExecIndex(r)
  <2>1. (\E change : Executed(r, change)) \/ Reply(r, "error")
    <3>1. ExecCreate(r) => Executed(r, TRUE) \/ Reply(r, "error")
      BY DEF ExecCreate, Fail
    <3>2. ExecAdd(r) => Executed(r, TRUE) \/ Reply(r, "error")
      BY DEF ExecAdd, Fail
    <3>3. ExecRecreate(r) => Executed(r, TRUE)
      BY DEF ExecRecreate
    <3>4. ExecIndex(r) => Executed(r, TRUE) \/ Executed(r, FALSE) \/ Reply(r, "error")
      BY DEF ExecIndex, Fail
    <3> QED BY <1>3, <3>1, <3>2, <3>3, <3>4
  <2> QED BY <2>1, ExecutedAdds, ReplyAdds, Names
<1>4. CASE ExecBlocked(r)
  BY <1>4, ReplyAdds, Names DEF ExecBlocked, Fail
<1>5. CASE Record(r)
  <2>0. PICK plan : plan = [proc[r].plan EXCEPT ![proc[r].at] = "none"]
    OBVIOUS
  <2>1. PICK p : p = [proc[r] EXCEPT !.pc = "exec", !.changed = FALSE, !.plan = plan]
    OBVIOUS
  <2>2. p.pc = "exec" /\ p.plan = plan /\ proc' = [proc EXCEPT ![r] = p]
    BY <1>5, <1>a, <2>0, <2>1 DEF Record, Proc
  <2>3. \A i \in Slot : plan[i] \in {"none", proc[r].plan[i]}
    BY <1>a, <2>0 DEF PlanShape
  <2>4. Adding(p, live'.exists)
    BY <2>2, <2>3, SameAdds
  <2> QED BY <2>2, <2>4, OneAdds
<1>6. CASE RunReturns(r)
  BY <1>6, GotoAdds, ReplyAdds, Names DEF RunReturns
<1> QED BY <1>1, <1>2, <1>3, <1>4, <1>5, <1>6 DEF Migrate

LEMMA ServeAdds ==
  ASSUME TypeOK, Growing, NEW r \in Runner, Serve(r), live.exists => live'.exists
  PROVE  EveryoneAdds'
<1>1. CASE BareCreate(r) \/ CheckCache(r) \/ Mark(r)
  <2>1. PICK step \in {"check", "insert", "schema"} : Goto(r, step)
    BY <1>1 DEF BareCreate, CheckCache, Mark
  <2> QED BY <2>1, GotoAdds
<1>2. ASSUME NEW value \in Value, Insert(r, value)
      PROVE  EveryoneAdds'
  <2>1. CASE Accepts(proc[r].ver, value)
    <3>1. PICK p : p = [proc[r] EXCEPT !.pc = "readback", !.id = live.next]
      OBVIOUS
    <3>2. p.pc = "readback" /\ p.plan = proc[r].plan /\ proc' = [proc EXCEPT ![r] = p]
      BY <1>2, <2>1, <3>1, Shapes DEF Insert, Proc
    <3>3. Adding(p, live'.exists)
      BY <3>2, SameAdds
    <3> QED BY <3>2, <3>3, OneAdds
  <2>2. CASE ~Accepts(proc[r].ver, value)
    BY <1>2, <2>2, ReplyAdds, Names DEF Insert
  <2> QED BY <2>1, <2>2
<1>3. CASE Readback(r)
  BY <1>3, ReplyAdds, Names DEF Readback
<1> QED BY <1>1, <1>2, <1>3 DEF Serve

LEMMA GrowingStep ==
  ASSUME TypeOK, Shaped, Growing, Compatible, [Next]_vars
  PROVE  Growing' /\ \A v \in Version : Grows(v)
<1>0. /\ Common(live'.cols) /\ (~live'.exists => \A c \in Column : live'.cols[c] = None)
      /\ \A v \in Version : Grows(v)
  BY TableGrows
<1>e. live.exists => live'.exists
  BY <1>0, Shapes DEF Grows
<1>1. ASSUME NEW r \in Runner, Begin(r)
      PROVE  EveryoneAdds'
  <2>1. PICK step \in {"check", "lookup"} : proc' = [proc EXCEPT ![r] = Starting(version, step)]
    BY <1>1 DEF Begin
  <2>2. PICK p : p = Starting(version, step)
    OBVIOUS
  <2>3. Adding(p, live'.exists)
    BY <2>2, RestAdds, Shapes, Names
  <2> QED BY <1>e, <2>1, <2>2, <2>3, OneAdds
<1>2. ASSUME NEW r \in Runner, Serve(r) \/ Migrate(r)
      PROVE  EveryoneAdds'
  BY <1>e, <1>2, ServeAdds, MigrateAdds
<1>3. ASSUME NEW r \in Runner, StatementFails(r)
      PROVE  EveryoneAdds'
  <2>1. \/ Goto(r, "check")
        \/ At(r, "rows") /\ PlanWith(r, FALSE)
        \/ Reply(r, "error")
    BY <1>3 DEF StatementFails, Fail
  <2> QED BY <1>e, <2>1, GotoAdds, PlanAdds, ReplyAdds, Names
<1>4. ASSUME ReloadReset \/ Loaded PROVE EveryoneAdds'
  <2>0. Booter \in Runner
    BY DEF Runner
  <2>1. ASSUME NEW v \in Version, ReloadSwap(v)
        PROVE  EveryoneAdds'
    <3>1. PICK p : p = Starting(v, "schema")
      OBVIOUS
    <3>2. Adding(p, live'.exists)
      BY <3>1, RestAdds, Names
    <3> QED BY <1>e, <2>0, <2>1, <3>1, <3>2, OneAdds DEF ReloadSwap
  <2>2. CASE ReloadReset
    BY <1>e, <2>0, <2>2, GotoAdds DEF ReloadReset
  <2>3. CASE ReloadFails
    BY <1>e, <2>0, <2>3, ReplyAdds, Names DEF ReloadFails
  <2> QED BY <1>4, <2>1, <2>2, <2>3 DEF Loaded
<1>5. ASSUME NEW v \in Version, NEW cause, Boot(v, cause)
      PROVE  EveryoneAdds'
  <2>1. \A q \in Runner : proc'[q] = IF dev /\ q = Booter THEN Starting(v, "schema") ELSE Resting(v, "none")
    BY <1>5 DEF Boot, Booted
  <2> QED BY <2>1, RestAdds, Names DEF EveryoneAdds
<1>6. ASSUME (\E x \in rows : Delete(x)) \/ UNCHANGED vars PROVE EveryoneAdds'
  <2>1. proc' = proc
    BY <1>6 DEF Delete, vars
  <2> QED BY <1>e, <2>1 DEF Growing, EveryoneAdds, Adding
<1>7. EveryoneAdds'
  BY <1>1, <1>2, <1>3, <1>4, <1>5, <1>6, Shapes DEF Next, Crash, Deploy
<1> QED BY <1>0, <1>7 DEF Growing

\* The booter moves on.
LEMMA BooterReloads ==
  ASSUME TypeOK, Reloaded, NEW p, proc' = [proc EXCEPT ![Booter] = p], version' = version,
         p.pc \in BooterPc, p.pc \notin {"idle", "load"} => p.ver = version, Sure(p)',
         p.pc = "idle" /\ p.resp = "ok" => Fitting(version)'
  PROVE  Reloaded'
<1>1. proc'[Booter] = p
  BY Shapes DEF Runner
<1>2. Sure(proc[Booter])'
  BY <1>1 DEF Sure, Fitting, JustDone
<1> QED BY <1>1, <1>2 DEF Reloaded, At, Fitting

\* The others move on.
LEMMA OthersReload ==
  ASSUME TypeOK, Reloaded, proc'[Booter] = proc[Booter], version' = version, \A v \in Version : Grows(v)
  PROVE  Reloaded'
<1>1. proc[Booter].ver \in Version /\ version \in Version
  BY Shapes, ProcFields DEF Runner
<1>2. Grows(proc[Booter].ver) /\ Grows(version)
  BY <1>1
<1>3. Sure(proc[Booter])'
  BY <1>2 DEF Reloaded, Sure, Grows, Fitting, JustDone
<1>4. Fitting(version) => Fitting(version)'
  BY <1>2 DEF Fitting, Grows
<1> QED BY <1>3, <1>4 DEF Reloaded, At

LEMMA BooterMigrates ==
  ASSUME TypeOK, Shaped, Reloaded, Migrate(Booter)
  PROVE  Reloaded'
<1>0. /\ Booter \in Runner /\ Booter \notin Request /\ proc[Booter] \in Proc
      /\ version \in Version /\ proc[Booter].ver \in Version
  BY MigratorAssumption, Shapes, ProcFields DEF Runner
<1>1. version' = version
  BY DEF Migrate, ReadSchema, ReadRows, ExecCreate, ExecAdd, ExecRecreate, ExecIndex, ExecBlocked, Record,
         RunReturns, server
<1>2. proc[Booter].pc \notin {"idle", "load"}
  BY DEF Migrate, ReadSchema, ReadRows, ExecCreate, ExecAdd, ExecRecreate, ExecIndex, ExecBlocked, Record,
         RunReturns, NextStep, At
<1>3. proc[Booter].ver = version /\ Sure(proc[Booter])
  BY <1>2 DEF Reloaded
<1>4. CASE ~RunReturns(Booter)
  <2>1. /\ Grows(version)
        /\ \E p : /\ proc' = [proc EXCEPT ![Booter] = p] /\ Sure(p)'
                  /\ p.pc \in {"idle", "rows", "exec", "record"} /\ (p.pc # "idle" => p.ver = version)
                  /\ p.pc = "idle" => p.resp # "ok"
    BY <1>0, <1>3, <1>4, MigrateSure
  <2>2. ASSUME NEW p, proc' = [proc EXCEPT ![Booter] = p], Sure(p)',
               p.pc \in {"idle", "rows", "exec", "record"}, p.pc # "idle" => p.ver = version,
               p.pc = "idle" => p.resp # "ok"
        PROVE  Reloaded'
    <3>1. p.pc \in BooterPc
      BY <2>2 DEF BooterPc
    <3> QED BY <1>1, <2>2, <3>1, BooterReloads
  <2> QED BY <2>1, <2>2
<1>5. CASE RunReturns(Booter)
  <2>1. Fitting(version)
    BY <1>0, <1>3, <1>5, ReturnFits
  <2>2. live' = live /\ Reply(Booter, "ok")
    BY <1>0, <1>5 DEF RunReturns, schema
  <2>3. Fitting(version)'
    BY <1>1, <2>1, <2>2 DEF Fitting, Agreed
  <2>4. PICK p : p = Resting(version, "ok")
    OBVIOUS
  <2>5. proc' = [proc EXCEPT ![Booter] = p] /\ p.pc = "idle"
    BY <2>2, <2>4 DEF Reply, Resting
  <2>6. Sure(p)' /\ p.pc \in BooterPc
    BY <2>5, Outside DEF BooterPc
  <2> QED BY <1>1, <2>3, <2>5, <2>6, BooterReloads
<1> QED BY <1>4, <1>5

LEMMA FailureReloads ==
  ASSUME TypeOK, Shaped, Reloaded, StatementFails(Booter)
  PROVE  Reloaded'
<1>0. Booter \in Runner /\ proc[Booter].pc \in BooterPc
  BY DEF Runner, Reloaded
<1>1. live' = live /\ version' = version
  BY DEF StatementFails, schema, server
<1>2. CASE At(Booter, "rows") /\ PlanWith(Booter, FALSE)
  <2>1. Sure(proc[Booter]) /\ proc[Booter].ver = version
    BY <1>2 DEF Reloaded, At
  <2>2. \E p : /\ proc' = [proc EXCEPT ![Booter] = p] /\ Sure(p)'
               /\ p.ver = proc[Booter].ver /\ p.pc = "exec"
    BY <1>0, <1>1, <1>2, <2>1, PlanWithSure
  <2>3. ASSUME NEW p, proc' = [proc EXCEPT ![Booter] = p], Sure(p)', p.ver = proc[Booter].ver, p.pc = "exec"
        PROVE  Reloaded'
    <3>1. p.pc \in BooterPc
      BY <2>3 DEF BooterPc
    <3> QED BY <1>1, <2>1, <2>3, <3>1, BooterReloads
  <2> QED BY <2>2, <2>3
<1>3. CASE Reply(Booter, "error")
  <2>1. PICK p : p = Resting(version, "error")
    OBVIOUS
  <2>2. proc' = [proc EXCEPT ![Booter] = p] /\ p.pc = "idle" /\ p.resp = "error"
    BY <1>3, <2>1 DEF Reply, Resting
  <2>3. Sure(p)' /\ p.pc \in BooterPc
    BY <2>2, Outside DEF BooterPc
  <2> QED BY <1>1, <2>2, <2>3, BooterReloads
<1> QED BY <1>0, <1>2, <1>3 DEF StatementFails, Fail, BooterPc, At

LEMMA ReloadedStep ==
  ASSUME TypeOK, Shaped, Growing, Reloaded, Compatible, [Next]_vars
  PROVE  Reloaded'
<1>0. \A v \in Version : Grows(v)
  BY GrowingStep
<1>b. Booter \in Runner /\ Booter \notin Request /\ proc[Booter].pc \in BooterPc /\ version \in Version
  BY MigratorAssumption, Shapes DEF Runner, Reloaded
<1>1. ASSUME NEW r \in Request, Begin(r) \/ Serve(r) \/ Migrate(r) \/ StatementFails(r)
      PROVE  Reloaded'
  <2>1. \E p : proc' = [proc EXCEPT ![r] = p]
    <3>1. Begin(r) => \E p : proc' = [proc EXCEPT ![r] = p]
      BY DEF Begin
    <3>2. Serve(r) => \E p : proc' = [proc EXCEPT ![r] = p]
      BY DEF Serve, BareCreate, CheckCache, Mark, Insert, Readback, Goto, Reply
    <3>3. StatementFails(r) => \E p : proc' = [proc EXCEPT ![r] = p]
      BY DEF StatementFails, PlanWith, Goto, Reply, Fail
    <3>4. ReadSchema(r) \/ ReadRows(r) \/ Record(r) \/ ExecBlocked(r) \/ RunReturns(r)
            => \E p : proc' = [proc EXCEPT ![r] = p]
      BY DEF ReadSchema, ReadRows, Record, ExecBlocked, RunReturns, PlanWith, Goto, Reply, Fail
    <3>5. ExecCreate(r) \/ ExecAdd(r) \/ ExecRecreate(r) \/ ExecIndex(r)
            => \E p : proc' = [proc EXCEPT ![r] = p]
      BY DEF ExecCreate, ExecAdd, ExecRecreate, ExecIndex, Executed, Fail, Reply
    <3> QED BY <1>1, <3>1, <3>2, <3>3, <3>4, <3>5 DEF Migrate
  <2>2. proc'[Booter] = proc[Booter]
    BY <1>b, <2>1, Shapes
  <2>3. version' = version
    <3>1. Begin(r) \/ StatementFails(r) => version' = version
      BY DEF Begin, StatementFails, server
    <3>2. Serve(r) => version' = version
      BY DEF Serve, BareCreate, CheckCache, Mark, Insert, Readback, server
    <3>3. Migrate(r) => version' = version
      BY DEF Migrate, ReadSchema, ReadRows, ExecCreate, ExecAdd, ExecRecreate, ExecIndex, ExecBlocked, Record,
             RunReturns, server
    <3> QED BY <1>1, <3>1, <3>2, <3>3
  <2> QED BY <1>0, <2>2, <2>3, OthersReload
<1>2. ~Begin(Booter) /\ ~Serve(Booter)
  BY <1>b DEF Begin, Serve, BareCreate, CheckCache, Mark, Insert, Readback, At, BooterPc
<1>3. ASSUME NEW r \in Runner, Begin(r) \/ Serve(r) \/ Migrate(r) \/ StatementFails(r)
      PROVE  Reloaded'
  BY <1>1, <1>2, <1>3, BooterMigrates, FailureReloads DEF Runner
<1>4. CASE (\E x \in rows : Delete(x)) \/ UNCHANGED vars
  <2>1. proc' = proc /\ version' = version
    BY <1>4 DEF Delete, vars, server
  <2> QED BY <1>0, <2>1, OthersReload
<1>5. ASSUME NEW v \in Version, NEW cause \in {"crash", "deploy"}, Boot(v, cause)
      PROVE  Reloaded'
  <2>1. PICK p : p = IF dev THEN Starting(v, "schema") ELSE Resting(v, "none")
    OBVIOUS
  <2>2. proc'[Booter] = p /\ version' = v
    BY <1>5, <1>b, <2>1 DEF Boot, Booted
  <2>3. p.pc \in {"idle", "schema"} /\ p.ver = v /\ p.resp = "none"
    BY <2>1 DEF Starting, Resting
  <2> QED BY <2>2, <2>3 DEF Reloaded, BooterPc, Sure, At
<1>6. CASE ReloadReset
  <2>1. PICK p : p = [proc[Booter] EXCEPT !.pc = "load"]
    OBVIOUS
  <2>2. proc' = [proc EXCEPT ![Booter] = p] /\ p.pc = "load" /\ version' = version
    BY <1>6, <1>b, <2>1, Shapes DEF ReloadReset, Goto, Proc, server
  <2>3. Sure(p)' /\ p.pc \in BooterPc
    BY <2>2, Outside DEF BooterPc
  <2> QED BY <2>2, <2>3, BooterReloads
<1>7. ASSUME NEW v \in Version, ReloadSwap(v)
      PROVE  Reloaded'
  <2>1. PICK p : p = Starting(v, "schema")
    OBVIOUS
  <2>2. p.pc = "schema" /\ p.ver = v
    BY <2>1 DEF Starting, Resting
  <2>3. proc'[Booter] = p /\ version' = v
    BY <1>7, <1>b, <2>1, Shapes DEF ReloadSwap
  <2> QED BY <2>2, <2>3 DEF Reloaded, BooterPc, Sure, At
<1>8. CASE ReloadFails
  <2>1. PICK p : p = Resting(version, "error")
    OBVIOUS
  <2>2. proc' = [proc EXCEPT ![Booter] = p] /\ p.pc = "idle" /\ p.resp = "error" /\ version' = version
    BY <1>8, <2>1 DEF ReloadFails, Reply, Resting, server
  <2>3. Sure(p)' /\ p.pc \in BooterPc
    BY <2>2, Outside DEF BooterPc
  <2> QED BY <2>2, <2>3, BooterReloads
<1> QED BY <1>3, <1>4, <1>5, <1>6, <1>7, <1>8, <1>b DEF Next, Crash, Deploy, Loaded

\* Where the versions agree on the columns that several of them declare, a hot reload that
\* reports success leaves the table as the new program declares it, although requests of
\* the program before may be migrating it to their own version all the while (bootMigrate,
\* resetMigrations).
THEOREM ReloadFitsHolds ==
  ASSUME Compatible
  PROVE  Spec => []ReloadFits
<1>1. Init => ReloadInv
  <2> SUFFICES ASSUME Init PROVE ReloadInv
    OBVIOUS
  <2>1. \A q \in Runner : proc[q] = IF dev /\ q = Booter THEN Starting(version, "schema") ELSE Resting(version, "none")
    BY DEF Init, Booted
  <2>2. /\ Resting(version, "none").pc = "idle" /\ Resting(version, "none").resp = "none"
        /\ Starting(version, "schema").pc = "schema" /\ Starting(version, "schema").ver = version
    BY DEF Resting, Starting
  <2>3. Booter \in Runner /\ ~live.exists /\ \A c \in Column : live.cols[c] = None
    BY DEF Init, Runner, NoTable
  <2>4. EveryoneAdds
    BY <2>1, RestAdds, TypeInit, Shapes, Names DEF EveryoneAdds
  <2>5. Growing
    BY <2>3, <2>4 DEF Growing, Common
  <2>6. Reloaded
    BY <2>1, <2>2, <2>3 DEF Reloaded, BooterPc, Sure, At
  <2> QED BY <2>5, <2>6 DEF ReloadInv
<1>2. Init => TypeOK /\ Shaped
  BY TypeInit
<1>3. TypeOK /\ Shaped /\ ReloadInv /\ [Next]_vars => (TypeOK /\ Shaped /\ ReloadInv)'
  <2>1. TypeOK /\ Shaped /\ [Next]_vars => (TypeOK /\ Shaped)'
    BY TypeStep
  <2>2. TypeOK /\ Shaped /\ ReloadInv /\ [Next]_vars => ReloadInv'
    BY GrowingStep, ReloadedStep DEF ReloadInv
  <2> QED BY <2>1, <2>2
<1>4. TypeOK /\ ReloadInv => ReloadFits
  BY FittingFits DEF ReloadInv, Reloaded, ReloadFits
<1> QED BY <1>1, <1>2, <1>3, <1>4, PTL DEF Spec

-----------------------------------------------------------------------------
(* No step undoes what another one has done *)

\* Without hot reloads every step leaves what agrees with the running version as it is.
LEMMA MigratedGrows ==
  ASSUME TypeOK, Shaped, Remembered, [Next]_vars, count'.reload = 0, NEW v \in Version, v = version
  PROVE  Grows(v)
<1> USE DEF schema
<1>1. CASE live'.cols = live.cols /\ live'.exists = live.exists
  BY <1>1 DEF Grows, Agreed
<1>2. ASSUME NEW r \in Runner, Serve(r)
      PROVE  Grows(v)
  <2>1. CASE BareCreate(r) /\ ~live.exists
    <3>1. count.reload = 0
      BY <2>1, Shapes DEF BareCreate, Counts
    <3>2. proc[r].ver = v
      BY <2>1, <3>1 DEF Remembered, BareCreate, At
    <3>3. live' = [NoTable EXCEPT !.exists = TRUE, !.cols = Columns(v)]
      BY <2>1, <3>2 DEF BareCreate
    <3> QED BY <3>3, Created
  <2>2. CASE (BareCreate(r) /\ live.exists) \/ CheckCache(r) \/ Mark(r) \/ Readback(r)
    BY <1>1, <2>2 DEF BareCreate, CheckCache, Mark, Readback
  <2>3. ASSUME NEW value \in Value, Insert(r, value)
        PROVE  live'.cols = live.cols /\ live'.exists = live.exists
    BY <2>3, Shapes DEF Insert, Table
  <2> QED BY <1>1, <1>2, <2>1, <2>2, <2>3 DEF Serve
<1>3. ASSUME NEW r \in Runner, Migrate(r)
      PROVE  Grows(v)
  <2>1. CASE RunReturns(r)
    BY <1>1, <2>1 DEF RunReturns
  <2>2. CASE ~RunReturns(r)
    <3>1. count' = count /\ proc[r].pc # "idle"
      <4>1. CASE ReadSchema(r) \/ ReadRows(r) \/ ExecBlocked(r) \/ Record(r)
        BY <4>1 DEF ReadSchema, ReadRows, ExecBlocked, Record, NextStep, At
      <4>2. CASE ExecCreate(r) \/ ExecAdd(r)
        BY <4>2 DEF ExecCreate, ExecAdd, NextStep, At
      <4>3. CASE ExecRecreate(r) \/ ExecIndex(r)
        BY <4>3 DEF ExecRecreate, ExecIndex, NextStep, At
      <4> QED BY <1>3, <2>2, <4>1, <4>2, <4>3 DEF Migrate
    <3>2. v = proc[r].ver /\ Sure(proc[r])
      BY <3>1 DEF Remembered
    <3> QED BY <1>3, <2>2, <3>2, MigrateSure
  <2> QED BY <2>1, <2>2
<1>4. CASE \/ \E r \in Runner : Begin(r) \/ StatementFails(r)
           \/ \E x \in rows : Delete(x)
           \/ Crash \/ \E w \in Version : Deploy(w)
           \/ ReloadReset \/ Loaded \/ UNCHANGED vars
  BY <1>1, <1>4 DEF Begin, StatementFails, Delete, Crash, Deploy, Boot, ReloadReset, Loaded, ReloadSwap,
     ReloadFails, vars
<1> QED BY <1>2, <1>3, <1>4 DEF Next

\* Without hot reloads no statement of a migration, and none that makes the table past it,
\* takes the table away or a column out of agreement with the program being served, whoever
\* else is migrating and whatever fails, crashes or is deployed (execute, EnsureTable).
THEOREM NothingIsUndone ==
  Spec => [][count'.reload = 0 => \A v \in Version : v = version => Grows(v)]_vars
<1>1. TypeOK /\ Shaped /\ Remembered /\ [Next]_vars
        => (count'.reload = 0 => \A v \in Version : v = version => Grows(v))
  BY MigratedGrows
<1>2. Spec => [](TypeOK /\ Shaped)
  BY TypeInvariance
<1>3. Spec => [](TypeOK /\ Remembered)
  BY RememberedInvariance
<1> QED BY <1>1, <1>2, <1>3, PTL DEF Spec

\* Where the versions agree on the columns that several of them declare, that is so of every
\* version, with hot reloads too: no reload takes away what another version needs.
THEOREM ReloadsTakeNothingAway ==
  ASSUME Compatible
  PROVE  Spec => [][\A v \in Version : Grows(v)]_vars
<1>1. Init => TypeOK /\ Shaped /\ Growing
  <2>1. ASSUME Init PROVE Growing
    <3>1. \A q \in Runner : proc[q] \in {Starting(version, "schema"), Resting(version, "none")}
      BY <2>1 DEF Init, Booted
    <3>2. EveryoneAdds
      BY <2>1, <3>1, RestAdds, TypeInit, Shapes, Names DEF EveryoneAdds
    <3> QED BY <2>1, <3>2 DEF Init, NoTable, Growing, Common
  <2> QED BY <2>1, TypeInit
<1>2. TypeOK /\ Shaped /\ Growing /\ [Next]_vars => (TypeOK /\ Shaped /\ Growing)'
  BY TypeStep, GrowingStep
<1>3. TypeOK /\ Shaped /\ Growing /\ [Next]_vars => \A v \in Version : Grows(v)
  BY GrowingStep
<1> QED BY <1>1, <1>2, <1>3, PTL DEF Spec

-----------------------------------------------------------------------------
(* Serial ids *)

\* Whoever is past its migration, or in the middle of one that makes no table, found a table.
Found(p) ==
  /\ p.pc \in {"rows", "mark", "insert", "readback"} => live.exists
  /\ p.pc \in {"exec", "record"} => /\ p.plan[0] = "none" => live.exists
                                    /\ p.at # 0 => p.plan[0] = "none"
  /\ p.pc = "record" /\ p.at = 0 => live.exists

SerialInv ==
  /\ \A x \in rows : x.id < live.next
  /\ \A x, y \in rows : x.id = y.id => x = y
  /\ ~live.exists => rows = {}
  /\ done => live.exists
  /\ \A r \in Runner : Found(proc[r])

\* The serial ids of the rows, and the table they are in.
Serials == (\A x \in rows : x.id < live.next) /\ (\A x, y \in rows : x.id = y.id => x = y)
           /\ (~live.exists => rows = {})

\* A runner moves on; no table goes away.
LEMMA SerialMoves ==
  ASSUME TypeOK, SerialInv, NEW r \in Runner, NEW p, proc' = [proc EXCEPT ![r] = p],
         live.exists => live'.exists, done' => done \/ live'.exists, Serials', Found(p)'
  PROVE  SerialInv'
<1>1. \A q \in Runner : proc'[q] = IF q = r THEN p ELSE proc[q]
  BY Shapes
<1>2. \A q \in Runner : Found(proc[q])'
  BY <1>1 DEF SerialInv, Found
<1> QED BY <1>2 DEF SerialInv, Serials

LEMMA SerialSame ==
  ASSUME SerialInv, live'.next = live.next, live'.exists = live.exists, rows' = rows
  PROVE  Serials'
  BY DEF SerialInv, Serials

\* A table is made, empty.
LEMMA SerialMade ==
  ASSUME NEW cols, live' = [NoTable EXCEPT !.exists = TRUE, !.cols = cols], rows' = {}
  PROVE  live'.exists /\ Serials'
<1>1. live'.exists
  BY DEF NoTable
<1> QED BY <1>1 DEF Serials

LEMMA SerialReply ==
  ASSUME TypeOK, SerialInv, NEW r \in Runner, NEW resp, Reply(r, resp), live' = live, rows' = rows,
         done' = done
  PROVE  SerialInv'
<1>0. PICK p : p = Resting(version, resp)
  OBVIOUS
<1>1. proc' = [proc EXCEPT ![r] = p] /\ p.pc = "idle"
  BY <1>0 DEF Reply, Resting
<1>2. Found(p)'
  BY <1>1 DEF Found
<1> QED BY <1>1, <1>2, SerialSame, SerialMoves

LEMMA SerialGoto ==
  ASSUME TypeOK, SerialInv, NEW r \in Runner, NEW step, Goto(r, step),
         live.exists => live'.exists, done' => done \/ live'.exists, Serials',
         step \in {"check", "lookup", "schema", "load"} \/ (step \in {"mark", "insert"} /\ live'.exists)
  PROVE  SerialInv'
<1>0. PICK p : p = [proc[r] EXCEPT !.pc = step]
  OBVIOUS
<1>1. proc' = [proc EXCEPT ![r] = p] /\ p.pc = step
  BY <1>0, Shapes DEF Goto, Proc
<1>2. Found(p)'
  BY <1>1 DEF Found
<1> QED BY <1>1, <1>2, SerialMoves

LEMMA SerialPlan ==
  ASSUME TypeOK, SerialInv, NEW r \in Runner, At(r, "rows"), NEW hasRows, PlanWith(r, hasRows),
         live' = live, rows' = rows, done' = done
  PROVE  SerialInv'
<1>0. PICK p : p = [proc[r] EXCEPT !.pc = "exec", !.at = 0,
                                   !.plan = DiffPlan(proc[r].ver, proc[r].seen, hasRows)]
  OBVIOUS
<1>1. proc' = [proc EXCEPT ![r] = p] /\ p.pc = "exec" /\ p.at = 0
  BY <1>0, Shapes DEF PlanWith, Proc
<1>2. live.exists
  BY DEF SerialInv, Found, At
<1>3. Found(p)'
  BY <1>1, <1>2 DEF Found
<1> QED BY <1>1, <1>3, SerialSame, SerialMoves

\* The slot of CREATE TABLE comes first.
LEMMA MakesFirst ==
  ASSUME TypeOK, SerialInv, NEW r \in Runner, At(r, "exec"), Pending(r) # {}, NextSlot(r) # 0
  PROVE  proc[r].plan[0] = "none" /\ live.exists
<1>1. 0 \in Slot /\ NextSlot(r) \in Nat
  BY NextSlotIsFirst, MigratorAssumption DEF Slot
<1>2. proc[r].at = 0 => proc[r].plan[0] = "none"
  BY <1>1, NextSlotIsFirst
<1> QED BY <1>2 DEF SerialInv, Found, At

LEMMA SerialExecuted ==
  ASSUME TypeOK, SerialInv, NEW r \in Runner, NEW change, Executed(r, change), live'.exists, Serials',
         done' = done, At(r, "exec"), Pending(r) # {}
  PROVE  SerialInv'
<1>0. PICK p : p = [proc[r] EXCEPT !.pc = "record", !.at = NextSlot(r), !.changed = change]
  OBVIOUS
<1>1. proc' = [proc EXCEPT ![r] = p] /\ p.at = NextSlot(r) /\ p.plan = proc[r].plan
  BY <1>0, Shapes DEF Executed, Proc
<1>2. Found(p)'
  BY <1>0, <1>1, MakesFirst DEF Found
<1> QED BY <1>1, <1>2, SerialMoves

LEMMA SerialServe ==
  ASSUME TypeOK, SerialInv, NEW r \in Runner, Serve(r)
  PROVE  SerialInv'
<1> USE DEF schema, data
<1>1. CASE BareCreate(r)
  <2>1. CASE live.exists
    BY <1>1, <2>1, SerialSame, SerialGoto DEF BareCreate
  <2>2. CASE ~live.exists
    <3>1. rows' = {}
      BY <1>1, <2>2 DEF BareCreate, SerialInv
    <3>2. live'.exists /\ Serials'
      BY <1>1, <2>2, <3>1, SerialMade DEF BareCreate
    <3> QED BY <1>1, <3>2, SerialGoto DEF BareCreate
  <2> QED BY <2>1, <2>2
<1>2. CASE CheckCache(r)
  <2>1. done => live.exists
    BY DEF SerialInv
  <2> QED BY <1>2, <2>1, SerialSame, SerialGoto DEF CheckCache
<1>3. CASE Mark(r)
  <2>1. live.exists
    BY <1>3 DEF Mark, SerialInv, Found, At
  <2> QED BY <1>3, <2>1, SerialSame, SerialGoto DEF Mark
<1>4. ASSUME NEW value \in Value, Insert(r, value)
      PROVE  SerialInv'
  <2>0. live \in Table /\ live.next \in Nat /\ live.exists /\ done' = done
    BY <1>4, Shapes, TableFields DEF Insert, SerialInv, Found, At
  <2>1. CASE Accepts(proc[r].ver, value)
    <3>0. PICK p : p = [proc[r] EXCEPT !.pc = "readback", !.id = live.next]
      OBVIOUS
    <3>1. proc' = [proc EXCEPT ![r] = p] /\ p.pc = "readback"
      BY <1>4, <2>1, <3>0, Shapes DEF Insert, Proc
    <3>2. live'.next = live.next + 1 /\ live'.exists
      BY <1>4, <2>0, <2>1 DEF Insert, Table
    <3>a. PICK x : x = [n |-> born + 1, id |-> live.next, value |-> value]
      OBVIOUS
    <3>3. rows' = rows \cup {x} /\ x.id = live.next
      BY <1>4, <2>1, <3>a DEF Insert
    <3>4. \A y \in rows : y.id \in Nat /\ y.id < live.next
      BY Shapes DEF SerialInv, Row
    <3>5. Serials'
      BY <2>0, <3>2, <3>3, <3>4 DEF Serials, SerialInv
    <3>6. Found(p)'
      BY <3>1, <3>2 DEF Found
    <3> QED BY <2>0, <3>1, <3>2, <3>5, <3>6, SerialMoves
  <2>2. CASE ~Accepts(proc[r].ver, value)
    BY <1>4, <2>0, <2>2, SerialReply DEF Insert
  <2> QED BY <2>1, <2>2
<1>5. CASE Readback(r)
  <2>1. PICK resp : Reply(r, resp)
    BY <1>5 DEF Readback
  <2> QED BY <1>5, <2>1, SerialReply DEF Readback
<1> QED BY <1>1, <1>2, <1>3, <1>4, <1>5 DEF Serve

LEMMA SerialMigrate ==
  ASSUME TypeOK, Shaped, SerialInv, NEW r \in Runner, Migrate(r)
  PROVE  SerialInv'
<1> USE DEF schema, data, server
<1>a. proc[r] \in Proc /\ PlanShape(proc[r].ver, proc[r].plan)
  BY Shapes DEF Shaped
\* It changes what is in the table, or fails.
<1>f. ASSUME NEW resp, Fail(r, resp), live' = live, rows' = rows, done' = done
      PROVE  SerialInv'
  BY <1>f, SerialReply DEF Fail
<1>m. ASSUME NEW change, Executed(r, change), At(r, "exec"), Pending(r) # {}, NextSlot(r) # 0,
             live'.next = live.next, live'.exists = live.exists, rows' = rows, done' = done
      PROVE  SerialInv'
  <2>0. PICK p : p = [proc[r] EXCEPT !.pc = "record", !.at = NextSlot(r), !.changed = change]
    OBVIOUS
  <2>1. /\ proc' = [proc EXCEPT ![r] = p] /\ p.pc = "record" /\ p.at # 0
        /\ p.plan = proc[r].plan
    BY <1>a, <1>m, <2>0 DEF Executed, Proc
  <2>2. Found(p)'
    BY <1>m, <2>1, MakesFirst DEF Found
  <2> QED BY <1>m, <2>1, <2>2, SerialSame, SerialMoves
<1>1. CASE ReadSchema(r)
  <2>0. PICK p : p = IF live.exists THEN [proc[r] EXCEPT !.pc = "rows", !.seen = live.cols]
                     ELSE [proc[r] EXCEPT !.pc = "exec", !.plan = CreatePlan(proc[r].ver), !.at = 0]
    OBVIOUS
  <2>1. proc' = [proc EXCEPT ![r] = p] /\ live' = live /\ rows' = rows /\ done' = done
    BY <1>1, <2>0 DEF ReadSchema
  <2>2. CASE live.exists
    <3>1. p.pc = "rows"
      BY <1>a, <2>0, <2>2 DEF Proc
    <3>2. Found(p)'
      BY <2>1, <2>2, <3>1 DEF Found
    <3> QED BY <2>1, <3>2, SerialSame, SerialMoves
  <2>3. CASE ~live.exists
    <3>1. p.pc = "exec" /\ p.at = 0 /\ p.plan = CreatePlan(proc[r].ver)
      BY <1>a, <2>0, <2>3 DEF Proc
    <3>2. p.plan[0] = "create"
      BY <3>1, MigratorAssumption DEF CreatePlan, Slot
    <3>3. Found(p)'
      BY <3>1, <3>2 DEF Found
    <3> QED BY <2>1, <3>3, SerialSame, SerialMoves
  <2> QED BY <2>2, <2>3
<1>2. CASE ReadRows(r)
  BY <1>2, SerialPlan DEF ReadRows
<1>3. CASE ExecCreate(r)
  <2>1. CASE ~live.exists
    <3>1. rows' = {}
      BY <1>3, <2>1 DEF ExecCreate, SerialInv
    <3>2. live'.exists /\ Serials'
      BY <1>3, <2>1, <3>1, SerialMade DEF ExecCreate
    <3> QED BY <1>3, <2>1, <3>2, SerialExecuted DEF ExecCreate, NextStep
  <2>2. CASE live.exists
    BY <1>3, <1>f, <2>2 DEF ExecCreate
  <2> QED BY <2>1, <2>2
<1>4. CASE ExecAdd(r)
  <2>1. NextSlot(r) # 0 /\ At(r, "exec") /\ Pending(r) # {} /\ rows' = rows /\ done' = done
    BY <1>a, <1>4, NextSlotIsFirst, MigratorAssumption DEF ExecAdd, NextStep, PlanShape, Column
  <2>2. CASE Fail(r, "error") /\ UNCHANGED schema
    BY <1>f, <2>1, <2>2
  <2>3. CASE ~(Fail(r, "error") /\ UNCHANGED schema)
    <3>1. Executed(r, TRUE) /\ live'.next = live.next /\ live'.exists = live.exists
      BY <1>4, <2>3, Shapes DEF ExecAdd, Table
    <3> QED BY <1>m, <2>1, <3>1
  <2> QED BY <2>2, <2>3
<1>5. CASE ExecRecreate(r)
  <2>1. live'.exists /\ Serials'
    BY <1>5, SerialMade DEF ExecRecreate
  <2> QED BY <1>5, <2>1, SerialExecuted DEF ExecRecreate, NextStep
<1>6. CASE ExecIndex(r)
  <2>1. NextSlot(r) # 0 /\ At(r, "exec") /\ Pending(r) # {} /\ rows' = rows /\ done' = done
    BY <1>a, <1>6, NextSlotIsFirst DEF ExecIndex, NextStep, PlanShape
  <2>2. CASE Fail(r, "error") /\ UNCHANGED schema
    BY <1>f, <2>1, <2>2
  <2>3. CASE ~(Fail(r, "error") /\ UNCHANGED schema)
    <3>1. PICK change : Executed(r, change)
      BY <1>6, <2>3 DEF ExecIndex
    <3>2. live'.next = live.next /\ live'.exists = live.exists
      BY <1>6, <2>3, Shapes DEF ExecIndex, Table
    <3> QED BY <1>m, <2>1, <3>1, <3>2
  <2> QED BY <2>2, <2>3
<1>7. CASE ExecBlocked(r)
  BY <1>7, <1>f DEF ExecBlocked
<1>8. CASE Record(r)
  <2> DEFINE plan == [proc[r].plan EXCEPT ![proc[r].at] = "none"]
  <2>0. PICK p : p = [proc[r] EXCEPT !.pc = "exec", !.changed = FALSE, !.plan = plan]
    OBVIOUS
  <2>1. /\ proc' = [proc EXCEPT ![r] = p] /\ live' = live /\ rows' = rows /\ done' = done
        /\ At(r, "record")
    BY <1>8, <2>0 DEF Record
  <2>2. p.pc = "exec" /\ p.plan = plan /\ p.at = proc[r].at
    BY <1>a, <2>0 DEF Proc
  <2>3. plan[0] = IF proc[r].at = 0 THEN "none" ELSE proc[r].plan[0]
    BY <1>a, MigratorAssumption DEF PlanShape, Slot
  <2> HIDE DEF plan
  <2>4. Found(p)'
    BY <2>1, <2>2, <2>3 DEF Found, SerialInv, At
  <2> QED BY <2>1, <2>4, SerialSame, SerialMoves
<1>9. CASE RunReturns(r)
  <2>1. live' = live /\ rows' = rows /\ done' = done /\ At(r, "exec") /\ Pending(r) = {}
    BY <1>9 DEF RunReturns
  <2>2. live.exists
    <3>1. CASE proc[r].plan[0] = "none"
      BY <2>1, <3>1 DEF SerialInv, Found, At
    <3>2. CASE proc[r].plan[0] # "none"
      <4>1. proc[r].at = 0
        BY <2>1, <3>2 DEF SerialInv, Found, At
      <4> QED BY <2>1, <3>2, <4>1, MigratorAssumption DEF Pending, Slot
    <3> QED BY <3>1, <3>2
  <2> QED BY <1>9, <2>1, <2>2, SerialSame, SerialGoto, SerialReply DEF RunReturns
<1> QED BY <1>1, <1>2, <1>3, <1>4, <1>5, <1>6, <1>7, <1>8, <1>9 DEF Migrate

LEMMA SerialStep == TypeOK /\ Shaped /\ SerialInv /\ [Next]_vars => SerialInv'
<1> SUFFICES ASSUME TypeOK, Shaped, SerialInv, [Next]_vars PROVE SerialInv'
  OBVIOUS
<1> USE DEF schema, data, server
<1>1. ASSUME NEW r \in Runner, Begin(r)
      PROVE  SerialInv'
  <2>1. PICK step \in {"check", "lookup"} : proc' = [proc EXCEPT ![r] = Starting(version, step)]
    BY <1>1 DEF Begin
  <2>2. PICK p : p = Starting(version, step)
    OBVIOUS
  <2>3. Found(p)'
    BY <2>2 DEF Starting, Resting, Found
  <2> QED BY <1>1, <2>1, <2>2, <2>3, SerialSame, SerialMoves DEF Begin
<1>2. ASSUME NEW r \in Runner, StatementFails(r)
      PROVE  SerialInv'
  BY <1>2, SerialSame, SerialGoto, SerialPlan, SerialReply DEF StatementFails, Fail
<1>3. ASSUME NEW x \in rows, Delete(x)
      PROVE  SerialInv'
  BY <1>3 DEF Delete, SerialInv, Found
<1>4. ASSUME NEW v \in Version, NEW cause, Boot(v, cause)
      PROVE  SerialInv'
  <2>1. \A q \in Runner : proc'[q] \in {Starting(v, "schema"), Resting(v, "none")}
    BY <1>4 DEF Boot, Booted
  <2>2. \A q \in Runner : Found(proc[q])'
    BY <2>1 DEF Starting, Resting, Found
  <2> QED BY <1>4, <2>2 DEF Boot, SerialInv
<1>5. CASE ReloadReset
  <2>1. Booter \in Runner
    BY DEF Runner
  <2> QED BY <1>5, <2>1, SerialSame, SerialGoto DEF ReloadReset
<1>6. CASE Loaded
  <2>1. Booter \in Runner
    BY DEF Runner
  <2>2. ASSUME NEW v \in Version, ReloadSwap(v)
        PROVE  SerialInv'
    <3>1. PICK p : p = Starting(v, "schema")
      OBVIOUS
    <3>2. Found(p)'
      BY <3>1 DEF Starting, Resting, Found
    <3> QED BY <2>1, <2>2, <3>1, <3>2, SerialSame, SerialMoves DEF ReloadSwap
  <2>3. CASE ReloadFails
    BY <2>1, <2>3, SerialReply DEF ReloadFails
  <2> QED BY <1>6, <2>2, <2>3 DEF Loaded
<1>7. CASE UNCHANGED vars
  BY <1>7 DEF vars, SerialInv, Found
<1> QED BY <1>1, <1>2, <1>3, <1>4, <1>5, <1>6, <1>7, SerialServe, SerialMigrate, Shapes
        DEF Next, Crash, Deploy

\* No two rows of the table have one id, whatever is added to, made or made anew by racing
\* migrations: a table that is dropped takes its rows along with its counter, and an INSERT
\* never meets a missing table (Repo.create's row is read back by its id).
THEOREM SerialIdsDiffer ==
  Spec => [](/\ \A x, y \in rows : x.id = y.id => x = y
             /\ \A r \in Request : proc[r].pc \in {"insert", "readback"} => live.exists)
<1>1. Init => SerialInv
  <2> SUFFICES ASSUME Init PROVE SerialInv
    OBVIOUS
  <2>1. \A q \in Runner : proc[q] \in {Starting(version, "schema"), Resting(version, "none")}
    BY DEF Init, Booted
  <2>2. \A q \in Runner : Found(proc[q])
    BY <2>1 DEF Starting, Resting, Found
  <2> QED BY <2>2 DEF Init, SerialInv
<1>2. SerialInv => /\ \A x, y \in rows : x.id = y.id => x = y
                   /\ \A r \in Request : proc[r].pc \in {"insert", "readback"} => live.exists
  BY DEF SerialInv, Found, Runner
<1>3. Spec => [](TypeOK /\ Shaped)
  BY TypeInvariance
<1> QED BY <1>1, <1>2, <1>3, SerialStep, PTL DEF Spec

-----------------------------------------------------------------------------
(* Every step of a runner takes it nearer to its end *)

\* The steps of a plan that are left, and how many statements a runner has before it at most.
Left(p) == Cardinality({i \in Slot : p.plan[i] # "none"})
Rank(p) ==
  CASE p.pc = "idle" -> 0
    [] p.pc = "readback" -> 1
    [] p.pc = "insert" -> 2
    [] p.pc = "mark" -> 3
    [] p.pc = "record" -> 3 + 2 * Left(p)
    [] p.pc = "exec" -> 4 + 2 * Left(p)
    [] p.pc = "rows" -> 2 * NCol + 9
    [] p.pc = "schema" -> 2 * NCol + 10
    [] p.pc \in {"check", "load"} -> 2 * NCol + 11
    [] p.pc = "lookup" -> 2 * NCol + 12

\* What was executed last is still in the plan until it is recorded.
Recording == \A r \in Runner : proc[r].pc = "record" => proc[r].plan[proc[r].at] # "none"

Restarted == count'.crash # count.crash \/ count'.deploy # count.deploy

LEMMA LeftType ==
  ASSUME NEW plan
  PROVE  LET S == {i \in Slot : plan[i] # "none"}
         IN  IsFiniteSet(S) /\ Cardinality(S) \in Nat /\ Cardinality(S) <= NCol + 2
<1> DEFINE S == {i \in Slot : plan[i] # "none"}
<1>1. NCol + 1 \in Int /\ 0 \in Int
  BY MigratorAssumption
<1>2. IsFiniteSet(Slot) /\ Cardinality(Slot) = NCol + 2
  BY <1>1, MigratorAssumption, FS_Interval DEF Slot
<1>3. S \subseteq Slot
  OBVIOUS
<1>4. IsFiniteSet(S) /\ Cardinality(S) <= NCol + 2
  BY <1>2, <1>3, FS_Subset
<1> QED BY <1>4, FS_CardinalityType

\* Recording a step leaves one less.
LEMMA LeftLess ==
  ASSUME NEW plan \in [Slot -> Step], NEW at \in Slot, plan[at] # "none",
         NEW p, p.plan = plan, NEW q, q.plan = [plan EXCEPT ![at] = "none"]
  PROVE  Left(q) = Left(p) - 1
<1> DEFINE S == {i \in Slot : plan[i] # "none"}
           T == {i \in Slot : q.plan[i] # "none"}
<1>1. T = S \ {at} /\ at \in S
  OBVIOUS
<1>2. IsFiniteSet(S)
  BY LeftType
<1>3. Cardinality(S \ {at}) = Cardinality(S) - 1
  BY <1>1, <1>2, FS_RemoveElement
<1> QED BY <1>1, <1>3 DEF Left

LEMMA RankType ==
  ASSUME NEW p \in Proc
  PROVE  /\ Left(p) \in Nat /\ Left(p) <= NCol + 2
         /\ Rank(p) \in Nat /\ Rank(p) <= 2 * NCol + 12
         /\ Rank(p) = 0 <=> p.pc = "idle"
<1>1. Left(p) \in Nat /\ Left(p) <= NCol + 2
  BY LeftType DEF Left
<1>2. p.pc \in Pc /\ NCol \in Nat
  BY MigratorAssumption DEF Proc
<1> HIDE DEF Left
<1> QED BY <1>1, <1>2 DEF Rank, Pc

\* What the theorem says of one step of a runner, where all the others rest.
Nearer == \A r \in Runner : proc[r].pc # "idle" /\ proc'[r] # proc[r] => Rank(proc'[r]) < Rank(proc[r])
LEMMA NearerMoves ==
  ASSUME TypeOK, Recording, NEW r \in Runner, NEW p, proc' = [proc EXCEPT ![r] = p],
         p.pc = "record" => p.plan[p.at] # "none",
         proc[r].pc = "idle" \/ Rank(p) < Rank(proc[r])
  PROVE  Nearer /\ Recording'
<1>1. \A q \in Runner : proc'[q] = IF q = r THEN p ELSE proc[q]
  BY Shapes
<1> QED BY <1>1 DEF Nearer, Recording

LEMMA NearerReply ==
  ASSUME TypeOK, Recording, NEW r \in Runner, NEW resp, Reply(r, resp)
  PROVE  Nearer /\ Recording'
<1>0. PICK p : p = Resting(version, resp)
  OBVIOUS
<1>1. proc' = [proc EXCEPT ![r] = p] /\ p.pc = "idle"
  BY <1>0 DEF Reply, Resting
<1>2. Rank(p) = 0
  BY <1>1 DEF Rank
<1>3. proc[r] \in Proc
  BY Shapes
<1>4. proc[r].pc = "idle" \/ Rank(p) < Rank(proc[r])
  <2>1. Rank(proc[r]) \in Nat /\ (Rank(proc[r]) = 0 <=> proc[r].pc = "idle")
    BY <1>3, RankType
  <2>2. PICK n : n = Rank(proc[r])
    OBVIOUS
  <2>3. n \in Nat /\ (n = 0 <=> proc[r].pc = "idle")
    BY <2>1, <2>2
  <2>4. proc[r].pc = "idle" \/ 0 < n
    BY <2>3
  <2> QED BY <1>2, <2>2, <2>4
<1> QED BY <1>1, <1>4, NearerMoves

\* From one step to the next of a fixed order.
LEMMA NearerGoto ==
  ASSUME TypeOK, Recording, NEW r \in Runner, NEW step, Goto(r, step),
         \/ proc[r].pc = "idle" /\ step # "record"
         \/ proc[r].pc = "lookup" /\ step = "check"
         \/ proc[r].pc = "check" /\ step \in {"insert", "schema"}
         \/ proc[r].pc = "exec" /\ step = "mark"
         \/ proc[r].pc = "mark" /\ step = "insert"
  PROVE  Nearer /\ Recording'
<1>0. PICK p : p = [proc[r] EXCEPT !.pc = step]
  OBVIOUS
<1>1. proc' = [proc EXCEPT ![r] = p] /\ p.pc = step /\ proc[r] \in Proc
  BY <1>0, Shapes DEF Goto, Proc
<1>2. proc[r].pc = "idle" \/ Rank(p) < Rank(proc[r])
  <2>1. Left(proc[r]) \in Nat /\ NCol \in Nat
    BY <1>1, RankType, MigratorAssumption
  <2> QED BY <1>1, <2>1 DEF Rank
<1> QED BY <1>1, <1>2, NearerMoves

LEMMA NearerPlan ==
  ASSUME TypeOK, Shaped, Recording, NEW r \in Runner, proc[r].pc \in {"rows", "schema"},
         NEW p \in Proc, p.pc = "exec" \/ (p.pc = "rows" /\ proc[r].pc = "schema"),
         proc' = [proc EXCEPT ![r] = p]
  PROVE  Nearer /\ Recording'
<1>1. Left(p) \in Nat /\ Left(p) <= NCol + 2 /\ NCol \in Nat
  BY RankType, MigratorAssumption
<1>2. Rank(p) < Rank(proc[r])
  BY <1>1 DEF Rank
<1> QED BY <1>2, NearerMoves

LEMMA NearerPlanWith ==
  ASSUME TypeOK, Shaped, Recording, NEW r \in Runner, At(r, "rows"), NEW hasRows, PlanWith(r, hasRows)
  PROVE  Nearer /\ Recording'
<1>0. PICK p : p = [proc[r] EXCEPT !.pc = "exec", !.at = 0,
                                   !.plan = DiffPlan(proc[r].ver, proc[r].seen, hasRows)]
  OBVIOUS
<1>1. proc' = [proc EXCEPT ![r] = p] /\ proc' \in [Runner -> Proc]
  BY <1>0, PlanWithType DEF PlanWith
<1>2. p \in Proc /\ p.pc = "exec"
  <2>1. p = proc'[r]
    BY <1>1, Shapes
  <2>2. proc[r] \in Proc
    BY Shapes
  <2> QED BY <1>0, <1>1, <2>1, <2>2 DEF Proc
<1> QED BY <1>1, <1>2, NearerPlan DEF At

LEMMA NearerExecuted ==
  ASSUME TypeOK, Recording, NEW r \in Runner, At(r, "exec"), Pending(r) # {},
         NEW change, Executed(r, change)
  PROVE  Nearer /\ Recording'
<1>0. PICK p : p = [proc[r] EXCEPT !.pc = "record", !.at = NextSlot(r), !.changed = change]
  OBVIOUS
<1>1. /\ proc' = [proc EXCEPT ![r] = p] /\ proc[r] \in Proc
      /\ p.pc = "record" /\ p.at = NextSlot(r) /\ p.plan = proc[r].plan
  BY <1>0, Shapes DEF Executed, Proc
<1>2. p.plan[p.at] # "none"
  BY <1>1, NextSlotIsFirst
<1>3. Left(p) = Left(proc[r]) /\ Left(proc[r]) \in Nat
  <2>1. Left(p) = Left(proc[r])
    BY <1>1 DEF Left
  <2> QED BY <1>1, <2>1, RankType
<1>4. Rank(p) < Rank(proc[r])
  BY <1>1, <1>3 DEF Rank, At
<1> QED BY <1>1, <1>2, <1>4, NearerMoves

LEMMA NearerServe ==
  ASSUME TypeOK, Recording, NEW r \in Runner, Serve(r)
  PROVE  Nearer /\ Recording'
<1>1. CASE BareCreate(r) \/ CheckCache(r) \/ Mark(r)
  BY <1>1, NearerGoto DEF BareCreate, CheckCache, Mark, At
<1>2. ASSUME NEW value \in Value, Insert(r, value)
      PROVE  Nearer /\ Recording'
  <2>1. CASE Accepts(proc[r].ver, value)
    <3>0. PICK p : p = [proc[r] EXCEPT !.pc = "readback", !.id = live.next]
      OBVIOUS
    <3>1. proc' = [proc EXCEPT ![r] = p] /\ p.pc = "readback" /\ proc[r].pc = "insert"
      BY <1>2, <2>1, <3>0, Shapes DEF Insert, Proc, At
    <3>2. Rank(p) < Rank(proc[r])
      BY <3>1 DEF Rank
    <3> QED BY <3>1, <3>2, NearerMoves
  <2>2. CASE ~Accepts(proc[r].ver, value)
    BY <1>2, <2>2, NearerReply DEF Insert
  <2> QED BY <2>1, <2>2
<1>3. CASE Readback(r)
  <2>1. PICK resp : Reply(r, resp)
    BY <1>3 DEF Readback
  <2> QED BY <2>1, NearerReply
<1> QED BY <1>1, <1>2, <1>3 DEF Serve

LEMMA NearerMigrate ==
  ASSUME TypeOK, Shaped, Recording, NEW r \in Runner, Migrate(r)
  PROVE  Nearer /\ Recording'
<1>a. proc[r] \in Proc /\ live.cols \in [Column -> LiveColumn \cup {None}]
  BY Shapes, TableFields
<1>1. CASE ReadSchema(r)
  <2>0. PICK p : p = IF live.exists THEN [proc[r] EXCEPT !.pc = "rows", !.seen = live.cols]
                     ELSE [proc[r] EXCEPT !.pc = "exec", !.plan = CreatePlan(proc[r].ver), !.at = 0]
    OBVIOUS
  <2>1. proc' = [proc EXCEPT ![r] = p] /\ proc[r].pc = "schema"
    BY <1>1, <2>0 DEF ReadSchema, At
  <2>2. proc' \in [Runner -> Proc]
    <3>1. Migrate(r)
      BY <1>1 DEF Migrate
    <3>2. (TypeOK /\ Shaped)'
      BY <3>1, MigrateType
    <3> QED BY <3>2 DEF TypeOK
  <2>3. p = proc'[r]
    BY <2>1, Shapes
  <2>4. p \in Proc /\ p.pc \in {"rows", "exec"}
    BY <1>a, <2>0, <2>2, <2>3 DEF Proc
  <2> QED BY <2>1, <2>4, NearerPlan
<1>2. CASE ReadRows(r)
  BY <1>2, NearerPlanWith DEF ReadRows
<1>3. CASE ExecCreate(r) \/ ExecAdd(r) \/ ExecRecreate(r) \/ ExecIndex(r) \/ ExecBlocked(r)
  <2>1. At(r, "exec") /\ Pending(r) # {}
    BY <1>3 DEF ExecCreate, ExecAdd, ExecRecreate, ExecIndex, ExecBlocked, NextStep
  <2>2. (\E change : Executed(r, change)) \/ (\E resp : Reply(r, resp))
    BY <1>3 DEF ExecCreate, ExecAdd, ExecRecreate, ExecIndex, ExecBlocked, Fail
  <2> QED BY <2>1, <2>2, NearerExecuted, NearerReply
<1>4. CASE Record(r)
  <2> DEFINE plan == [proc[r].plan EXCEPT ![proc[r].at] = "none"]
  <2>0. PICK p : p = [proc[r] EXCEPT !.pc = "exec", !.changed = FALSE, !.plan = plan]
    OBVIOUS
  <2>1. proc' = [proc EXCEPT ![r] = p] /\ proc[r].pc = "record"
    BY <1>4, <2>0 DEF Record, At
  <2>2. p.pc = "exec" /\ p.plan = plan /\ proc[r].plan[proc[r].at] # "none"
    BY <1>a, <2>0, <2>1 DEF Proc, Recording
  <2>3. proc[r].plan \in [Slot -> Step] /\ proc[r].at \in Slot
    BY <1>a, ProcFields
  <2>4. Left(p) = Left(proc[r]) - 1
    BY <2>2, <2>3, LeftLess
  <2>5. Left(proc[r]) \in Nat
    BY <1>a, RankType
  <2>6. Rank(p) < Rank(proc[r])
    BY <2>1, <2>2, <2>4, <2>5 DEF Rank
  <2> QED BY <2>1, <2>2, <2>6, NearerMoves
<1>5. CASE RunReturns(r)
  BY <1>5, NearerGoto, NearerReply DEF RunReturns, At
<1> QED BY <1>1, <1>2, <1>3, <1>4, <1>5 DEF Migrate

LEMMA NearerStep ==
  ASSUME TypeOK, Shaped, Recording, [Next]_vars
  PROVE  (~Restarted => Nearer) /\ Recording'
<1>1. ASSUME NEW r \in Runner, Begin(r)
      PROVE  Nearer /\ Recording'
  <2>1. PICK step \in {"check", "lookup"} : proc' = [proc EXCEPT ![r] = Starting(version, step)]
    BY <1>1 DEF Begin
  <2>2. PICK p : p = Starting(version, step)
    OBVIOUS
  <2>3. p.pc # "record" /\ proc[r].pc = "idle"
    BY <1>1, <2>2 DEF Starting, Resting, Begin, At
  <2> QED BY <2>1, <2>2, <2>3, NearerMoves
<1>2. ASSUME NEW r \in Runner, StatementFails(r)
      PROVE  Nearer /\ Recording'
  BY <1>2, NearerGoto, NearerPlanWith, NearerReply DEF StatementFails, Fail, At
<1>3. ASSUME (\E x \in rows : Delete(x)) \/ UNCHANGED vars
      PROVE  Nearer /\ Recording'
  BY <1>3 DEF Delete, vars, Nearer, Recording
<1>4. ASSUME NEW v \in Version, NEW cause \in {"crash", "deploy"}, Boot(v, cause)
      PROVE  Restarted /\ Recording'
  <2>1. \A q \in Runner : proc'[q] \in {Starting(v, "schema"), Resting(v, "none")}
    BY <1>4 DEF Boot, Booted
  <2>2. Recording'
    BY <2>1 DEF Starting, Resting, Recording
  <2>3. Restarted
    <3>1. count \in Counts /\ count.crash \in Nat /\ count.deploy \in Nat
      BY Shapes, CountFields
    <3>2. CASE cause = "crash"
      <4>1. count'.crash = count.crash + 1
        BY <1>4, <3>1, <3>2 DEF Boot, Counts
      <4> QED BY <3>1, <4>1 DEF Restarted
    <3>3. CASE cause = "deploy"
      <4>1. count'.deploy = count.deploy + 1
        BY <1>4, <3>1, <3>3 DEF Boot, Counts
      <4> QED BY <3>1, <4>1 DEF Restarted
    <3> QED BY <3>2, <3>3
  <2> QED BY <2>2, <2>3
<1>5. CASE ReloadReset
  <2>1. Booter \in Runner
    BY DEF Runner
  <2> QED BY <1>5, <2>1, NearerGoto DEF ReloadReset, At
<1>6. CASE Loaded
  <2>1. Booter \in Runner
    BY DEF Runner
  <2>2. ASSUME NEW v \in Version, ReloadSwap(v)
        PROVE  Nearer /\ Recording'
    <3>1. PICK p : p = Starting(v, "schema")
      OBVIOUS
    <3>2. p.pc = "schema" /\ proc[Booter].pc = "load" /\ NCol \in Nat
      BY <2>2, <3>1, MigratorAssumption DEF Starting, Resting, ReloadSwap, At
    <3>3. Rank(p) < Rank(proc[Booter])
      BY <3>2 DEF Rank
    <3>4. proc' = [proc EXCEPT ![Booter] = p]
      BY <2>2, <3>1 DEF ReloadSwap
    <3> QED BY <2>1, <3>2, <3>3, <3>4, NearerMoves
  <2>3. CASE ReloadFails
    BY <2>1, <2>3, NearerReply DEF ReloadFails
  <2> QED BY <1>6, <2>2, <2>3 DEF Loaded
<1> QED BY <1>1, <1>2, <1>3, <1>4, <1>5, <1>6, NearerServe, NearerMigrate, Shapes
        DEF Next, Crash, Deploy

\* However many migrate, reload and fail at once, no step leads a runner back: whoever has
\* started has at most 2 * NCol + 12 statements before it, and every step of its own leaves
\* fewer, until the process restarts (Migrator.Run has no retry, and ensureMigrated no loop).
THEOREM EveryStepIsNearer ==
  Spec => [](\A r \in Runner : Rank(proc[r]) \in 0 .. 2 * NCol + 12)
          /\ [][~Restarted =>
                 \A r \in Runner : proc[r].pc # "idle" /\ proc'[r] # proc[r]
                                   => Rank(proc'[r]) < Rank(proc[r])]_vars
<1>1. Init => Recording
  <2> SUFFICES ASSUME Init PROVE Recording
    OBVIOUS
  <2>1. \A q \in Runner : proc[q] \in {Starting(version, "schema"), Resting(version, "none")}
    BY DEF Init, Booted
  <2> QED BY <2>1 DEF Starting, Resting, Recording
<1>2. Spec => [](TypeOK /\ Shaped)
  BY TypeInvariance
<1>3. TypeOK /\ Shaped /\ Recording /\ [Next]_vars => Recording'
  BY NearerStep
<1>4. TypeOK /\ Shaped /\ Recording /\ [Next]_vars
        => (~Restarted => \A r \in Runner : proc[r].pc # "idle" /\ proc'[r] # proc[r]
                                            => Rank(proc'[r]) < Rank(proc[r]))
  BY NearerStep DEF Nearer
<1>5. TypeOK => \A r \in Runner : Rank(proc[r]) \in 0 .. 2 * NCol + 12
  BY RankType, Shapes, MigratorAssumption
<1> QED BY <1>1, <1>2, <1>3, <1>4, <1>5, PTL DEF Spec
=============================================================================
