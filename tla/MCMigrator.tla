----------------------------- MODULE MCMigrator -----------------------------
(***************************************************************************)
(* Instances of Migrator for TLC: what two versions of an application      *)
(* declare.  Column 1 is the serial id, column 2 the value, column 3 is    *)
(* there in some versions only.                                            *)
(***************************************************************************)
EXTENDS Migrator, TLC

Id == [type |-> "int", notNull |-> TRUE, serial |-> TRUE]
Required(t) == [type |-> t, notNull |-> TRUE, serial |-> FALSE]
Optional(t) == [type |-> t, notNull |-> FALSE, serial |-> FALSE]

\* The second version adds an optional column.
Grow == << <<Id, Required("text"), None>>, <<Id, Required("text"), Optional("int")>> >>
\* It makes the value optional: done by recreating the table while that is empty.
Flip == << <<Id, Required("text"), None>>, <<Id, Optional("text"), None>> >>
\* Both at once.
FlipAndGrow == << <<Id, Required("text"), None>>, <<Id, Optional("text"), Optional("int")>> >>
AlwaysUnique == <<TRUE, TRUE>>
NeverUnique == <<FALSE, FALSE>>
LaterUnique == <<FALSE, TRUE>>

Symmetry == Permutations(Request) \cup Permutations(Value)
=============================================================================
