--------------------------- MODULE DurableDatabase ---------------------------
(***************************************************************************)
(* What an application is promised of its database, whatever files, locks  *)
(* and processes it is made of: it holds the commits made to it, in the    *)
(* order they were made, until it is put back as a whole to a copy that    *)
(* was taken of it earlier.  A copy is of one committed state, and may be  *)
(* dropped at any time.                                                    *)
(***************************************************************************)
EXTENDS Naturals

VARIABLES
  db,      \* what a reader finds: the last commit, and the schema it left
  copies,  \* the states a restore may put back
  last     \* the number of the last commit ever made

Init ==
  /\ db = [data |-> 0, schema |-> 1]
  /\ copies = {}
  /\ last = 0

\* A request commits; a migration moves the schema on by one version.
Commit ==
  /\ \E schema \in {db.schema, db.schema + 1} : db' = [data |-> last + 1, schema |-> schema]
  /\ last' = last + 1
  /\ UNCHANGED copies

Copy ==
  /\ copies' = copies \cup {db}
  /\ UNCHANGED <<db, last>>

Forget ==
  /\ copies' \in SUBSET copies
  /\ UNCHANGED <<db, last>>

Restore ==
  /\ db' \in copies
  /\ UNCHANGED <<copies, last>>

Next == Commit \/ Copy \/ Forget \/ Restore

Spec == Init /\ [][Next]_<<db, copies, last>>
=============================================================================
