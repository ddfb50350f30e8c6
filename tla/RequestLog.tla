----------------------------- MODULE RequestLog -----------------------------
(***************************************************************************)
(* The ring buffer behind the admin panel's "recent requests".  It grows   *)
(* to its capacity and then overwrites its oldest entry; the abstraction   *)
(* it implements is the sequence of everything ever recorded, of which a   *)
(* snapshot shows the end, newest first.                                   *)
(***************************************************************************)
EXTENDS Integers, Sequences

CONSTANTS
  Entry,  \* what a request leaves in the log
  Cap     \* capacity (10 .. 5000 in the code, NewRequestLogger clamps it)

RequestLogAssumption == Cap \in Nat \ {0}

VARIABLES
  items,    \* RequestLogger.items
  head,     \* index (from 0) of the oldest entry once the buffer is full
  full,
  recorded  \* observer: every entry, oldest first

logVars == <<items, head, full, recorded>>

LogInit == items = <<>> /\ head = 0 /\ full = FALSE /\ recorded = <<>>

Grow(e) ==
  /\ ~full
  /\ items' = Append(items, e)
  /\ full' = (Len(items') = Cap)
  /\ UNCHANGED head

Overwrite(e) ==
  /\ full
  /\ items' = [items EXCEPT ![head + 1] = e]
  /\ head' = (head + 1) % Cap
  /\ UNCHANGED full

Record(e) == (Grow(e) \/ Overwrite(e)) /\ recorded' = Append(recorded, e)

Snapshot ==
  IF full THEN [i \in 1 .. Cap |-> items[((head - i + Cap) % Cap) + 1]]
          ELSE [i \in 1 .. Len(items) |-> items[Len(items) + 1 - i]]

LogSpec == LogInit /\ [][\E e \in Entry : Record(e)]_logVars

-----------------------------------------------------------------------------
LogTypeOK ==
  /\ items \in Seq(Entry)
  /\ head \in 0 .. Cap - 1
  /\ full \in BOOLEAN
  /\ recorded \in Seq(Entry)

Kept == IF Len(recorded) < Cap THEN Len(recorded) ELSE Cap

\* A snapshot is the last Cap requests recorded, newest first, also after the buffer has
\* wrapped (Record, Snapshot).
SnapshotIsRecent ==
  Snapshot = [i \in 1 .. Kept |-> recorded[Len(recorded) + 1 - i]]
=============================================================================
