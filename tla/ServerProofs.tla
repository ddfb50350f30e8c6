---------------------------- MODULE ServerProofs ----------------------------
(***************************************************************************)
(* What a handler may write and what a client is told, for every set of    *)
(* requests, users, roles and programs, every hot reload and every change  *)
(* the other requests make while one runs.                                 *)
(*                                                                         *)
(* A gate proves a fact of the instant at which it reads it, and the world *)
(* moves on.  The invariant therefore says, for each step of a request,    *)
(* which facts it has already seen: that the caller had a session, the     *)
(* role of the user it loaded, a getter that maps this role to the one the *)
(* service asks for, and that the document was the caller's.  Facts seen   *)
(* are never forgotten before the request ends, so what was proved at a    *)
(* gate still holds when the handler writes.                               *)
(***************************************************************************)
EXTENDS Server, TLAPS, FiniteSetTheorems

\* The ring.  While it grows, the buffer is the record itself.  Once it is full, the slot i
\* steps behind the head holds the entry i - 1 places from the end of the record; an
\* overwrite puts the new entry into the slot at the head, which the advanced head then sees
\* one step behind it, and every other slot is seen one step further.

\* The slot (from 1) i steps behind a head h.
SlotAt(h, i) == ((h - i + Cap) % Cap) + 1
Slot(i) == SlotAt(head, i)

Growing == ~full => items = recorded /\ Len(recorded) < Cap /\ head = 0

Wrapped ==
  full =>
    /\ Len(items) = Cap /\ Len(recorded) >= Cap
    /\ \A i \in 1 .. Cap : items[Slot(i)] = recorded[Len(recorded) + 1 - i]

RingInv == Log!LogTypeOK /\ Growing /\ Wrapped

LEMMA ModSmall ==
  ASSUME NEW n \in Nat \ {0}, NEW x \in 0 .. 2 * n - 1
  PROVE  x % n = IF x < n THEN x ELSE x - n
  OBVIOUS

LEMMA SlotValue ==
  ASSUME Log!RequestLogAssumption, NEW h \in 0 .. Cap - 1, NEW i \in 1 .. Cap
  PROVE  SlotAt(h, i) = (IF i <= h THEN h - i ELSE h - i + Cap) + 1
  <1> DEFINE x == h - i + Cap
  <1>1. x \in 0 .. 2 * Cap - 1 /\ Cap \in Nat \ {0}
    BY DEF Log!RequestLogAssumption
  <1> HIDE DEF x
  <1>2. x % Cap = IF x < Cap THEN x ELSE x - Cap
    BY <1>1, ModSmall
  <1>3. SlotAt(h, i) = (x % Cap) + 1
    BY DEF SlotAt, x
  <1>4. x < Cap <=> i > h
    BY <1>1 DEF x
  <1>5. QED
    BY <1>1, <1>2, <1>3, <1>4 DEF x

LEMMA GrowRing ==
  ASSUME Log!RequestLogAssumption, RingInv, NEW e \in Entry, Log!Grow(e), recorded' = Append(recorded, e)
  PROVE  RingInv'
  <1>1. /\ items = recorded /\ head = 0 /\ head' = 0 /\ ~full
        /\ items' = Append(items, e) /\ items \in Seq(Entry)
        /\ Len(recorded) < Cap /\ Cap \in Nat \ {0}
    BY DEF RingInv, Growing, Log!LogTypeOK, Log!Grow, Log!RequestLogAssumption
  <1>2. items' = recorded' /\ Len(items') = Len(items) + 1 /\ items' \in Seq(Entry)
    BY <1>1
  <1>3. Log!LogTypeOK'
    BY <1>1, <1>2 DEF Log!LogTypeOK, Log!Grow
  <1>4. Growing'
    <2> SUFFICES ASSUME ~full' PROVE Len(recorded') < Cap
      BY <1>1, <1>2 DEF Growing
    <2>1. Len(items') # Cap
      BY DEF Log!Grow
    <2>2. QED
      BY <1>1, <1>2, <2>1
  <1>5. Wrapped'
    <2> SUFFICES ASSUME full'
                 PROVE  /\ Len(items') = Cap /\ Len(recorded') >= Cap
                        /\ \A i \in 1 .. Cap : items'[Slot(i)'] = recorded'[Len(recorded') + 1 - i]
      BY DEF Wrapped
    <2>1. Len(items') = Cap
      BY DEF Log!Grow
    <2>2. ASSUME NEW i \in 1 .. Cap PROVE Slot(i)' = Len(recorded') + 1 - i
      <3>1. Slot(i)' = ((0 - i + Cap) % Cap) + 1
        BY <1>1 DEF Slot, SlotAt
      <3>2. (Cap - i) % Cap = Cap - i
        BY <1>1, ModSmall
      <3>3. QED
        BY <1>1, <1>2, <2>1, <3>1, <3>2
    <2>3. QED
      BY <1>1, <1>2, <2>1, <2>2
  <1>6. QED
    BY <1>3, <1>4, <1>5 DEF RingInv

LEMMA OverwriteRing ==
  ASSUME Log!RequestLogAssumption, RingInv, NEW e \in Entry, Log!Overwrite(e), recorded' = Append(recorded, e)
  PROVE  RingInv'
  <1>1. /\ full /\ full' /\ head \in 0 .. Cap - 1 /\ Cap \in Nat \ {0}
        /\ items \in Seq(Entry) /\ recorded \in Seq(Entry)
        /\ Len(items) = Cap /\ Len(recorded) >= Cap
        /\ items' = [items EXCEPT ![head + 1] = e]
    BY DEF RingInv, Wrapped, Log!LogTypeOK, Log!Overwrite, Log!RequestLogAssumption
  <1>2. head' = IF head + 1 < Cap THEN head + 1 ELSE 0
    <2> DEFINE x == head + 1
    <2>1. x \in 0 .. 2 * Cap - 1
      BY <1>1
    <2> HIDE DEF x
    <2>2. x % Cap = IF x < Cap THEN x ELSE x - Cap
      BY <1>1, <2>1, ModSmall
    <2>3. head' = x % Cap
      BY DEF Log!Overwrite, x
    <2>4. QED
      BY <1>1, <2>2, <2>3 DEF x
  <1>3. items' \in Seq(Entry) /\ Len(items') = Cap
    BY <1>1
  <1>4. Log!LogTypeOK'
    BY <1>1, <1>2, <1>3 DEF Log!LogTypeOK
  <1>5. Len(recorded') = Len(recorded) + 1
    BY <1>1
  <1>6. ASSUME NEW i \in 1 .. Cap PROVE items'[Slot(i)'] = recorded'[Len(recorded') + 1 - i]
    <2>1. Slot(i)' = (IF i <= head' THEN head' - i ELSE head' - i + Cap) + 1
      BY <1>1, <1>2, SlotValue DEF Slot
    <2>2. CASE i = 1
      <3>1. Slot(i)' = head + 1
        BY <1>1, <1>2, <2>1, <2>2
      <3>2. QED
        BY <1>1, <1>5, <2>2, <3>1
    <2>3. CASE i # 1
      <3>a. i - 1 \in 1 .. Cap
        BY <1>1, <2>3
      <3>1. i - 1 \in 1 .. Cap
            /\ Slot(i - 1) = (IF i - 1 <= head THEN head - (i - 1) ELSE head - (i - 1) + Cap) + 1
        BY <1>1, <3>a, SlotValue DEF Slot
      <3>2. Slot(i)' = Slot(i - 1) /\ Slot(i - 1) # head + 1 /\ Slot(i - 1) \in 1 .. Cap
        BY <1>1, <1>2, <2>1, <2>3, <3>1
      <3>3. items'[Slot(i)'] = items[Slot(i - 1)]
        BY <1>1, <3>2
      <3>4. items[Slot(i - 1)] = recorded[Len(recorded) + 1 - (i - 1)]
        BY <1>1, <3>1 DEF RingInv, Wrapped
      <3>5. recorded'[Len(recorded') + 1 - i] = recorded[Len(recorded) + 1 - (i - 1)]
        BY <1>1, <1>5, <2>3
      <3>6. QED
        BY <3>3, <3>4, <3>5
    <2>4. QED
      BY <2>2, <2>3
  <1>7. QED
    <2>1. Growing'
      BY <1>1 DEF Growing
    <2>2. Len(items') = Cap /\ Len(recorded') >= Cap
      BY <1>1, <1>3, <1>5
    <2>3. Wrapped'
      BY <1>6, <2>2 DEF Wrapped
    <2>4. QED
      BY <1>4, <2>1, <2>3 DEF RingInv

LEMMA RecentShown ==
  ASSUME Log!RequestLogAssumption, RingInv
  PROVE  Log!SnapshotIsRecent
  <1>1. CASE ~full
    BY <1>1 DEF RingInv, Growing, Log!LogTypeOK, Log!SnapshotIsRecent, Log!Snapshot, Log!Kept,
                Log!RequestLogAssumption
  <1>2. CASE full
    <2>1. Log!Kept = Cap
      BY <1>2 DEF RingInv, Wrapped, Log!LogTypeOK, Log!Kept, Log!RequestLogAssumption
    <2>2. QED
      BY <1>2, <2>1 DEF RingInv, Wrapped, Slot, SlotAt, Log!SnapshotIsRecent, Log!Snapshot
  <1>3. QED
    BY <1>1, <1>2

\* Whatever is recorded, a snapshot is the end of it, newest first, before and after the
\* buffer wraps (Record, Snapshot).
THEOREM SnapshotHolds ==
  ASSUME Log!RequestLogAssumption
  PROVE  Log!LogSpec => [](Log!LogTypeOK /\ Log!SnapshotIsRecent)
  <1>1. Log!LogInit => RingInv
    <2> SUFFICES ASSUME Log!LogInit PROVE RingInv
      OBVIOUS
    <2>1. Log!LogTypeOK
      <3>1. items \in Seq(Entry) /\ recorded \in Seq(Entry) /\ head \in 0 .. Cap - 1
        BY DEF Log!LogInit, Log!RequestLogAssumption
      <3>2. full \in BOOLEAN
        BY Zenon DEF Log!LogInit
      <3>3. QED
        BY <3>1, <3>2 DEF Log!LogTypeOK
    <2>2. Growing
      BY DEF Log!LogInit, Growing, Log!RequestLogAssumption
    <2>3. Wrapped
      BY DEF Log!LogInit, Wrapped
    <2>4. QED
      BY <2>1, <2>2, <2>3 DEF RingInv
  <1>2. RingInv /\ [\E e \in Entry : Log!Record(e)]_(Log!logVars) => RingInv'
    <2> SUFFICES ASSUME RingInv, [\E e \in Entry : Log!Record(e)]_(Log!logVars) PROVE RingInv'
      OBVIOUS
    <2>1. ASSUME NEW e \in Entry, Log!Record(e) PROVE RingInv'
      BY <2>1, GrowRing, OverwriteRing DEF Log!Record
    <2>2. CASE UNCHANGED Log!logVars
      BY <2>2 DEF Log!logVars, RingInv, Log!LogTypeOK, Growing, Wrapped, Slot, SlotAt
    <2>3. QED
      BY <2>1, <2>2
  <1>3. RingInv => Log!LogTypeOK /\ Log!SnapshotIsRecent
    BY RecentShown DEF RingInv
  <1>4. QED
    BY <1>1, <1>2, <1>3, PTL DEF Log!LogSpec

-----------------------------------------------------------------------------
Fact == {<<"session">>, <<"owner">>} \cup ({"role"} \X Role) \cup ({"auth"} \X Nat)

RequestState ==
  [pc : Pc, path : {"api", "page", "internal", None}, token : User \cup {None},
   svc : Nat \cup {None}, user : Role \cup {None}, wrote : Nat, status : Nat,
   was : SUBSET Fact]

TypeOK ==
  /\ programs \in Seq(Programs)
  /\ lp \in 1 .. Len(programs)
  /\ regAuth \in 1 .. Len(programs)
  /\ reloading \in 1 .. Len(programs) \cup {None}
  /\ session \in SUBSET User
  /\ row \in [User -> Role \cup {None}]
  /\ req \in [Request -> RequestState]
  /\ total \in Int /\ inFlight \in Int

-----------------------------------------------------------------------------
\* The invariant of a request q while the programs are ps.

SvcOf(ps, q) == ps[q.svc].svc
Served(ps, q) == q.svc \in 1 .. Len(ps) /\ SvcOf(ps, q) # None
AsksUser(ps, q) == RequiresUser(SvcOf(ps, q))

\* The user a request loaded is the one of its token, seen with the role it was read with.
UserSeen(q) ==
  q.user # None =>
    /\ q.token \in User
    /\ <<"session">> \in q.was
    /\ <<"role", q.user>> \in q.was

\* Which steps have a service, and what they have done so far.
OnItsWay(ps, q) ==
  /\ q.pc \in {"new", "route", "limit", "dispatch"} => q.svc = None
  /\ q.pc \in {"body", "session", "user", "gate", "loader", "run", "unwind"} =>
       Served(ps, q) /\ q.path = "api"
  /\ q.pc = "respond" /\ q.svc # None => Served(ps, q) /\ q.path = "api"
  /\ q.pc = "done" /\ q.svc # None => q.path = "api"
  /\ q.pc \in {"route", "limit", "dispatch"} => q.path # "internal"
  /\ q.pc \in {"session", "user"} => AsksUser(ps, q)
  /\ q.pc = "user" => q.token \in User /\ <<"session">> \in q.was
  /\ q.pc \notin {"run", "respond", "unwind", "done"} => q.wrote = 0
  /\ q.pc \notin {"respond", "done"} => q.status = 0
  /\ q.wrote <= Writes

\* What the gates have proved of a request that passed them.
UserCleared(ps, q) == AsksUser(ps, q) => q.user # None
RoleCleared(ps, q) ==
  SvcOf(ps, q).role # None =>
    \E v \in 1 .. Len(ps) :
      /\ <<"auth", v>> \in q.was
      /\ ps[v].getter # None /\ ps[v].getter[q.user] = SvcOf(ps, q).role
OwnerCleared(ps, q) == SvcOf(ps, q).owner => <<"owner">> \in q.was

Writing(q) == q.pc = "run" \/ (q.wrote > 0 /\ q.pc # "done")

GatesPassed(ps, q) ==
  /\ q.pc = "loader" \/ Writing(q) => UserCleared(ps, q) /\ RoleCleared(ps, q)
  /\ Writing(q) => Served(ps, q) /\ OwnerCleared(ps, q)

\* Until it ends, the answer fits what was written.
Answered(q) ==
  /\ q.status \in 400 .. 429 => q.wrote = 0
  /\ q.pc = "respond" /\ q.status = 200 /\ q.svc # None => q.wrote = Writes

RequestInv(ps, q) == OnItsWay(ps, q) /\ UserSeen(q) /\ GatesPassed(ps, q) /\ Answered(q)

\* An entry of the log is about a request that ended with the status it was answered.
LoggedAs(e, q) ==
  /\ q.pc = "done" /\ q.path # "internal" /\ q.status = e.status
  /\ q.status = 200 /\ q.svc # None => q.wrote = Writes

LogInv == \A i \in DOMAIN recorded : LoggedAs(recorded[i], req[recorded[i].id])

CountInv ==
  /\ inFlight = Cardinality(Open)
  /\ total = Cardinality(Open) + Cardinality(Closed)

IInv ==
  /\ TypeOK
  /\ \A r \in Request : RequestInv(programs, req[r])
  /\ LogInv
  /\ RingInv
  /\ CountInv

-----------------------------------------------------------------------------
\* What a step adds to what the requests have seen.

SeenBy(r, q) ==
  IF r \notin Running \/ q.token = None THEN q ELSE [q EXCEPT !.was = @ \cup Facts(q.token)]

LEMMA FactsTyped ==
  ASSUME TypeOK, NEW u \in User
  PROVE  /\ Facts(u) \in SUBSET Fact
         /\ u \in session => <<"session">> \in Facts(u)
         /\ row[u] # None => <<"role", row[u]>> \in Facts(u)
         /\ owner = u => <<"owner">> \in Facts(u)
         /\ <<"auth", regAuth>> \in Facts(u)
  <1>1. regAuth \in Nat /\ row[u] \in Role \cup {None}
    BY DEF TypeOK
  <1>2. QED
    BY <1>1 DEF Facts, Fact

LEMMA SeenFields ==
  ASSUME TypeOK, NEW r \in Request, NEW q \in RequestState
  PROVE  LET s == SeenBy(r, q) IN
         /\ s \in RequestState
         /\ s.pc = q.pc /\ s.path = q.path /\ s.token = q.token /\ s.svc = q.svc
         /\ s.user = q.user /\ s.wrote = q.wrote /\ s.status = q.status
         /\ q.was \subseteq s.was
         /\ r \in Running /\ q.token # None => Facts(q.token) \subseteq s.was
  <1>1. CASE r \notin Running \/ q.token = None
    BY <1>1 DEF SeenBy
  <1>2. CASE r \in Running /\ q.token # None
    <2>1. q.token \in User /\ q.was \subseteq Fact
      BY <1>2 DEF RequestState
    <2>2. Facts(q.token) \subseteq Fact
      BY <2>1, FactsTyped
    <2>3. SeenBy(r, q) = [q EXCEPT !.was = q.was \cup Facts(q.token)]
      BY <1>2 DEF SeenBy
    <2>4. q.was \cup Facts(q.token) \in SUBSET Fact
      BY <2>1, <2>2
    <2> DEFINE w == q.was \cup Facts(q.token)
    <2> HIDE DEF w
    <2>5. ASSUME w \in SUBSET Fact
          PROVE  LET s == [q EXCEPT !.was = w] IN
                 /\ s \in RequestState
                 /\ s.pc = q.pc /\ s.path = q.path /\ s.token = q.token /\ s.svc = q.svc
                 /\ s.user = q.user /\ s.wrote = q.wrote /\ s.status = q.status
                 /\ s.was = w
      BY <2>5 DEF RequestState
    <2>6. QED
      BY <2>3, <2>4, <2>5 DEF w
  <1>3. QED
    BY <1>1, <1>2

\* More facts never hurt.
LEMMA SeenKeeps ==
  ASSUME TypeOK, NEW r \in Request, NEW q \in RequestState, RequestInv(programs, q)
  PROVE  RequestInv(programs, SeenBy(r, q))
  <1> DEFINE s == SeenBy(r, q)
  <1>1. /\ s.pc = q.pc /\ s.path = q.path /\ s.token = q.token /\ s.svc = q.svc
        /\ s.user = q.user /\ s.wrote = q.wrote /\ s.status = q.status
        /\ q.was \subseteq s.was
    BY SeenFields
  <1> HIDE DEF s
  <1>2. OnItsWay(programs, s)
    BY <1>1 DEF RequestInv, OnItsWay, Served, AsksUser, SvcOf
  <1>3. UserSeen(s) /\ Answered(s)
    BY <1>1 DEF RequestInv, UserSeen, Answered
  <1>4. GatesPassed(programs, s)
    BY <1>1 DEF RequestInv, GatesPassed, UserCleared, RoleCleared, OwnerCleared, AsksUser, SvcOf,
                Writing, Served
  <1>5. QED
    BY <1>2, <1>3, <1>4 DEF RequestInv, s

\* A step of one request: the others only see more.
LEMMA StepFacts ==
  ASSUME TypeOK, NEW r \in Request, NEW new \in RequestState, Step(r, new)
  PROVE  /\ req' \in [Request -> RequestState]
         /\ req'[r] = SeenBy(r, new)
         /\ \A p \in Request \ {r} : req'[p] = SeenBy(p, req[p])
  <1>1. req \in [Request -> RequestState]
    BY DEF TypeOK
  <1>2. req' = [p \in Request |-> SeenBy(p, [req EXCEPT ![r] = new][p])]
    BY DEF Step, Witness, SeenBy
  <1>3. req'[r] = SeenBy(r, new) /\ \A p \in Request \ {r} : req'[p] = SeenBy(p, req[p])
    BY <1>1, <1>2
  <1>4. \A p \in Request : [req EXCEPT ![r] = new][p] \in RequestState
    BY <1>1
  <1>5. QED
    BY <1>2, <1>3, <1>4, SeenFields

LEMMA WitnessFacts ==
  ASSUME TypeOK, req' = Witness(req)
  PROVE  /\ req' \in [Request -> RequestState]
         /\ \A p \in Request : req'[p] = SeenBy(p, req[p])
  <1>1. req' = [p \in Request |-> SeenBy(p, req[p])]
    BY DEF Witness, SeenBy
  <1>2. \A p \in Request : req[p] \in RequestState
    BY DEF TypeOK
  <1>3. QED
    BY <1>1, <1>2, SeenFields

\* What a request has become when it has moved on, been answered or loaded something,
\* and has seen what there was to see meanwhile.
Became(r, n) ==
  LET q == req[r]
      s == SeenBy(r, n)
  IN
  /\ n \in RequestState /\ s \in RequestState
  /\ s.pc = n.pc /\ s.path = n.path /\ s.token = n.token /\ s.svc = n.svc
  /\ s.user = n.user /\ s.wrote = n.wrote /\ s.status = n.status
  /\ q.was \subseteq s.was
  /\ q.pc \notin {"new", "respond", "unwind", "done"} /\ q.token # None =>
       Facts(q.token) \subseteq s.was

LEMMA BecameFacts ==
  ASSUME TypeOK, NEW r \in Request, NEW n \in RequestState,
         n.was = req[r].was, n.token = req[r].token
  PROVE  Became(r, n)
  BY SeenFields DEF Became, Running

LEMMA Moved ==
  ASSUME TypeOK, NEW r \in Request, NEW x \in Pc
  PROVE  LET q == req[r]
             n == [q EXCEPT !.pc = x]
         IN  /\ Became(r, n)
             /\ n.pc = x /\ n.path = q.path /\ n.token = q.token /\ n.svc = q.svc
             /\ n.user = q.user /\ n.wrote = q.wrote /\ n.status = q.status
  <1> DEFINE q == req[r]
             n == [q EXCEPT !.pc = x]
  <1>1. q \in RequestState
    BY DEF TypeOK
  <1>2. /\ n \in RequestState /\ n.was = q.was
        /\ n.pc = x /\ n.path = q.path /\ n.token = q.token /\ n.svc = q.svc
        /\ n.user = q.user /\ n.wrote = q.wrote /\ n.status = q.status
    BY <1>1 DEF RequestState
  <1>3. QED
    BY <1>2, BecameFacts

LEMMA AnsweredWith ==
  ASSUME TypeOK, NEW r \in Request, NEW status \in Nat
  PROVE  LET q == req[r]
             n == Answer(q, status)
         IN  /\ Became(r, n)
             /\ n.pc = "respond" /\ n.path = q.path /\ n.token = q.token /\ n.svc = q.svc
             /\ n.user = q.user /\ n.wrote = q.wrote /\ n.status = status
  <1> DEFINE q == req[r]
             n == [q EXCEPT !.pc = "respond", !.status = status]
  <1>1. q \in RequestState
    BY DEF TypeOK
  <1>2. /\ n \in RequestState /\ n.was = q.was
        /\ n.pc = "respond" /\ n.path = q.path /\ n.token = q.token /\ n.svc = q.svc
        /\ n.user = q.user /\ n.wrote = q.wrote /\ n.status = status
    BY <1>1 DEF RequestState, Pc
  <1>3. QED
    BY <1>2, BecameFacts DEF Answer

\* A request is open or closed by where it is and what it is for.
LEMMA OpenClosed ==
  /\ Open = {p \in Request : req[p].pc \notin {"new", "done"} /\ req[p].path # "internal"}
  /\ Closed = {p \in Request : req[p].pc = "done" /\ req[p].path # "internal"}
  /\ Open' = {p \in Request : req'[p].pc \notin {"new", "done"} /\ req'[p].path # "internal"}
  /\ Closed' = {p \in Request : req'[p].pc = "done" /\ req'[p].path # "internal"}
  BY DEF Open, Closed, Internal

LEMMA Countable ==
  ASSUME Distinct
  PROVE  /\ IsFiniteSet(Open) /\ Cardinality(Open) \in Nat
         /\ IsFiniteSet(Closed) /\ Cardinality(Closed) \in Nat
  <1>1. Open \in SUBSET Request /\ Closed \in SUBSET Request
    BY DEF Open, Closed
  <1>2. QED
    BY <1>1, FS_Subset, FS_CardinalityType DEF Distinct

\* The other requests' entries of the log stay true.
LEMMA LogKept ==
  ASSUME TypeOK, LogInv, RingInv, NEW r \in Request, req[r].pc # "done",
         recorded' = recorded,
         \A p \in Request \ {r} : req'[p] = SeenBy(p, req[p])
  PROVE  LogInv'
  <1> SUFFICES ASSUME NEW i \in DOMAIN recorded
               PROVE  LoggedAs(recorded[i], req'[recorded[i].id])
    BY DEF LogInv
  <1> DEFINE p == recorded[i].id
  <1>1. recorded[i] \in Entry
    BY DEF RingInv, Log!LogTypeOK
  <1>2. p \in Request
    BY <1>1 DEF Entry
  <1>3. LoggedAs(recorded[i], req[p])
    BY DEF LogInv
  <1>4. p # r
    BY <1>3 DEF LoggedAs
  <1>5. req[p] \in RequestState
    BY <1>2 DEF TypeOK
  <1>6. QED
    BY <1>2, <1>3, <1>4, <1>5, SeenFields DEF LoggedAs

-----------------------------------------------------------------------------
\* A step in the middle of a request keeps the invariant if its own request keeps its own.
LEMMA InnerStep ==
  ASSUME Distinct, IInv, NEW r \in Request, NEW n \in RequestState, Step(r, n),
         req[r].pc \notin {"new", "done"}, n.pc \notin {"new", "done"}, n.path = req[r].path,
         RequestInv(programs, SeenBy(r, n)),
         UNCHANGED <<program, world, counters, log>>
  PROVE  IInv'
  <1>1. TypeOK /\ LogInv /\ RingInv
    BY DEF IInv
  <1>2. /\ req' \in [Request -> RequestState]
        /\ req'[r] = SeenBy(r, n)
        /\ \A p \in Request \ {r} : req'[p] = SeenBy(p, req[p])
    BY <1>1, StepFacts
  <1>3. \A p \in Request : req[p] \in RequestState
    BY <1>1 DEF TypeOK
  <1>4. TypeOK'
    BY <1>1, <1>2 DEF TypeOK, program, world, counters
  <1>5. \A p \in Request : RequestInv(programs, req'[p])
    BY <1>1, <1>2, <1>3, SeenKeeps DEF IInv
  <1>6. LogInv'
    BY <1>1, <1>2, LogKept DEF log
  <1>7. RingInv'
    BY <1>1 DEF log, RingInv, Log!LogTypeOK, Growing, Wrapped,
                Slot, SlotAt
  <1>8. \A p \in Request : /\ req'[p].path = req[p].path
                           /\ req'[p].pc \in {"new", "done"} <=> req[p].pc \in {"new", "done"}
                           /\ req'[p].pc = "done" <=> req[p].pc = "done"
    BY <1>1, <1>2, <1>3, SeenFields
  <1>9. Open' = Open /\ Closed' = Closed
    BY <1>8, OpenClosed
  <1>10. CountInv'
    BY <1>9 DEF IInv, CountInv, counters
  <1>11. QED
    BY <1>4, <1>5, <1>6, <1>7, <1>10 DEF IInv, program


\* s is what request r may be after it moved to step x with nothing else changed, or was
\* answered.
Follows(r, s) ==
  LET q == req[r] IN
  /\ s.path = q.path /\ s.token = q.token /\ s.svc = q.svc /\ s.user = q.user
  /\ s.wrote = q.wrote
  /\ q.was \subseteq s.was
  /\ q.pc \notin {"new", "respond", "unwind", "done"} /\ q.token # None =>
       Facts(q.token) \subseteq s.was

LEMMA MoveStep ==
  ASSUME Distinct, IInv, NEW r \in Request, NEW x \in Pc \ {"new", "done"},
         req[r].pc \notin {"new", "done"}, Step(r, [req[r] EXCEPT !.pc = x]),
         UNCHANGED <<program, world, counters, log>>,
         \A s \in RequestState : Follows(r, s) /\ s.pc = x /\ s.status = req[r].status =>
           RequestInv(programs, s)
  PROVE  IInv'
  <1> DEFINE n == [req[r] EXCEPT !.pc = x]
  <1>1. TypeOK
    BY DEF IInv
  <1>2. /\ Became(r, n) /\ n.pc = x /\ n.path = req[r].path /\ n.token = req[r].token
        /\ n.svc = req[r].svc /\ n.user = req[r].user /\ n.wrote = req[r].wrote
        /\ n.status = req[r].status
    BY <1>1, Moved
  <1>3. Step(r, n)
    OBVIOUS
  <1> HIDE DEF n
  <1>4. n \in RequestState /\ SeenBy(r, n) \in RequestState /\ Follows(r, SeenBy(r, n))
        /\ SeenBy(r, n).pc = x /\ SeenBy(r, n).status = req[r].status
    BY <1>2 DEF Became, Follows
  <1>5. RequestInv(programs, SeenBy(r, n))
    BY <1>4
  <1>6. QED
    BY <1>2, <1>3, <1>4, <1>5, InnerStep

LEMMA AnswerStep ==
  ASSUME Distinct, IInv, NEW r \in Request, NEW status \in Nat,
         req[r].pc \notin {"new", "done"}, Step(r, Answer(req[r], status)),
         UNCHANGED <<program, world, counters, log>>,
         \A s \in RequestState : Follows(r, s) /\ s.pc = "respond" /\ s.status = status =>
           RequestInv(programs, s)
  PROVE  IInv'
  <1> DEFINE n == Answer(req[r], status)
  <1>1. TypeOK
    BY DEF IInv
  <1>2. /\ Became(r, n) /\ n.pc = "respond" /\ n.path = req[r].path /\ n.token = req[r].token
        /\ n.svc = req[r].svc /\ n.user = req[r].user /\ n.wrote = req[r].wrote
        /\ n.status = status
    BY <1>1, AnsweredWith
  <1>3. Step(r, n)
    OBVIOUS
  <1> HIDE DEF n
  <1>4. n \in RequestState /\ SeenBy(r, n) \in RequestState /\ Follows(r, SeenBy(r, n))
        /\ SeenBy(r, n).pc = "respond" /\ SeenBy(r, n).status = status
    BY <1>2 DEF Became, Follows
  <1>5. RequestInv(programs, SeenBy(r, n))
    BY <1>4
  <1>6. QED
    BY <1>2, <1>3, <1>4, <1>5, InnerStep

\* A request may be refused at any step, as long as it is not told so after it wrote.
LEMMA RefuseStep ==
  ASSUME Distinct, IInv, NEW r \in Request, NEW status \in Nat \ {200},
         req[r].pc \in {"limit", "dispatch", "body", "gate", "loader", "run"},
         status \in 400 .. 429 => req[r].wrote = 0,
         Step(r, Answer(req[r], status)), UNCHANGED <<program, world, counters, log>>
  PROVE  IInv'
  <1>1. RequestInv(programs, req[r])
    BY DEF IInv
  <1>2. ASSUME NEW s \in RequestState, Follows(r, s), s.pc = "respond", s.status = status
        PROVE  RequestInv(programs, s)
    <2>1. OnItsWay(programs, s)
      BY <1>1, <1>2 DEF Follows, RequestInv, OnItsWay, Served, SvcOf
    <2>2. UserSeen(s) /\ Answered(s)
      BY <1>1, <1>2 DEF Follows, RequestInv, UserSeen, Answered
    <2>3. Writing(s) => req[r].pc = "run"
      BY <1>1, <1>2 DEF Follows, RequestInv, OnItsWay, Writing, RequestState
    <2>4. GatesPassed(programs, s)
      BY <1>1, <1>2, <2>3 DEF Follows, RequestInv, GatesPassed, Writing, UserCleared, RoleCleared,
                              OwnerCleared, AsksUser, Served, SvcOf
    <2>5. QED
      BY <2>1, <2>2, <2>4 DEF RequestInv
  <1>3. QED
    BY <1>2, AnswerStep

LEMMA RouteStep ==
  ASSUME Distinct, IInv, NEW r \in Request, Route(r)
  PROVE  IInv'
  <1>1. RequestInv(programs, req[r]) /\ req[r].pc = "route"
        /\ UNCHANGED <<program, world, counters, log>>
    BY DEF IInv, Route
  <1>2. CASE Step(r, [req[r] EXCEPT !.pc = "limit"])
    <2>1. \A s \in RequestState : Follows(r, s) /\ s.pc = "limit" /\ s.status = req[r].status =>
            RequestInv(programs, s)
      BY <1>1 DEF Follows, RequestInv, OnItsWay, UserSeen, GatesPassed, Answered, Writing
    <2>2. QED
      BY <1>1, <1>2, <2>1, MoveStep DEF Pc
  <1>3. CASE Step(r, Answer(req[r], 200))
    <2>1. \A s \in RequestState : Follows(r, s) /\ s.pc = "respond" /\ s.status = 200 =>
            RequestInv(programs, s)
      BY <1>1 DEF Follows, RequestInv, OnItsWay, UserSeen, GatesPassed, Answered, Writing
    <2>2. QED
      BY <1>1, <1>3, <2>1, AnswerStep
  <1>4. QED
    BY <1>2, <1>3 DEF Route

LEMMA RateLimitStep ==
  ASSUME Distinct, IInv, NEW r \in Request, RateLimit(r)
  PROVE  IInv'
  <1>1. RequestInv(programs, req[r]) /\ req[r].pc = "limit"
        /\ UNCHANGED <<program, world, counters, log>>
    BY DEF IInv, RateLimit
  <1>2. CASE Step(r, [req[r] EXCEPT !.pc = "dispatch"])
    <2>1. \A s \in RequestState : Follows(r, s) /\ s.pc = "dispatch" /\ s.status = req[r].status =>
            RequestInv(programs, s)
      BY <1>1 DEF Follows, RequestInv, OnItsWay, UserSeen, GatesPassed, Answered, Writing
    <2>2. QED
      BY <1>1, <1>2, <2>1, MoveStep DEF Pc
  <1>3. CASE Step(r, Answer(req[r], 429))
    <2>1. req[r].wrote = 0
      BY <1>1 DEF RequestInv, OnItsWay
    <2>2. QED
      BY <1>1, <1>3, <2>1, RefuseStep
  <1>4. QED
    BY <1>2, <1>3 DEF RateLimit

LEMMA DispatchStep ==
  ASSUME Distinct, IInv, NEW r \in Request, Dispatch(r)
  PROVE  IInv'
  <1> DEFINE q == req[r]
  <1>1. /\ RequestInv(programs, q) /\ q.pc = "dispatch" /\ q \in RequestState
        /\ lp \in 1 .. Len(programs) /\ TypeOK
        /\ UNCHANGED <<program, world, counters, log>>
    BY DEF IInv, Dispatch, TypeOK
  <1>2. CASE Matches(q.path, lp)
    <2> DEFINE n == [q EXCEPT !.pc = "body", !.svc = lp]
    <2>1. /\ n \in RequestState /\ n.was = q.was /\ n.pc = "body" /\ n.path = q.path
          /\ n.token = q.token /\ n.svc = lp /\ n.user = q.user /\ n.wrote = q.wrote
          /\ n.status = q.status
      <3>1. lp \in Nat
        BY <1>1 DEF TypeOK
      <3>2. QED
        BY <1>1, <3>1 DEF RequestState, Pc
    <2>2. Step(r, n)
      BY <1>2 DEF Dispatch
    <2> HIDE DEF n
    <2>3. Became(r, n)
      BY <1>1, <2>1, BecameFacts
    <2>4. q.path = "api" /\ programs[lp].svc # None
      BY <1>2 DEF Matches, Svc
    <2>5. RequestInv(programs, SeenBy(r, n))
      BY <1>1, <2>1, <2>3, <2>4
      DEF Became, RequestInv, OnItsWay, Served, SvcOf, UserSeen, GatesPassed, Answered, Writing
    <2>6. QED
      BY <1>1, <2>1, <2>2, <2>5, InnerStep
  <1>3. ASSUME NEW status \in {200, 404}, Step(r, Answer(q, status))
        PROVE  IInv'
    <2>1. \A s \in RequestState : Follows(r, s) /\ s.pc = "respond" /\ s.status = status =>
            RequestInv(programs, s)
      BY <1>1, <1>3 DEF Follows, RequestInv, OnItsWay, UserSeen, GatesPassed, Answered, Writing
    <2>2. QED
      BY <1>1, <1>3, <2>1, AnswerStep
  <1>4. QED
    BY <1>2, <1>3 DEF Dispatch

LEMMA ReadBodyStep ==
  ASSUME Distinct, IInv, NEW r \in Request, ReadBody(r)
  PROVE  IInv'
  <1>1. RequestInv(programs, req[r]) /\ req[r].pc = "body"
        /\ UNCHANGED <<program, world, counters, log>>
    BY DEF IInv, ReadBody
  <1>2. CASE Step(r, [req[r] EXCEPT !.pc = IF RequiresUser(Svc(req[r].svc)) THEN "session" ELSE "gate"])
    <2> DEFINE x == IF RequiresUser(Svc(req[r].svc)) THEN "session" ELSE "gate"
    <2>1. ASSUME NEW s \in RequestState, Follows(r, s), s.pc = x, s.status = req[r].status
          PROVE  RequestInv(programs, s)
      BY <1>1, <2>1 DEF Follows, RequestInv, OnItsWay, Served, AsksUser, SvcOf, Svc, UserSeen,
                        GatesPassed, Answered, Writing
    <2>2. x \in Pc \ {"new", "done"}
      BY DEF Pc
    <2>3. Step(r, [req[r] EXCEPT !.pc = x])
      BY <1>2
    <2> HIDE DEF x
    <2>4. QED
      BY <1>1, <2>1, <2>2, <2>3, MoveStep
  <1>3. ASSUME NEW status \in {400, 413}, Step(r, Answer(req[r], status))
        PROVE  IInv'
    <2>1. req[r].wrote = 0
      BY <1>1 DEF RequestInv, OnItsWay
    <2>2. QED
      BY <1>1, <1>3, <2>1, RefuseStep
  <1>4. QED
    BY <1>2, <1>3 DEF ReadBody

LEMMA LoadSessionStep ==
  ASSUME Distinct, IInv, NEW r \in Request, LoadSession(r)
  PROVE  IInv'
  <1>1. /\ RequestInv(programs, req[r]) /\ req[r].pc = "session" /\ TypeOK
        /\ UNCHANGED <<program, world, counters, log>>
    BY DEF IInv, LoadSession
  <1> DEFINE x == IF req[r].token \in session THEN "user" ELSE "gate"
  <1>2. req[r].token \in session => req[r].token \in User /\ req[r].token # None
    BY <1>1 DEF TypeOK, Distinct
  <1>3. req[r].token \in session => <<"session">> \in Facts(req[r].token)
    BY <1>1, <1>2, FactsTyped
  <1>4. ASSUME NEW s \in RequestState, Follows(r, s), s.pc = x, s.status = req[r].status
        PROVE  RequestInv(programs, s)
    BY <1>1, <1>2, <1>3, <1>4 DEF Follows, RequestInv, OnItsWay, Served, AsksUser, SvcOf, UserSeen,
                                  GatesPassed, Answered, Writing
  <1>5. x \in Pc \ {"new", "done"} /\ Step(r, [req[r] EXCEPT !.pc = x])
    BY DEF Pc, LoadSession
  <1> HIDE DEF x
  <1>6. QED
    BY <1>1, <1>4, <1>5, MoveStep

LEMMA LoadUserStep ==
  ASSUME Distinct, IInv, NEW r \in Request, LoadUser(r)
  PROVE  IInv'
  <1> DEFINE q == req[r]
             n == [q EXCEPT !.pc = "gate", !.user = row[q.token]]
  <1>1. /\ RequestInv(programs, q) /\ q.pc = "user" /\ q \in RequestState /\ TypeOK
        /\ UNCHANGED <<program, world, counters, log>> /\ Step(r, n)
    BY DEF IInv, LoadUser, TypeOK
  <1>2. q.token \in User /\ q.token # None /\ row[q.token] \in Role \cup {None}
    BY <1>1 DEF RequestInv, OnItsWay, Distinct, TypeOK
  <1>3. row[q.token] # None => <<"role", row[q.token]>> \in Facts(q.token)
    BY <1>1, <1>2, FactsTyped
  <1>4. /\ n \in RequestState /\ n.was = q.was /\ n.pc = "gate" /\ n.path = q.path
        /\ n.token = q.token /\ n.svc = q.svc /\ n.user = row[q.token] /\ n.wrote = q.wrote
        /\ n.status = q.status
    BY <1>1, <1>2 DEF RequestState, Pc
  <1> HIDE DEF n
  <1>5. Became(r, n)
    BY <1>1, <1>4, BecameFacts
  <1>6. RequestInv(programs, SeenBy(r, n))
    BY <1>1, <1>2, <1>3, <1>4, <1>5
    DEF Became, RequestInv, OnItsWay, Served, SvcOf, AsksUser, UserSeen, GatesPassed, Answered, Writing
  <1>7. QED
    BY <1>1, <1>4, <1>6, InnerStep

\* A getter that lets a user pass a gate is registered, and gives the role asked for.
LEMMA GatePassed ==
  ASSUME NEW q, GateStatus(q) = 0
  PROVE  /\ RequiresUser(Svc(q.svc)) => q.user # None
         /\ Svc(q.svc).role # None =>
              Getter # None /\ Getter[q.user] = Svc(q.svc).role
  <1>1. RequiresUser(Svc(q.svc)) => q.user # None /\ RoleStatus(q) = 0
    BY DEF GateStatus
  <1>2. Svc(q.svc).role # None => RequiresUser(Svc(q.svc))
    BY DEF RequiresUser
  <1>3. ASSUME Svc(q.svc).role # None, RoleStatus(q) = 0
        PROVE  Getter # None /\ Getter[q.user] = Svc(q.svc).role
    BY <1>3 DEF RoleStatus
  <1>4. QED
    BY <1>1, <1>2, <1>3

LEMMA GateStep ==
  ASSUME Distinct, IInv, NEW r \in Request, Gate(r)
  PROVE  IInv'
  <1> DEFINE q == req[r]
  <1>1. /\ RequestInv(programs, q) /\ q.pc = "gate" /\ TypeOK /\ q \in RequestState
        /\ UNCHANGED <<program, world, counters, log>>
    BY DEF IInv, Gate, TypeOK
  <1>2. q.wrote = 0 /\ Served(programs, q)
    BY <1>1 DEF RequestInv, OnItsWay
  <1>3. CASE /\ GateStatus(q) = 0
             /\ Step(r, [q EXCEPT !.pc = IF Svc(q.svc).owner THEN "loader" ELSE "run"])
    <2> DEFINE x == IF Svc(q.svc).owner THEN "loader" ELSE "run"
    <2>1. AsksUser(programs, q) => q.user # None
      BY <1>3, GatePassed DEF AsksUser, SvcOf, Svc
    <2>2. SvcOf(programs, q).role # None =>
            /\ AsksUser(programs, q)
            /\ programs[regAuth].getter # None
            /\ programs[regAuth].getter[q.user] = SvcOf(programs, q).role
      BY <1>3, GatePassed DEF AsksUser, RequiresUser, SvcOf, Svc, Getter
    <2>3. q.user # None => q.token # None /\ <<"auth", regAuth>> \in Facts(q.token)
      BY <1>1, FactsTyped DEF RequestInv, UserSeen, Distinct
    <2>4. ASSUME NEW s \in RequestState, Follows(r, s), s.pc = x, s.status = q.status
          PROVE  RequestInv(programs, s)
      <3>1. OnItsWay(programs, s)
        BY <1>1, <1>2, <2>4 DEF Follows, RequestInv, OnItsWay, Served, SvcOf
      <3>2. UserSeen(s) /\ Answered(s)
        BY <1>1, <1>2, <2>4 DEF Follows, RequestInv, UserSeen, Answered
      <3>3. UserCleared(programs, s)
        BY <2>1, <2>4 DEF Follows, UserCleared, AsksUser, SvcOf
      <3>4. RoleCleared(programs, s)
        <4> SUFFICES ASSUME SvcOf(programs, s).role # None
                     PROVE  /\ <<"auth", regAuth>> \in s.was
                            /\ programs[regAuth].getter # None
                            /\ programs[regAuth].getter[s.user] = SvcOf(programs, s).role
          BY <1>1 DEF RoleCleared, TypeOK
        <4>1. SvcOf(programs, s) = SvcOf(programs, q) /\ s.user = q.user
          BY <2>4 DEF Follows, SvcOf
        <4>2. q.user # None
          BY <2>1, <2>2, <4>1
        <4>3. <<"auth", regAuth>> \in s.was
          BY <1>1, <2>3, <2>4, <4>2 DEF Follows
        <4>4. QED
          BY <2>2, <4>1, <4>3
      <3>5. GatesPassed(programs, s)
        BY <1>2, <2>4, <3>3, <3>4 DEF GatesPassed, Writing, Served, OwnerCleared, Follows, SvcOf, Svc
      <3>6. QED
        BY <3>1, <3>2, <3>5 DEF RequestInv
    <2>5. x \in Pc \ {"new", "done"} /\ Step(r, [q EXCEPT !.pc = x])
      BY <1>3 DEF Pc
    <2> HIDE DEF x
    <2>6. QED
      BY <1>1, <2>4, <2>5, MoveStep
  <1>4. ASSUME NEW status \in {422, 401, 403, 500}, Step(r, Answer(q, status))
        PROVE  IInv'
    BY <1>1, <1>2, <1>4, RefuseStep
  <1>5. GateStatus(q) \in {0, 401, 403, 500}
    BY DEF GateStatus, RoleStatus
  <1>6. QED
    BY <1>3, <1>4, <1>5 DEF Gate

LEMMA LoadStep ==
  ASSUME Distinct, IInv, NEW r \in Request, Load(r)
  PROVE  IInv'
  <1> DEFINE q == req[r]
  <1>1. /\ RequestInv(programs, q) /\ q.pc = "loader" /\ TypeOK /\ q \in RequestState
        /\ UNCHANGED <<program, world, counters, log>>
    BY DEF IInv, Load, TypeOK
  <1>2. q.wrote = 0 /\ Served(programs, q)
    BY <1>1 DEF RequestInv, OnItsWay
  <1>3. CASE owner = q.token /\ Step(r, [q EXCEPT !.pc = "run"])
    <2>1. SvcOf(programs, q).owner => q.user # None
      BY <1>1 DEF RequestInv, GatesPassed, UserCleared, AsksUser, RequiresUser
    <2>2. q.user # None => q.token # None /\ <<"owner">> \in Facts(q.token)
      BY <1>1, <1>3, FactsTyped DEF RequestInv, UserSeen, Distinct
    <2>3. ASSUME NEW s \in RequestState, Follows(r, s), s.pc = "run", s.status = q.status
          PROVE  RequestInv(programs, s)
      <3>1. OnItsWay(programs, s)
        BY <1>1, <1>2, <2>3 DEF Follows, RequestInv, OnItsWay, Served, SvcOf
      <3>2. UserSeen(s) /\ Answered(s)
        BY <1>1, <1>2, <2>3 DEF Follows, RequestInv, UserSeen, Answered
      <3>3. OwnerCleared(programs, s)
        BY <1>1, <2>1, <2>2, <2>3 DEF Follows, OwnerCleared, SvcOf
      <3>4. GatesPassed(programs, s)
        BY <1>1, <1>2, <2>3, <3>3 DEF Follows, RequestInv, GatesPassed, Writing, UserCleared,
                                      RoleCleared, AsksUser, Served, SvcOf
      <3>5. QED
        BY <3>1, <3>2, <3>4 DEF RequestInv
    <2>4. QED
      BY <1>1, <1>3, <2>3, MoveStep DEF Pc
  <1>4. ASSUME NEW status \in {403, 404, 500}, Step(r, Answer(q, status))
        PROVE  IInv'
    BY <1>1, <1>2, <1>4, RefuseStep
  <1>5. QED
    BY <1>3, <1>4 DEF Load

\* What a step of a running handler keeps.
LEMMA RunKeeps ==
  ASSUME NEW q, NEW s, RequestInv(programs, q), q.pc = "run",
         s.path = q.path, s.token = q.token, s.svc = q.svc, s.user = q.user,
         q.was \subseteq s.was, s.wrote <= Writes,
         s.pc \in {"run", "respond", "unwind"},
         s.pc # "respond" => s.status = 0,
         s.status \in 400 .. 429 => s.wrote = 0,
         s.status = 200 => s.wrote = Writes
  PROVE  RequestInv(programs, s)
  <1>1. OnItsWay(programs, s)
    BY DEF RequestInv, OnItsWay, Served, SvcOf
  <1>2. UserSeen(s) /\ Answered(s)
    BY DEF RequestInv, UserSeen, Answered
  <1>3. GatesPassed(programs, s)
    BY DEF RequestInv, GatesPassed, Writing, UserCleared, RoleCleared, OwnerCleared, AsksUser,
           Served, SvcOf
  <1>4. QED
    BY <1>1, <1>2, <1>3 DEF RequestInv

LEMMA WriteStep ==
  ASSUME Distinct, ServerAssumption, IInv, NEW r \in Request, Write(r)
  PROVE  IInv'
  <1> DEFINE q == req[r]
             n == [q EXCEPT !.wrote = @ + 1]
  <1>1. /\ RequestInv(programs, q) /\ q.pc = "run" /\ TypeOK /\ q \in RequestState
        /\ q.wrote < Writes /\ q.wrote \in Nat /\ Writes \in Nat
        /\ UNCHANGED <<program, world, counters, log>>
    BY DEF IInv, Write, TypeOK, RequestState, ServerAssumption
  <1>2. CASE Step(r, n)
    <2>1. /\ n \in RequestState /\ n.was = q.was /\ n.pc = "run" /\ n.path = q.path
          /\ n.token = q.token /\ n.svc = q.svc /\ n.user = q.user /\ n.wrote = q.wrote + 1
          /\ n.status = q.status
      BY <1>1 DEF RequestState
    <2> HIDE DEF n
    <2>2. Became(r, n)
      BY <1>1, <2>1, BecameFacts
    <2>3. q.status = 0
      BY <1>1 DEF RequestInv, OnItsWay
    <2>4. RequestInv(programs, SeenBy(r, n))
      BY <1>1, <2>1, <2>2, <2>3, RunKeeps DEF Became
    <2>5. QED
      BY <1>1, <1>2, <2>1, <2>4, InnerStep
  <1>3. CASE Step(r, Answer(q, 500))
    BY <1>1, <1>3, RefuseStep
  <1>4. QED
    BY <1>2, <1>3 DEF Write

LEMMA EncodeStep ==
  ASSUME Distinct, IInv, NEW r \in Request, Encode(r)
  PROVE  IInv'
  <1>1. /\ RequestInv(programs, req[r]) /\ req[r].pc = "run" /\ req[r].wrote = Writes
        /\ UNCHANGED <<program, world, counters, log>>
    BY DEF IInv, Encode
  <1>2. CASE Step(r, Answer(req[r], 500))
    BY <1>1, <1>2, RefuseStep
  <1>3. CASE Step(r, Answer(req[r], 200))
    <2>1. req[r].wrote <= Writes
      BY <1>1 DEF RequestInv, OnItsWay
    <2>2. ASSUME NEW s \in RequestState, Follows(r, s), s.pc = "respond", s.status = 200
          PROVE  RequestInv(programs, s)
      BY <1>1, <2>1, <2>2, RunKeeps DEF Follows
    <2>3. QED
      BY <1>1, <1>3, <2>2, AnswerStep
  <1>4. QED
    BY <1>2, <1>3 DEF Encode

LEMMA PanicsStep ==
  ASSUME Distinct, IInv, NEW r \in Request, Panics(r)
  PROVE  IInv'
  <1>1. /\ RequestInv(programs, req[r]) /\ req[r].pc \in {"gate", "loader", "run"}
        /\ UNCHANGED <<program, world, counters, log>>
        /\ Step(r, [req[r] EXCEPT !.pc = "unwind"])
    BY DEF IInv, Panics
  <1>2. ASSUME NEW s \in RequestState, Follows(r, s), s.pc = "unwind", s.status = req[r].status
        PROVE  RequestInv(programs, s)
    <2>1. OnItsWay(programs, s)
      BY <1>1, <1>2 DEF Follows, RequestInv, OnItsWay, Served, SvcOf
    <2>2. UserSeen(s) /\ Answered(s)
      BY <1>1, <1>2 DEF Follows, RequestInv, UserSeen, Answered
    <2>3. Writing(s) => Writing(req[r])
      BY <1>1, <1>2 DEF Follows, Writing
    <2>4. GatesPassed(programs, s)
      BY <1>1, <1>2, <2>3 DEF Follows, RequestInv, GatesPassed, UserCleared, RoleCleared,
                              OwnerCleared, AsksUser, Served, SvcOf
    <2>5. QED
      BY <2>1, <2>2, <2>4 DEF RequestInv
  <1>3. QED
    BY <1>1, <1>2, MoveStep DEF Pc

-----------------------------------------------------------------------------
\* Where a request begins and ends the counters move with it.

LEMMA Unseen ==
  ASSUME NEW r \in Request, req[r].pc \in {"new", "respond", "unwind", "done"}, NEW q
  PROVE  SeenBy(r, q) = q
  BY DEF SeenBy, Running

\* The parts of the invariant that do not depend on which end of a request it is.
LEMMA EndFacts ==
  ASSUME Distinct, IInv, NEW r \in Request, NEW n \in RequestState, Step(r, n),
         req[r].pc \in {"new", "respond", "unwind"}, RequestInv(programs, n),
         UNCHANGED <<program, world>>, total' \in Int, inFlight' \in Int
  PROVE  /\ TypeOK' /\ req'[r] = n
         /\ \A p \in Request \ {r} :
              /\ req'[p] = SeenBy(p, req[p])
              /\ req'[p].pc = req[p].pc /\ req'[p].path = req[p].path
         /\ \A p \in Request : RequestInv(programs', req'[p])
  <1>1. TypeOK
    BY DEF IInv
  <1>2. /\ req' \in [Request -> RequestState]
        /\ req'[r] = n
        /\ \A p \in Request \ {r} : req'[p] = SeenBy(p, req[p])
    BY <1>1, StepFacts, Unseen
  <1>3. \A p \in Request : req[p] \in RequestState
    BY <1>1 DEF TypeOK
  <1>4. TypeOK'
    BY <1>1, <1>2 DEF TypeOK, program, world
  <1>5. \A p \in Request : RequestInv(programs, req'[p])
    BY <1>1, <1>2, <1>3, SeenKeeps DEF IInv
  <1>6. \A p \in Request \ {r} : req'[p].pc = req[p].pc /\ req'[p].path = req[p].path
    BY <1>1, <1>2, <1>3, SeenFields
  <1>7. programs' = programs
    BY DEF program
  <1>8. QED
    BY <1>2, <1>4, <1>5, <1>6, <1>7

LEMMA LogUnchanged ==
  ASSUME RingInv, UNCHANGED log
  PROVE  RingInv'
  BY DEF log, RingInv, Log!LogTypeOK, Growing, Wrapped,
         Slot, SlotAt

LEMMA ArriveStep ==
  ASSUME Distinct, ServerAssumption, IInv, NEW r \in Request, NEW token \in User \cup {None},
         NEW path \in {"api", "page", "internal"}, Arrive(r, path, token)
  PROVE  IInv'
  <1> DEFINE n == [Blank EXCEPT !.path = path, !.token = token,
                                !.pc = IF Internal(path) THEN "respond"
                                       ELSE IF fullstack THEN "route" ELSE "limit",
                                !.status = IF Internal(path) THEN 200 ELSE 0]
  <1>1. TypeOK /\ LogInv /\ RingInv /\ CountInv /\ Writes \in Nat
    BY DEF IInv, ServerAssumption
  <1>2. req[r].pc = "new" /\ Step(r, n) /\ UNCHANGED <<program, world, log>>
    BY DEF Arrive
  <1>3. /\ n \in RequestState /\ n.path = path /\ n.svc = None /\ n.user = None /\ n.wrote = 0
        /\ n.pc = IF path = "internal" THEN "respond" ELSE IF fullstack THEN "route" ELSE "limit"
        /\ n.status = IF path = "internal" THEN 200 ELSE 0
    BY DEF RequestState, Blank, Internal, Pc
  <1>4. IF path = "internal" THEN UNCHANGED counters
                             ELSE total' = total + 1 /\ inFlight' = inFlight + 1
    BY DEF Arrive, Internal
  <1> HIDE DEF n
  <1>5. RequestInv(programs, n)
    BY <1>1, <1>3 DEF RequestInv, OnItsWay, UserSeen, GatesPassed, Answered, Writing
  <1>6. total' \in Int /\ inFlight' \in Int
    BY <1>1, <1>4 DEF TypeOK, counters
  <1>7. /\ TypeOK' /\ req'[r] = n
        /\ \A p \in Request \ {r} :
             /\ req'[p] = SeenBy(p, req[p])
             /\ req'[p].pc = req[p].pc /\ req'[p].path = req[p].path
        /\ \A p \in Request : RequestInv(programs', req'[p])
    BY <1>2, <1>3, <1>5, <1>6, EndFacts
  <1>8. LogInv' /\ RingInv'
    BY <1>1, <1>2, <1>7, LogKept, LogUnchanged DEF log
  <1>9. Closed' = Closed /\ r \notin Open /\ Open' = IF path = "internal" THEN Open ELSE Open \cup {r}
    BY <1>2, <1>3, <1>7, OpenClosed
  <1>10. CountInv'
    <2>1. IsFiniteSet(Open) /\ Cardinality(Open) \in Nat /\ Cardinality(Closed) \in Nat
      BY Countable
    <2>2. Cardinality(Open \cup {r}) = Cardinality(Open) + 1
      BY <1>9, <2>1, FS_AddElement
    <2>3. QED
      BY <1>1, <1>4, <1>9, <2>1, <2>2 DEF CountInv, counters
  <1>11. QED
    BY <1>7, <1>8, <1>10 DEF IInv

\* A request that ends keeps its service, what it wrote and its answer.
LEMMA EndedFields ==
  ASSUME NEW q \in RequestState
  PROVE  /\ Ended(q) \in RequestState /\ Ended(q).pc = "done" /\ Ended(q).path = q.path
         /\ Ended(q).svc = q.svc /\ Ended(q).user = None /\ Ended(q).wrote = q.wrote
         /\ Ended(q).status = q.status
  BY DEF Ended, RequestState, Pc

LEMMA EndedCounts ==
  ASSUME Distinct, CountInv, NEW r \in Request, req[r].pc \in {"respond", "unwind"},
         req'[r].pc = "done", req'[r].path = req[r].path, req[r].path # "internal",
         \A p \in Request \ {r} : req'[p].pc = req[p].pc /\ req'[p].path = req[p].path,
         inFlight' = inFlight - 1, total' = total
  PROVE  CountInv'
  <1>1. /\ Open' = Open \ {r} /\ r \in Open
        /\ Closed' = Closed \cup {r} /\ r \notin Closed
    BY OpenClosed
  <1>2. /\ IsFiniteSet(Open) /\ Cardinality(Open) \in Nat
        /\ IsFiniteSet(Closed) /\ Cardinality(Closed) \in Nat
    BY Countable
  <1>3. Cardinality(Open \ {r}) = Cardinality(Open) - 1
    BY <1>1, <1>2, FS_RemoveElement
  <1>4. Cardinality(Closed \cup {r}) = Cardinality(Closed) + 1
    BY <1>1, <1>2, FS_AddElement
  <1>5. QED
    BY <1>1, <1>2, <1>3, <1>4 DEF CountInv

LEMMA UnwindStep ==
  ASSUME Distinct, IInv, NEW r \in Request, Unwind(r)
  PROVE  IInv'
  <1>1. /\ TypeOK /\ LogInv /\ RingInv /\ CountInv /\ RequestInv(programs, req[r])
        /\ req[r] \in RequestState
    BY DEF IInv, TypeOK
  <1>2. PICK status \in {200, 500} : Step(r, Ended([req[r] EXCEPT !.status = status]))
    BY DEF Unwind
  <1> DEFINE q == [req[r] EXCEPT !.status = status]
             n == Ended(q)
  <1>3. /\ q \in RequestState /\ q.path = req[r].path /\ q.svc = req[r].svc
        /\ q.wrote = req[r].wrote /\ q.status = status
    BY <1>1 DEF RequestState
  <1>4. /\ n \in RequestState /\ n.pc = "done" /\ n.path = req[r].path /\ n.svc = req[r].svc
        /\ n.user = None /\ n.wrote = req[r].wrote /\ n.status = status
    BY <1>3, EndedFields
  <1>5. /\ req[r].pc = "unwind" /\ req[r].path = "api" /\ Step(r, n)
        /\ UNCHANGED <<program, world, log>> /\ inFlight' = inFlight - 1 /\ total' = total
    BY <1>1, <1>2 DEF Unwind, RequestInv, OnItsWay
  <1> HIDE DEF n
  <1>6. RequestInv(programs, n)
    BY <1>1, <1>4, <1>5 DEF RequestInv, OnItsWay, UserSeen, GatesPassed, Answered, Writing
  <1>7. total' \in Int /\ inFlight' \in Int
    BY <1>1, <1>5 DEF TypeOK
  <1>8. /\ TypeOK' /\ req'[r] = n
        /\ \A p \in Request \ {r} :
             /\ req'[p] = SeenBy(p, req[p])
             /\ req'[p].pc = req[p].pc /\ req'[p].path = req[p].path
        /\ \A p \in Request : RequestInv(programs', req'[p])
    BY <1>4, <1>5, <1>6, <1>7, EndFacts
  <1>9. LogInv' /\ RingInv'
    BY <1>1, <1>5, <1>8, LogKept, LogUnchanged DEF log
  <1>10. CountInv'
    BY <1>1, <1>4, <1>5, <1>8, EndedCounts
  <1>11. QED
    BY <1>8, <1>9, <1>10 DEF IInv

\* Recording one more request keeps the ring and the entries it already has.
LEMMA RecordKeeps ==
  ASSUME Log!RequestLogAssumption, RingInv, NEW e \in Entry, Log!Record(e)
  PROVE  /\ RingInv'
         /\ recorded \in Seq(Entry) /\ recorded' = Append(recorded, e)
  <1>1. recorded' = Append(recorded, e) /\ (Log!Grow(e) \/ Log!Overwrite(e))
    BY DEF Log!Record
  <1>2. recorded \in Seq(Entry)
    BY DEF RingInv, Log!LogTypeOK
  <1>3. QED
    BY <1>1, <1>2, GrowRing, OverwriteRing

LEMMA FinishStep ==
  ASSUME Distinct, Log!RequestLogAssumption, IInv, NEW r \in Request, Finish(r)
  PROVE  IInv'
  <1> DEFINE q == req[r]
             n == Ended(q)
  <1>1. /\ TypeOK /\ LogInv /\ RingInv /\ CountInv /\ RequestInv(programs, q)
        /\ q \in RequestState
    BY DEF IInv, TypeOK
  <1>2. q.pc = "respond" /\ Step(r, n) /\ UNCHANGED <<program, world>>
    BY DEF Finish
  <1>3. /\ n \in RequestState /\ n.pc = "done" /\ n.path = q.path /\ n.svc = q.svc
        /\ n.user = None /\ n.wrote = q.wrote /\ n.status = q.status
    BY <1>1, EndedFields
  <1> HIDE DEF n
  <1>4. RequestInv(programs, n)
    BY <1>1, <1>2, <1>3 DEF RequestInv, OnItsWay, UserSeen, GatesPassed, Answered, Writing
  <1>5. CASE q.path = "internal"
    <2>1. UNCHANGED <<counters, log>>
      BY <1>5 DEF Finish, Internal
    <2>2. /\ TypeOK' /\ req'[r] = n
          /\ \A p \in Request \ {r} :
               /\ req'[p] = SeenBy(p, req[p])
               /\ req'[p].pc = req[p].pc /\ req'[p].path = req[p].path
          /\ \A p \in Request : RequestInv(programs', req'[p])
      BY <1>1, <1>2, <1>3, <1>4, <2>1, EndFacts DEF TypeOK, counters
    <2>3. LogInv' /\ RingInv'
      BY <1>1, <1>2, <2>1, <2>2, LogKept, LogUnchanged DEF log
    <2>4. Open' = Open /\ Closed' = Closed
      BY <1>3, <1>5, <2>2, OpenClosed
    <2>5. QED
      BY <1>1, <2>1, <2>2, <2>3, <2>4 DEF IInv, CountInv, counters
  <1>6. CASE q.path # "internal"
    <2> DEFINE e == [id |-> r, status |-> q.status]
    <2>1. Log!Record(e) /\ inFlight' = inFlight - 1 /\ total' = total
      BY <1>6 DEF Finish, Internal
    <2>2. /\ TypeOK' /\ req'[r] = n
          /\ \A p \in Request \ {r} :
               /\ req'[p] = SeenBy(p, req[p])
               /\ req'[p].pc = req[p].pc /\ req'[p].path = req[p].path
          /\ \A p \in Request : RequestInv(programs', req'[p])
      BY <1>1, <1>2, <1>3, <1>4, <2>1, EndFacts DEF TypeOK
    <2>3. e \in Entry /\ e.id = r /\ e.status = q.status
      BY <1>1 DEF Entry, RequestState
    <2>4. RingInv' /\ recorded \in Seq(Entry) /\ recorded' = Append(recorded, e)
      BY <1>1, <2>1, <2>3, RecordKeeps
    <2> HIDE DEF e
    <2>5. LogInv'
      <3> SUFFICES ASSUME NEW i \in DOMAIN recorded'
                   PROVE  LoggedAs(recorded'[i], req'[recorded'[i].id])
        BY DEF LogInv
      <3>1. CASE i \in DOMAIN recorded
        <4>1. recorded'[i] = recorded[i] /\ recorded[i] \in Entry
          BY <2>4, <3>1
        <4>2. recorded[i].id \in Request
          BY <4>1 DEF Entry
        <4>3. LoggedAs(recorded[i], req[recorded[i].id])
          BY <1>1, <3>1 DEF LogInv
        <4>4. recorded[i].id # r
          BY <1>2, <4>3 DEF LoggedAs
        <4>5. req[recorded[i].id] \in RequestState
          BY <1>1, <4>2 DEF TypeOK
        <4>6. QED
          BY <1>1, <2>2, <4>1, <4>2, <4>3, <4>4, <4>5, SeenFields DEF LoggedAs
      <3>2. CASE i \notin DOMAIN recorded
        <4>1. recorded'[i] = e
          BY <2>4, <3>2
        <4>2. LoggedAs(e, n)
          BY <1>1, <1>2, <1>3, <1>6, <2>3 DEF LoggedAs, RequestInv, Answered
        <4>3. QED
          BY <2>2, <2>3, <4>1, <4>2
      <3>3. QED
        BY <3>1, <3>2
    <2>6. CountInv'
      BY <1>1, <1>2, <1>3, <1>6, <2>1, <2>2, EndedCounts
    <2>7. QED
      BY <2>2, <2>4, <2>5, <2>6 DEF IInv
  <1>7. QED
    BY <1>5, <1>6

-----------------------------------------------------------------------------
\* The rest of the process.

\* A request keeps what it proved when a version is added to the programs.
LEMMA AppendKeeps ==
  ASSUME NEW ps \in Seq(Programs), NEW p \in Programs, NEW q, RequestInv(ps, q)
  PROVE  RequestInv(Append(ps, p), q)
  <1> DEFINE new == Append(ps, p)
  <1>1. Len(ps) \in Nat /\ Len(new) = Len(ps) + 1 /\ \A v \in 1 .. Len(ps) : new[v] = ps[v]
    OBVIOUS
  <1> HIDE DEF new
  <1>2. Served(ps, q) => Served(new, q) /\ SvcOf(new, q) = SvcOf(ps, q)
    BY <1>1 DEF Served, SvcOf
  <1>3. OnItsWay(new, q)
    <2>1. q.pc \in {"session", "user"} => Served(ps, q)
      BY DEF RequestInv, OnItsWay
    <2>2. QED
      BY <1>2, <2>1 DEF RequestInv, OnItsWay, AsksUser
  <1>4. GatesPassed(new, q)
    <2>1. q.pc = "loader" \/ Writing(q) => Served(ps, q)
      BY DEF RequestInv, OnItsWay, GatesPassed
    <2>2. ASSUME RoleCleared(ps, q), Served(ps, q) PROVE RoleCleared(new, q)
      <3> SUFFICES ASSUME SvcOf(new, q).role # None
                   PROVE  \E v \in 1 .. Len(new) :
                            /\ <<"auth", v>> \in q.was
                            /\ new[v].getter # None
                            /\ new[v].getter[q.user] = SvcOf(new, q).role
        BY DEF RoleCleared
      <3>1. PICK v \in 1 .. Len(ps) :
              /\ <<"auth", v>> \in q.was
              /\ ps[v].getter # None /\ ps[v].getter[q.user] = SvcOf(ps, q).role
        BY <1>2, <2>2 DEF RoleCleared
      <3>2. v \in 1 .. Len(new) /\ new[v] = ps[v]
        BY <1>1
      <3>3. QED
        BY <1>2, <2>2, <3>1, <3>2
    <2>3. QED
      BY <1>2, <2>1, <2>2 DEF RequestInv, GatesPassed, UserCleared, OwnerCleared, AsksUser
  <1>5. QED
    BY <1>3, <1>4 DEF RequestInv, new

\* What the rest of the process does changes no request but for what it has seen.
LEMMA WorldStep ==
  ASSUME Distinct, IInv, TypeOK', req' \in [Request -> RequestState],
         \A p \in Request : req'[p] = SeenBy(p, req[p]) \/ req'[p] = req[p],
         programs' = programs \/ \E p \in Programs : programs' = Append(programs, p),
         UNCHANGED <<counters, log>>
  PROVE  IInv'
  <1>1. TypeOK /\ LogInv /\ RingInv /\ CountInv
    BY DEF IInv
  <1>2. \A p \in Request : req[p] \in RequestState
    BY <1>1 DEF TypeOK
  <1>3. \A p \in Request : RequestInv(programs, req'[p])
    BY <1>1, <1>2, SeenKeeps DEF IInv
  <1>4. \A p \in Request : RequestInv(programs', req'[p])
    BY <1>1, <1>3, AppendKeeps DEF TypeOK
  <1>5. \A p \in Request : /\ req'[p].pc = req[p].pc /\ req'[p].path = req[p].path
                           /\ req'[p].svc = req[p].svc /\ req'[p].wrote = req[p].wrote
                           /\ req'[p].status = req[p].status
    BY <1>1, <1>2, SeenFields
  <1>6. LogInv'
    <2> SUFFICES ASSUME NEW i \in DOMAIN recorded
                 PROVE  LoggedAs(recorded[i], req'[recorded[i].id])
      BY DEF LogInv, log
    <2>1. recorded[i] \in Entry
      BY <1>1 DEF RingInv, Log!LogTypeOK
    <2>2. recorded[i].id \in Request
      BY <2>1 DEF Entry
    <2>3. QED
      BY <1>1, <1>5, <2>2 DEF LogInv, LoggedAs
  <1>7. RingInv'
    BY <1>1, LogUnchanged
  <1>8. Open' = Open /\ Closed' = Closed
    BY <1>5, OpenClosed
  <1>9. QED
    BY <1>1, <1>4, <1>6, <1>7, <1>8 DEF IInv, CountInv, counters

LEMMA EvaluateStep ==
  ASSUME Distinct, IInv, NEW p \in Programs, Evaluate(p)
  PROVE  IInv'
  <1>1. TypeOK
    BY DEF IInv
  <1>2. /\ programs' = Append(programs, p) /\ reloading' = Len(programs') /\ regAuth' = reloading'
        /\ req' = Witness(req) /\ UNCHANGED <<lp, world, counters, log>>
    BY DEF Evaluate
  <1>3. req' \in [Request -> RequestState] /\ \A x \in Request : req'[x] = SeenBy(x, req[x])
    BY <1>1, <1>2, WitnessFacts
  <1>4. /\ programs' \in Seq(Programs) /\ Len(programs') = Len(programs) + 1
        /\ Len(programs) \in Nat
    BY <1>1, <1>2 DEF TypeOK
  <1>5. TypeOK'
    BY <1>1, <1>2, <1>3, <1>4 DEF TypeOK, world, counters
  <1>6. QED
    BY <1>2, <1>3, <1>5, WorldStep

LEMMA SwapStep ==
  ASSUME Distinct, IInv, Swap \/ CompileFails
  PROVE  IInv'
  <1>1. TypeOK
    BY DEF IInv
  <1>2. /\ lp' \in {lp, reloading} /\ reloading # None /\ reloading' = None
        /\ UNCHANGED <<programs, regAuth, world, req, counters, log>>
    BY DEF Swap, CompileFails
  <1>3. TypeOK'
    BY <1>1, <1>2 DEF TypeOK, world, counters
  <1>4. req' \in [Request -> RequestState]
    BY <1>3 DEF TypeOK
  <1>5. QED
    BY <1>2, <1>3, <1>4, WorldStep

LEMMA OthersStep ==
  ASSUME Distinct, IInv, Others
  PROVE  IInv'
  <1>1. TypeOK
    BY DEF IInv
  <1>2. req' = Witness(req) /\ UNCHANGED <<program, counters, log>>
    BY DEF Others
  <1>3. req' \in [Request -> RequestState] /\ \A x \in Request : req'[x] = SeenBy(x, req[x])
    BY <1>1, <1>2, WitnessFacts
  <1>4. session' \in SUBSET User /\ row' \in [User -> Role \cup {None}]
    <2>1. ASSUME NEW u \in User, SignOut(u)
          PROVE  session' \in SUBSET User /\ row' \in [User -> Role \cup {None}]
      BY <1>1, <2>1 DEF SignOut, TypeOK
    <2>2. ASSUME NEW u \in User, NEW x \in Role \cup {None}, SetRole(u, x)
          PROVE  session' \in SUBSET User /\ row' \in [User -> Role \cup {None}]
      BY <1>1, <2>2 DEF SetRole, TypeOK
    <2>3. ASSUME NEW o \in Owners \cup {None}, Transfer(o)
          PROVE  session' \in SUBSET User /\ row' \in [User -> Role \cup {None}]
      BY <1>1, <2>3 DEF Transfer, TypeOK
    <2>4. QED
      BY <2>1, <2>2, <2>3 DEF Others
  <1>5. TypeOK'
    BY <1>1, <1>2, <1>3, <1>4 DEF TypeOK, program, counters
  <1>6. QED
    BY <1>2, <1>3, <1>5, WorldStep DEF program

-----------------------------------------------------------------------------
LEMMA InitIInv ==
  ASSUME Distinct, ServerAssumption, Log!RequestLogAssumption, Init
  PROVE  IInv
  <1>1. programs \in Seq(Programs) /\ Len(programs) = 1
    <2>1. programs \in {<<p>> : p \in Programs}
      BY DEF Init
    <2>2. PICK p \in Programs : programs = <<p>>
      BY <2>1
    <2>3. QED
      BY <2>2
  <1>2. /\ req = [r \in Request |-> Blank] /\ session = User /\ row \in [User -> Role]
        /\ lp = 1 /\ regAuth = 1 /\ reloading = None /\ total = 0 /\ inFlight = 0
    BY DEF Init
  <1>3. /\ Blank \in RequestState /\ Blank.pc = "new" /\ Blank.svc = None /\ Blank.user = None
        /\ Blank.wrote = 0 /\ Blank.status = 0
    BY DEF Blank, RequestState, Pc
  <1>4. TypeOK
    <2>1. row \in [User -> Role \cup {None}]
      BY <1>2
    <2>2. QED
      BY <1>1, <1>2, <1>3, <2>1 DEF TypeOK
  <1>5. RequestInv(programs, Blank)
    BY <1>3 DEF RequestInv, OnItsWay, UserSeen, GatesPassed, Answered, Writing, ServerAssumption
  <1>6. items = <<>> /\ head = 0 /\ full = FALSE /\ recorded = <<>>
    BY DEF Init, Log!LogInit
  <1>7. LogInv
    BY <1>6 DEF LogInv
  <1>8. RingInv
    <2>1. Log!LogTypeOK
      <3>1. items \in Seq(Entry) /\ recorded \in Seq(Entry) /\ head \in 0 .. Cap - 1
        BY <1>6 DEF Log!RequestLogAssumption
      <3>2. full \in BOOLEAN
        BY <1>6, Zenon
      <3>3. QED
        BY <3>1, <3>2 DEF Log!LogTypeOK
    <2>2. Growing
      BY <1>6 DEF Growing, Log!RequestLogAssumption
    <2>3. Wrapped
      BY <1>6 DEF Wrapped
    <2>4. QED
      BY <2>1, <2>2, <2>3 DEF RingInv
  <1>9. Open = {} /\ Closed = {}
    BY <1>2, <1>3 DEF Open, Closed
  <1>10. CountInv
    BY <1>2, <1>9, FS_EmptySet DEF CountInv
  <1>11. \A r \in Request : RequestInv(programs, req[r])
    BY <1>2, <1>5
  <1>12. QED
    BY <1>4, <1>7, <1>8, <1>10, <1>11 DEF IInv

LEMMA NextIInv ==
  ASSUME Distinct, ServerAssumption, Log!RequestLogAssumption, IInv, [Next \/ Terminated]_vars
  PROVE  IInv'
  <1>1. ASSUME NEW r \in Request, Handle(r) PROVE IInv'
    BY <1>1, RouteStep, RateLimitStep, DispatchStep, ReadBodyStep, LoadSessionStep, LoadUserStep,
       GateStep, LoadStep, WriteStep, EncodeStep, PanicsStep, UnwindStep, FinishStep DEF Handle
  <1>2. ASSUME NEW r \in Request, NEW token \in User \cup {None}, NEW path \in Paths[r],
               Arrive(r, path, token)
        PROVE  IInv'
    <2>1. path \in {"api", "page", "internal"}
      BY DEF ServerAssumption
    <2>2. QED
      BY <1>2, <2>1, ArriveStep
  <1>3. CASE UNCHANGED vars
    <2>1. /\ UNCHANGED <<programs, lp, regAuth, reloading, session, row, req, counters, log>>
      BY <1>3 DEF vars, program, world, counters, log
    <2>2. TypeOK'
      BY <2>1 DEF IInv, TypeOK, counters
    <2>3. req' \in [Request -> RequestState] /\ \A p \in Request : req'[p] = req[p]
      BY <2>1, <2>2 DEF TypeOK
    <2>4. QED
      BY <2>1, <2>2, <2>3, WorldStep
  <1>4. QED
    BY <1>1, <1>2, <1>3, EvaluateStep, SwapStep, OthersStep DEF Next, Terminated

LEMMA Inductive ==
  ASSUME ServerAssumption, Log!RequestLogAssumption
  PROVE  Spec => []IInv
  <1>1. Distinct
    BY DEF ServerAssumption
  <1>2. Init => IInv
    BY <1>1, InitIInv
  <1>3. IInv /\ [Next \/ Terminated]_vars => IInv'
    BY <1>1, NextIInv
  <1>4. QED
    BY <1>2, <1>3, PTL DEF Spec

\* No handler ever writes for a request that did not meet every gate of its service, on
\* facts that were true while the request ran, whatever else happens meanwhile: reloads
\* that replace the role getter and the routes, sign-outs, changes of role and of owner
\* (ExposedServiceToRoute, loadUserForRequest, checkRoleGate, checkABACGate).
THEOREM AuthorisedHolds ==
  ASSUME ServerAssumption, Log!RequestLogAssumption
  PROVE  Spec => []Authorised
  <1>1. IInv => Authorised
    <2> SUFFICES ASSUME IInv, NEW r \in Request, req[r].pc # "done", req[r].wrote > 0
                 PROVE  LET s == Svc(req[r].svc) IN
                        /\ RequiresUser(s) =>
                             <<"session">> \in req[r].was /\ \E x \in Role : <<"role", x>> \in req[r].was
                        /\ s.role # None =>
                             \E v \in 1 .. Len(programs), x \in Role :
                               /\ {<<"auth", v>>, <<"role", x>>} \subseteq req[r].was
                               /\ programs[v].getter # None /\ programs[v].getter[x] = s.role
                        /\ s.owner => <<"owner">> \in req[r].was
      BY DEF Authorised
    <2> DEFINE q == req[r]
    <2>1. RequestInv(programs, q) /\ q \in RequestState /\ Writing(q)
      BY DEF IInv, TypeOK, Writing
    <2>2. /\ UserCleared(programs, q) /\ RoleCleared(programs, q) /\ OwnerCleared(programs, q)
          /\ Svc(q.svc) = SvcOf(programs, q)
      BY <2>1 DEF RequestInv, GatesPassed, Svc, SvcOf
    <2>3. q.user # None => q.user \in Role /\ <<"session">> \in q.was /\ <<"role", q.user>> \in q.was
      BY <2>1 DEF RequestInv, UserSeen, RequestState
    <2>4. Svc(q.svc).role # None => RequiresUser(Svc(q.svc))
      BY DEF RequiresUser
    <2>5. RequiresUser(Svc(q.svc)) => q.user # None
      BY <2>2 DEF UserCleared, AsksUser
    <2>6. ASSUME Svc(q.svc).role # None
          PROVE  \E v \in 1 .. Len(programs), x \in Role :
                   /\ {<<"auth", v>>, <<"role", x>>} \subseteq q.was
                   /\ programs[v].getter # None /\ programs[v].getter[x] = Svc(q.svc).role
      BY <2>2, <2>3, <2>4, <2>5, <2>6 DEF RoleCleared
    <2>7. QED
      BY <2>2, <2>3, <2>5, <2>6 DEF OwnerCleared
  <1>2. QED
    BY <1>1, Inductive, PTL

\* What a client is told fits what was written for it, in every interleaving: a refusal
\* means nothing was, and a 200 of a service whose handler did not panic that everything
\* was (dispatchBackend, runHandlerEffect).
THEOREM AnswerFitsEffectsHolds ==
  ASSUME ServerAssumption, Log!RequestLogAssumption
  PROVE  Spec => []AnswerFitsEffects
  <1>1. IInv => AnswerFitsEffects
    <2> SUFFICES ASSUME IInv, NEW r \in Request
                 PROVE  /\ req[r].status \in 400 .. 429 => req[r].wrote = 0
                        /\ req[r].status = 200 /\ req[r].svc # None /\ r \notin Panicked =>
                             req[r].wrote = Writes
      BY DEF AnswerFitsEffects
    <2> DEFINE q == req[r]
    <2>1. RequestInv(programs, q) /\ LogInv
      BY DEF IInv
    <2>2. CASE q.pc = "respond"
      BY <2>1, <2>2 DEF RequestInv, Answered
    <2>3. CASE q.pc = "done"
      <3> SUFFICES ASSUME q.status = 200, q.svc # None, r \notin Panicked
                   PROVE  q.wrote = Writes
        BY <2>1 DEF RequestInv, Answered
      <3>1. r \in Closed
        BY <2>1, <2>3 DEF RequestInv, OnItsWay, Closed, Internal
      <3>2. PICK i \in DOMAIN recorded : recorded[i].id = r
        BY <3>1 DEF Panicked
      <3>3. QED
        BY <2>1, <3>2 DEF LogInv, LoggedAs
    <2>4. CASE q.pc \notin {"respond", "done"}
      BY <2>1, <2>4 DEF RequestInv, OnItsWay
    <2>5. QED
      BY <2>2, <2>3, <2>4
  <1>2. QED
    BY <1>1, Inductive, PTL

\* The counters and the log of the admin panel agree with the requests, those that panic
\* included: none is counted twice or for ever, and each entry shows the status that was
\* answered (adminInstrument, recoverPanic, RequestLogger).
THEOREM CountersAndLogHold ==
  ASSUME ServerAssumption, Log!RequestLogAssumption
  PROVE  Spec => []CountersAndLog
  <1>1. IInv => CountersAndLog
    <2> SUFFICES ASSUME IInv PROVE CountersAndLog
      OBVIOUS
    <2>1. CountInv /\ LogInv /\ RingInv
      BY DEF IInv
    <2>2. Log!SnapshotIsRecent
      BY <2>1, RecentShown
    <2>3. ASSUME NEW i \in DOMAIN recorded
          PROVE  recorded[i].id \in Closed /\ recorded[i].status = req[recorded[i].id].status
      <3>1. recorded[i] \in Entry
        BY <2>1 DEF RingInv, Log!LogTypeOK
      <3>2. recorded[i].id \in Request
        BY <3>1 DEF Entry
      <3>3. QED
        BY <2>1, <3>2 DEF LogInv, LoggedAs, Closed, Internal
    <2>4. QED
      BY <2>1, <2>2, <2>3 DEF CountersAndLog, CountInv
  <1>2. QED
    BY <1>1, Inductive, PTL
=============================================================================
