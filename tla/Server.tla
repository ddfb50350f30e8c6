------------------------------- MODULE Server -------------------------------
(***************************************************************************)
(* The life of a request in ServeLive: the middlewares, the two reads of   *)
(* the served routes, the gates of a service (signed in, role, owner), the *)
(* handler's effects one statement at a time, the response, the counters   *)
(* and the request log; against the rest of the process: a hot reload that *)
(* registers the new program's Auth.config before it swaps the routes, and *)
(* other requests that sign users out, change roles, move ownership or     *)
(* delete rows while this one runs.                                        *)
(*                                                                         *)
(* One endpoint is modelled: each program version mounts one service there *)
(* or none.                                                                *)
(***************************************************************************)
EXTENDS Integers, Sequences, FiniteSets

CONSTANTS
  Request,     \* requests, each handled by its own goroutine
  User,        \* rows of the user entity; a request carries the token of one, or none
  Owners,      \* user ids the document's owner column may hold
  Role,
  None,
  Fails,       \* the result of a role getter that fails
  Programs,    \* versions of the program: what each mounts, [user, role, owner] or None,
               \* and its Auth.config's role getter, a function of the stored role or None
  Writes,      \* statements a handler's effect executes
  Paths,       \* bound: what each request may be for
  MaxReloads,  \* bound: hot reloads
  MaxChanges,  \* bound: changes the other requests make to the rows a gate reads
  Cap          \* capacity of the request log

\* The sentinel is no user and no role, and finitely many requests ever arrive.
Distinct == None \notin User \cup Role /\ IsFiniteSet(Request)

ServerAssumption ==
  /\ Distinct
  /\ Programs \subseteq
       [svc : [user : BOOLEAN, role : Role \cup {None}, owner : BOOLEAN] \cup {None},
        getter : [Role -> Role \cup {Fails}] \cup {None}]
  /\ Paths \in [Request -> SUBSET {"api", "page", "internal"}]
  /\ Writes \in Nat \ {0} /\ MaxReloads \in Nat /\ MaxChanges \in Nat

VARIABLES
  fullstack,   \* ServeLive's mounting: pages and services, or services alone
  programs,    \* the versions of the program, each [svc, getter]
  lp,          \* LiveProgram: the version whose routes are served
  regAuth,     \* the version whose Auth.config is registered
  reloading,   \* the version a compile is evaluating, or None
  session,     \* users with a live session
  row,         \* the stored role of each user, or None when the row is gone
  owner,       \* the owner of the document the endpoint is about, None: no such row
  changes,     \* changes other requests made so far
  req,         \* each request
  total, inFlight,
  items, head, full, recorded

world == <<session, row, owner, changes>>
program == <<fullstack, programs, lp, regAuth, reloading>>
counters == <<total, inFlight>>
log == <<items, head, full, recorded>>
vars == <<program, world, req, counters, log>>

Entry == [id : Request, status : Nat]
Log == INSTANCE RequestLog

Pc == {"new", "route", "limit", "dispatch", "body", "session", "user", "gate", "loader",
       "run", "respond", "unwind", "done"}

\* was (observer): the facts about the world, and the getters registered, at some
\* instant of the request.
Blank == [pc |-> "new", path |-> None, token |-> None, svc |-> None, user |-> None,
          wrote |-> 0, status |-> 0, was |-> {}]

Facts(u) ==
  {<<"session">> : x \in session \cap {u}}
    \cup (IF row[u] # None THEN {<<"role", row[u]>>} ELSE {})
    \cup (IF owner = u THEN {<<"owner">>} ELSE {})
    \cup {<<"auth", regAuth>>}

Running == {r \in Request : req[r].pc \notin {"new", "respond", "unwind", "done"}}

\* Every step adds what is true before it to what the running requests have seen.
Witness(q) ==
  [r \in Request |-> IF r \notin Running \/ q[r].token = None THEN q[r]
                     ELSE [q[r] EXCEPT !.was = @ \cup Facts(q[r].token)]]
Step(r, new) == req' = Witness([req EXCEPT ![r] = new])

Init ==
  /\ fullstack \in BOOLEAN
  /\ programs \in {<<p>> : p \in Programs}
  /\ lp = 1 /\ regAuth = 1 /\ reloading = None
  /\ session = User
  /\ row \in [User -> Role]
  /\ owner \in Owners \cup {None}
  /\ changes = 0
  /\ req = [r \in Request |-> Blank]
  /\ total = 0 /\ inFlight = 0
  /\ Log!LogInit

-----------------------------------------------------------------------------
\* The rest of the process.  What it does while no request runs is in the initial states.

\* A compile evaluates main: Auth.config registers itself as it is evaluated, and the
\* compile may still fail after that.
Evaluate(p) ==
  /\ reloading = None
  /\ Len(programs) <= MaxReloads
  /\ Running # {}
  /\ programs' = Append(programs, p)
  /\ reloading' = Len(programs')
  /\ regAuth' = reloading'
  /\ req' = Witness(req)
  /\ UNCHANGED <<fullstack, lp, world, counters, log>>

\* LiveProgram.Update.
Swap ==
  /\ reloading # None
  /\ lp' = reloading /\ reloading' = None
  /\ UNCHANGED <<fullstack, programs, regAuth, world, req, counters, log>>

CompileFails ==
  /\ reloading # None
  /\ reloading' = None
  /\ UNCHANGED <<fullstack, programs, lp, regAuth, world, req, counters, log>>

\* What the handlers of other requests may do between two steps of this one.
SignOut(u) ==
  /\ u \in session
  /\ session' = session \ {u}
  /\ UNCHANGED <<row, owner>>
SetRole(u, r) ==
  /\ row[u] \notin {r, None}
  /\ row' = [row EXCEPT ![u] = r]
  /\ UNCHANGED <<session, owner>>
Transfer(o) ==
  /\ owner \notin {o, None}
  /\ owner' = o
  /\ UNCHANGED <<session, row>>

Others ==
  /\ changes < MaxChanges
  /\ Running # {}
  /\ changes' = changes + 1
  /\ \/ \E u \in User : SignOut(u) \/ \E r \in Role \cup {None} : SetRole(u, r)
     \/ \E o \in Owners \cup {None} : Transfer(o)
  /\ req' = Witness(req)
  /\ UNCHANGED <<program, counters, log>>

-----------------------------------------------------------------------------
\* The request.

Svc(v) == programs[v].svc

\* The framework's own paths: the admin panel and the reload channel.
Internal(path) == path = "internal"

\* anyServiceMatches, and the loop of dispatchBackend: verb and path, segment by segment.
Matches(path, v) == path = "api" /\ Svc(v) # None

\* Mutant: only Auth.protect asks for a user.
RequiresUser_ProtectOnly(s) == s.user

\* Auth.protect asks for a user, and so does every role or ownership gate.
RequiresUser(s) == s.user \/ s.role # None \/ s.owner

Ended(q) == [q EXCEPT !.pc = "done", !.token = None, !.user = None, !.was = {}]
Answer(q, status) == [q EXCEPT !.pc = "respond", !.status = status]

\* recoverPanic, the version headers and adminInstrument: the framework's own paths are
\* neither counted nor logged, and ServeMux hands them to their own handler.
Arrive(r, path, token) ==
  /\ req[r].pc = "new"
  /\ path # "api" => token = None
  /\ Step(r, [Blank EXCEPT !.path = path, !.token = token,
                           !.pc = IF Internal(path) THEN "respond"
                                  ELSE IF fullstack THEN "route" ELSE "limit",
                           !.status = IF Internal(path) THEN 200 ELSE 0])
  /\ IF Internal(path) THEN UNCHANGED counters
     ELSE total' = total + 1 /\ inFlight' = inFlight + 1
  /\ UNCHANGED <<program, world, log>>

\* The first read of the routes, in the fullstack handler: a service or the shell.
Route(r) ==
  /\ req[r].pc = "route"
  /\ Step(r, IF Matches(req[r].path, lp)
             THEN [req[r] EXCEPT !.pc = "limit"]
             ELSE Answer(req[r], 200))
  /\ UNCHANGED <<program, world, counters, log>>

\* rateLimit: TokenBucket says when; here either answer may come.
RateLimit(r) ==
  /\ req[r].pc = "limit"
  /\ \/ Step(r, [req[r] EXCEPT !.pc = "dispatch"])
     \/ Step(r, Answer(req[r], 429))
  /\ UNCHANGED <<program, world, counters, log>>

\* The second read of the routes, in dispatchBackend.  The fullstack handler ignores its
\* result: when the route is gone nothing is written and the response is an empty 200.
Dispatch(r) ==
  /\ req[r].pc = "dispatch"
  /\ Step(r, IF Matches(req[r].path, lp)
             THEN [req[r] EXCEPT !.pc = "body", !.svc = lp]
             ELSE Answer(req[r], IF fullstack THEN 200 ELSE 404))
  /\ UNCHANGED <<program, world, counters, log>>

ReadBody(r) ==
  /\ req[r].pc = "body"
  /\ \/ Step(r, [req[r] EXCEPT !.pc = IF RequiresUser(Svc(req[r].svc)) THEN "session" ELSE "gate"])
     \/ \E status \in {400, 413} : Step(r, Answer(req[r], status))
  /\ UNCHANGED <<program, world, counters, log>>

\* loadUserForRequest: two statements, the session's row and then the user's.
LoadSession(r) ==
  /\ req[r].pc = "session"
  /\ Step(r, [req[r] EXCEPT !.pc = IF req[r].token \in session THEN "user" ELSE "gate"])
  /\ UNCHANGED <<program, world, counters, log>>

LoadUser(r) ==
  /\ req[r].pc = "user"
  /\ Step(r, [req[r] EXCEPT !.pc = "gate", !.user = row[req[r].token]])
  /\ UNCHANGED <<program, world, counters, log>>

\* checkRoleGate applies the getter registered NOW to the user loaded before.
Getter == programs[regAuth].getter
RoleStatus(q) ==
  LET role == Svc(q.svc).role IN
  CASE role = None -> 0
    [] role # None /\ Getter = None -> 500
    [] role # None /\ Getter # None /\ Getter[q.user] = Fails -> 500
    [] role # None /\ Getter # None /\ Getter[q.user] \notin {Fails, role} -> 403
    [] OTHER -> 0

GateStatus(q) ==
  IF RequiresUser(Svc(q.svc)) THEN IF q.user = None THEN 401 ELSE RoleStatus(q) ELSE 0

\* The wrapped handler of ExposedServiceToRoute, up to the loader: input, user, role.
Gate(r) ==
  /\ req[r].pc = "gate"
  /\ \/ Step(r, Answer(req[r], 422))
     \/ /\ GateStatus(req[r]) = 0
        /\ Step(r, [req[r] EXCEPT !.pc = IF Svc(req[r].svc).owner THEN "loader" ELSE "run"])
     \/ GateStatus(req[r]) # 0 /\ Step(r, Answer(req[r], GateStatus(req[r])))
  /\ UNCHANGED <<program, world, counters, log>>

\* checkABACGate: the loader reads the document and the policy compares its owner.
Load(r) ==
  /\ req[r].pc = "loader"
  /\ \/ Step(r, Answer(req[r], 500))
     \/ owner = None /\ Step(r, Answer(req[r], 404))
     \/ owner # None /\ owner # req[r].token /\ Step(r, Answer(req[r], 403))
     \/ owner = req[r].token /\ Step(r, [req[r] EXCEPT !.pc = "run"])
  /\ UNCHANGED <<program, world, counters, log>>

\* Mutant: a failed statement ends the chain as if it were its result.
Write_IgnoresError(r) ==
  /\ req[r].pc = "run"
  /\ req[r].wrote < Writes
  /\ \E status \in {0, 200} :
       Step(r, IF status = 0 THEN [req[r] EXCEPT !.wrote = @ + 1] ELSE Answer(req[r], 200))
  /\ UNCHANGED <<program, world, counters, log>>

\* runHandlerEffect: the chain of effects runs in order and stops at the first failure;
\* what was written before stays written.
Write(r) ==
  /\ req[r].pc = "run"
  /\ req[r].wrote < Writes
  /\ \/ Step(r, [req[r] EXCEPT !.wrote = @ + 1])
     \/ Step(r, Answer(req[r], 500))
  /\ UNCHANGED <<program, world, counters, log>>

Encode(r) ==
  /\ req[r].pc = "run"
  /\ req[r].wrote = Writes
  /\ \E status \in {200, 500} : Step(r, Answer(req[r], status))
  /\ UNCHANGED <<program, world, counters, log>>

\* A panic while user code is evaluated.
Panics(r) ==
  /\ req[r].pc \in {"gate", "loader", "run"}
  /\ Step(r, [req[r] EXCEPT !.pc = "unwind"])
  /\ UNCHANGED <<program, world, counters, log>>

\* Mutant: the count goes down after the handler, not deferred.
Unwind_KeepsInFlight(r) ==
  /\ req[r].pc = "unwind"
  /\ \E status \in {200, 500} : Step(r, Ended([req[r] EXCEPT !.status = status]))
  /\ UNCHANGED <<program, world, counters, log>>

\* The deferred calls, innermost first.  For a client that accepts gzip, closing the
\* writer sends its header, and with it a 200, before recoverPanic sets the 500, which
\* the comment at middleware.go:54 promises; for another the 500 comes first.  The
\* request is not logged.
Unwind(r) ==
  /\ req[r].pc = "unwind"
  /\ \E status \in {200, 500} : Step(r, Ended([req[r] EXCEPT !.status = status]))
  /\ inFlight' = inFlight - 1
  /\ UNCHANGED <<total, program, world, log>>

\* The handler returned: adminInstrument records it and then counts it out.
Finish(r) ==
  /\ req[r].pc = "respond"
  /\ Step(r, Ended(req[r]))
  /\ IF Internal(req[r].path) THEN UNCHANGED <<counters, log>>
     ELSE /\ Log!Record([id |-> r, status |-> req[r].status])
          /\ inFlight' = inFlight - 1
          /\ UNCHANGED total
  /\ UNCHANGED <<program, world>>

Handle(r) ==
  \/ Route(r) \/ RateLimit(r) \/ Dispatch(r) \/ ReadBody(r) \/ LoadSession(r) \/ LoadUser(r)
  \/ Gate(r) \/ Load(r) \/ Write(r) \/ Encode(r) \/ Panics(r) \/ Unwind(r) \/ Finish(r)

Next ==
  \/ \E r \in Request : Handle(r)
  \/ \E r \in Request, token \in User \cup {None} :
       \E path \in Paths[r] : Arrive(r, path, token)
  \/ \E p \in Programs : Evaluate(p)
  \/ Swap \/ CompileFails \/ Others

\* With every request answered and every bound reached there is nothing left to do: any
\* other state without a successor is a request that will never be answered.
Terminated == (\A r \in Request : req[r].pc = "done") /\ UNCHANGED vars

Spec == Init /\ [][Next \/ Terminated]_vars

-----------------------------------------------------------------------------
Open == {r \in Request : req[r].pc \notin {"new", "done"} /\ ~Internal(req[r].path)}
Closed == {r \in Request : req[r].pc = "done" /\ ~Internal(req[r].path)}
Panicked == {r \in Closed : \A i \in DOMAIN recorded : recorded[i].id # r}

\* A handler that wrote anything had passed every gate of the service it was dispatched
\* to on facts that were true at some instant of that request, whatever changed since
\* the request arrived (ExposedServiceToRoute, loadUserForRequest, checkABACGate).  The
\* role may have been read by the getter of any program registered in that time: a
\* reload replaces it before it replaces the routes.
Authorised ==
  \A r \in Request : req[r].pc # "done" /\ req[r].wrote > 0 =>
    LET s == Svc(req[r].svc) IN
    /\ RequiresUser(s) =>
         <<"session">> \in req[r].was /\ \E x \in Role : <<"role", x>> \in req[r].was
    /\ s.role # None =>
         \E v \in 1 .. Len(programs), x \in Role :
           /\ {<<"auth", v>>, <<"role", x>>} \subseteq req[r].was
           /\ programs[v].getter # None /\ programs[v].getter[x] = s.role
    /\ s.owner => <<"owner">> \in req[r].was

\* What the client is told fits what happened: a refused request wrote nothing, and one
\* told 200 by a service that did not panic did all it had to do (dispatchBackend).
AnswerFitsEffects ==
  \A r \in Request :
    /\ req[r].status \in 400 .. 429 => req[r].wrote = 0
    /\ req[r].status = 200 /\ req[r].svc # None /\ r \notin Panicked => req[r].wrote = Writes

\* The counters agree with the requests, also those that panic, and the log shows the
\* last ones that ended, newest first, each with the status it was answered
\* (adminInstrument, RequestLogger).
CountersAndLog ==
  /\ inFlight = Cardinality(Open)
  /\ total = Cardinality(Open) + Cardinality(Closed)
  /\ Log!SnapshotIsRecent
  /\ \A i \in DOMAIN recorded :
       recorded[i].id \in Closed /\ recorded[i].status = req[recorded[i].id].status
=============================================================================
