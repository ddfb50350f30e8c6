------------------------------ MODULE AdminAuth ------------------------------
(***************************************************************************)
(* The admin panel's sign-in: the list of mar.json, the tables it is       *)
(* synchronised into at boot, the codes, the sessions and the gate every   *)
(* endpoint of the panel passes.  One action per SQL statement, with the   *)
(* Go code that runs on its result; the requests of a server die with it.  *)
(*                                                                         *)
(* A code's row is keyed by the hash of its digits, so the same digits are *)
(* one row whoever they were sent to; nothing removes an expired one.      *)
(***************************************************************************)
EXTENDS Integers, Sequences, FiniteSets, TLC

CONSTANTS
  Request,      \* requests, each handled by its own goroutine
  Email,        \* canonical addresses
  Digits,       \* codes, as digits
  None,
  MaxAttempts,  \* MaxCodeAttempts
  CodeTTL, SessionTTL,
  MaxClock,     \* bound: the clock
  MaxIssues,    \* bound: codes issued
  MaxBoots,     \* bound: starts of the server
  MaxEdits,     \* bound: edits of the list
  MaxFailures   \* bound: statements that fail, mails that are not sent

ASSUME AdminAssumption ==
  /\ None \notin Email \cup Digits
  /\ MaxAttempts \in Nat \ {0}
  /\ \A n \in {CodeTTL, SessionTTL, MaxClock, MaxIssues, MaxBoots, MaxEdits, MaxFailures} : n \in Nat

VARIABLES
  list,      \* mar.json's admins, up to spelling
  admins,    \* _mar_admins: the boot that added each address, 0 for none
  codes,     \* _mar_admin_codes by digits, None where there is no row
  sessions,  \* _mar_admin_sessions: a set of rows
  up,        \* the server is running
  boots, edits, issues, failures, now,
  req,       \* each request
  \* Observers.
  minted,    \* for every session ever minted, the issue that was consumed for it
  tried,     \* wrong answers compared with each issue
  spared     \* issues whose count or lock failed or was cut off

tables == <<admins, codes, sessions>>
bounds == <<boots, edits, issues, failures>>
seen == <<minted, tried, spared>>
vars == <<list, tables, up, bounds, now, req, seen>>

Blank == [pc |-> "new", email |-> None, digits |-> None, row |-> 0, burnt |-> 0,
          session |-> None, at |-> 0]

Init ==
  /\ list \in SUBSET Email
  /\ admins = [e \in Email |-> 0]
  /\ codes = [d \in Digits |-> None]
  /\ sessions = {}
  /\ up = FALSE
  /\ boots = 0 /\ edits = 0 /\ issues = 0 /\ failures = 0 /\ now = 0
  /\ req = [r \in Request |-> Blank]
  /\ minted = <<>> /\ tried = [i \in 1 .. MaxIssues |-> 0] /\ spared = {}

-----------------------------------------------------------------------------
\* The list, and the server's life.

\* mar admin add and remove compare addresses whatever their spelling.  The file is read
\* only at boot, so an edit counts as made while the server is down.
AddAdmin(e) ==
  /\ ~up
  /\ edits < MaxEdits
  /\ e \notin list
  /\ list' = list \cup {e}
  /\ edits' = edits + 1
  /\ UNCHANGED <<tables, up, boots, issues, failures, now, req, seen>>

RemoveAdmin(e) ==
  /\ ~up
  /\ edits < MaxEdits
  /\ e \in list
  /\ list' = list \ {e}
  /\ edits' = edits + 1
  /\ UNCHANGED <<tables, up, boots, issues, failures, now, req, seen>>

\* Mutant: the rows of a removed admin stay until they expire.
SyncAdmins_AdminRowOnly ==
  /\ admins' = [e \in Email |-> IF e \notin list THEN 0
                                ELSE IF admins[e] = 0 THEN boots + 1 ELSE admins[e]]
  /\ UNCHANGED <<codes, sessions>>

\* One transaction: who left the list goes with codes and sessions, who is new comes.
SyncAdmins ==
  /\ admins' = [e \in Email |-> IF e \notin list THEN 0
                                ELSE IF admins[e] = 0 THEN boots + 1 ELSE admins[e]]
  /\ codes' = [d \in Digits |-> IF codes[d] # None /\ codes[d].email \notin list
                                THEN None ELSE codes[d]]
  /\ sessions' = {s \in sessions : s.email \in list}

\* bootAdminPanel, before the listener opens.
Boot ==
  /\ ~up
  /\ boots < MaxBoots
  /\ boots' = boots + 1
  /\ SyncAdmins
  /\ up' = TRUE
  /\ UNCHANGED <<list, edits, issues, failures, now, req, seen>>

Stop ==
  /\ up
  /\ up' = FALSE
  /\ req' = [r \in Request |-> Blank]
  /\ spared' = spared \cup {req[r].row : r \in {x \in Request : req[x].pc \in {"count", "lock"}}}
  /\ UNCHANGED <<list, tables, bounds, now, minted, tried>>

Tick ==
  /\ now < MaxClock
  /\ now' = now + 1
  /\ UNCHANGED <<list, tables, up, bounds, req, seen>>

-----------------------------------------------------------------------------
\* What the steps of a request share.

At(r, pc) == up /\ req[r].pc = pc
Set(r, q) == req' = [req EXCEPT ![r] = q]
Reply(r) == Set(r, Blank)
Fail == failures < MaxFailures /\ failures' = failures + 1
Unfailing == UNCHANGED failures
Rest == UNCHANGED <<list, admins, up, boots, edits, now>>

\* IsAdmin, which answers no when it cannot tell.
IsAdmin(e) == admins[e] # 0

\* handleAdminRequestCode: whoever is not an admin is told the same and gets nothing.
RequestCode(r, e) ==
  /\ At(r, "new")
  /\ IF IsAdmin(e) THEN Set(r, [Blank EXCEPT !.pc = "issue", !.email = e, !.at = now])
                   ELSE Reply(r)
  /\ Unfailing /\ Rest /\ UNCHANGED <<codes, sessions, issues, seen>>

\* IssueCode: fresh digits, and an INSERT that fails when they are in the table, expired
\* or not; then the mail, whose failure leaves the row.
IssueCode(r, d) ==
  /\ At(r, "issue")
  /\ IF codes[d] # None
     THEN Reply(r) /\ Unfailing /\ UNCHANGED <<codes, issues>>
     ELSE /\ issues < MaxIssues
          /\ issues' = issues + 1
          /\ codes' = [codes EXCEPT ![d] = [email |-> req[r].email, issue |-> issues', attempts |-> 0,
                                            since |-> admins[req[r].email], created |-> req[r].at,
                                            expires |-> req[r].at + CodeTTL]]
          /\ \/ Reply(r) /\ Unfailing
             \/ Reply(r) /\ Fail
  /\ Rest /\ UNCHANGED <<sessions, seen>>

-----------------------------------------------------------------------------
\* VerifyCode.

Unexpired(e) == {d \in Digits : codes[d] # None /\ codes[d].email = e /\ codes[d].expires >= now}

\* The latest of the address; codes of one millisecond come in any order.
Latest(e) == {d \in Unexpired(e) : \A x \in Unexpired(e) : codes[x].created <= codes[d].created}

\* The SELECT, and the comparison with the answer.
Verify(r, e, answer) ==
  /\ At(r, "new")
  /\ \/ Latest(e) = {} /\ Reply(r) /\ UNCHANGED tried
     \/ \E d \in Latest(e) :
          /\ Set(r, [Blank EXCEPT !.pc = IF answer = d THEN "burn" ELSE "count",
                                  !.email = e, !.digits = d, !.row = codes[d].issue,
                                  !.at = IF answer = d THEN now ELSE 0])
          /\ tried' = IF answer = d THEN tried ELSE [tried EXCEPT ![codes[d].issue] = @ + 1]
  /\ Unfailing /\ Rest /\ UNCHANGED <<codes, sessions, issues, minted, spared>>

\* Mutant: the lock comes one wrong answer late.
Locks_Late(n) == n > MaxAttempts
Locks(n) == n >= MaxAttempts

\* One UPDATE ... RETURNING, of the row the digits have now; when it fails or finds none
\* the answer is just wrong.
Count(r) ==
  LET d == req[r].digits IN
  /\ At(r, "count")
  /\ \/ codes[d] = None /\ Reply(r) /\ Unfailing /\ UNCHANGED <<codes, spared>>
     \/ Reply(r) /\ Fail /\ spared' = spared \cup {req[r].row} /\ UNCHANGED codes
     \/ /\ codes[d] # None
        /\ codes' = [codes EXCEPT ![d].attempts = @ + 1]
        /\ IF Locks(codes'[d].attempts) THEN Set(r, [req[r] EXCEPT !.pc = "lock"]) ELSE Reply(r)
        /\ Unfailing /\ UNCHANGED spared
  /\ Rest /\ UNCHANGED <<sessions, issues, minted, tried>>

\* The DELETE of a locked code; its error is discarded.
Lock(r) ==
  /\ At(r, "lock")
  /\ Reply(r)
  /\ \/ codes' = [codes EXCEPT ![req[r].digits] = None] /\ Unfailing /\ UNCHANGED spared
     \/ Fail /\ spared' = spared \cup {req[r].row} /\ UNCHANGED codes
  /\ Rest /\ UNCHANGED <<sessions, issues, minted, tried>>

\* Mutant: how many rows the DELETE removed is not asked.
Burn_NoRowsAffected(r) ==
  /\ At(r, "burn")
  /\ codes' = [codes EXCEPT ![req[r].digits] = None]
  /\ Set(r, [req[r] EXCEPT !.pc = "mint", !.burnt = req[r].row])
  /\ Unfailing /\ Rest /\ UNCHANGED <<sessions, issues, seen>>

\* The DELETE that consumes a code: of the row the digits have now.
Burn(r) ==
  LET d == req[r].digits IN
  /\ At(r, "burn")
  /\ \/ codes[d] = None /\ Reply(r) /\ Unfailing /\ UNCHANGED codes
     \/ Reply(r) /\ Fail /\ UNCHANGED codes
     \/ /\ codes[d] # None
        /\ codes' = [codes EXCEPT ![d] = None]
        /\ Unfailing
        /\ IF IsAdmin(req[r].email)
           THEN Set(r, [req[r] EXCEPT !.pc = "mint", !.burnt = codes[d].issue])
           ELSE Reply(r)
  /\ Rest /\ UNCHANGED <<sessions, issues, seen>>

\* CreateSession, with the time sampled before the SELECT; a failure loses the code.
Mint(r) ==
  LET q == req[r] IN
  /\ At(r, "mint")
  /\ \/ /\ Reply(r) /\ Unfailing
        /\ minted' = Append(minted, q.burnt)
        /\ sessions' = sessions \cup {[token |-> Len(minted'), email |-> q.email,
                                       expires |-> q.at + SessionTTL, since |-> admins[q.email]]}
     \/ Reply(r) /\ Fail /\ UNCHANGED <<sessions, minted>>
  /\ Rest /\ UNCHANGED <<codes, issues, tried, spared>>

-----------------------------------------------------------------------------
\* The gate of every endpoint, and the logout.

\* LookupSession: the row is read with the time of the request; an expired one is removed
\* by another statement.
Lookup(r, s) ==
  /\ At(r, "new")
  /\ \/ s \notin sessions /\ Reply(r)
     \/ /\ s \in sessions
        /\ Set(r, [Blank EXCEPT !.pc = IF s.expires < now THEN "expire" ELSE "admin",
                                !.email = s.email, !.session = s])
  /\ Unfailing /\ Rest /\ UNCHANGED <<codes, sessions, issues, seen>>

Expire(r) ==
  /\ At(r, "expire")
  /\ Reply(r)
  /\ \/ sessions' = sessions \ {req[r].session} /\ Unfailing
     \/ Fail /\ UNCHANGED sessions
  /\ Rest /\ UNCHANGED <<codes, issues, seen>>

\* requireAdminSession asks again whether the address is an admin's; what the endpoint
\* then reads, or the 401, changes nothing.
Admit(r) ==
  /\ At(r, "admin")
  /\ Reply(r)
  /\ Unfailing /\ Rest /\ UNCHANGED <<codes, sessions, issues, seen>>

Logout(r, s) ==
  /\ At(r, "new")
  /\ s \in sessions
  /\ Reply(r)
  /\ \/ sessions' = sessions \ {s} /\ Unfailing
     \/ Fail /\ UNCHANGED sessions
  /\ Rest /\ UNCHANGED <<codes, issues, seen>>

Handle(r) ==
  \/ \E e \in Email : RequestCode(r, e) \/ \E d \in Digits : Verify(r, e, d)
  \/ \E d \in Digits : IssueCode(r, d)
  \/ Count(r) \/ Lock(r) \/ Burn(r) \/ Mint(r)
  \/ \E s \in sessions : Lookup(r, s) \/ Logout(r, s)
  \/ Expire(r) \/ Admit(r)

Next ==
  \/ \E e \in Email : AddAdmin(e) \/ RemoveAdmin(e)
  \/ Boot \/ Stop \/ Tick
  \/ \E r \in Request : Handle(r)

Spec == Init /\ [][Next]_vars

-----------------------------------------------------------------------------
Pc == {"new", "issue", "count", "lock", "burn", "mint", "expire", "admin"}
CodeRow == [email : Email, issue : Nat, attempts : Nat, since : Nat, created : Nat, expires : Nat]
ASSUME NoneIsNoRow == None \notin CodeRow
SessionRow == [token : Nat, email : Email, expires : Nat, since : Nat]
RequestRow == [pc : Pc, email : Email \cup {None}, digits : Digits \cup {None}, row : Nat,
               burnt : Nat, session : SessionRow \cup {None}, at : Nat]

TypeOK ==
  /\ list \subseteq Email
  /\ admins \in [Email -> Nat]
  /\ codes \in [Digits -> CodeRow \cup {None}]
  /\ sessions \subseteq SessionRow
  /\ up \in BOOLEAN
  /\ boots \in Nat /\ edits \in Nat /\ issues \in Nat /\ failures \in Nat /\ now \in Nat
  /\ req \in [Request -> RequestRow]
  /\ \A r \in Request : (req[r].pc \in {"issue", "burn", "mint"} => req[r].email \in Email)
                        /\ (req[r].pc \in {"count", "lock", "burn"} => req[r].digits \in Digits)
  /\ minted \in Seq(Nat)

\* While the server runs, every code and session there is belongs to an address on the
\* list, and was made since that address last came on it: removing an admin, in any
\* spelling, and booting ends what it had, also when it is added again later
\* (runAdminRemove, LoadAdminsFromManifest, SyncAdmins, CreateSession).
RevokedWithAdmin ==
  up =>
    /\ \A s \in sessions : s.email \in list /\ s.since = admins[s.email]
    /\ \A d \in Digits : codes[d] # None => codes[d].email \in list /\ codes[d].since = admins[codes[d].email]

\* One issued code buys one session, whatever the requests that answered it: only the one
\* whose DELETE removed the row goes on (VerifyCode).
OneSessionPerIssue ==
  \A i, j \in DOMAIN minted : minted[i] = minted[j] => i = j

\* A code takes MaxCodeAttempts wrong answers and no more, but for one per request already past
\* its SELECT, unless a count or the lock itself failed (VerifyCode).
TriesBounded ==
  \A i \in 1 .. MaxIssues \ spared : tried[i] < MaxAttempts + Cardinality(Request)

-----------------------------------------------------------------------------
\* What the proofs rest on.

\* The rows of the tables are of admins, and of the time since each came on the list; a
\* request past the admin check is one's too.
Synced ==
  /\ up => \A e \in Email : admins[e] # 0 <=> e \in list
  /\ \A s \in sessions : s.since # 0 /\ s.since = admins[s.email]
  /\ \A d \in Digits : codes[d] # None => codes[d].since # 0 /\ codes[d].since = admins[codes[d].email]
  /\ \A r \in Request : req[r].pc \in {"issue", "mint"} => admins[req[r].email] # 0
  /\ ~up => \A r \in Request : req[r] = Blank

\* An issue is in one place: the row of its digits, the request whose DELETE removed that
\* row, or the session it bought.
Held(i) == \E r \in Request : req[r].pc = "mint" /\ req[r].burnt = i
Spent(i) == \E j \in DOMAIN minted : minted[j] = i

OnePlace ==
  /\ \A d \in Digits : codes[d] # None =>
       codes[d].issue \in 1 .. issues /\ ~Held(codes[d].issue) /\ ~Spent(codes[d].issue)
  /\ \A r \in Request : req[r].pc = "mint" => req[r].burnt \in 1 .. issues /\ ~Spent(req[r].burnt)
  /\ \A j \in DOMAIN minted : minted[j] \in 1 .. issues
  /\ \A c, d \in Digits : codes[c] # None /\ codes[d] # None /\ codes[c].issue = codes[d].issue => c = d
  /\ \A q, r \in Request : req[q].pc = "mint" /\ req[r].pc = "mint" /\ req[q].burnt = req[r].burnt => q = r
  /\ OneSessionPerIssue

AdminInvariant == TypeOK /\ Synced /\ OnePlace

\* Requests, addresses and codes are interchangeable.
Symmetry == Permutations(Request) \cup Permutations(Email) \cup Permutations(Digits)
=============================================================================
