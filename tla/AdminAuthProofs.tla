--------------------------- MODULE AdminAuthProofs ---------------------------
(***************************************************************************)
(* Proofs about AdminAuth: AdminInvariant is inductive, and from it what   *)
(* RevokedWithAdmin and OneSessionPerIssue claim follows for any number of *)
(* requests, addresses, codes, boots, edits and failures.  TriesBounded    *)
(* rests on a second invariant, TriesInv, that relates the wrong answers   *)
(* compared to those counted and those still on their way.  Last, that an  *)
(* admin's code is the same promise as a user's, OneTimeCode.              *)
(***************************************************************************)
EXTENDS AdminAuth, FiniteSetTheorems, TLAPS

LEMMA NatConstants ==
  /\ None \notin Email /\ None \notin Digits
  /\ CodeTTL \in Nat /\ SessionTTL \in Nat
BY AdminAssumption

\* What a step of a request may do to it: nothing but its own row changes.
LEMMA BlankType ==
  Blank \in RequestRow
BY DEF Blank, Pc, RequestRow

-----------------------------------------------------------------------------
\* Initial states.

LEMMA InitInvariant == Init => AdminInvariant
<1> SUFFICES ASSUME Init PROVE AdminInvariant
  OBVIOUS
<1>a. req \in [Request -> RequestRow]
  BY BlankType DEF Init
<1>b. \A r \in Request : req[r].pc = "new"
  BY DEF Init, Blank
<1>c. minted \in Seq(Nat)
  BY DEF Init
<1>1. TypeOK
  BY <1>a, <1>b, <1>c DEF Init, TypeOK
<1>2. Synced
  BY DEF Init, Synced, Blank
<1>3. OnePlace
  BY DEF Init, OnePlace, OneSessionPerIssue, Blank
<1> QED
  BY <1>1, <1>2, <1>3 DEF AdminInvariant

-----------------------------------------------------------------------------
\* The list, and the server's life.

LEMMA EditsKeep ==
  ASSUME AdminInvariant, NEW e \in Email, AddAdmin(e) \/ RemoveAdmin(e)
  PROVE  AdminInvariant'
<1> USE DEF AdminInvariant
<1>1. /\ ~up /\ up' = up /\ list' \subseteq Email /\ edits' = edits + 1
      /\ UNCHANGED <<admins, codes, sessions, boots, issues, failures, now, req, minted>>
  BY DEF AddAdmin, RemoveAdmin, tables, seen, TypeOK
<1>2. TypeOK'
  BY <1>1 DEF TypeOK
<1>3. Synced'
  BY <1>1 DEF Synced
<1>4. OnePlace'
  BY <1>1 DEF OnePlace, OneSessionPerIssue, Held, Spent
<1> QED
  BY <1>2, <1>3, <1>4

LEMMA BootKeeps == ASSUME AdminInvariant, Boot PROVE AdminInvariant'
<1> USE DEF AdminInvariant
<1>1. /\ ~up /\ up' = TRUE /\ boots' = boots + 1 /\ boots \in Nat
      /\ admins' = [e \in Email |-> IF e \notin list THEN 0
                                    ELSE IF admins[e] = 0 THEN boots + 1 ELSE admins[e]]
      /\ codes' = [d \in Digits |-> IF codes[d] # None /\ codes[d].email \notin list
                                    THEN None ELSE codes[d]]
      /\ sessions' = {s \in sessions : s.email \in list}
      /\ UNCHANGED <<list, edits, issues, failures, now, req, minted>>
  BY DEF Boot, SyncAdmins, seen, TypeOK
<1>2. TypeOK'
  BY <1>1 DEF TypeOK
<1>3. \A d \in Digits : codes'[d] # None =>
         codes'[d] = codes[d] /\ codes[d] # None /\ codes[d].email \in list
  BY <1>1
<1>4. \A e \in Email : /\ admins'[e] # 0 <=> e \in list
                       /\ e \in list /\ admins[e] # 0 => admins'[e] = admins[e]
  BY <1>1 DEF TypeOK
<1>5. Synced'
  <2>1. \A s \in sessions' : s.since # 0 /\ s.since = admins'[s.email]
    <3> SUFFICES ASSUME NEW s \in sessions' PROVE s.since # 0 /\ s.since = admins'[s.email]
      OBVIOUS
    <3>1. s \in sessions /\ s.email \in list /\ s.email \in Email
      BY <1>1 DEF TypeOK, SessionRow
    <3> QED
      BY <3>1, <1>4 DEF Synced
  <2>2. \A d \in Digits : codes'[d] # None =>
           codes'[d].since # 0 /\ codes'[d].since = admins'[codes'[d].email]
    <3> SUFFICES ASSUME NEW d \in Digits, codes'[d] # None
                 PROVE codes'[d].since # 0 /\ codes'[d].since = admins'[codes'[d].email]
      OBVIOUS
    <3>1. codes[d] \in CodeRow /\ codes[d].email \in Email
      BY <1>3 DEF TypeOK, CodeRow
    <3> QED
      BY <3>1, <1>3, <1>4 DEF Synced
  <2>3. \A r \in Request : req'[r].pc \notin {"issue", "mint"}
    BY <1>1 DEF Synced, Blank
  <2> QED
    BY <1>1, <1>4, <2>1, <2>2, <2>3 DEF Synced
<1>6. OnePlace'
  BY <1>1, <1>3 DEF OnePlace, OneSessionPerIssue, Held, Spent
<1> QED
  BY <1>2, <1>5, <1>6

LEMMA StopKeeps == ASSUME AdminInvariant, Stop PROVE AdminInvariant'
<1> USE DEF AdminInvariant
<1>1. /\ up' = FALSE /\ req' = [r \in Request |-> Blank]
      /\ UNCHANGED <<list, admins, codes, sessions, boots, edits, issues, failures, now, minted>>
  BY DEF Stop, tables, bounds
<1>2. TypeOK'
  BY <1>1, BlankType DEF TypeOK, Blank
<1>3. \A r \in Request : req'[r] = Blank /\ req'[r].pc = "new"
  BY <1>1 DEF Blank
<1>4. Synced'
  BY <1>1, <1>3 DEF Synced
<1>5. OnePlace'
  BY <1>1, <1>3 DEF OnePlace, OneSessionPerIssue, Held, Spent
<1> QED
  BY <1>2, <1>4, <1>5

LEMMA QuietKeeps ==
  ASSUME AdminInvariant, now' \in Nat,
         UNCHANGED <<list, admins, codes, sessions, up, boots, edits, issues, failures, req, minted>>
  PROVE  AdminInvariant'
BY DEF AdminInvariant, TypeOK, Synced, OnePlace, OneSessionPerIssue, Held, Spent
-----------------------------------------------------------------------------
\* The steps of a request.

\* A step of r that leaves the tables as they are, or only changes how often codes were
\* answered, and takes r anywhere but past the admin check or a consumed code.
LEMMA RequestKeeps ==
  ASSUME AdminInvariant, up, NEW r \in Request, NEW q, req' = [req EXCEPT ![r] = q],
         q \in RequestRow,
         q.pc \in {"issue", "burn", "mint"} => q.email \in Email,
         q.pc \in {"count", "lock", "burn"} => q.digits \in Digits,
         q.pc = "issue" => admins[q.email] # 0,
         q.pc # "mint",
         failures' \in Nat,
         UNCHANGED <<list, admins, codes, sessions, up, boots, edits, issues, now, minted>>
  PROVE  AdminInvariant'
<1> USE DEF AdminInvariant
<1>1. \A x \in Request : req'[x] = IF x = r THEN q ELSE req[x]
  BY DEF TypeOK
<1>2. TypeOK'
  BY <1>1 DEF TypeOK
<1>3. Synced'
  BY <1>1 DEF Synced
<1>4. OnePlace'
  BY <1>1 DEF OnePlace, OneSessionPerIssue, Held, Spent
<1> QED
  BY <1>2, <1>3, <1>4

\* A step of r that removes rows of the tables, or counts an answer, and ends there.
LEMMA RemovalKeeps ==
  ASSUME AdminInvariant, up, NEW r \in Request, NEW q, req' = [req EXCEPT ![r] = q],
         q \in RequestRow,
         q.pc \in {"new", "lock"}, q.pc = "lock" => q.digits \in Digits,
         failures' \in Nat,
         codes' \in [Digits -> CodeRow \cup {None}],
         \A d \in Digits : codes'[d] # None =>
           /\ codes[d] # None /\ codes'[d].issue = codes[d].issue
           /\ codes'[d].email = codes[d].email /\ codes'[d].since = codes[d].since,
         sessions' \subseteq sessions,
         UNCHANGED <<list, admins, up, boots, edits, issues, now, minted>>
  PROVE  AdminInvariant'
<1> USE DEF AdminInvariant
<1>1. \A x \in Request : req'[x] = IF x = r THEN q ELSE req[x]
  BY DEF TypeOK
<1>2. TypeOK'
  BY <1>1 DEF TypeOK
<1>3. Synced'
  BY <1>1 DEF Synced
<1>4. OnePlace'
  BY <1>1 DEF OnePlace, OneSessionPerIssue, Held, Spent
<1> QED
  BY <1>2, <1>3, <1>4

LEMMA IssueKeeps ==
  ASSUME AdminInvariant, NEW r \in Request, NEW d \in Digits, IssueCode(r, d)
  PROVE  AdminInvariant'
<1> USE DEF AdminInvariant
<1>1. CASE codes[d] # None
  <2>1. Blank.pc = "new" /\ failures' = failures /\ failures \in Nat
    BY <1>1 DEF IssueCode, Unfailing, Blank, TypeOK
  <2> QED
    BY <1>1, <2>1, BlankType, RequestKeeps, Zenon
    DEF IssueCode, Rest, Reply, Set, At, seen, Unfailing
<1>2. CASE codes[d] = None
  <2> DEFINE row == [email |-> req[r].email, issue |-> issues + 1, attempts |-> 0,
                     since |-> admins[req[r].email], created |-> req[r].at,
                     expires |-> req[r].at + CodeTTL]
  <2>1. /\ up /\ req[r].pc = "issue" /\ issues' = issues + 1
        /\ codes' = [codes EXCEPT ![d] = row]
        /\ req' = [req EXCEPT ![r] = Blank]
        /\ failures' \in Nat
        /\ UNCHANGED <<list, admins, sessions, up, boots, edits, now, minted>>
    BY <1>2 DEF IssueCode, At, Reply, Set, Unfailing, Fail, Rest, seen, TypeOK
  <2>2. row \in CodeRow /\ row.issue = issues + 1 /\ row.email = req[r].email
        /\ row.since = admins[req[r].email] /\ row.since # 0 /\ issues \in Nat
    BY <2>1, NatConstants DEF TypeOK, CodeRow, RequestRow, Synced
  <2>3. \A x \in Request : req'[x] = IF x = r THEN Blank ELSE req[x]
    BY <2>1 DEF TypeOK
  <2>4. \A c \in Digits : codes'[c] = IF c = d THEN row ELSE codes[c]
    BY <2>1 DEF TypeOK
  <2>5. Blank.pc = "new"
    BY DEF Blank
  <2> HIDE DEF row
  <2>6. TypeOK'
    <3>1. codes' \in [Digits -> CodeRow \cup {None}]
      BY <2>1, <2>2 DEF TypeOK
    <3>2. req' \in [Request -> RequestRow]
      BY <2>1, BlankType DEF TypeOK
    <3>3. issues' \in Nat
      BY <2>1, <2>2
    <3> QED
      BY <2>1, <2>3, <2>5, <3>1, <3>2, <3>3 DEF TypeOK
  <2>7. Synced'
    BY <2>1, <2>2, <2>3, <2>4, <2>5 DEF Synced
  <2>8. OnePlace'
    BY <2>1, <2>2, <2>3, <2>4, <2>5 DEF OnePlace, OneSessionPerIssue, Held, Spent
  <2> QED
    BY <2>6, <2>7, <2>8
<1> QED
  BY <1>1, <1>2

LEMMA ReadsKeep ==
  ASSUME AdminInvariant, NEW r \in Request,
         \/ \E e \in Email : RequestCode(r, e) \/ \E d \in Digits : Verify(r, e, d)
         \/ \E s \in sessions : Lookup(r, s)
         \/ Admit(r)
  PROVE  AdminInvariant'
<1> DEFINE Goes(q) == /\ q \in RequestRow
                      /\ q.pc \in {"issue", "burn", "mint"} => q.email \in Email
                      /\ q.pc \in {"count", "lock", "burn"} => q.digits \in Digits
                      /\ q.pc = "issue" => admins[q.email] # 0
                      /\ q.pc # "mint"
<1>0. up /\ now \in Nat
  BY DEF RequestCode, Verify, Lookup, Admit, At, AdminInvariant, TypeOK
<1>b. Goes(Blank)
  BY BlankType DEF Blank
<1>1. \E q : Goes(q) /\ Set(r, q)
  <2>1. ASSUME NEW e \in Email, RequestCode(r, e) PROVE \E q : Goes(q) /\ Set(r, q)
    <3> DEFINE q == [Blank EXCEPT !.pc = "issue", !.email = e, !.at = now]
    <3>1. q \in RequestRow /\ q.pc = "issue" /\ q.email = e
      BY <1>0, BlankType DEF Blank, RequestRow, Pc
    <3> HIDE DEF q
    <3>2. admins[e] # 0 => Goes(q)
      BY <3>1
    <3> QED
      BY <2>1, <3>2, <1>b DEF RequestCode, Reply, IsAdmin, q
  <2>2. ASSUME NEW e \in Email, NEW d \in Digits, Verify(r, e, d) PROVE \E q : Goes(q) /\ Set(r, q)
    <3>1. CASE Reply(r)
      BY <3>1, <1>b DEF Reply
    <3>2. ASSUME NEW c \in Latest(e),
                 Set(r, [Blank EXCEPT !.pc = IF d = c THEN "burn" ELSE "count",
                                      !.email = e, !.digits = c, !.row = codes[c].issue,
                                      !.at = IF d = c THEN now ELSE 0])
          PROVE  \E q : Goes(q) /\ Set(r, q)
      <4> DEFINE q == [Blank EXCEPT !.pc = IF d = c THEN "burn" ELSE "count",
                                    !.email = e, !.digits = c, !.row = codes[c].issue,
                                    !.at = IF d = c THEN now ELSE 0]
      <4>1. c \in Digits /\ codes[c] \in CodeRow /\ codes[c].issue \in Nat
        BY DEF Latest, Unexpired, AdminInvariant, TypeOK, CodeRow
      <4>2. q \in RequestRow /\ q.pc \in {"burn", "count"} /\ q.email = e /\ q.digits = c
        BY <4>1, <1>0, BlankType DEF Blank, RequestRow, Pc
      <4> HIDE DEF q
      <4>3. Goes(q)
        BY <4>1, <4>2
      <4> QED
        BY <4>3, <3>2 DEF q
    <3> QED
      BY <2>2, <3>1, <3>2 DEF Verify
  <2>3. ASSUME NEW s \in sessions, Lookup(r, s) PROVE \E q : Goes(q) /\ Set(r, q)
    <3> DEFINE q == [Blank EXCEPT !.pc = IF s.expires < now THEN "expire" ELSE "admin",
                                  !.email = s.email, !.session = s]
    <3>1. s \in SessionRow /\ s.email \in Email
      BY DEF AdminInvariant, TypeOK, SessionRow
    <3>2. q \in RequestRow /\ q.pc \in {"expire", "admin"}
      BY <3>1, <1>0, BlankType DEF Blank, RequestRow, Pc
    <3> HIDE DEF q
    <3>3. Goes(q)
      BY <3>2
    <3> QED
      BY <2>3, <3>3, <1>b DEF Lookup, Reply, q
  <2>4. CASE Admit(r)
    BY <2>4, <1>b DEF Admit, Reply
  <2> QED
    BY <2>1, <2>2, <2>3, <2>4
<1>2. failures' \in Nat /\ UNCHANGED <<list, admins, codes, sessions, up, boots, edits, issues, now, minted>>
  BY DEF RequestCode, Verify, Lookup, Admit, Unfailing, Rest, seen, AdminInvariant, TypeOK
<1> QED
  BY <1>0, <1>1, <1>2, RequestKeeps DEF Set

LEMMA RemovalsKeep ==
  ASSUME AdminInvariant, NEW r \in Request,
         \/ Count(r) \/ Lock(r) \/ Expire(r)
         \/ \E s \in sessions : Logout(r, s)
  PROVE  AdminInvariant'
<1> DEFINE Goes(q) == /\ q \in RequestRow
                      /\ q.pc \in {"new", "lock"}
                      /\ q.pc = "lock" => q.digits \in Digits
<1>b. Goes(Blank)
  BY BlankType DEF Blank
<1>1. up /\ \E q : Goes(q) /\ Set(r, q)
  <2>1. CASE Count(r)
    <3> DEFINE q == [req[r] EXCEPT !.pc = "lock"]
    <3>1. req[r] \in RequestRow /\ req[r].digits \in Digits
      BY <2>1 DEF Count, At, AdminInvariant, TypeOK
    <3>2. q \in RequestRow /\ q.pc = "lock" /\ q.digits = req[r].digits
      BY <3>1 DEF RequestRow, Pc
    <3> HIDE DEF q
    <3>3. Goes(q)
      BY <3>1, <3>2
    <3> QED
      BY <2>1, <3>3, <1>b DEF Count, At, Reply, q
  <2>2. CASE Lock(r) \/ Expire(r) \/ \E s \in sessions : Logout(r, s)
    BY <2>2, <1>b DEF Lock, Expire, Logout, At, Reply
  <2> QED
    BY <2>1, <2>2
<1>2. /\ failures' \in Nat
      /\ UNCHANGED <<list, admins, up, boots, edits, issues, now, minted>>
      /\ sessions' \subseteq sessions
  BY DEF Count, Lock, Expire, Logout, Unfailing, Fail, Rest, seen, AdminInvariant, TypeOK
<1>3. /\ codes' \in [Digits -> CodeRow \cup {None}]
      /\ \A d \in Digits : codes'[d] # None =>
           /\ codes[d] # None /\ codes'[d].issue = codes[d].issue
           /\ codes'[d].email = codes[d].email /\ codes'[d].since = codes[d].since
  <2> DEFINE d == req[r].digits
  <2>1. CASE UNCHANGED codes
    BY <2>1 DEF AdminInvariant, TypeOK
  <2>2. CASE d \in Digits /\ codes[d] # None /\ codes' = [codes EXCEPT ![d].attempts = @ + 1]
    <3>1. codes[d] \in CodeRow
      BY <2>2 DEF AdminInvariant, TypeOK
    <3>2. [codes[d] EXCEPT !.attempts = @ + 1] \in CodeRow
      BY <3>1 DEF CodeRow
    <3>3. \A x \in Digits : codes'[x] = IF x = d THEN [codes[d] EXCEPT !.attempts = @ + 1] ELSE codes[x]
      BY <2>2 DEF AdminInvariant, TypeOK
    <3> QED
      BY <2>2, <3>1, <3>2, <3>3 DEF CodeRow, AdminInvariant, TypeOK
  <2>3. CASE codes' = [codes EXCEPT ![d] = None]
    BY <2>3 DEF AdminInvariant, TypeOK
  <2> QED
    BY <2>1, <2>2, <2>3 DEF Count, Lock, Expire, Logout, At, AdminInvariant, TypeOK
<1> QED
  BY <1>1, <1>2, <1>3, RemovalKeeps DEF Set

LEMMA BurnKeeps == ASSUME AdminInvariant, NEW r \in Request, Burn(r) PROVE AdminInvariant'
<1> USE DEF AdminInvariant
<1> DEFINE d == req[r].digits
           q == [req[r] EXCEPT !.pc = "mint", !.burnt = codes[d].issue]
<1>1. /\ up /\ req[r].pc = "burn" /\ d \in Digits /\ req[r].email \in Email /\ req[r] \in RequestRow
      /\ failures' \in Nat
      /\ UNCHANGED <<list, admins, sessions, up, boots, edits, issues, now, minted>>
  BY DEF Burn, At, Unfailing, Fail, Rest, seen, TypeOK
<1>b. Blank.pc = "new"
  BY DEF Blank
<1>2. CASE UNCHANGED codes /\ Reply(r)
  BY <1>1, <1>2, <1>b, BlankType, RequestKeeps DEF Reply, Set
<1>3. CASE /\ codes[d] # None /\ codes' = [codes EXCEPT ![d] = None]
           /\ \/ Reply(r)
              \/ IsAdmin(req[r].email) /\ Set(r, q)
  <2>1. codes[d] \in CodeRow /\ codes[d].issue \in Nat
    BY <1>1, <1>3 DEF TypeOK, CodeRow
  <2>2. codes' \in [Digits -> CodeRow \cup {None}]
        /\ \A c \in Digits : codes'[c] = IF c = d THEN None ELSE codes[c]
    BY <1>1, <1>3 DEF TypeOK
  <2>3. CASE Reply(r)
    BY <1>1, <2>2, <2>3, BlankType, RemovalKeeps DEF Reply, Set, Blank
  <2>4. CASE IsAdmin(req[r].email) /\ Set(r, q)
    <3>1. q \in RequestRow /\ q.pc = "mint" /\ q.burnt = codes[d].issue /\ q.email = req[r].email
      BY <1>1, <2>1 DEF RequestRow, Pc
    <3> HIDE DEF q
    <3>2. \A x \in Request : req'[x] = IF x = r THEN q ELSE req[x]
      BY <2>4 DEF Set, TypeOK
    <3>3. req' \in [Request -> RequestRow]
      BY <2>4, <3>1 DEF Set, TypeOK
    <3>4. TypeOK'
      BY <1>1, <2>2, <3>1, <3>2, <3>3 DEF TypeOK
    <3>5. Synced'
      BY <1>1, <2>2, <2>4, <3>1, <3>2 DEF Synced, IsAdmin
    <3>6. OnePlace'
      BY <1>1, <1>3, <2>2, <3>1, <3>2 DEF OnePlace, OneSessionPerIssue, Held, Spent
    <3> QED
      BY <3>4, <3>5, <3>6
  <2> QED
    BY <1>3, <2>3, <2>4
<1> QED
  BY <1>2, <1>3 DEF Burn

LEMMA MintKeeps == ASSUME AdminInvariant, NEW r \in Request, Mint(r) PROVE AdminInvariant'
<1> USE DEF AdminInvariant
<1>1. /\ up /\ req[r].pc = "mint" /\ req[r] \in RequestRow /\ req[r].email \in Email
      /\ Reply(r) /\ failures' \in Nat
      /\ UNCHANGED <<list, admins, codes, up, boots, edits, issues, now>>
  BY DEF Mint, At, Unfailing, Fail, Rest, seen, TypeOK
<1>b. Blank.pc = "new"
  BY DEF Blank
<1>2. CASE UNCHANGED <<sessions, minted>>
  BY <1>1, <1>2, <1>b, BlankType, RequestKeeps DEF Reply, Set
<1>3. CASE /\ minted' = Append(minted, req[r].burnt)
           /\ sessions' = sessions \cup {[token |-> Len(minted'), email |-> req[r].email,
                                          expires |-> req[r].at + SessionTTL,
                                          since |-> admins[req[r].email]]}
  <2> DEFINE s == [token |-> Len(minted'), email |-> req[r].email,
                   expires |-> req[r].at + SessionTTL, since |-> admins[req[r].email]]
  <2>1. req[r].burnt \in Nat /\ req[r].at \in Nat /\ minted \in Seq(Nat)
    BY <1>1 DEF RequestRow, TypeOK
  <2>2. minted' \in Seq(Nat) /\ Len(minted') \in Nat
    BY <1>3, <2>1
  <2>3. s \in SessionRow /\ s.email = req[r].email /\ s.since = admins[req[r].email] /\ s.since # 0
    BY <1>1, <2>1, <2>2, NatConstants DEF SessionRow, TypeOK, Synced
  <2>4. sessions' = sessions \cup {s}
    BY <1>3
  <2> HIDE DEF s
  <2>5. /\ \A x \in Request : req'[x] = IF x = r THEN Blank ELSE req[x]
        /\ req' \in [Request -> RequestRow]
        /\ Blank.pc = "new"
    BY <1>1, BlankType DEF Reply, Set, TypeOK, Blank
  <2>6. /\ Len(minted) \in Nat /\ DOMAIN minted = 1 .. Len(minted)
        /\ DOMAIN minted' = 1 .. Len(minted) + 1
        /\ minted'[Len(minted) + 1] = req[r].burnt
        /\ \A j \in 1 .. Len(minted) : minted'[j] = minted[j]
    BY <1>3, <2>1
  <2>7. TypeOK'
    BY <1>1, <2>2, <2>3, <2>4, <2>5 DEF TypeOK
  <2>8. Synced'
    BY <1>1, <2>3, <2>4, <2>5 DEF Synced
  <2>9. OnePlace'
    <3>1. ASSUME NEW i PROVE Spent(i)' <=> Spent(i) \/ i = req[r].burnt
      <4>1. Spent(i)' <=> \E j \in 1 .. Len(minted) + 1 : minted'[j] = i
        BY <2>6 DEF Spent
      <4>2. Spent(i) <=> \E j \in 1 .. Len(minted) : minted[j] = i
        BY <2>6 DEF Spent
      <4>3. \A j : j \in 1 .. Len(minted) + 1 <=> j \in 1 .. Len(minted) \/ j = Len(minted) + 1
        BY <2>6
      <4> QED
        BY <4>1, <4>2, <4>3, <2>6
    <3>2. \A i : Held(i)' <=> \E x \in Request : x # r /\ req[x].pc = "mint" /\ req[x].burnt = i
      BY <2>5 DEF Held
    <3>3. ~Spent(req[r].burnt) /\ req[r].burnt \in 1 .. issues /\ Held(req[r].burnt)
      BY <1>1 DEF OnePlace, Held
    <3>4. OneSessionPerIssue'
      BY <2>6, <3>3 DEF OnePlace, OneSessionPerIssue, Spent
    <3>5. \A j \in DOMAIN minted' : minted'[j] \in 1 .. issues'
      BY <1>1, <2>6, <3>3 DEF OnePlace
    <3>6. \A d \in Digits : (codes[d] # None =>
            codes[d].issue \in 1 .. issues /\ ~Held(codes[d].issue) /\ ~Spent(codes[d].issue))'
      BY <1>1, <3>1, <3>2, <3>3 DEF OnePlace, Held
    <3>7. \A x \in Request : (req[x].pc = "mint" =>
            req[x].burnt \in 1 .. issues /\ ~Spent(req[x].burnt))'
      BY <1>1, <2>5, <3>1, <3>3 DEF OnePlace
    <3> QED
      BY <1>1, <2>5, <3>4, <3>5, <3>6, <3>7 DEF OnePlace
  <2> QED
    BY <2>7, <2>8, <2>9
<1> QED
  BY <1>2, <1>3 DEF Mint

-----------------------------------------------------------------------------
LEMMA NextKeeps == ASSUME AdminInvariant, [Next]_vars PROVE AdminInvariant'
<1>1. ASSUME NEW e \in Email, AddAdmin(e) \/ RemoveAdmin(e) PROVE AdminInvariant'
  BY <1>1, EditsKeep
<1>2. CASE Boot
  BY <1>2, BootKeeps
<1>3. CASE Stop
  BY <1>3, StopKeeps
<1>4. CASE Tick
  <2>1. now' \in Nat
    BY <1>4 DEF Tick, AdminInvariant, TypeOK
  <2> QED
    BY <1>4, <2>1, QuietKeeps DEF Tick, tables, bounds, seen
<1>5. ASSUME NEW r \in Request, Handle(r) PROVE AdminInvariant'
  BY <1>5, ReadsKeep, RemovalsKeep, IssueKeeps, BurnKeeps, MintKeeps DEF Handle
<1>6. CASE UNCHANGED vars
  <2>1. now' \in Nat
    BY <1>6 DEF vars, AdminInvariant, TypeOK
  <2> QED
    BY <1>6, <2>1, QuietKeeps DEF vars, tables, bounds, seen
<1> QED
  BY <1>1, <1>2, <1>3, <1>4, <1>5, <1>6 DEF Next

\* AdminInvariant holds in every reachable state, whatever interleaves, fails or restarts.
THEOREM AdminInvariantHolds == Spec => []AdminInvariant
<1>1. Init => AdminInvariant
  BY InitInvariant
<1>2. AdminInvariant /\ [Next]_vars => AdminInvariant'
  BY NextKeeps
<1> QED
  BY <1>1, <1>2, PTL DEF Spec

\* A removed admin's codes and sessions are gone once the server has booted without it,
\* however often an address leaves the list and comes back (SyncAdmins).
THEOREM RevokedWithAdminHolds == Spec => []RevokedWithAdmin
<1>1. AdminInvariant => RevokedWithAdmin
  BY DEF AdminInvariant, TypeOK, Synced, RevokedWithAdmin, CodeRow, SessionRow
<1> QED
  BY <1>1, AdminInvariantHolds, PTL

\* An issued code buys at most one session, for any number of concurrent answers
\* (VerifyCode, CreateSession).
THEOREM OneSessionPerIssueHolds == Spec => []OneSessionPerIssue
<1>1. AdminInvariant => OneSessionPerIssue
  BY DEF AdminInvariant, OnePlace
<1> QED
  BY <1>1, AdminInvariantHolds, PTL

-----------------------------------------------------------------------------
\* The wrong answers of an issue.

Wrong == {"count", "lock"}

\* The requests that compared a wrong answer with issue i and have not counted it, and
\* those that have not counted it or not tried the lock.
Counting(i) == {r \in Request : req[r].pc = "count" /\ req[r].row = i}
Answering(i) == {r \in Request : req[r].pc \in Wrong /\ req[r].row = i}

HasRow(d, i) == codes[d] # None /\ codes[d].issue = i

\* An issue that still has a row has it at the digits it was compared at.
Placed ==
  /\ issues <= MaxIssues
  /\ tried \in [1 .. MaxIssues -> Nat]
  /\ \A i \in 1 .. MaxIssues : i > issues => tried[i] = 0
  /\ \A r \in Request : req[r].pc \in Wrong =>
       /\ req[r].row \in 1 .. issues
       /\ \A d \in Digits : HasRow(d, req[r].row) => d = req[r].digits

\* Every wrong answer was counted, if not always on behalf of its own issue, and the one
\* that counted MaxAttempts is about to lock.
Tally(i) ==
  i \notin spared =>
    /\ \A d \in Digits : HasRow(d, i) =>
         /\ tried[i] <= codes[d].attempts + Cardinality(Counting(i))
         /\ tried[i] <= MaxAttempts - 1 + Cardinality(Answering(i))
    /\ tried[i] <= MaxAttempts - 1 + Cardinality(Request)

TriesInv == Placed /\ \A i \in 1 .. MaxIssues : Tally(i)

LEMMA Subsets ==
  ASSUME IsFiniteSet(Request), NEW i
  PROVE  /\ Cardinality(Request) \in Nat
         /\ IsFiniteSet(Counting(i)) /\ IsFiniteSet(Answering(i))
         /\ Cardinality(Counting(i)) \in Nat /\ Cardinality(Answering(i)) \in Nat
         /\ Cardinality(Answering(i)) <= Cardinality(Request)
<1>1. Counting(i) \in SUBSET Request /\ Answering(i) \in SUBSET Request
  BY DEF Counting, Answering
<1>2. IsFiniteSet(Counting(i)) /\ IsFiniteSet(Answering(i)) /\ Cardinality(Answering(i)) <= Cardinality(Request)
  BY <1>1, FS_Subset
<1> QED BY <1>2, FS_CardinalityType

\* A step that compares no answer and counts none: rows go, issues are spared, and only
\* requests whose issue has no row any more, or is spared, leave Wrong.
LEMMA CalmTally ==
  ASSUME AdminInvariant, TriesInv,
         issues' = issues, tried' = tried, spared \subseteq spared',
         \A d \in Digits : codes'[d] # None => codes'[d] = codes[d],
         \A q \in Request :
           \/ req'[q] = req[q]
           \/ req[q].pc \notin Wrong /\ req'[q].pc \notin Wrong
           \/ /\ req'[q].pc \notin Wrong
              /\ \/ req[q].row \in spared'
                 \/ \A d \in Digits : codes'[d] # None => codes'[d].issue # req[q].row
  PROVE  TriesInv'
<1>1. Placed'
  <2>1. \A d \in Digits, i \in 1 .. issues : HasRow(d, i)' => HasRow(d, i)
    BY DEF HasRow
  <2>2. ASSUME NEW q \in Request, req'[q].pc \in Wrong
        PROVE  /\ req'[q].row \in 1 .. issues'
               /\ \A d \in Digits : HasRow(d, req[q].row)' => d = req'[q].digits
    <3>1. req'[q] = req[q]
      BY <2>2
    <3> QED BY <2>1, <2>2, <3>1 DEF TriesInv, Placed
  <2> QED BY <2>2 DEF TriesInv, Placed
<1>2. ASSUME NEW i \in 1 .. MaxIssues PROVE Tally(i)'
  <2> SUFFICES ASSUME i \notin spared'
               PROVE  /\ \A d \in Digits : HasRow(d, i)' =>
                           /\ tried[i] <= codes'[d].attempts + Cardinality(Counting(i)')
                           /\ tried[i] <= MaxAttempts - 1 + Cardinality(Answering(i)')
                      /\ tried[i] <= MaxAttempts - 1 + Cardinality(Request)
    BY DEF Tally
  <2>1. Tally(i) /\ i \notin spared
    BY DEF TriesInv
  <2>2. ASSUME NEW d \in Digits, HasRow(d, i)'
        PROVE  /\ tried[i] <= codes'[d].attempts + Cardinality(Counting(i)')
               /\ tried[i] <= MaxAttempts - 1 + Cardinality(Answering(i)')
    <3>1. codes'[d] = codes[d] /\ HasRow(d, i)
      BY <2>2 DEF HasRow
    <3>2. \A q \in Request : req[q].row = i => req'[q] = req[q] \/ (req[q].pc \notin Wrong /\ req'[q].pc \notin Wrong)
      BY <2>2 DEF HasRow
    <3>3. \A q \in Request : req'[q] = req[q] \/ req'[q].pc \notin Wrong
      OBVIOUS
    <3>4. Counting(i)' = Counting(i) /\ Answering(i)' = Answering(i)
      BY <3>2, <3>3 DEF Counting, Answering, Wrong
    <3> QED BY <2>1, <3>1, <3>4 DEF Tally
  <2> QED BY <2>1, <2>2 DEF Tally
<1> QED BY <1>1, <1>2 DEF TriesInv

LEMMA IssueTally ==
  ASSUME IsFiniteSet(Request), AdminInvariant, TriesInv,
         NEW r \in Request, NEW d \in Digits, IssueCode(r, d)
  PROVE  TriesInv'
<1>1. CASE codes[d] # None
  <2>1. /\ req' = [req EXCEPT ![r] = Blank] /\ req[r].pc = "issue"
        /\ UNCHANGED <<codes, issues, tried, spared>>
    BY <1>1 DEF IssueCode, At, Reply, Set, seen
  <2>2. \A q \in Request : \/ req'[q] = req[q]
                           \/ req[q].pc \notin Wrong /\ req'[q].pc \notin Wrong
    BY <2>1 DEF AdminInvariant, TypeOK, Wrong, Blank
  <2> QED BY <2>1, <2>2, CalmTally
<1>2. CASE codes[d] = None
  <2>1. /\ issues < MaxIssues /\ issues' = issues + 1 /\ issues \in Nat
        /\ codes' = [codes EXCEPT ![d] = [email |-> req[r].email, issue |-> issues', attempts |-> 0,
                                          since |-> admins[req[r].email], created |-> req[r].at,
                                          expires |-> req[r].at + CodeTTL]]
        /\ req' = [req EXCEPT ![r] = Blank] /\ req[r].pc = "issue"
        /\ UNCHANGED <<tried, spared>>
    BY <1>2 DEF IssueCode, At, Reply, Set, seen, AdminInvariant, TypeOK
  <2>2. /\ \A c \in Digits : c # d => codes'[c] = codes[c]
        /\ codes'[d].issue = issues + 1 /\ codes'[d].attempts = 0
    BY <2>1 DEF AdminInvariant, TypeOK
  <2>3. \A q \in Request : \/ req'[q] = req[q]
                           \/ req[q].pc \notin Wrong /\ req'[q].pc \notin Wrong
    BY <2>1 DEF AdminInvariant, TypeOK, Wrong, Blank
  <2>6. AdminInvariant'
    BY IssueKeeps
  <2>4. Placed'
    <3>1. ASSUME NEW q \in Request, req'[q].pc \in Wrong
          PROVE  /\ req'[q].row \in 1 .. issues'
                 /\ \A c \in Digits : codes'[c] # None /\ codes'[c].issue = req'[q].row => c = req'[q].digits
      <4>1. req'[q] = req[q] /\ req[q].pc \in Wrong
        BY <2>3, <3>1
      <4>2. req[q].row \in 1 .. issues
        BY <4>1 DEF TriesInv, Placed
      <4>3. \A c \in Digits : codes[c] # None /\ codes[c].issue = req[q].row => c = req[q].digits
        BY <4>1 DEF TriesInv, Placed, HasRow
      <4> QED BY <2>1, <2>2, <4>1, <4>2, <4>3
    <3>2. \A i \in 1 .. MaxIssues : i > issues' => tried'[i] = 0
      BY <2>1 DEF TriesInv, Placed
    <3>3. issues' <= MaxIssues
      BY <2>1, AdminAssumption
    <3> QED BY <2>1, <3>1, <3>2, <3>3 DEF TriesInv, Placed, HasRow
  <2>5. ASSUME NEW i \in 1 .. MaxIssues PROVE Tally(i)'
    <3>1. Counting(i)' = Counting(i) /\ Answering(i)' = Answering(i)
      BY <2>3 DEF Counting, Answering, Wrong
    <3>2. Tally(i) /\ spared' = spared /\ tried' = tried
      BY <2>1 DEF TriesInv
    <3>3. CASE i = issues + 1
      <4>1. tried[i] = 0
        BY <2>1, <3>3 DEF TriesInv, Placed
      <4>2. \A c \in Digits : HasRow(c, i)' => codes'[c].attempts \in Nat
        BY <2>6 DEF AdminInvariant, TypeOK, HasRow, CodeRow
      <4>3. MaxAttempts - 1 \in Nat
        BY AdminAssumption
      <4> QED BY <3>1, <3>2, <4>1, <4>2, <4>3, Subsets DEF Tally
    <3>4. CASE i # issues + 1
      <4>1. \A c \in Digits : HasRow(c, i)' => HasRow(c, i) /\ codes'[c] = codes[c]
        BY <2>2, <3>4 DEF HasRow
      <4> QED BY <3>1, <3>2, <4>1 DEF Tally
    <3> QED BY <3>3, <3>4
  <2> QED BY <2>4, <2>5 DEF TriesInv
<1> QED BY <1>1, <1>2

\* The comparison with an answer.
LEMMA VerifyTally ==
  ASSUME IsFiniteSet(Request), AdminInvariant, TriesInv,
         NEW r \in Request, NEW e \in Email, NEW answer \in Digits, Verify(r, e, answer)
  PROVE  TriesInv'
<1>0. req[r].pc = "new" /\ UNCHANGED <<codes, issues, spared>>
  BY DEF Verify, At
<1>1. CASE Reply(r) /\ UNCHANGED tried
  <2>1. \A q \in Request : \/ req'[q] = req[q]
                           \/ req[q].pc \notin Wrong /\ req'[q].pc \notin Wrong
    BY <1>0, <1>1 DEF Reply, Set, AdminInvariant, TypeOK, Wrong, Blank
  <2> QED BY <1>0, <1>1, <2>1, CalmTally
<1>2. ASSUME NEW d \in Latest(e),
             Set(r, [Blank EXCEPT !.pc = IF answer = d THEN "burn" ELSE "count",
                                  !.email = e, !.digits = d, !.row = codes[d].issue,
                                  !.at = IF answer = d THEN now ELSE 0]),
             tried' = IF answer = d THEN tried ELSE [tried EXCEPT ![codes[d].issue] = @ + 1]
      PROVE  TriesInv'
  <2>1. /\ \A q \in Request : q # r => req'[q] = req[q]
        /\ req'[r].pc = (IF answer = d THEN "burn" ELSE "count")
        /\ req'[r].digits = d /\ req'[r].row = codes[d].issue
    BY <1>2 DEF Set, AdminInvariant, TypeOK, Blank
  <2>2. d \in Digits /\ codes[d] # None /\ codes[d] \in CodeRow
    BY DEF Latest, Unexpired, AdminInvariant, TypeOK
  <2>3. CASE answer = d
    <3>1. \A q \in Request : \/ req'[q] = req[q]
                             \/ req[q].pc \notin Wrong /\ req'[q].pc \notin Wrong
      BY <1>0, <2>1, <2>3 DEF Wrong
    <3>2. tried' = tried
      BY <1>2, <2>3
    <3> QED BY <1>0, <3>1, <3>2, CalmTally
  <2>4. CASE answer # d
    <3> DEFINE k == codes[d].issue
    <3>1. k \in 1 .. issues /\ k \in 1 .. MaxIssues /\ issues \in Nat
      BY <2>2, AdminAssumption DEF AdminInvariant, OnePlace, TypeOK, TriesInv, Placed
    <3>2. tried \in [1 .. MaxIssues -> Nat]
      BY DEF TriesInv, Placed
    <3>3. /\ tried' = [tried EXCEPT ![k] = @ + 1]
          /\ tried'[k] = tried[k] + 1 /\ tried[k] \in Nat
          /\ \A i \in 1 .. MaxIssues : i # k => tried'[i] = tried[i]
          /\ tried' \in [1 .. MaxIssues -> Nat]
      BY <1>2, <2>4, <3>1, <3>2
    <3>4. \A c \in Digits : HasRow(c, k) => c = d
      BY <2>2 DEF HasRow, AdminInvariant, OnePlace
    <3>5. Placed'
      <4>1. ASSUME NEW q \in Request, req'[q].pc \in Wrong
            PROVE  /\ req'[q].row \in 1 .. issues'
                   /\ \A c \in Digits : codes'[c] # None /\ codes'[c].issue = req'[q].row => c = req'[q].digits
        <5>1. CASE q = r
          BY <1>0, <2>1, <3>1, <3>4, <5>1 DEF HasRow
        <5>2. CASE q # r
          BY <1>0, <2>1, <4>1, <5>2 DEF HasRow, TriesInv, Placed
        <5> QED BY <5>1, <5>2
      <4>2. \A i \in 1 .. MaxIssues : i > issues' => tried'[i] = 0
        BY <1>0, <3>1, <3>3 DEF TriesInv, Placed
      <4> QED BY <1>0, <3>3, <4>1, <4>2 DEF TriesInv, Placed, HasRow
    <3>6. ASSUME NEW i \in 1 .. MaxIssues PROVE Tally(i)'
      <4>1. Tally(i)
        BY DEF TriesInv
      <4>2. CASE i = k
        <5>1. /\ Counting(i)' = Counting(i) \cup {r} /\ r \notin Counting(i)
              /\ Answering(i)' = Answering(i) \cup {r} /\ r \notin Answering(i)
          BY <1>0, <2>1, <2>4, <4>2 DEF Counting, Answering, Wrong
        <5>2. /\ Cardinality(Counting(i)') = Cardinality(Counting(i)) + 1
              /\ Cardinality(Answering(i)') = Cardinality(Answering(i)) + 1
              /\ Cardinality(Counting(i)) \in Nat /\ Cardinality(Answering(i)) \in Nat
          BY <5>1, Subsets, FS_AddElement
        <5>3. Cardinality(Answering(i)') <= Cardinality(Request)
          <6>1. Answering(i)' \in SUBSET Request
            BY DEF Answering
          <6> QED BY <6>1, FS_Subset
        <5>4. \A c \in Digits : HasRow(c, i)' => c = d /\ codes'[c] = codes[d]
          BY <1>0, <3>4, <4>2 DEF HasRow
        <5>5. /\ codes[d].attempts \in Nat /\ MaxAttempts \in Nat /\ HasRow(d, i)
              /\ Cardinality(Request) \in Nat
          BY <2>2, <4>2, AdminAssumption, Subsets DEF CodeRow, HasRow
        <5>6. ASSUME i \notin spared'
              PROVE  /\ tried'[i] <= codes[d].attempts + Cardinality(Counting(i)')
                     /\ tried'[i] <= MaxAttempts - 1 + Cardinality(Answering(i)')
                     /\ tried'[i] <= MaxAttempts - 1 + Cardinality(Request)
          <6>1. /\ tried[i] <= codes[d].attempts + Cardinality(Counting(i))
                /\ tried[i] <= MaxAttempts - 1 + Cardinality(Answering(i))
            BY <1>0, <2>2, <4>1, <5>5, <5>6 DEF Tally
          <6>2. tried'[i] = tried[i] + 1 /\ tried[i] \in Nat
            BY <3>3, <4>2
          <6> QED BY <5>2, <5>3, <5>5, <6>1, <6>2
        <5> QED BY <5>4, <5>6 DEF Tally
      <4>3. CASE i # k
        <5>1. Counting(i)' = Counting(i) /\ Answering(i)' = Answering(i)
          BY <1>0, <2>1, <4>3 DEF Counting, Answering, Wrong
        <5>2. \A c \in Digits : HasRow(c, i)' => HasRow(c, i) /\ codes'[c] = codes[c]
          BY <1>0 DEF HasRow
        <5> QED BY <1>0, <3>3, <4>1, <4>3, <5>1, <5>2 DEF Tally
      <4> QED BY <4>2, <4>3
    <3> QED BY <3>5, <3>6 DEF TriesInv
  <2> QED BY <2>3, <2>4
<1> QED BY <1>1, <1>2 DEF Verify

\* The UPDATE counts for the issue whose row the digits have now.
LEMMA CountTally ==
  ASSUME IsFiniteSet(Request), AdminInvariant, TriesInv, NEW r \in Request, Count(r)
  PROVE  TriesInv'
<1> DEFINE d == req[r].digits
<1>0. /\ req[r].pc = "count" /\ d \in Digits /\ req[r].row \in 1 .. issues
      /\ \A c \in Digits : HasRow(c, req[r].row) => c = d
      /\ UNCHANGED <<issues, tried>>
  BY DEF Count, At, AdminInvariant, TypeOK, TriesInv, Placed, Wrong
<1>b. \A q \in Request : Reply(r) => req'[q] = IF q = r THEN Blank ELSE req[q]
  BY DEF Reply, Set, AdminInvariant, TypeOK
<1>1. CASE codes[d] = None /\ Reply(r) /\ UNCHANGED <<codes, spared>>
  <2>1. \A c \in Digits : codes'[c] # None => codes'[c].issue # req[r].row
    BY <1>0, <1>1 DEF HasRow
  <2> QED BY <1>0, <1>1, <1>b, <2>1, CalmTally DEF Wrong, Blank
<1>2. CASE Reply(r) /\ spared' = spared \cup {req[r].row} /\ UNCHANGED codes
  BY <1>0, <1>2, <1>b, CalmTally DEF Wrong, Blank
<1>3. CASE /\ codes[d] # None
           /\ codes' = [codes EXCEPT ![d].attempts = @ + 1]
           /\ IF Locks(codes'[d].attempts) THEN Set(r, [req[r] EXCEPT !.pc = "lock"]) ELSE Reply(r)
           /\ UNCHANGED spared
  <2>1. /\ \A c \in Digits : c # d => codes'[c] = codes[c]
        /\ codes'[d].attempts = codes[d].attempts + 1 /\ codes'[d].issue = codes[d].issue
        /\ codes[d].attempts \in Nat
    <3>1. codes[d] \in CodeRow
      BY <1>0, <1>3 DEF AdminInvariant, TypeOK
    <3> QED BY <1>0, <1>3, <3>1 DEF CodeRow, AdminInvariant, TypeOK
  <2>2. /\ \A q \in Request : q # r => req'[q] = req[q]
        /\ req'[r].pc \in {"lock", "new"}
        /\ req'[r].pc = "lock" => req'[r].row = req[r].row /\ req'[r].digits = d
        /\ req'[r].pc = "lock" <=> codes[d].attempts + 1 >= MaxAttempts
    <3>1. Locks(codes'[d].attempts) <=> codes[d].attempts + 1 >= MaxAttempts
      BY <2>1 DEF Locks
    <3>2. CASE Locks(codes'[d].attempts)
      BY <1>3, <3>1, <3>2 DEF Set, AdminInvariant, TypeOK, RequestRow
    <3>3. CASE ~Locks(codes'[d].attempts)
      BY <1>3, <1>b, <3>1, <3>3 DEF Blank
    <3> QED BY <3>2, <3>3
  <2>3. \A c \in Digits, i \in 1 .. MaxIssues : HasRow(c, i)' => HasRow(c, i)
    BY <1>3, <2>1 DEF HasRow
  <2> HIDE DEF d
  <2>4. Placed'
    <3>1. ASSUME NEW q \in Request, req'[q].pc \in Wrong
          PROVE  /\ req'[q].row \in 1 .. issues'
                 /\ \A c \in Digits : codes'[c] # None /\ codes'[c].issue = req'[q].row => c = req'[q].digits
      <4>1. req'[q].row = req[q].row /\ req'[q].digits = req[q].digits /\ req[q].pc \in Wrong
        BY <1>0, <2>2, <3>1 DEF Wrong, d
      <4>2. /\ req[q].row \in 1 .. issues
            /\ \A c \in Digits : codes[c] # None /\ codes[c].issue = req[q].row => c = req[q].digits
        BY <4>1 DEF TriesInv, Placed, HasRow
      <4> QED BY <1>0, <1>3, <2>1, <4>1, <4>2
    <3> QED BY <1>0, <3>1 DEF TriesInv, Placed, HasRow
  <2>5. ASSUME NEW i \in 1 .. MaxIssues PROVE Tally(i)'
    <3>1. Tally(i) /\ tried' = tried /\ spared' = spared /\ tried[i] \in Nat
      BY <1>0, <1>3 DEF TriesInv, Placed
    <3>2. CASE i # req[r].row
      <4>1. Counting(i)' = Counting(i) /\ Answering(i)' = Answering(i)
        BY <2>2, <3>2 DEF Counting, Answering, Wrong
      <4>2. ASSUME NEW c \in Digits, HasRow(c, i)'
            PROVE  codes[c].attempts \in Nat => codes'[c].attempts \in Nat /\ codes[c].attempts <= codes'[c].attempts
        BY <1>0, <2>1
      <4>3. \A c \in Digits : HasRow(c, i) => codes[c].attempts \in Nat
        BY DEF HasRow, AdminInvariant, TypeOK, CodeRow
      <4> QED BY <2>3, <3>1, <4>1, <4>2, <4>3, Subsets DEF Tally
    <3>3. CASE i = req[r].row
      <4>1. \A c \in Digits : HasRow(c, i)' => HasRow(c, i) /\ c = d
        BY <1>0, <2>3, <3>3 DEF d
      <4>2. /\ Counting(i)' = Counting(i) \ {r} /\ r \in Counting(i)
            /\ Answering(i)' = IF req'[r].pc = "lock" THEN Answering(i) ELSE Counting(i)' \cup (Answering(i) \ Counting(i))
            /\ Counting(i)' \in SUBSET Answering(i)'
        BY <1>0, <2>2, <3>3 DEF Counting, Answering, Wrong
      <4>3. /\ Cardinality(Counting(i)') = Cardinality(Counting(i)) - 1
            /\ Cardinality(Counting(i)) \in Nat /\ Cardinality(Answering(i)) \in Nat
            /\ Cardinality(Counting(i)') \in Nat
        BY <4>2, Subsets, FS_RemoveElement, FS_CardinalityType
      <4>4. /\ IsFiniteSet(Answering(i)') /\ Cardinality(Answering(i)') \in Nat
            /\ Cardinality(Counting(i)') <= Cardinality(Answering(i)')
        <5>1. Answering(i)' \in SUBSET Request
          BY DEF Answering
        <5>2. IsFiniteSet(Answering(i)')
          BY <5>1, FS_Subset
        <5> QED BY <4>2, <5>2, FS_Subset, FS_CardinalityType
      <4>5. MaxAttempts \in Nat
        BY AdminAssumption
      <4>6. ASSUME i \notin spared, HasRow(d, i)
            PROVE  /\ tried[i] <= codes'[d].attempts + Cardinality(Counting(i)')
                   /\ tried[i] <= MaxAttempts - 1 + Cardinality(Answering(i)')
        <5>1. /\ tried[i] <= codes[d].attempts + Cardinality(Counting(i))
              /\ tried[i] <= MaxAttempts - 1 + Cardinality(Answering(i))
          BY <1>0, <3>1, <4>6 DEF Tally, d
        <5>2. CASE req'[r].pc = "lock"
          BY <2>1, <3>1, <4>2, <4>3, <4>5, <5>1, <5>2
        <5>3. CASE req'[r].pc # "lock"
          BY <2>1, <2>2, <3>1, <4>3, <4>4, <4>5, <5>1, <5>3
        <5> QED BY <5>2, <5>3
      <4> QED BY <3>1, <4>1, <4>6 DEF Tally
    <3> QED BY <3>2, <3>3
  <2> QED BY <2>4, <2>5 DEF TriesInv
<1> QED BY <1>1, <1>2, <1>3 DEF Count

\* The other steps of a request.
LEMMA OtherTally ==
  ASSUME AdminInvariant, TriesInv, NEW r \in Request,
         \/ \E e \in Email : RequestCode(r, e)
         \/ \E s \in sessions : Lookup(r, s) \/ Logout(r, s)
         \/ Lock(r) \/ Burn(r) \/ Mint(r) \/ Expire(r) \/ Admit(r)
  PROVE  TriesInv'
<1>b. \A q \in Request : Reply(r) => req'[q] = IF q = r THEN Blank ELSE req[q]
  BY DEF Reply, Set, AdminInvariant, TypeOK
<1>1. CASE Lock(r)
  <2>0. /\ req[r].pc = "lock" /\ req[r].digits \in Digits /\ UNCHANGED <<issues, tried>> /\ Reply(r)
        /\ \A c \in Digits : HasRow(c, req[r].row) => c = req[r].digits
    BY <1>1 DEF Lock, At, AdminInvariant, TypeOK, TriesInv, Placed, Wrong
  <2>1. CASE codes' = [codes EXCEPT ![req[r].digits] = None] /\ UNCHANGED spared
    <3>1. \A c \in Digits : codes'[c] = IF c = req[r].digits THEN None ELSE codes[c]
      BY <2>0, <2>1 DEF AdminInvariant, TypeOK
    <3>2. \A c \in Digits : codes'[c] # None => codes'[c].issue # req[r].row
      BY <2>0, <3>1 DEF HasRow
    <3> QED BY <1>b, <2>0, <2>1, <3>1, <3>2, CalmTally DEF Wrong, Blank
  <2>2. CASE spared' = spared \cup {req[r].row} /\ UNCHANGED codes
    BY <1>b, <2>0, <2>2, CalmTally DEF Wrong, Blank
  <2> QED BY <1>1, <2>1, <2>2 DEF Lock
<1>2. CASE \/ \E e \in Email : RequestCode(r, e)
           \/ \E s \in sessions : Lookup(r, s) \/ Logout(r, s)
           \/ Mint(r) \/ Expire(r) \/ Admit(r)
  <2>1. UNCHANGED <<codes, issues, tried, spared>> /\ req[r].pc \notin Wrong
    BY <1>2 DEF RequestCode, Lookup, Logout, Mint, Expire, Admit, At, Rest, seen, Wrong
  <2>2. \A q \in Request : q # r => req'[q] = req[q]
    BY <1>2 DEF RequestCode, Lookup, Logout, Mint, Expire, Admit, Reply, Set, AdminInvariant, TypeOK
  <2>3. req'[r].pc \notin Wrong
    <3>0. Blank.pc = "new" /\ (Reply(r) => req'[r].pc \notin Wrong)
      BY <1>b DEF Blank, Wrong
    <3>1. ASSUME NEW e \in Email, RequestCode(r, e) PROVE req'[r].pc \notin Wrong
      <4>1. Set(r, [Blank EXCEPT !.pc = "issue", !.email = e, !.at = now]) => req'[r].pc = "issue"
        BY DEF Set, Blank, AdminInvariant, TypeOK
      <4> QED BY <3>0, <3>1, <4>1 DEF RequestCode, Wrong
    <3>2. ASSUME NEW s \in sessions, Lookup(r, s) PROVE req'[r].pc \notin Wrong
      <4>1. Set(r, [Blank EXCEPT !.pc = IF s.expires < now THEN "expire" ELSE "admin",
                                 !.email = s.email, !.session = s]) => req'[r].pc \in {"expire", "admin"}
        BY DEF Set, Blank, AdminInvariant, TypeOK
      <4> QED BY <3>0, <3>2, <4>1 DEF Lookup, Wrong
    <3>3. (\E s \in sessions : Logout(r, s)) \/ Mint(r) \/ Expire(r) \/ Admit(r) => Reply(r)
      BY DEF Logout, Mint, Expire, Admit
    <3> QED BY <1>2, <3>0, <3>1, <3>2, <3>3
  <2> QED BY <2>1, <2>2, <2>3, CalmTally
<1>3. CASE Burn(r)
  <2>1. /\ UNCHANGED <<issues, tried, spared>> /\ req[r].pc = "burn" /\ req[r].digits \in Digits
        /\ UNCHANGED codes \/ codes' = [codes EXCEPT ![req[r].digits] = None]
    BY <1>3 DEF Burn, At, seen, AdminInvariant, TypeOK
  <2>2. \A c \in Digits : codes'[c] # None => codes'[c] = codes[c]
    BY <2>1 DEF AdminInvariant, TypeOK
  <2>3. \A q \in Request : q # r => req'[q] = req[q]
    BY <1>3 DEF Burn, Reply, Set, AdminInvariant, TypeOK
  <2>4. req'[r].pc \notin Wrong
    <3> DEFINE q == [req[r] EXCEPT !.pc = "mint", !.burnt = codes[req[r].digits].issue]
    <3>1. Reply(r) => req'[r].pc \notin Wrong
      BY <1>b DEF Blank, Wrong
    <3>2. q.pc = "mint"
      BY DEF AdminInvariant, TypeOK, RequestRow
    <3> HIDE DEF q
    <3>3. Set(r, q) => req'[r].pc \notin Wrong
      BY <3>2 DEF Set, Wrong, AdminInvariant, TypeOK
    <3> QED BY <1>3, <3>1, <3>3 DEF Burn, q
  <2> QED BY <2>1, <2>2, <2>3, <2>4, CalmTally DEF Wrong
<1> QED BY <1>1, <1>2, <1>3

LEMMA TriesStep ==
  ASSUME IsFiniteSet(Request), AdminInvariant, TriesInv, [Next]_vars
  PROVE  TriesInv'
<1>1. CASE Boot \/ Tick \/ UNCHANGED vars \/ \E e \in Email : AddAdmin(e) \/ RemoveAdmin(e)
  <2>1. UNCHANGED <<issues, tried, spared, req>>
    BY <1>1 DEF Boot, Tick, AddAdmin, RemoveAdmin, bounds, seen, vars
  <2>2. \A d \in Digits : codes'[d] # None => codes'[d] = codes[d]
    BY <1>1 DEF Boot, SyncAdmins, Tick, AddAdmin, RemoveAdmin, tables, vars
  <2> QED BY <2>1, <2>2, CalmTally
<1>2. CASE Stop
  <2>1. /\ req' = [r \in Request |-> Blank]
        /\ spared' = spared \cup {req[r].row : r \in {x \in Request : req[x].pc \in {"count", "lock"}}}
        /\ UNCHANGED <<codes, issues, tried>>
    BY <1>2 DEF Stop, tables, bounds
  <2>2. \A q \in Request : req'[q].pc = "new" /\ (req[q].pc \in Wrong => req[q].row \in spared')
    BY <2>1 DEF Blank, Wrong
  <2> QED BY <2>1, <2>2, CalmTally DEF Wrong
<1>3. ASSUME NEW r \in Request, Handle(r) PROVE TriesInv'
  BY <1>3, IssueTally, VerifyTally, CountTally, OtherTally DEF Handle
<1> QED BY <1>1, <1>2, <1>3 DEF Next

\* However requests interleave, with each other and with codes issued again for the same
\* digits, an issue takes fewer than MaxCodeAttempts wrong answers plus one per request in
\* flight, unless a count or a lock was lost (VerifyCode).
THEOREM TriesBoundedHolds ==
  ASSUME IsFiniteSet(Request)
  PROVE  Spec => []TriesBounded
<1>1. Init => TriesInv
  <2> SUFFICES ASSUME Init PROVE TriesInv
    OBVIOUS
  <2>1. Placed
    BY AdminAssumption DEF Init, Placed, Wrong, Blank, HasRow
  <2>2. ASSUME NEW i \in 1 .. MaxIssues PROVE Tally(i)
    <3>1. tried[i] = 0 /\ \A d \in Digits : ~HasRow(d, i)
      BY DEF Init, HasRow
    <3> QED BY <3>1, Subsets, AdminAssumption DEF Tally
  <2> QED BY <2>1, <2>2 DEF TriesInv
<1>2. AdminInvariant /\ TriesInv /\ [Next]_vars => TriesInv'
  BY TriesStep
<1>3. TriesInv => TriesBounded
  <2>1. Cardinality(Request) \in Nat /\ MaxAttempts \in Nat
    BY Subsets, AdminAssumption
  <2> QED BY <2>1 DEF TriesInv, Placed, Tally, TriesBounded
<1> QED BY <1>1, <1>2, <1>3, AdminInvariantHolds, PTL DEF Spec

-----------------------------------------------------------------------------
\* What a code is to the mailbox it was sent to.

\* History: the address each issue was sent to and that of the session it bought, noted
\* from the rows when they appear; neither is read by a step.
VARIABLES sentTo, holder

Issue == 1 .. MaxIssues
RowOf(i) == CHOOSE row \in {codes[d] : d \in Digits} \ {None} : row.issue = i
SessionOf(t) == CHOOSE s \in sessions : s.token = t

Noted ==
  /\ sentTo' = IF issues' = issues THEN sentTo
               ELSE [sentTo EXCEPT ![issues'] = RowOf(issues)'.email]
  /\ holder' = IF minted' = minted THEN holder
               ELSE [holder EXCEPT ![minted'[Len(minted')]] = SessionOf(Len(minted))'.email]

HistoryInit == Init /\ sentTo = [i \in Issue |-> None] /\ holder = [i \in Issue |-> None]
HistorySpec == HistoryInit /\ [][Next /\ Noted]_<<vars, sentTo, holder>>

Kept(i) == \E d \in Digits : HasRow(d, i)
Stages ==
  [i \in Issue |-> IF Spent(i) THEN "signed_in"
                   ELSE IF Held(i) THEN "redeeming"
                   ELSE IF Kept(i) THEN "issued"
                   ELSE IF i <= issues THEN "void" ELSE "none"]

Promise == INSTANCE OneTimeCode WITH
  Code <- Issue, Address <- Email, NoAddress <- None, stage <- Stages

\* Between the SELECT of a request and its DELETE, the digits it answered are not sent
\* out again.
FreshDigits ==
  \A r \in Request : req[r].pc = "burn" =>
    ~(codes[req[r].digits] = None /\ codes'[req[r].digits] # None)

\* What a request is about to delete is the row it selected, and every address on the way
\* from a row to a session is the one the code was sent to.
OwnRow(q) ==
  codes[q.digits] # None => codes[q.digits].issue = q.row /\ codes[q.digits].email = q.email

Addressed ==
  /\ issues <= MaxIssues
  /\ sentTo \in [Issue -> Email \cup {None}] /\ holder \in [Issue -> Email \cup {None}]
  /\ \A r \in Request : req[r].pc = "burn" => OwnRow(req[r])
  /\ \A d \in Digits : codes[d] # None => sentTo[codes[d].issue] = codes[d].email
  /\ \A r \in Request : req[r].pc = "mint" => sentTo[req[r].burnt] = req[r].email
  /\ \A s \in sessions : s.token <= Len(minted)

\* A step that issues nothing and mints nothing: rows and requests go, and no request
\* comes to hold an issue.
LEMMA AddressedQuiet ==
  ASSUME AdminInvariant, Addressed, UNCHANGED <<issues, minted, sentTo, holder>>,
         sessions' \subseteq sessions,
         \A d \in Digits : codes'[d] # None =>
           codes[d] # None /\ codes'[d].issue = codes[d].issue /\ codes'[d].email = codes[d].email,
         \A r \in Request :
           \/ req'[r] = req[r]
           \/ req'[r].pc \notin {"burn", "mint"}
           \/ req'[r].pc = "burn" /\ req'[r].digits \in Digits /\ OwnRow(req'[r])
  PROVE  Addressed' /\ \E S \in SUBSET Issue : Promise!GiveUp(S)
<1>1. \A r \in Request : req[r].pc = "burn" => req[r].digits \in Digits
  BY DEF AdminInvariant, TypeOK
<1>2. Addressed'
  BY <1>1 DEF Addressed, OwnRow
<1>3. /\ \A i : Spent(i)' <=> Spent(i)
      /\ \A i : Held(i)' => Held(i)
      /\ \A i : Kept(i)' => Kept(i)
  BY DEF Spent, Held, Kept, HasRow
<1>4. \A i : /\ Held(i) => ~Kept(i) /\ ~Spent(i) /\ i \in 1 .. issues
             /\ Kept(i) => ~Spent(i) /\ i \in 1 .. issues
  BY DEF AdminInvariant, OnePlace, Held, Kept, HasRow
<1> DEFINE S == {i \in Issue : Stages[i] \in {"issued", "redeeming"} /\ Stages'[i] = "void"}
<1>5. \A i \in Issue : Stages'[i] = IF i \in S THEN "void" ELSE Stages[i]
  BY <1>3, <1>4 DEF Stages
<1>6. Stages' = [i \in Issue |-> IF i \in S THEN "void" ELSE Stages[i]]
  BY <1>5 DEF Stages
<1>7. Promise!GiveUp(S)
  BY <1>6 DEF Promise!GiveUp
<1> QED BY <1>2, <1>7

\* Issuing: the one step that gives digits a row.
LEMMA AddressedIssue ==
  ASSUME AdminInvariant, Addressed, Noted, FreshDigits,
         NEW r \in Request, NEW d \in Digits, IssueCode(r, d), codes[d] = None
  PROVE  Addressed' /\ \E e \in Email : Promise!Issue(issues + 1, e)
<1> DEFINE row == [email |-> req[r].email, issue |-> issues + 1, attempts |-> 0,
                   since |-> admins[req[r].email], created |-> req[r].at,
                   expires |-> req[r].at + CodeTTL]
<1>1. /\ issues < MaxIssues /\ issues' = issues + 1 /\ issues \in Nat /\ MaxIssues \in Nat
      /\ codes' = [codes EXCEPT ![d] = row]
      /\ req' = [req EXCEPT ![r] = Blank] /\ req[r].email \in Email
      /\ UNCHANGED <<sessions, minted>>
  BY AdminAssumption
     DEF IssueCode, At, Reply, Set, Unfailing, Fail, Rest, seen, AdminInvariant, TypeOK
<1>2. row # None /\ row.issue = issues + 1 /\ row.email = req[r].email
  <2>1. row \in CodeRow
    BY <1>1, NatConstants DEF AdminInvariant, TypeOK, CodeRow, RequestRow
  <2>2. \A c \in Digits : codes'[c] = IF c = d THEN row ELSE codes[c]
    BY <1>1 DEF AdminInvariant, TypeOK
  <2>3. row # None
    BY <2>1, NoneIsNoRow
  <2> QED BY <2>3
<1> HIDE DEF row
<1>3. /\ \A c \in Digits : codes'[c] = IF c = d THEN row ELSE codes[c]
      /\ \A q \in Request : req'[q] = IF q = r THEN Blank ELSE req[q]
      /\ Blank.pc = "new"
  BY <1>1 DEF AdminInvariant, TypeOK, Blank
<1>4. \A c \in Digits : codes[c] # None => codes[c].issue \in 1 .. issues
  BY DEF AdminInvariant, OnePlace
<1>5. RowOf(issues)' = row
  <2>1. \A c \in Digits : codes'[c] # None /\ codes'[c].issue = issues + 1 => codes'[c] = row
    BY <1>1, <1>3, <1>4
  <2>2. \E c \in Digits : codes'[c] # None /\ codes'[c].issue = issues + 1
    BY <1>2, <1>3
  <2>3. \E x \in {codes'[c] : c \in Digits} \ {None} : x.issue = issues'
    BY <1>1, <2>2
  <2>4. \A x \in {codes'[c] : c \in Digits} \ {None} : x.issue = issues' => x = row
    BY <1>1, <2>1
  <2> QED BY <2>3, <2>4 DEF RowOf
<1>6. /\ sentTo' = [sentTo EXCEPT ![issues + 1] = req[r].email] /\ holder' = holder
      /\ issues + 1 \in Issue
  <2>1. issues' # issues /\ issues + 1 \in Issue
    BY <1>1 DEF Issue
  <2>2. sentTo' = [sentTo EXCEPT ![issues'] = row.email]
    BY <1>5, <2>1 DEF Noted
  <2> QED BY <1>1, <1>2, <2>1, <2>2 DEF Noted
<1>7. Addressed'
  <2>0. \A q \in Request : req'[q].pc = "burn" => req[q].digits \in Digits /\ req[q].pc = "burn"
                                                /\ req[q].digits # d /\ req'[q] = req[q]
    BY <1>2, <1>3 DEF FreshDigits, AdminInvariant, TypeOK
  <2>1. \A q \in Request : req'[q].pc = "burn" => OwnRow(req[q])'
    BY <1>3, <2>0 DEF Addressed, OwnRow
  <2>2. \A c \in Digits : codes'[c] # None => sentTo'[codes'[c].issue] = codes'[c].email
    BY <1>1, <1>2, <1>3, <1>4, <1>6 DEF Addressed
  <2>3. \A q \in Request : req'[q].pc = "mint" => sentTo'[req'[q].burnt] = req'[q].email
    BY <1>1, <1>3, <1>6 DEF Addressed, AdminInvariant, OnePlace
  <2> QED BY <1>1, <1>6, <2>1, <2>2, <2>3 DEF Addressed
<1>8. Promise!Issue(issues + 1, req[r].email)
  <2>0. req[r].pc = "issue"
    BY DEF IssueCode, At
  <2>1. \A i : Spent(i)' <=> Spent(i)
    BY <1>1 DEF Spent
  <2>2. \A i : Held(i)' <=> Held(i)
    BY <1>3, <2>0 DEF Held
  <2>3. \A i : Kept(i)' <=> Kept(i) \/ i = issues + 1
    BY <1>2, <1>3 DEF Kept, HasRow
  <2>4. ~Spent(issues + 1) /\ ~Held(issues + 1) /\ ~Kept(issues + 1)
    BY <1>1, <1>4 DEF AdminInvariant, OnePlace, Spent, Held, Kept, HasRow
  <2>5. Stages[issues + 1] = "none" /\ Stages'[issues + 1] = "issued"
    BY <1>1, <1>6, <2>1, <2>2, <2>3, <2>4 DEF Stages
  <2>6. \A i \in Issue : i # issues + 1 => Stages'[i] = Stages[i]
    BY <1>1, <2>1, <2>2, <2>3 DEF Stages, Issue
  <2>7. Stages' = [Stages EXCEPT ![issues + 1] = "issued"]
    BY <2>5, <2>6 DEF Stages
  <2> QED BY <1>6, <2>5, <2>7 DEF Promise!Issue
<1> QED BY <1>1, <1>7, <1>8

\* Consuming: the DELETE of the row, on behalf of an admin.
LEMMA AddressedBurn ==
  ASSUME AdminInvariant, Addressed, UNCHANGED <<sentTo, holder>>,
         NEW r \in Request, Burn(r), codes' # codes, IsAdmin(req[r].email)
  PROVE  Addressed' /\ \E i \in Issue : Promise!Redeem(i)
<1> DEFINE d == req[r].digits
           q == [req[r] EXCEPT !.pc = "mint", !.burnt = codes[d].issue]
           i == codes[d].issue
<1>1. /\ req[r].pc = "burn" /\ d \in Digits /\ codes[d] # None
      /\ codes' = [codes EXCEPT ![d] = None] /\ req' = [req EXCEPT ![r] = q]
      /\ UNCHANGED <<sessions, issues, minted>>
  BY DEF Burn, At, Set, seen, AdminInvariant, TypeOK
<1>2. q.pc = "mint" /\ q.burnt = i /\ q.email = req[r].email
  BY DEF AdminInvariant, TypeOK, RequestRow
<1>3. i \in Issue /\ i \in 1 .. issues /\ ~Spent(i) /\ ~Held(i) /\ Kept(i)
  <2>1. i \in 1 .. issues /\ ~Spent(i) /\ ~Held(i)
    BY <1>1 DEF AdminInvariant, OnePlace
  <2>2. issues \in Nat /\ issues <= MaxIssues /\ MaxIssues \in Nat
    BY AdminAssumption DEF AdminInvariant, TypeOK, Addressed
  <2>3. Kept(i)
    BY <1>1 DEF Kept, HasRow
  <2> QED BY <2>1, <2>2, <2>3 DEF Issue
<1>4. sentTo[i] = req[r].email
  BY <1>1 DEF Addressed, OwnRow
<1> HIDE DEF q
<1>5. /\ \A c \in Digits : codes'[c] = IF c = d THEN None ELSE codes[c]
      /\ \A x \in Request : req'[x] = IF x = r THEN q ELSE req[x]
  BY <1>1 DEF AdminInvariant, TypeOK
<1>6. Addressed'
  <2>1. \A x \in Request : req'[x].pc = "burn" => OwnRow(req[x])'
    <3>1. \A x \in Request : req[x].pc = "burn" => req[x].digits \in Digits
      BY DEF AdminInvariant, TypeOK
    <3> QED BY <1>2, <1>5, <3>1 DEF Addressed, OwnRow
  <2>2. \A x \in Request : req'[x].pc = "mint" => sentTo[req'[x].burnt] = req'[x].email
    BY <1>2, <1>4, <1>5 DEF Addressed
  <2>3. \A c \in Digits : codes'[c] # None => sentTo[codes'[c].issue] = codes'[c].email
    BY <1>5 DEF Addressed
  <2> QED BY <1>1, <2>1, <2>2, <2>3 DEF Addressed
<1>7. Promise!Redeem(i)
  <2>1. \A j : Spent(j)' <=> Spent(j)
    BY <1>1 DEF Spent
  <2>2. \A j : Held(j)' <=> Held(j) \/ j = i
    BY <1>1, <1>2, <1>5 DEF Held
  <2>3. \A j : Kept(j)' <=> Kept(j) /\ j # i
    BY <1>1, <1>5 DEF Kept, HasRow, AdminInvariant, OnePlace
  <2>4. Stages[i] = "issued" /\ Stages'[i] = "redeeming"
    BY <1>1, <1>3, <2>1, <2>2, <2>3 DEF Stages
  <2>5. \A j \in Issue : j # i => Stages'[j] = Stages[j]
    BY <1>1, <2>1, <2>2, <2>3 DEF Stages
  <2>6. Stages' = [Stages EXCEPT ![i] = "redeeming"]
    BY <2>4, <2>5 DEF Stages
  <2> QED BY <2>4, <2>6 DEF Promise!Redeem
<1> QED BY <1>3, <1>6, <1>7

\* Signing in: the session is of the address the code was sent to.
LEMMA AddressedMint ==
  ASSUME AdminInvariant, Addressed, Noted,
         NEW r \in Request, Mint(r), minted' # minted
  PROVE  Addressed' /\ \E i \in Issue : Promise!SignIn(i)
<1> DEFINE i == req[r].burnt
           n == Len(minted) + 1
           s == [token |-> Len(minted'), email |-> req[r].email,
                 expires |-> req[r].at + SessionTTL, since |-> admins[req[r].email]]
<1>1. /\ req[r].pc = "mint" /\ req[r] \in RequestRow /\ minted \in Seq(Nat) /\ i \in Nat
      /\ minted' = Append(minted, i) /\ sessions' = sessions \cup {s}
      /\ req' = [req EXCEPT ![r] = Blank] /\ req[r].email \in Email
      /\ UNCHANGED <<codes, issues>>
  BY DEF Mint, At, Reply, Set, Rest, AdminInvariant, TypeOK, RequestRow
<1>2. /\ Len(minted) \in Nat /\ DOMAIN minted = 1 .. Len(minted)
      /\ Len(minted') = n /\ DOMAIN minted' = 1 .. n /\ minted'[n] = i
      /\ \A j \in 1 .. Len(minted) : minted'[j] = minted[j]
  BY <1>1
<1>3. i \in Issue /\ i \in 1 .. issues /\ Held(i) /\ ~Spent(i) /\ ~Kept(i) /\ sentTo[i] = req[r].email
  <2>1. i \in 1 .. issues /\ Held(i) /\ ~Spent(i) /\ ~Kept(i) /\ sentTo[i] = req[r].email
    BY <1>1 DEF AdminInvariant, OnePlace, Held, Kept, HasRow, Addressed
  <2>2. issues \in Nat /\ issues <= MaxIssues /\ MaxIssues \in Nat
    BY AdminAssumption DEF AdminInvariant, TypeOK, Addressed
  <2> QED BY <2>1, <2>2 DEF Issue
<1>4. s.token = n /\ s.email = sentTo[i]
  BY <1>2, <1>3
<1> HIDE DEF s
<1>5. SessionOf(Len(minted))' = s
  <2>1. \A x \in sessions : x.token # n
    <3>1. \A x \in sessions : x.token \in Nat /\ x.token <= Len(minted)
      BY DEF AdminInvariant, TypeOK, SessionRow, Addressed
    <3> QED BY <1>2, <3>1
  <2>2. s \in sessions' /\ \A x \in sessions' : x.token = Len(minted') <=> x = s
    BY <1>1, <1>2, <1>4, <2>1
  <2> QED BY <2>2 DEF SessionOf
<1>6. sentTo' = sentTo /\ holder' = [holder EXCEPT ![i] = sentTo[i]]
  <2>1. sentTo' = sentTo /\ holder' = [holder EXCEPT ![minted'[Len(minted')]] = s.email]
    BY <1>1, <1>5 DEF Noted
  <2> QED BY <1>2, <1>4, <2>1
<1>7. /\ \A x \in Request : req'[x] = IF x = r THEN Blank ELSE req[x]
      /\ Blank.pc = "new"
  BY <1>1 DEF AdminInvariant, TypeOK, Blank
<1>8. Addressed'
  <2>1. \A x \in sessions' : x.token <= Len(minted')
    <3>1. \A x \in sessions : x.token \in Nat /\ x.token <= Len(minted)
      BY DEF AdminInvariant, TypeOK, SessionRow, Addressed
    <3>2. sessions' = sessions \cup {s}
      BY <1>1
    <3>3. Len(minted) \in Nat /\ Len(minted') = Len(minted) + 1 /\ s.token = Len(minted) + 1
      BY <1>2, <1>4
    <3> QED BY <3>1, <3>2, <3>3
  <2>2. \A x \in Request : req'[x].pc = "burn" => OwnRow(req[x])'
    BY <1>1, <1>7 DEF Addressed, OwnRow
  <2>3. holder' \in [Issue -> Email \cup {None}]
    BY <1>3, <1>1, <1>6 DEF Addressed
  <2> QED BY <1>1, <1>6, <1>7, <2>1, <2>2, <2>3 DEF Addressed
<1>9. Promise!SignIn(i)
  <2>1. \A j : Spent(j)' <=> Spent(j) \/ j = i
    <3>1. \A k : k \in 1 .. n <=> k \in 1 .. Len(minted) \/ k = n
      BY <1>2
    <3>2. ASSUME NEW j PROVE Spent(j)' <=> \E k \in 1 .. n : minted'[k] = j
      BY <1>2 DEF Spent
    <3>3. ASSUME NEW j PROVE Spent(j) <=> \E k \in 1 .. Len(minted) : minted[k] = j
      BY <1>2 DEF Spent
    <3> HIDE DEF n
    <3> QED BY <1>2, <3>1, <3>2, <3>3
  <2>2. \A j : Held(j)' => Held(j)
    BY <1>7 DEF Held
  <2>3. \A j : j # i /\ Held(j) => Held(j)'
    BY <1>7 DEF Held
  <2>4. \A j : Kept(j)' <=> Kept(j)
    BY <1>1 DEF Kept, HasRow
  <2>5. Stages[i] = "redeeming" /\ Stages'[i] = "signed_in"
    BY <1>3, <2>1 DEF Stages
  <2>6. \A j \in Issue : j # i => Stages'[j] = Stages[j]
    BY <1>1, <2>1, <2>2, <2>3, <2>4 DEF Stages
  <2>7. Stages' = [Stages EXCEPT ![i] = "signed_in"]
    BY <2>5, <2>6 DEF Stages
  <2> QED BY <1>6, <2>5, <2>7 DEF Promise!SignIn
<1> QED BY <1>3, <1>8, <1>9

\* What the other steps of a request do: only its own row of req changes, the tables only
\* lose rows or count an answer, and a right answer is one to the row selected.
LEMMA AddressedHandle ==
  ASSUME AdminInvariant, Addressed, Noted, FreshDigits, NEW r \in Request, Handle(r)
  PROVE  Addressed' /\ [Promise!Next]_<<Stages, sentTo, holder>>
<1>b. Blank.pc = "new"
  BY DEF Blank
<1>q. ASSUME UNCHANGED <<issues, minted>>, sessions' \subseteq sessions,
             \A d \in Digits : codes'[d] # None =>
               /\ codes[d] # None
               /\ codes'[d].issue = codes[d].issue /\ codes'[d].email = codes[d].email,
             \A x \in Request : x # r => req'[x] = req[x],
             \/ req'[r].pc \notin {"burn", "mint"}
             \/ req'[r].pc = "burn" /\ req'[r].digits \in Digits /\ OwnRow(req'[r])
      PROVE  Addressed' /\ [Promise!Next]_<<Stages, sentTo, holder>>
  <2>1. UNCHANGED <<sentTo, holder>>
    BY <1>q DEF Noted
  <2>2. Addressed' /\ \E S \in SUBSET Issue : Promise!GiveUp(S)
    BY <1>q, <2>1, AddressedQuiet
  <2> QED BY <2>2 DEF Promise!Next
<1>r. ASSUME NEW q, Set(r, q)
      PROVE  req'[r] = q /\ \A x \in Request : x # r => req'[x] = req[x]
  BY <1>r DEF Set, AdminInvariant, TypeOK
<1>s. ASSUME Reply(r)
      PROVE  req'[r].pc = "new" /\ \A x \in Request : x # r => req'[x] = req[x]
  BY <1>b, <1>r, <1>s DEF Reply
<1>1. ASSUME NEW e \in Email, RequestCode(r, e)
      PROVE  Addressed' /\ [Promise!Next]_<<Stages, sentTo, holder>>
  <2> DEFINE q == [Blank EXCEPT !.pc = "issue", !.email = e, !.at = now]
  <2>1. q.pc = "issue"
    BY DEF Blank
  <2> HIDE DEF q
  <2>2. Set(r, q) \/ Reply(r)
    BY <1>1 DEF RequestCode, q
  <2> QED BY <1>1, <1>q, <1>r, <1>s, <2>1, <2>2 DEF RequestCode, seen
<1>2. ASSUME NEW e \in Email, NEW answer \in Digits, Verify(r, e, answer)
      PROVE  Addressed' /\ [Promise!Next]_<<Stages, sentTo, holder>>
  <2>1. UNCHANGED <<issues, minted, codes, sessions>>
    BY <1>2 DEF Verify
  <2>2. CASE Reply(r)
    BY <1>q, <1>s, <2>1, <2>2
  <2>3. ASSUME NEW d \in Latest(e),
               Set(r, [Blank EXCEPT !.pc = IF answer = d THEN "burn" ELSE "count",
                                    !.email = e, !.digits = d, !.row = codes[d].issue,
                                    !.at = IF answer = d THEN now ELSE 0])
        PROVE  Addressed' /\ [Promise!Next]_<<Stages, sentTo, holder>>
    <3> DEFINE q == [Blank EXCEPT !.pc = IF answer = d THEN "burn" ELSE "count",
                                  !.email = e, !.digits = d, !.row = codes[d].issue,
                                  !.at = IF answer = d THEN now ELSE 0]
    <3>1. q.pc \in {"burn", "count"} /\ q.email = e /\ q.digits = d /\ q.row = codes[d].issue
      BY DEF Blank
    <3>2. d \in Digits /\ codes[d] # None /\ codes[d].email = e
      BY DEF Latest, Unexpired
    <3> HIDE DEF q
    <3>3. OwnRow(q)
      BY <3>1, <3>2 DEF OwnRow
    <3>4. Set(r, q)
      BY <2>3 DEF q
    <3> QED BY <1>q, <1>r, <2>1, <3>1, <3>2, <3>3, <3>4
  <2> QED BY <1>2, <2>2, <2>3 DEF Verify
<1>3. ASSUME NEW d \in Digits, IssueCode(r, d)
      PROVE  Addressed' /\ [Promise!Next]_<<Stages, sentTo, holder>>
  <2>1. CASE codes[d] # None
    BY <1>3, <1>q, <1>s, <2>1 DEF IssueCode, seen
  <2>2. CASE codes[d] = None
    <3>1. issues + 1 \in Issue
      BY <1>3, <2>2, AdminAssumption DEF IssueCode, Issue, AdminInvariant, TypeOK
    <3> QED BY <1>3, <2>2, <3>1, AddressedIssue DEF Promise!Next
  <2> QED BY <2>1, <2>2
<1>4. CASE Count(r) \/ Lock(r)
  <2>1. UNCHANGED <<issues, minted, sessions>> /\ req[r].digits \in Digits
    BY <1>4 DEF Count, Lock, At, AdminInvariant, TypeOK
  <2>2. \A d \in Digits : codes'[d] # None =>
          codes[d] # None /\ codes'[d].issue = codes[d].issue /\ codes'[d].email = codes[d].email
    <3>1. CASE UNCHANGED codes \/ codes' = [codes EXCEPT ![req[r].digits] = None]
      BY <2>1, <3>1 DEF AdminInvariant, TypeOK
    <3>2. CASE /\ codes[req[r].digits] # None
               /\ codes' = [codes EXCEPT ![req[r].digits].attempts = @ + 1]
      <4>1. codes[req[r].digits] \in CodeRow
        BY <2>1, <3>2 DEF AdminInvariant, TypeOK
      <4>2. \A c \in Digits : codes'[c] = IF c = req[r].digits
                                          THEN [codes[c] EXCEPT !.attempts = @ + 1] ELSE codes[c]
        BY <3>2 DEF AdminInvariant, TypeOK
      <4> QED BY <3>2, <4>1, <4>2 DEF CodeRow
    <3> QED BY <1>4, <3>1, <3>2 DEF Count, Lock
  <2>3. req'[r].pc \notin {"burn", "mint"} /\ \A x \in Request : x # r => req'[x] = req[x]
    <3> DEFINE q == [req[r] EXCEPT !.pc = "lock"]
    <3>1. q.pc = "lock"
      BY DEF AdminInvariant, TypeOK, RequestRow
    <3> HIDE DEF q
    <3>2. Set(r, q) \/ Reply(r)
      BY <1>4 DEF Count, Lock, q
    <3> QED BY <1>r, <1>s, <3>1, <3>2
  <2> QED BY <1>q, <2>1, <2>2, <2>3
<1>5. CASE Burn(r)
  <2>1. CASE codes' # codes /\ IsAdmin(req[r].email)
    <3>1. UNCHANGED <<sentTo, holder>>
      BY <1>5 DEF Burn, seen, Noted
    <3> QED BY <1>5, <2>1, <3>1, AddressedBurn DEF Promise!Next
  <2>2. CASE ~(codes' # codes /\ IsAdmin(req[r].email))
    <3>1. /\ UNCHANGED <<issues, minted, sessions>> /\ req[r].digits \in Digits
          /\ UNCHANGED codes \/ codes' = [codes EXCEPT ![req[r].digits] = None]
      BY <1>5 DEF Burn, At, seen, AdminInvariant, TypeOK
    <3>2. \A c \in Digits : codes'[c] # None => codes'[c] = codes[c]
      BY <3>1 DEF AdminInvariant, TypeOK
    <3>3. codes[req[r].digits] # None /\ codes' = [codes EXCEPT ![req[r].digits] = None]
          => codes' # codes
      BY <3>1 DEF AdminInvariant, TypeOK
    <3>4. Reply(r)
      BY <1>5, <2>2, <3>3 DEF Burn
    <3> QED BY <1>q, <1>s, <3>1, <3>2, <3>4
  <2> QED BY <2>1, <2>2
<1>6. CASE Mint(r)
  <2>1. CASE minted' # minted
    BY <1>6, <2>1, AddressedMint DEF Promise!Next
  <2>2. CASE minted' = minted
    <3>1. Append(minted, req[r].burnt) # minted
      <4>1. minted \in Seq(Nat) /\ req[r].burnt \in Nat
        BY DEF AdminInvariant, TypeOK, RequestRow
      <4>2. Len(Append(minted, req[r].burnt)) = Len(minted) + 1 /\ Len(minted) \in Nat
        BY <4>1
      <4> QED BY <4>2
    <3>2. Reply(r) /\ UNCHANGED <<sessions, codes, issues>>
      BY <1>6, <2>2, <3>1 DEF Mint
    <3> QED BY <1>q, <1>s, <2>2, <3>2
  <2> QED BY <2>1, <2>2
<1>7. ASSUME NEW s \in sessions, Lookup(r, s)
      PROVE  Addressed' /\ [Promise!Next]_<<Stages, sentTo, holder>>
  <2> DEFINE q == [Blank EXCEPT !.pc = IF s.expires < now THEN "expire" ELSE "admin",
                                !.email = s.email, !.session = s]
  <2>1. q.pc \in {"expire", "admin"}
    BY DEF Blank
  <2> HIDE DEF q
  <2>2. Set(r, q) \/ Reply(r)
    BY <1>7 DEF Lookup, q
  <2> QED BY <1>7, <1>q, <1>r, <1>s, <2>1, <2>2 DEF Lookup, seen
<1>8. CASE Expire(r) \/ Admit(r) \/ \E s \in sessions : Logout(r, s)
  BY <1>8, <1>q, <1>s DEF Expire, Admit, Logout, seen
<1> QED BY <1>1, <1>2, <1>3, <1>4, <1>5, <1>6, <1>7, <1>8 DEF Handle

LEMMA AddressedStep ==
  ASSUME AdminInvariant, Addressed, [Next /\ Noted]_<<vars, sentTo, holder>>, [FreshDigits]_vars
  PROVE  Addressed' /\ [Promise!Next]_<<Stages, sentTo, holder>>
<1>1. CASE vars' = vars
  <2>1. UNCHANGED <<sentTo, holder>>
    BY <1>1 DEF Noted, vars, bounds, seen
  <2>2. Addressed' /\ \E S \in SUBSET Issue : Promise!GiveUp(S)
    BY <1>1, <2>1, AddressedQuiet DEF vars, tables, bounds, seen
  <2> QED BY <2>2 DEF Promise!Next
<1>2. CASE vars' # vars
  <2>1. Next /\ Noted /\ FreshDigits
    BY <1>2
  <2>2. ASSUME UNCHANGED <<issues, minted>>, sessions' \subseteq sessions,
               \A d \in Digits : codes'[d] # None => codes'[d] = codes[d],
               \A r \in Request : req'[r] = req[r] \/ req'[r] = Blank
        PROVE  Addressed' /\ [Promise!Next]_<<Stages, sentTo, holder>>
    <3>1. UNCHANGED <<sentTo, holder>>
      BY <2>1, <2>2 DEF Noted
    <3>2. \A d \in Digits : codes'[d] # None =>
            codes[d] # None /\ codes'[d].issue = codes[d].issue /\ codes'[d].email = codes[d].email
      BY <2>2
    <3>3. Blank.pc \notin {"burn", "mint"}
      BY DEF Blank
    <3>4. Addressed' /\ \E S \in SUBSET Issue : Promise!GiveUp(S)
      BY <2>2, <3>1, <3>2, <3>3, AddressedQuiet
    <3> QED BY <3>4 DEF Promise!Next
  <2>3. CASE Stop \/ Tick \/ \E e \in Email : AddAdmin(e) \/ RemoveAdmin(e)
    <3>1. UNCHANGED <<issues, minted, sessions, codes>>
      BY <2>3 DEF Stop, Tick, AddAdmin, RemoveAdmin, tables, bounds, seen
    <3>2. \A r \in Request : req'[r] = req[r] \/ req'[r] = Blank
      BY <2>3 DEF Stop, Tick, AddAdmin, RemoveAdmin
    <3> QED BY <2>2, <3>1, <3>2
  <2>4. CASE Boot
    <3>1. UNCHANGED <<issues, minted, req>> /\ sessions' \subseteq sessions
      BY <2>4 DEF Boot, SyncAdmins, seen
    <3>2. \A d \in Digits : codes'[d] # None => codes'[d] = codes[d]
      BY <2>4 DEF Boot, SyncAdmins
    <3> QED BY <2>2, <3>1, <3>2
  <2>5. ASSUME NEW r \in Request, Handle(r)
        PROVE  Addressed' /\ [Promise!Next]_<<Stages, sentTo, holder>>
    BY <2>1, <2>5, AddressedHandle
  <2> QED BY <2>1, <2>3, <2>4, <2>5 DEF Next
<1> QED BY <1>1, <1>2

\* An admin's code is redeemed at most once, buys at most one session, and that session is
\* of the address the code was sent to, for any number of requests, boots and failures -
\* as long as digits are not sent out again while a request that answered them is between
\* its SELECT and its DELETE, which removes whatever row the digits have by then
\* (codes.go, VerifyCode).  Without that a session can be minted for another address.
THEOREM ImplementsOneTimeCode == HistorySpec /\ [][FreshDigits]_vars => Promise!Spec
<1>1. HistoryInit => AdminInvariant /\ Addressed /\ Promise!Init
  <2> SUFFICES ASSUME HistoryInit PROVE AdminInvariant /\ Addressed /\ Promise!Init
    OBVIOUS
  <2>1. AdminInvariant
    BY InitInvariant DEF HistoryInit
  <2>2. Addressed
    BY AdminAssumption DEF HistoryInit, Init, Addressed, Blank
  <2>3. \A i : ~Spent(i) /\ ~Held(i) /\ ~Kept(i)
    BY DEF HistoryInit, Init, Spent, Held, Kept, HasRow, Blank
  <2>4. \A i \in Issue : ~(i <= issues)
    BY DEF HistoryInit, Init, Issue
  <2>5. Stages = [i \in Issue |-> "none"]
    BY <2>3, <2>4 DEF Stages
  <2> QED BY <2>1, <2>2, <2>5 DEF HistoryInit, Promise!Init
<1>2. AdminInvariant /\ Addressed /\ [Next /\ Noted]_<<vars, sentTo, holder>> /\ [FreshDigits]_vars
      => AdminInvariant' /\ Addressed' /\ [Promise!Next]_<<Stages, sentTo, holder>>
  <2>1. [Next /\ Noted]_<<vars, sentTo, holder>> => [Next]_vars
    OBVIOUS
  <2> QED BY <2>1, NextKeeps, AddressedStep
<1> QED BY <1>1, <1>2, PTL DEF HistorySpec, Promise!Spec
=============================================================================
