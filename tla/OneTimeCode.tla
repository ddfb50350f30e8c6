----------------------------- MODULE OneTimeCode -----------------------------
(***************************************************************************)
(* What email sign-in promises of one emailed code: it can be redeemed at  *)
(* most once, a redemption yields at most one session, and that session    *)
(* belongs to the address the code was sent to.  A code, or a redemption   *)
(* that has not finished, may also come to nothing at any time.            *)
(***************************************************************************)
EXTENDS Naturals

CONSTANTS Code, Address, NoAddress

VARIABLES
  stage,   \* how far each code has come
  sentTo,  \* the address each code was issued for
  holder   \* the address whose user holds the session a code bought

Stage == {"none", "issued", "redeeming", "signed_in", "void"}

Init ==
  /\ stage = [c \in Code |-> "none"]
  /\ sentTo = [c \in Code |-> NoAddress]
  /\ holder = [c \in Code |-> NoAddress]

Issue(c, e) ==
  /\ stage[c] = "none"
  /\ stage' = [stage EXCEPT ![c] = "issued"]
  /\ sentTo' = [sentTo EXCEPT ![c] = e]
  /\ UNCHANGED holder

Redeem(c) ==
  /\ stage[c] = "issued"
  /\ stage' = [stage EXCEPT ![c] = "redeeming"]
  /\ UNCHANGED <<sentTo, holder>>

SignIn(c) ==
  /\ stage[c] = "redeeming"
  /\ stage' = [stage EXCEPT ![c] = "signed_in"]
  /\ holder' = [holder EXCEPT ![c] = sentTo[c]]
  /\ UNCHANGED sentTo

\* Expired codes are dropped; a failed or interrupted redemption is not retried.
GiveUp(S) ==
  /\ \A c \in S : stage[c] \in {"issued", "redeeming"}
  /\ stage' = [c \in Code |-> IF c \in S THEN "void" ELSE stage[c]]
  /\ UNCHANGED <<sentTo, holder>>

Next ==
  \/ \E c \in Code : \/ \E e \in Address : Issue(c, e)
                     \/ Redeem(c)
                     \/ SignIn(c)
  \/ \E S \in SUBSET Code : GiveUp(S)

Spec == Init /\ [][Next]_<<stage, sentTo, holder>>
=============================================================================
