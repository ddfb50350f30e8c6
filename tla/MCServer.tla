------------------------------ MODULE MCServer ------------------------------
(***************************************************************************)
(* The request pipeline and the two limiters.  They share no variable, so  *)
(* a behaviour of the whole is one of each: `focus` says which of the      *)
(* three moves while the others rest.                                      *)
(***************************************************************************)
EXTENDS Server, TokenBucket, SlidingWindow, TLC

CONSTANTS admin, member, r1, u1

VARIABLE focus

ASSUME /\ TokenBucketAssumption /\ SlidingWindowAssumption
       /\ ServerAssumption /\ Log!RequestLogAssumption

SignedIn == [user |-> TRUE, role |-> None, owner |-> FALSE]
RoleOnly == [user |-> FALSE, role |-> admin, owner |-> FALSE]
RoleAndOwner == [SignedIn EXCEPT !.role = admin, !.owner = TRUE]
Same == [r \in Role |-> r]
Lowered == admin :> Fails @@ member :> admin

MCPrograms == {[svc |-> RoleAndOwner, getter |-> Same], [svc |-> RoleOnly, getter |-> Lowered],
               [svc |-> None, getter |-> None]}
MCPaths == [r \in Request |-> IF r = r1 THEN {"api"} ELSE {"page", "internal"}]

\* The document is the caller's and the caller is an admin until another request changes it.
MCInit ==
  /\ Init /\ BucketInit /\ WindowInit
  /\ owner = u1 /\ row = [u \in User |-> admin]
  /\ focus \in {"request", "bucket", "window"}
  /\ focus # "request" => fullstack /\ programs[1].svc = None

MCNext ==
  /\ UNCHANGED focus
  /\ \/ focus = "request" /\ (Next \/ Terminated) /\ UNCHANGED <<bucketVars, windowVars>>
     \/ focus = "bucket" /\ BucketNext /\ UNCHANGED <<vars, windowVars>>
     \/ focus = "window" /\ WindowNext /\ UNCHANGED <<vars, bucketVars>>

MCSpec == MCInit /\ [][MCNext]_<<focus, vars, bucketVars, windowVars>>
=============================================================================
