------------------------------ MODULE Registry ------------------------------
(***************************************************************************)
(* What registration promises: an address is claimed by one request at a   *)
(* time, in a single atomic step, and a request is told that it created    *)
(* the account only if it made the claim itself.  A request may also be    *)
(* refused, whether or not it made one (an acknowledgement can be lost),   *)
(* and an account may be deleted, which frees its address.                 *)
(***************************************************************************)
CONSTANTS Reqs, Emails, None

VARIABLES
  taken,     \* the request that claimed each address, or None
  claimants, \* requests that made a claim
  status     \* PENDING, CREATED or REFUSED, for each request

vars == <<taken, claimants, status>>

Init ==
  /\ taken = [e \in Emails |-> None]
  /\ claimants = {}
  /\ status = [r \in Reqs |-> "PENDING"]

Claim(r, e) ==
  /\ status[r] = "PENDING"
  /\ taken[e] = None
  /\ taken' = [taken EXCEPT ![e] = r]
  /\ claimants' = claimants \cup {r}

\* A claim whose acknowledgement is lost on the last attempt.
ClaimAndRefuse(r, e) ==
  /\ Claim(r, e)
  /\ status' = [status EXCEPT ![r] = "REFUSED"]

Confirm(r) ==
  /\ status[r] = "PENDING"
  /\ r \in claimants
  /\ status' = [status EXCEPT ![r] = "CREATED"]
  /\ UNCHANGED <<taken, claimants>>

\* One request is refused, or several at once when the process stops.
Refuse(lost) ==
  /\ \A r \in lost : status[r] = "PENDING"
  /\ status' = [r \in Reqs |-> IF r \in lost THEN "REFUSED" ELSE status[r]]
  /\ UNCHANGED <<taken, claimants>>

Free(e) ==
  /\ taken[e] # None
  /\ taken' = [taken EXCEPT ![e] = None]
  /\ UNCHANGED <<claimants, status>>

Next ==
  \/ \E r \in Reqs : Confirm(r)
  \/ \E lost \in SUBSET Reqs : Refuse(lost)
  \/ \E r \in Reqs, e \in Emails :
       (Claim(r, e) /\ UNCHANGED status) \/ ClaimAndRefuse(r, e)
  \/ \E e \in Emails : Free(e)

Spec == Init /\ [][Next]_vars
=============================================================================
