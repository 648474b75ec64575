----------------------------- MODULE Directory -----------------------------
(***************************************************************************)
(* What the /users endpoints promise: a request makes one change to the    *)
(* table at most, in a single step that is right at that moment (the user  *)
(* is there, the address is free, the id is new), and only if it came with *)
(* an admin's token.  Success is answered, and announced, for a change     *)
(* that was made; a refusal says that none was.  Only an error leaves it   *)
(* open.                                                                   *)
(***************************************************************************)
CONSTANTS Ids, Emails, Requests

VARIABLES
  table,    \* the address of each user, by id
  admins,   \* requests with an admin's token
  changes,  \* the changes made, each by one request
  told,     \* the changes announced
  outcome   \* OPEN, DONE, READ, REFUSED or ERROR, for each request

vars == <<table, admins, changes, told, outcome>>

Init ==
  /\ \E id \in Ids, e \in Emails : table = [x \in {id} |-> e]
  /\ admins = {} /\ changes = {} /\ told = {}
  /\ outcome = [r \in Requests |-> "OPEN"]

Open(r) == outcome[r] = "OPEN"
Changed(r) == \E c \in changes : c.by = r
Free(e, id) == \A x \in DOMAIN table \ {id} : table[x] # e

Ends(r, how) == outcome' = [outcome EXCEPT ![r] = how]

\* A request comes in, and may be turned away at once.
Enter(r) ==
  /\ Open(r) /\ ~Changed(r)
  /\ admins' \in {admins, admins \cup {r}}
  /\ \E how \in {"OPEN", "REFUSED", "ERROR"} : Ends(r, how)
  /\ UNCHANGED <<table, changes, told>>

\* The change that r makes, of which it may not learn.
Makes(r, what, id) ==
  /\ Open(r) /\ ~Changed(r) /\ r \in admins
  /\ changes' = changes \cup {[what |-> what, id |-> id, by |-> r]}
  /\ \E how \in {"OPEN", "ERROR"} : Ends(r, how)
  /\ UNCHANGED <<admins, told>>

Create(r, id, e) ==
  /\ id \notin DOMAIN table /\ \A c \in changes : c.id # id
  /\ Free(e, id)
  /\ table' = [x \in DOMAIN table \cup {id} |-> IF x = id THEN e ELSE table[x]]
  /\ Makes(r, "create", id)

Update(r, id, e) ==
  /\ id \in DOMAIN table
  /\ Free(e, id)
  /\ table' = [table EXCEPT ![id] = e]
  /\ Makes(r, "update", id)

Delete(r, id) ==
  /\ id \in DOMAIN table
  /\ table' = [x \in DOMAIN table \ {id} |-> table[x]]
  /\ Makes(r, "delete", id)

\* Success, for the change that r has made.
Succeed(c) ==
  /\ Open(c.by)
  /\ told' = told \cup {c}
  /\ Ends(c.by, "DONE")
  /\ UNCHANGED <<table, admins, changes>>

\* A request that changes nothing is answered, or refused.
AnswerUnchanged(r) ==
  /\ Open(r) /\ ~Changed(r)
  /\ \E how \in {"READ", "REFUSED"} : Ends(r, how)
  /\ UNCHANGED <<table, admins, changes, told>>

\* Errors, and the loss of all that is being served.
Fail(lost) ==
  /\ \A r \in lost : Open(r)
  /\ outcome' = [r \in Requests |-> IF r \in lost THEN "ERROR" ELSE outcome[r]]
  /\ UNCHANGED <<table, admins, changes, told>>

Next ==
  \/ \E r \in Requests :
       \/ Enter(r) \/ AnswerUnchanged(r)
       \/ \E id \in Ids : Delete(r, id) \/ \E e \in Emails : Create(r, id, e) \/ Update(r, id, e)
  \/ \E c \in changes : Succeed(c)
  \/ \E lost \in SUBSET Requests : Fail(lost)

Spec == Init /\ [][Next]_vars
=============================================================================
