---------------------------- MODULE Registration ----------------------------
(***************************************************************************)
(* AuthService.register(): look the address up, hash the password, insert  *)
(* the row with up to three attempts, publish the events and queue the     *)
(* welcome mail.  Requests interleave at every await; the only thing that  *)
(* keeps two of them from creating the same account is the unique index    *)
(* on User.email.                                                          *)
(*                                                                         *)
(* A request registers one address and ends with the status it is answered *)
(* with.  Abstracted: the contents of the row, and the 100 ms between two  *)
(* attempts, during which a request reads nothing.                         *)
(***************************************************************************)
EXTENDS Naturals, FiniteSets

CONSTANTS
  Reqs,      \* requests, each made once
  Emails,    \* addresses
  Attempts,  \* retries, 3 in the code
  None       \* no request

ASSUME RegistrationAssumption ==
  /\ Attempts \in Nat \ {0}
  /\ None \notin Reqs

VARIABLES
  email,     \* the address each request registers
  pc,        \* the await a request is at, or its answer
  left,      \* attempts left: retries
  rows,      \* User table: the address, and the request that inserted the row
  sent,      \* what the publishing steps have delivered, and for whom
  inserted   \* history: requests that have inserted a row

vars == <<email, pc, left, rows, sent, inserted>>

Awaits == {"ARRIVING", "FIND", "HASH", "INSERT",
           "REGISTERED", "WELCOME", "MAIL"}
Refusals == {"400", "409", "500", "LOST"}
Answers == Refusals \cup {"201"}
Events == {"user.registered", "email.welcome", "welcome mail"}

Taken(e) == \E row \in rows : row.email = e

Init ==
  /\ email \in [Reqs -> Emails]
  /\ pc = [r \in Reqs |-> "ARRIVING"]
  /\ left = [r \in Reqs |-> Attempts]
  /\ rows = {}
  /\ sent = {}
  /\ inserted = {}

Goto(r, next) == pc' = [pc EXCEPT ![r] = next]

-----------------------------------------------------------------------------
\* validateEmail() and validatePassword(), or the pipe before them.
Validate(r) ==
  /\ pc[r] = "ARRIVING"
  /\ Goto(r, "FIND") \/ Goto(r, "400")
  /\ UNCHANGED <<email, left, rows, sent, inserted>>

\* findUnique(): taken, free, or a database error.
Find(r) ==
  /\ pc[r] = "FIND"
  /\ Goto(r, IF Taken(email[r]) THEN "409" ELSE "HASH") \/ Goto(r, "500")
  /\ UNCHANGED <<email, left, rows, sent, inserted>>

Hash(r) ==
  /\ pc[r] = "HASH"
  /\ Goto(r, "INSERT")
  /\ UNCHANGED <<email, left, rows, sent, inserted>>

\* Mutant of Retry: the count is not decremented.
RetryForEver(r) ==
  /\ UNCHANGED left
  /\ Goto(r, "INSERT")

\* Mutant of Retry: one attempt too many.
RetryOnceMore(r) ==
  /\ left' = [left EXCEPT ![r] = @ - 1]
  /\ Goto(r, IF left[r] = 0 THEN "500" ELSE "INSERT")

\* An attempt is used up.
Retry(r) ==
  /\ left' = [left EXCEPT ![r] = @ - 1]
  /\ Goto(r, IF left[r] = 1 THEN "500" ELSE "INSERT")

\* Mutant of Insert: there is no unique index, only the lookup.
InsertAnyway(r) ==
  /\ pc[r] = "INSERT"
  /\ rows' = rows \cup {[email |-> email[r], by |-> r]}
  /\ inserted' = inserted \cup {r}
  /\ (Goto(r, "REGISTERED") /\ UNCHANGED left) \/ Retry(r)
  /\ UNCHANGED <<email, sent>>

\* create() commits; its acknowledgement arrives or is lost, which looks
\* like any other database error.
Insert(r) ==
  /\ pc[r] = "INSERT"
  /\ ~Taken(email[r])
  /\ rows' = rows \cup {[email |-> email[r], by |-> r]}
  /\ inserted' = inserted \cup {r}
  /\ (Goto(r, "REGISTERED") /\ UNCHANGED left) \/ Retry(r)
  /\ UNCHANGED <<email, sent>>

\* Mutant of Conflict: the row is taken for one's own earlier attempt.
ConflictIsSuccess(r) ==
  /\ pc[r] = "INSERT"
  /\ Taken(email[r])
  /\ Goto(r, "REGISTERED")
  /\ UNCHANGED <<email, left, rows, sent, inserted>>

\* P2002, never retried.
Conflict(r) ==
  /\ pc[r] = "INSERT"
  /\ Taken(email[r])
  /\ Goto(r, "409")
  /\ UNCHANGED <<email, left, rows, sent, inserted>>

\* Another database error, or no row in the answer: nothing was committed.
InsertFails(r) ==
  /\ pc[r] = "INSERT"
  /\ Retry(r)
  /\ UNCHANGED <<email, rows, sent, inserted>>

\* One publishing step: KafkaService swallows its errors, so the next step
\* follows whether the message got through or not.
Publish(r, at, event, next) ==
  /\ pc[r] = at
  /\ Goto(r, next)
  /\ sent' \in {sent, sent \cup {[event |-> event, for |-> r]}}
  /\ UNCHANGED <<email, left, rows, inserted>>

PublishAll(r) ==
  \/ Publish(r, "REGISTERED", "user.registered", "WELCOME")
  \/ Publish(r, "WELCOME", "email.welcome", "MAIL")
  \/ Publish(r, "MAIL", "welcome mail", "201")

\* PrismaUserRepo.delete() of an account.
Delete(row) ==
  /\ rows' = rows \ {row}
  /\ UNCHANGED <<email, pc, left, sent, inserted>>

\* The process stops; the requests it was serving are never answered.
Crash ==
  /\ \E r \in Reqs : pc[r] \notin Answers \cup {"ARRIVING"}
  /\ pc' = [r \in Reqs |-> IF pc[r] \in Answers \cup {"ARRIVING"} THEN pc[r]
                           ELSE "LOST"]
  /\ UNCHANGED <<email, left, rows, sent, inserted>>

Step(r) ==
  Validate(r) \/ Find(r) \/ Hash(r) \/ Insert(r) \/ Conflict(r)
    \/ InsertFails(r) \/ PublishAll(r)

Next == Crash \/ (\E row \in rows : Delete(row)) \/ \E r \in Reqs : Step(r)

Spec == Init /\ [][Next]_vars

\* The database, the hash and the broker answer or fail in the end.
FairSpec == Spec /\ \A r \in Reqs : WF_vars(Step(r))

-----------------------------------------------------------------------------
(* Properties.                                                             *)

\* Every variable keeps its type.
TypeOK ==
  /\ email \in [Reqs -> Emails]
  /\ pc \in [Reqs -> Awaits \cup Answers]
  /\ left \in [Reqs -> 0..Attempts]
  /\ rows \subseteq [email : Emails, by : Reqs]
  /\ sent \subseteq [event : Events, for : Reqs]
  /\ inserted \subseteq Reqs

\* However requests and attempts interleave, an address has one account.
EmailsAreUnique ==
  \A a, b \in rows : a.email = b.email => a = b

\* Nothing is published for a request that is refused, and for none before
\* its own row was committed: every welcome is for an account, although
\* attempts are repeated.
OnlyAccountsAreWelcomed ==
  \A s \in sent : s.for \in inserted /\ pc[s.for] \notin {"400", "409", "500"}

\* A request that inserts a row is not told 409 or 500 unless it lost the
\* acknowledgement and thereby an attempt.
RefusalCostsAnAttempt ==
  \A r \in inserted : pc[r] \in {"409", "500"} => left[r] < Attempts

\* Find-then-insert with retries is a single atomic claim of the address.
TakenBy(e) ==
  IF Taken(e) THEN (CHOOSE row \in rows : row.email = e).by ELSE None
StatusOf(r) ==
  CASE pc[r] = "201" -> "CREATED"
    [] pc[r] \in Refusals -> "REFUSED"
    [] OTHER -> "PENDING"
Atomic == INSTANCE Registry WITH
            taken <- [e \in Emails |-> TakenBy(e)],
            claimants <- inserted,
            status <- [r \in Reqs |-> StatusOf(r)]
ImplementsRegistry == Atomic!Spec

\* Every request that passed the validation is answered, or lost in a crash: the
\* retries end.
EveryRequestIsAnswered ==
  \A r \in Reqs : pc[r] \in Awaits \ {"ARRIVING"} ~> pc[r] \in Answers
=============================================================================
