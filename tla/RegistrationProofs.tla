------------------------- MODULE RegistrationProofs -------------------------
(***************************************************************************)
(* Registration for any number of requests, addresses and attempts: types, *)
(* its invariants, and the refinement of Registry.                         *)
(***************************************************************************)
EXTENDS Registration, TLAPS

Rows == [email : Emails, by : Reqs]
MailRows == [event : Events, for : Reqs]

\* A request that has come so far has inserted its row.
Published == {"REGISTERED", "WELCOME", "MAIL", "201"}

-----------------------------------------------------------------------------
(* The inductive invariant.                                                *)

\* An attempt is left at every insert; none is used before the first.
AttemptsLeft ==
  \A r \in Reqs :
    /\ pc[r] \in {"ARRIVING", "FIND", "HASH"} => left[r] = Attempts
    /\ pc[r] = "INSERT" => left[r] > 0

\* Where a request that has inserted a row can be.
InsertedWhere ==
  /\ \A r \in Reqs : pc[r] \in Published => r \in inserted
  /\ \A r \in inserted :
       /\ pc[r] \notin {"ARRIVING", "FIND", "HASH", "400"}
       /\ pc[r] \in {"INSERT", "409", "500"} => left[r] < Attempts

\* Where a request that has published something can be.
SentWhere ==
  \A s \in sent : s.for \in inserted
                  /\ pc[s.for] \in {"WELCOME", "MAIL", "201", "LOST"}

IInv ==
  TypeOK /\ AttemptsLeft /\ InsertedWhere /\ SentWhere /\ EmailsAreUnique

LEMMA InvInit == Init => IInv
BY RegistrationAssumption
DEF Init, IInv, TypeOK, AttemptsLeft, InsertedWhere, SentWhere,
    EmailsAreUnique, Awaits, Answers, Refusals, Published

\* What moving one request to another await or answer does.
LEMMA Moves ==
  ASSUME TypeOK, NEW r \in Reqs, NEW next \in Awaits \cup Answers,
         Goto(r, next)
  PROVE  /\ pc' \in [Reqs -> Awaits \cup Answers]
         /\ pc'[r] = next
         /\ \A q \in Reqs \ {r} : pc'[q] = pc[q]
BY DEF TypeOK, Goto

\* A request that moves without touching the table or the attempts.
LEMMA QuietMove ==
  ASSUME IInv, NEW r \in Reqs, NEW next \in Awaits \cup Answers,
         Goto(r, next), UNCHANGED <<email, left, rows, sent, inserted>>,
         \/ pc[r] = "ARRIVING" /\ next \in {"FIND", "400"}
         \/ pc[r] = "FIND" /\ next \in {"HASH", "409", "500"}
         \/ pc[r] = "HASH" /\ next = "INSERT"
         \/ pc[r] = "INSERT" /\ next = "409"
  PROVE  IInv'
<1> USE RegistrationAssumption
<1>1. /\ pc' \in [Reqs -> Awaits \cup Answers]
      /\ pc'[r] = next
      /\ \A q \in Reqs \ {r} : pc'[q] = pc[q]
  BY Moves DEF IInv
<1>2. TypeOK'
  BY <1>1 DEF IInv, TypeOK
<1>3. AttemptsLeft'
  BY <1>1 DEF IInv, AttemptsLeft, TypeOK
<1>4. InsertedWhere'
  BY <1>1 DEF IInv, InsertedWhere, AttemptsLeft, TypeOK, Published
<1>5. SentWhere'
  BY <1>1 DEF IInv, SentWhere, TypeOK, MailRows
<1>6. EmailsAreUnique'
  BY DEF IInv, EmailsAreUnique
<1> QED
  BY <1>2, <1>3, <1>4, <1>5, <1>6 DEF IInv

\* What Retry does: one attempt less, and the end when it was the last.
LEMMA RetryEffect ==
  ASSUME IInv, NEW r \in Reqs, pc[r] = "INSERT", Retry(r)
  PROVE  /\ left' \in [Reqs -> 0..Attempts]
         /\ left'[r] < Attempts
         /\ \A q \in Reqs \ {r} : left'[q] = left[q] /\ pc'[q] = pc[q]
         /\ pc' \in [Reqs -> Awaits \cup Answers]
         /\ \/ pc'[r] = "500"
            \/ pc'[r] = "INSERT" /\ left'[r] > 0
<1> USE RegistrationAssumption
<1>1. left[r] \in 1..Attempts
  BY DEF IInv, TypeOK, AttemptsLeft
<1>2. /\ left' \in [Reqs -> 0..Attempts]
      /\ left'[r] = left[r] - 1
      /\ \A q \in Reqs \ {r} : left'[q] = left[q]
  BY <1>1 DEF IInv, TypeOK, Retry
<1>3. CASE left[r] = 1
  <2>1. Goto(r, "500") /\ "500" \in Awaits \cup Answers
    BY <1>3 DEF Retry, Answers, Refusals
  <2> QED
    BY <1>1, <1>2, <2>1, Moves DEF IInv
<1>4. CASE left[r] # 1
  <2>1. Goto(r, "INSERT") /\ "INSERT" \in Awaits \cup Answers
    BY <1>4 DEF Retry, Awaits
  <2> QED
    BY <1>1, <1>2, <1>4, <2>1, Moves DEF IInv
<1> QED
  BY <1>3, <1>4

\* An insert keeps addresses unique: it needs the address to be free.
LEMMA InsertStep ==
  ASSUME IInv, NEW r \in Reqs, Insert(r)
  PROVE  IInv'
<1> DEFINE new == [email |-> email[r], by |-> r]
<1> USE RegistrationAssumption
<1>1. /\ pc[r] = "INSERT"
      /\ ~Taken(email[r])
      /\ rows' = rows \cup {new}
      /\ inserted' = inserted \cup {r}
      /\ email' = email /\ sent' = sent
  BY DEF Insert
<1>2. new \in Rows /\ new.email = email[r]
  BY DEF IInv, TypeOK, Rows
<1> HIDE DEF new
<1>3. EmailsAreUnique'
  BY <1>1, <1>2 DEF IInv, EmailsAreUnique, Taken
<1>4. /\ left' \in [Reqs -> 0..Attempts]
      /\ pc' \in [Reqs -> Awaits \cup Answers]
      /\ \A q \in Reqs \ {r} : left'[q] = left[q] /\ pc'[q] = pc[q]
      /\ \/ pc'[r] = "REGISTERED" /\ left' = left
         \/ pc'[r] = "500" /\ left'[r] < Attempts
         \/ pc'[r] = "INSERT" /\ left'[r] > 0 /\ left'[r] < Attempts
  <2>1. CASE Retry(r)
    BY <1>1, <2>1, RetryEffect
  <2>2. CASE Goto(r, "REGISTERED") /\ UNCHANGED left
    <3>1. "REGISTERED" \in Awaits \cup Answers
      BY DEF Awaits
    <3> QED
      BY <2>2, <3>1, Moves DEF IInv, TypeOK
  <2> QED
    BY <2>1, <2>2 DEF Insert
<1>5. TypeOK'
  BY <1>1, <1>2, <1>4 DEF IInv, TypeOK, Rows
<1>6. AttemptsLeft'
  BY <1>1, <1>4 DEF IInv, AttemptsLeft
<1>7. InsertedWhere'
  BY <1>1, <1>4 DEF IInv, TypeOK, InsertedWhere, Published
<1>8. SentWhere'
  <2>1. \A s \in sent : s.for \in Reqs \ {r}
    BY <1>1 DEF IInv, TypeOK, SentWhere
  <2> QED
    BY <1>1, <1>4, <2>1 DEF IInv, SentWhere
<1> QED
  BY <1>3, <1>5, <1>6, <1>7, <1>8 DEF IInv

LEMMA InsertFailsStep ==
  ASSUME IInv, NEW r \in Reqs, InsertFails(r)
  PROVE  IInv'
<1> USE RegistrationAssumption
<1>1. /\ pc[r] = "INSERT" /\ Retry(r)
      /\ UNCHANGED <<email, rows, sent, inserted>>
  BY DEF InsertFails
<1>2. /\ left' \in [Reqs -> 0..Attempts]
      /\ left'[r] < Attempts
      /\ \A q \in Reqs \ {r} : left'[q] = left[q] /\ pc'[q] = pc[q]
      /\ pc' \in [Reqs -> Awaits \cup Answers]
      /\ \/ pc'[r] = "500"
         \/ pc'[r] = "INSERT" /\ left'[r] > 0
  <2>1. pc[r] = "INSERT" /\ Retry(r)
    BY <1>1
  <2> QED
    BY <2>1, RetryEffect, Zenon
<1>3. TypeOK'
  BY <1>1, <1>2 DEF IInv, TypeOK
<1>4. AttemptsLeft'
  BY <1>2 DEF IInv, AttemptsLeft
<1>5. InsertedWhere'
  BY <1>1, <1>2 DEF IInv, TypeOK, InsertedWhere, Published
<1>6. SentWhere'
  <2>1. \A s \in sent : s.for \in Reqs \ {r}
    BY <1>1 DEF IInv, TypeOK, SentWhere
  <2> QED
    BY <1>1, <1>2, <2>1 DEF IInv, SentWhere
<1>7. EmailsAreUnique'
  BY <1>1 DEF IInv, EmailsAreUnique
<1> QED
  BY <1>3, <1>4, <1>5, <1>6, <1>7 DEF IInv

LEMMA PublishAllStep ==
  ASSUME IInv, NEW r \in Reqs, NEW at \in {"REGISTERED", "WELCOME", "MAIL"},
         NEW event \in Events, NEW next \in {"WELCOME", "MAIL", "201"},
         Publish(r, at, event, next)
  PROVE  IInv'
<1> DEFINE new == [event |-> event, for |-> r]
<1>1. /\ pc[r] = at
      /\ sent' \subseteq sent \cup {new}
      /\ UNCHANGED <<email, left, rows, inserted>>
  BY DEF Publish
<1>2. new \in MailRows /\ new.for = r
  BY DEF MailRows
<1>3. r \in inserted
  BY <1>1 DEF IInv, InsertedWhere, Published
<1>4. /\ pc' \in [Reqs -> Awaits \cup Answers]
      /\ pc'[r] = next
      /\ \A q \in Reqs \ {r} : pc'[q] = pc[q]
  <2>1. Goto(r, next) /\ next \in Awaits \cup Answers
    BY DEF Publish, Awaits, Answers
  <2> QED
    BY <2>1, Moves DEF IInv
<1> HIDE DEF new
<1>5. TypeOK'
  BY <1>1, <1>2, <1>4 DEF IInv, TypeOK, MailRows
<1>6. AttemptsLeft'
  BY <1>1, <1>4 DEF IInv, AttemptsLeft
<1>7. InsertedWhere'
  BY <1>1, <1>3, <1>4 DEF IInv, TypeOK, InsertedWhere, Published
<1>8. SentWhere'
  BY <1>1, <1>2, <1>3, <1>4 DEF IInv, TypeOK, SentWhere, MailRows
<1>9. EmailsAreUnique'
  BY <1>1 DEF IInv, EmailsAreUnique
<1> QED
  BY <1>5, <1>6, <1>7, <1>8, <1>9 DEF IInv

LEMMA CrashStep ==
  ASSUME IInv, Crash
  PROVE  IInv'
<1>1. /\ pc' \in [Reqs -> Awaits \cup Answers]
      /\ \A r \in Reqs :
           \/ pc'[r] = pc[r] /\ pc[r] \in Answers \cup {"ARRIVING"}
           \/ pc'[r] = "LOST" /\ pc[r] \notin Answers \cup {"ARRIVING"}
      /\ UNCHANGED <<email, left, rows, sent, inserted>>
  BY DEF Crash, IInv, TypeOK, Awaits, Answers, Refusals
<1>2. TypeOK'
  BY <1>1 DEF IInv, TypeOK
<1>3. AttemptsLeft'
  BY <1>1 DEF IInv, AttemptsLeft
<1>4. InsertedWhere'
  BY <1>1 DEF IInv, TypeOK, InsertedWhere, Published
<1>5. SentWhere'
  BY <1>1 DEF IInv, TypeOK, SentWhere
<1>6. EmailsAreUnique'
  BY <1>1 DEF IInv, EmailsAreUnique
<1> QED
  BY <1>2, <1>3, <1>4, <1>5, <1>6 DEF IInv

LEMMA DeleteStep ==
  ASSUME IInv, NEW row \in rows, Delete(row)
  PROVE  IInv'
BY DEF Delete, IInv, TypeOK, AttemptsLeft, InsertedWhere, SentWhere,
       EmailsAreUnique

\* The invariant is inductive.
LEMMA InvNext == IInv /\ [Next]_vars => IInv'
<1> SUFFICES ASSUME IInv, [Next]_vars PROVE IInv'
  OBVIOUS
<1>1. ASSUME NEW r \in Reqs, Step(r) PROVE IInv'
  <2>1. CASE Validate(r) \/ Find(r) \/ Hash(r) \/ Conflict(r)
    <3>1. PICK next \in {"FIND", "400", "HASH", "409", "500", "INSERT"} :
            /\ Goto(r, next)
            /\ UNCHANGED <<email, left, rows, sent, inserted>>
            /\ \/ pc[r] = "ARRIVING" /\ next \in {"FIND", "400"}
               \/ pc[r] = "FIND" /\ next \in {"HASH", "409", "500"}
               \/ pc[r] = "HASH" /\ next = "INSERT"
               \/ pc[r] = "INSERT" /\ next = "409"
      BY <2>1 DEF Validate, Find, Hash, Conflict
    <3>2. next \in Awaits \cup Answers
      BY DEF Awaits, Answers, Refusals
    <3> QED
      BY <3>1, <3>2, QuietMove
  <2>2. CASE Insert(r)
    BY <2>2, InsertStep
  <2>3. CASE InsertFails(r)
    BY <2>3, InsertFailsStep
  <2>4. CASE PublishAll(r)
    BY <2>4, PublishAllStep DEF PublishAll, Events
  <2> QED
    BY <1>1, <2>1, <2>2, <2>3, <2>4 DEF Step
<1>2. CASE Crash
  BY <1>2, CrashStep
<1>3. CASE \E row \in rows : Delete(row)
  BY <1>3, DeleteStep
<1>4. CASE UNCHANGED vars
  BY <1>4 DEF vars, IInv, TypeOK, AttemptsLeft, InsertedWhere, SentWhere,
              EmailsAreUnique
<1> QED
  BY <1>1, <1>2, <1>3, <1>4 DEF Next

THEOREM Invariance == Spec => []IInv
BY InvInit, InvNext, PTL DEF Spec

\* Every variable keeps its type; in particular the attempts never run below
\* zero.
THEOREM TypeCorrect == Spec => []TypeOK
<1>1. IInv => TypeOK
  BY DEF IInv
<1> QED
  BY <1>1, Invariance, PTL

\* An address never has two accounts, however many requests race for it.
THEOREM EmailsAreUniqueCorrect == Spec => []EmailsAreUnique
<1>1. IInv => EmailsAreUnique
  BY DEF IInv
<1> QED
  BY <1>1, Invariance, PTL

\* Only requests that inserted a row, and are not refused, publish.
THEOREM OnlyAccountsAreWelcomedCorrect == Spec => []OnlyAccountsAreWelcomed
<1>1. IInv => OnlyAccountsAreWelcomed
  BY DEF IInv, SentWhere, OnlyAccountsAreWelcomed
<1> QED
  BY <1>1, Invariance, PTL

\* A request refused in spite of its row has lost an attempt.
THEOREM RefusalCostsAnAttemptCorrect == Spec => []RefusalCostsAnAttempt
<1>1. IInv => RefusalCostsAnAttempt
  BY DEF IInv, InsertedWhere, RefusalCostsAnAttempt
<1> QED
  BY <1>1, Invariance, PTL

-----------------------------------------------------------------------------
(* Refinement: the retried find-then-insert is one atomic claim.           *)

\* An address that has one row is taken by the request that inserted it.
LEMMA TakenByRow ==
  ASSUME NEW S, NEW row \in S, \A a, b \in S : a.email = b.email => a = b
  PROVE  (CHOOSE x \in S : x.email = row.email) = row
OBVIOUS

LEMMA TakenNow ==
  ASSUME IInv
  PROVE  /\ \A row \in rows : TakenBy(row.email) = row.by
         /\ \A e \in Emails : ~Taken(e) => TakenBy(e) = None
         /\ \A e \in Emails : Taken(e) =>
              TakenBy(e) # None /\ \E row \in rows : row.email = e
<1>1. ASSUME NEW row \in rows PROVE TakenBy(row.email) = row.by
  <2>1. Taken(row.email)
    BY DEF Taken
  <2>2. (CHOOSE x \in rows : x.email = row.email) = row
    BY TakenByRow DEF IInv, EmailsAreUnique
  <2> QED
    BY <2>1, <2>2 DEF TakenBy
<1>2. \A row \in rows : row.by # None
  BY RegistrationAssumption DEF IInv, TypeOK
<1> QED
  BY <1>1, <1>2 DEF TakenBy, Taken

\* Requests that stay where they are keep their status.
LEMMA StatusKept ==
  ASSUME NEW q \in Reqs, pc'[q] = pc[q]
  PROVE  StatusOf(q)' = StatusOf(q)
BY DEF StatusOf

\* The table is left alone, so are the claims.
LEMMA ClaimsKept ==
  ASSUME UNCHANGED <<rows, inserted>>
  PROVE  /\ [e \in Emails |-> TakenBy(e)]' = [e \in Emails |-> TakenBy(e)]
         /\ inserted' = inserted
BY DEF TakenBy, Taken

\* A request that is refused, or moves on without an answer, while the table
\* stays as it is.
LEMMA RefusalStep ==
  ASSUME IInv, NEW r \in Reqs, pc[r] \in Awaits,
         UNCHANGED <<rows, inserted>>,
         \A q \in Reqs \ {r} : pc'[q] = pc[q],
         pc'[r] \in Awaits \cup Refusals
  PROVE  [Atomic!Next]_Atomic!vars
<1>1. StatusOf(r) = "PENDING"
  BY DEF StatusOf, Awaits, Refusals
<1>2. \A q \in Reqs \ {r} : StatusOf(q)' = StatusOf(q)
  BY StatusKept
<1>3. CASE pc'[r] \in Awaits
  <2>1. StatusOf(r)' = "PENDING"
    BY <1>3 DEF StatusOf, Awaits, Refusals
  <2>2. [q \in Reqs |-> StatusOf(q)]' = [q \in Reqs |-> StatusOf(q)]
    BY <1>1, <1>2, <2>1
  <2> QED
    BY <2>2, ClaimsKept DEF Atomic!vars
<1>4. CASE pc'[r] \in Refusals
  <2>1. StatusOf(r)' = "REFUSED"
    BY <1>4 DEF StatusOf, Refusals
  <2>2. Atomic!Refuse({r})
    BY <1>1, <1>2, <2>1, ClaimsKept DEF Atomic!Refuse
  <2> QED
    BY <2>2 DEF Atomic!Next
<1> QED
  BY <1>3, <1>4

\* The insert is the claim.
LEMMA ClaimStep ==
  ASSUME IInv, IInv', NEW r \in Reqs, Insert(r)
  PROVE  [Atomic!Next]_Atomic!vars
<1> DEFINE new == [email |-> email[r], by |-> r]
<1>1. /\ pc[r] = "INSERT" /\ ~Taken(email[r]) /\ email[r] \in Emails
      /\ rows' = rows \cup {new} /\ inserted' = inserted \cup {r}
      /\ email' = email
  BY DEF Insert, IInv, TypeOK
<1>2. new.email = email[r] /\ new.by = r
  OBVIOUS
<1> HIDE DEF new
<1>3. [e \in Emails |-> TakenBy(e)]'
        = [[e \in Emails |-> TakenBy(e)] EXCEPT ![email[r]] = r]
  <2>1. TakenBy(email[r])' = r
    <3>1. new \in rows' /\ Taken(email[r])'
      BY <1>1, <1>2 DEF Taken
    <3>2. TakenBy(email[r])' = (CHOOSE x \in rows' : x.email = new.email).by
      BY <1>1, <1>2, <3>1 DEF TakenBy
    <3>3. (CHOOSE x \in rows' : x.email = new.email) = new
      BY <3>1, TakenByRow DEF IInv, EmailsAreUnique
    <3> QED
      BY <3>2, <3>3, <1>2
  <2>2. ASSUME NEW e \in Emails, e # email[r]
        PROVE  TakenBy(e)' = TakenBy(e)
    <3>1. CASE Taken(e)
      <4>1. PICK row \in rows : row.email = e
        BY <3>1 DEF Taken
      <4>2. TakenBy(e) = row.by
        BY <4>1, TakenNow
      <4>3. row \in rows' /\ Taken(e)'
        BY <1>1, <4>1 DEF Taken
      <4>4. (CHOOSE x \in rows' : x.email = e) = row
        BY <4>1, <4>3, TakenByRow DEF IInv, EmailsAreUnique
      <4> QED
        BY <4>2, <4>3, <4>4 DEF TakenBy
    <3>2. CASE ~Taken(e)
      BY <1>1, <1>2, <2>2, <3>2 DEF TakenBy, Taken
    <3> QED
      BY <3>1, <3>2
  <2> QED
    BY <1>1, <2>1, <2>2
<1>4. StatusOf(r) = "PENDING" /\ TakenBy(email[r]) = None
  BY <1>1, TakenNow DEF StatusOf, Refusals
<1>5. /\ pc' \in [Reqs -> Awaits \cup Answers]
      /\ \A q \in Reqs \ {r} : pc'[q] = pc[q]
      /\ pc'[r] \in {"REGISTERED", "INSERT", "500"}
  BY DEF Insert, Retry, Goto, IInv, TypeOK
<1>6. \A q \in Reqs \ {r} : StatusOf(q)' = StatusOf(q)
  BY <1>5, StatusKept
<1>7. Atomic!Claim(r, email[r])
  BY <1>1, <1>3, <1>4 DEF Atomic!Claim
<1>8. CASE pc'[r] \in {"REGISTERED", "INSERT"}
  <2>1. StatusOf(r)' = "PENDING"
    BY <1>8 DEF StatusOf, Refusals
  <2>2. [q \in Reqs |-> StatusOf(q)]' = [q \in Reqs |-> StatusOf(q)]
    BY <1>4, <1>6, <2>1
  <2> QED
    BY <1>1, <1>7, <2>2 DEF Atomic!Next
<1>9. CASE pc'[r] = "500"
  <2>1. StatusOf(r)' = "REFUSED"
    BY <1>9 DEF StatusOf, Refusals
  <2>2. Atomic!ClaimAndRefuse(r, email[r])
    BY <1>6, <1>7, <2>1 DEF Atomic!ClaimAndRefuse
  <2> QED
    BY <1>1, <2>2 DEF Atomic!Next
<1> QED
  BY <1>5, <1>8, <1>9

\* The last publishing step confirms the account.
LEMMA ConfirmStep ==
  ASSUME IInv, IInv', NEW r \in Reqs, PublishAll(r)
  PROVE  [Atomic!Next]_Atomic!vars
<1>1. /\ pc[r] \in {"REGISTERED", "WELCOME", "MAIL"}
      /\ pc'[r] \in {"WELCOME", "MAIL", "201"}
      /\ \A q \in Reqs \ {r} : pc'[q] = pc[q]
      /\ UNCHANGED <<rows, inserted>>
  BY DEF PublishAll, Publish, Goto, IInv, TypeOK
<1>2. CASE pc'[r] \in {"WELCOME", "MAIL"}
  BY <1>1, <1>2, RefusalStep DEF Awaits
<1>3. CASE pc'[r] = "201"
  <2>1. StatusOf(r) = "PENDING" /\ StatusOf(r)' = "CREATED"
    BY <1>1, <1>3 DEF StatusOf, Refusals
  <2>2. \A q \in Reqs \ {r} : StatusOf(q)' = StatusOf(q)
    BY <1>1, StatusKept
  <2>3. r \in inserted
    BY <1>1 DEF IInv, InsertedWhere, Published
  <2>4. Atomic!Confirm(r)
    BY <1>1, <2>1, <2>2, <2>3, ClaimsKept DEF Atomic!Confirm
  <2> QED
    BY <2>4 DEF Atomic!Next
<1> QED
  BY <1>1, <1>2, <1>3

\* A crash refuses every request that was being served.
LEMMA CrashRefuses ==
  ASSUME IInv, Crash
  PROVE  [Atomic!Next]_Atomic!vars
<1> DEFINE lost == {r \in Reqs : pc[r] \notin Answers \cup {"ARRIVING"}}
<1>1. ASSUME NEW r \in lost
      PROVE  StatusOf(r) = "PENDING" /\ StatusOf(r)' = "REFUSED"
  BY DEF Crash, StatusOf, Answers, Refusals
<1>2. ASSUME NEW r \in Reqs \ lost PROVE StatusOf(r)' = StatusOf(r)
  BY DEF Crash, StatusOf
<1>3. lost \in SUBSET Reqs
  OBVIOUS
<1>4. UNCHANGED <<rows, inserted>>
  BY DEF Crash
<1> HIDE DEF lost
<1>5. Atomic!Refuse(lost)
  BY <1>1, <1>2, <1>3, <1>4, ClaimsKept DEF Atomic!Refuse
<1> QED
  BY <1>3, <1>5 DEF Atomic!Next

\* A deleted account frees its address.
LEMMA FreeStep ==
  ASSUME IInv, NEW row \in rows, Delete(row)
  PROVE  [Atomic!Next]_Atomic!vars
<1>1. row.email \in Emails
  BY DEF IInv, TypeOK
<1>2. Taken(row.email) /\ TakenBy(row.email) # None
  BY <1>1, TakenNow DEF Taken
<1>3. TakenBy(row.email)' = None
  BY DEF Delete, TakenBy, Taken, IInv, EmailsAreUnique
<1>4. ASSUME NEW e \in Emails, e # row.email
      PROVE  TakenBy(e)' = TakenBy(e)
  <2>1. CASE Taken(e)
    <3>1. PICK other \in rows : other.email = e
      BY <2>1 DEF Taken
    <3>2. TakenBy(e) = other.by
      BY <3>1, TakenNow
    <3>3. other \in rows' /\ Taken(e)'
      BY <1>4, <3>1 DEF Taken, Delete
    <3>4. (CHOOSE x \in rows' : x.email = e) = other
      BY <3>1, <3>3, TakenByRow DEF IInv, EmailsAreUnique, Delete
    <3> QED
      BY <3>2, <3>3, <3>4 DEF TakenBy
  <2>2. CASE ~Taken(e)
    BY <2>2 DEF TakenBy, Taken, Delete
  <2> QED
    BY <2>1, <2>2
<1>5. /\ [r \in Reqs |-> StatusOf(r)]' = [r \in Reqs |-> StatusOf(r)]
      /\ inserted' = inserted
  BY DEF Delete, StatusOf
<1>6. Atomic!Free(row.email)
  BY <1>1, <1>2, <1>3, <1>4, <1>5 DEF Atomic!Free
<1> QED
  BY <1>1, <1>6 DEF Atomic!Next

\* Every step of registration is a step of the registry, or none.
LEMMA RegistryStep == IInv /\ IInv' /\ [Next]_vars => [Atomic!Next]_Atomic!vars
<1> SUFFICES ASSUME IInv, IInv', [Next]_vars
             PROVE  [Atomic!Next]_Atomic!vars
  OBVIOUS
<1>1. ASSUME NEW r \in Reqs, Step(r) PROVE [Atomic!Next]_Atomic!vars
  <2>1. CASE Validate(r) \/ Find(r) \/ Hash(r) \/ Conflict(r)
             \/ InsertFails(r)
    <3>1. /\ pc[r] \in {"ARRIVING", "FIND", "HASH", "INSERT"}
          /\ UNCHANGED <<rows, inserted>>
          /\ \A q \in Reqs \ {r} : pc'[q] = pc[q]
          /\ pc'[r] \in {"FIND", "400", "409", "500", "HASH", "INSERT"}
      BY <2>1 DEF Validate, Find, Hash, Conflict, InsertFails, Retry, Goto,
                  IInv, TypeOK
    <3> QED
      BY <3>1, RefusalStep DEF Awaits, Refusals
  <2>2. CASE Insert(r)
    BY <2>2, ClaimStep
  <2>3. CASE PublishAll(r)
    BY <2>3, ConfirmStep
  <2> QED
    BY <1>1, <2>1, <2>2, <2>3 DEF Step
<1>2. CASE Crash
  BY <1>2, CrashRefuses
<1>3. CASE \E row \in rows : Delete(row)
  BY <1>3, FreeStep
<1>4. CASE UNCHANGED vars
  BY <1>4 DEF vars, Atomic!vars, TakenBy, Taken, StatusOf
<1> QED
  BY <1>1, <1>2, <1>3, <1>4 DEF Next

LEMMA RegistryInit == Init => Atomic!Init
BY DEF Init, Atomic!Init, TakenBy, Taken, StatusOf, Refusals

\* Find-then-insert with retries implements the atomic claim of an address.
THEOREM RegistryImplemented == Spec => ImplementsRegistry
BY RegistryInit, RegistryStep, Invariance, PTL
DEF Spec, Atomic!Spec, ImplementsRegistry

-----------------------------------------------------------------------------
(* What EveryRequestIsAnswered rests on: a request has finitely many steps *)
(* to take, and nothing gives it more.                                     *)

StepsLeft(r) ==
  CASE pc[r] = "ARRIVING"   -> Attempts + 6
    [] pc[r] = "FIND"       -> Attempts + 5
    [] pc[r] = "HASH"       -> Attempts + 4
    [] pc[r] = "INSERT"     -> left[r] + 3
    [] pc[r] = "REGISTERED" -> 3
    [] pc[r] = "WELCOME"    -> 2
    [] pc[r] = "MAIL"       -> 1
    [] OTHER                -> 0

LEMMA StepsAreCounted ==
  ASSUME IInv, NEW r \in Reqs
  PROVE  /\ StepsLeft(r) \in 0..(Attempts + 6)
         /\ StepsLeft(r) = 0 <=> pc[r] \in Answers
<1>1. pc[r] \in Awaits \cup Answers /\ left[r] \in 0..Attempts /\ Attempts \in Nat \ {0}
  BY RegistrationAssumption DEF IInv, TypeOK
<1> QED
  BY <1>1 DEF StepsLeft, Awaits, Answers, Refusals

LEMMA StepSpends ==
  ASSUME IInv, NEW r \in Reqs, Step(r)
  PROVE  StepsLeft(r)' < StepsLeft(r)
<1>1. left[r] \in 0..Attempts /\ Attempts \in Nat \ {0}
  BY RegistrationAssumption DEF IInv, TypeOK
<1>2. ASSUME NEW next \in Awaits \cup Answers, Goto(r, next), UNCHANGED left,
             \/ pc[r] = "ARRIVING" /\ next \in {"FIND", "400"}
             \/ pc[r] = "FIND" /\ next \in {"HASH", "409", "500"}
             \/ pc[r] = "HASH" /\ next = "INSERT"
             \/ pc[r] = "INSERT" /\ next \in {"REGISTERED", "409"}
             \/ pc[r] = "REGISTERED" /\ next = "WELCOME"
             \/ pc[r] = "WELCOME" /\ next = "MAIL"
             \/ pc[r] = "MAIL" /\ next = "201"
      PROVE  StepsLeft(r)' < StepsLeft(r)
  <2>1. pc'[r] = next /\ left'[r] = left[r]
    BY <1>2, Moves DEF IInv
  <2>2. pc[r] = "INSERT" => left[r] > 0
    BY DEF IInv, AttemptsLeft
  <2> QED
    BY <1>1, <1>2, <2>1, <2>2 DEF StepsLeft
<1>3. ASSUME pc[r] = "INSERT", Retry(r)
      PROVE  StepsLeft(r)' < StepsLeft(r)
  <2>1. left'[r] = left[r] - 1 /\ left[r] > 0
    BY <1>1, <1>3 DEF IInv, TypeOK, AttemptsLeft, Retry
  <2>2. pc'[r] \in {"500", "INSERT"}
    BY <1>3, RetryEffect
  <2> QED
    BY <1>1, <1>3, <2>1, <2>2 DEF StepsLeft
<1>4. CASE Validate(r) \/ Find(r) \/ Hash(r) \/ Conflict(r)
  BY <1>2, <1>4 DEF Validate, Find, Hash, Conflict, Awaits, Answers, Refusals
<1>5. CASE Insert(r) \/ InsertFails(r)
  BY <1>2, <1>3, <1>5 DEF Insert, InsertFails, Awaits
<1>6. CASE PublishAll(r)
  BY <1>2, <1>6 DEF PublishAll, Publish, Awaits, Answers
<1> QED
  BY <1>4, <1>5, <1>6 DEF Step

\* Every step that the code takes for a request uses up one of Attempts + 6 at most,
\* and neither another request, nor a deletion, nor a crash gives it one back: if
\* no await lasts for ever, the request is answered.
THEOREM RequestsAreFinite ==
  Spec => /\ [](\A r \in Reqs : /\ StepsLeft(r) \in 0..(Attempts + 6)
                                /\ StepsLeft(r) = 0 <=> pc[r] \in Answers)
          /\ [][\A r \in Reqs : /\ StepsLeft(r)' <= StepsLeft(r)
                                /\ Step(r) => StepsLeft(r)' < StepsLeft(r)]_vars
<1>1. IInv => \A r \in Reqs : /\ StepsLeft(r) \in 0..(Attempts + 6)
                              /\ StepsLeft(r) = 0 <=> pc[r] \in Answers
  BY StepsAreCounted
<1>2. IInv /\ [Next]_vars =>
        [\A r \in Reqs : /\ StepsLeft(r)' <= StepsLeft(r)
                         /\ Step(r) => StepsLeft(r)' < StepsLeft(r)]_vars
  <2> SUFFICES ASSUME IInv, Next, NEW r \in Reqs
               PROVE  /\ StepsLeft(r)' <= StepsLeft(r)
                      /\ Step(r) => StepsLeft(r)' < StepsLeft(r)
    OBVIOUS
  <2>1. StepsLeft(r) \in Nat /\ (IInv' => StepsLeft(r)' \in Nat)
    <3>1. StepsLeft(r) \in 0..(Attempts + 6) /\ Attempts \in Nat
      BY StepsAreCounted, RegistrationAssumption
    <3>2. IInv' => left'[r] \in Nat
      BY DEF IInv, TypeOK
    <3>3. IInv' => StepsLeft(r)' \in Nat
      BY <3>1, <3>2 DEF StepsLeft
    <3> QED
      BY <3>1, <3>3
  <2>2. IInv'
    BY InvNext
  <2>3. PICK now \in Nat : now = StepsLeft(r)'
    BY <2>1, <2>2
  <2>4. CASE Step(r)
    BY <2>1, <2>3, <2>4, StepSpends
  <2>5. CASE pc'[r] = pc[r] /\ left'[r] = left[r]
    BY <2>1, <2>4, <2>5 DEF StepsLeft
  <2>6. CASE pc'[r] = "LOST"
    BY <2>1, <2>4, <2>6 DEF StepsLeft
  <2>7. ASSUME NEW q \in Reqs \ {r}, Step(q) PROVE pc'[r] = pc[r] /\ left'[r] = left[r]
    BY <2>7
    DEF Step, Validate, Find, Hash, Insert, Conflict, InsertFails, PublishAll, Publish,
        Retry, Goto, IInv, TypeOK
  <2>8. CASE Crash
    BY <2>5, <2>6, <2>8 DEF Crash
  <2>9. CASE \E row \in rows : Delete(row)
    BY <2>5, <2>9 DEF Delete
  <2> QED
    BY <2>4, <2>5, <2>7, <2>8, <2>9 DEF Next
<1> QED
  BY <1>1, <1>2, Invariance, PTL DEF Spec
=============================================================================
