--------------------------- MODULE AccountsProofs ---------------------------
(***************************************************************************)
(* Accounts for any set of requests, users, addresses and mails: what the  *)
(* mail queue sends and how often, what the events of /users say, that the *)
(* endpoints implement Directory, the types of all three parts.            *)
(* Registration's theorems are from RegistrationProofs.                    *)
(***************************************************************************)
EXTENDS RegistrationProofs, Accounts, FiniteSetTheorems, TLAPS

-----------------------------------------------------------------------------
(* Mail: the invariant.  Each copy of a mail is paid for by an attempt of  *)
(* its job, or by the one time that the job may be taken back.             *)

Steps == {"IDLE", "SENDING", "SENT", "THROWN"}

MailKinds ==
  /\ reply \in [Mails -> {"NONE", "SKIPPED", "ADDING", "QUEUED", "ERROR", "SENT"}]
  /\ attempts \in [Mails -> Nat \ {0}]
  /\ work \in [Contexts -> [job : Nat, at : Steps]]
  /\ copies \in [JobIds -> Nat]
  /\ \E n \in 0..MaxJobs : DOMAIN jobs = 1..n
  /\ \A j \in DOMAIN jobs : jobs[j] \in Jobs

\* A job that may still run has an attempt left; only an active one is held.
JobsLive ==
  \A j \in DOMAIN jobs :
    /\ jobs[j].at \in {"WAITING", "ACTIVE"} => jobs[j].left >= 1
    /\ jobs[j].holder \in Contexts => jobs[j].at = "ACTIVE"
    /\ reply[jobs[j].mail] # "NONE"

\* A worker has a job that is stored, or none.
WorkIsStored == \A c \in Contexts : work[c].at # "IDLE" => work[c].job \in DOMAIN jobs

\* What says that a mail was sent is right.
SentWasSent ==
  /\ \A c \in Contexts : work[c].at = "SENT" => copies[work[c].job] > 0
  /\ CompletedMailWasSent
  /\ \A j \in JobIds \ DOMAIN jobs : copies[j] = 0

\* Copies that a worker may still make of a job's mail, and attempts that are
\* left for others.
Sending(c, j) == IF work[c].job = j /\ work[c].at = "SENDING" THEN 1 ELSE 0
Unspent(j) == CASE jobs[j].at = "WAITING" -> jobs[j].left
                [] jobs[j].at = "ACTIVE"  -> jobs[j].left - 1
                [] OTHER                  -> 0

CopiesArePaid ==
  \A j \in DOMAIN jobs :
    copies[j] + Sending("options", j) + Sending("app", j) + Unspent(j)
      <= attempts[jobs[j].mail] + jobs[j].stalled

MailInv == MailKinds /\ JobsLive /\ WorkIsStored /\ SentWasSent /\ CopiesArePaid

LEMMA MailInvInit == MailInit => MailInv
<1> SUFFICES ASSUME MailInit PROVE MailInv
  OBVIOUS
<1>1. DOMAIN jobs = {} /\ DOMAIN jobs = 1..0 /\ 0 \in 0..MaxJobs
  BY MailAssumption DEF MailInit
<1>2. MailKinds
  BY <1>1 DEF MailInit, MailKinds, Idle, Contexts, JobIds, Steps
<1>3. JobsLive /\ WorkIsStored /\ CopiesArePaid
  BY <1>1 DEF MailInit, JobsLive, WorkIsStored, CopiesArePaid, Idle, Contexts
<1>4. SentWasSent
  BY <1>1 DEF MailInit, SentWasSent, CompletedMailWasSent, Idle, Contexts
<1> QED
  BY <1>2, <1>3, <1>4 DEF MailInv

\* A stored job has an id, and the ids are used up in order.
LEMMA StoredIds ==
  ASSUME MailKinds
  PROVE  /\ DOMAIN jobs \subseteq JobIds
         /\ Cardinality(DOMAIN jobs) \in 0..MaxJobs
         /\ DOMAIN jobs = 1..Cardinality(DOMAIN jobs)
<1>1. PICK n \in 0..MaxJobs : DOMAIN jobs = 1..n
  BY DEF MailKinds
<1>2. Cardinality(1..n) = n
  BY FS_Interval
<1> QED
  BY <1>1, <1>2, MailAssumption DEF JobIds

-----------------------------------------------------------------------------
(* Mail: the steps.                                                        *)

\* The callers, up to the job: what is stored stays as it is.
CallersOnly ==
  /\ UNCHANGED <<jobs, work, copies>>
  /\ reply' \in [Mails -> {"NONE", "SKIPPED", "ADDING", "QUEUED", "ERROR", "SENT"}]
  /\ attempts' \in [Mails -> Nat \ {0}]
  /\ \A x \in Mails : reply[x] # "NONE" =>
       reply'[x] # "NONE" /\ attempts'[x] = attempts[x]

LEMMA CallersKeep ==
  ASSUME MailInv, CallersOnly
  PROVE  MailInv'
<1>1. MailKinds'
  BY DEF MailInv, MailKinds, CallersOnly, JobIds
<1>2. JobsLive'
  BY DEF MailInv, MailKinds, JobsLive, CallersOnly, Jobs
<1>3. WorkIsStored' /\ SentWasSent'
  BY DEF MailInv, WorkIsStored, SentWasSent, CompletedMailWasSent, CallersOnly
<1>4. CopiesArePaid'
  BY DEF MailInv, MailKinds, JobsLive, CopiesArePaid, CallersOnly, Sending, Unspent, Jobs
<1> QED
  BY <1>1, <1>2, <1>3, <1>4 DEF MailInv

LEMMA CallersStep ==
  ASSUME MailInv, NEW x \in Mails,
         QueueEmail(x) \/ AddQueueJob(x) \/ AddFails(x) \/ SendImmediate(x)
  PROVE  CallersOnly
<1> USE DEF MailInv, MailKinds, CallersOnly, Arrives
<1>1. CASE QueueEmail(x)
  BY <1>1 DEF QueueEmail
<1>2. CASE AddQueueJob(x)
  <2>1. PICK limit \in AttemptLimits :
          /\ reply[x] = "NONE"
          /\ attempts' = [attempts EXCEPT ![x] = limit]
          /\ reply' = [reply EXCEPT ![x] =
               IF context["app"] = "OFF" THEN "SKIPPED" ELSE "ADDING"]
          /\ UNCHANGED <<jobs, work, copies>>
    BY <1>2 DEF AddQueueJob
  <2> QED
    BY <2>1, MailAssumption
<1>3. CASE AddFails(x)
  BY <1>3 DEF AddFails
<1>4. CASE SendImmediate(x)
  <2>1. PICK known \in {"SENT", "ERROR", "SKIPPED"} : reply' = [reply EXCEPT ![x] = known]
    BY <1>4 DEF SendImmediate
  <2> QED
    BY <1>4, <2>1 DEF SendImmediate
<1> QED
  BY <1>1, <1>2, <1>3, <1>4

\* queue.add(): a new job, with all the attempts its caller asked for.
LEMMA AddJobStep ==
  ASSUME MailInv, NEW x \in Mails, AddJob(x)
  PROVE  MailInv'
<1>1. PICK new \in JobIds \ DOMAIN jobs :
        /\ new \in Nat
        /\ DOMAIN jobs' = DOMAIN jobs \cup {new}
        /\ \A j \in DOMAIN jobs : jobs'[j] = jobs[j]
        /\ jobs'[new] = [mail |-> x, at |-> "WAITING", left |-> attempts[x],
                         stalled |-> 0, holder |-> "NONE"]
        /\ DOMAIN jobs' = 1..new /\ new \in 0..MaxJobs
  <2> DEFINE next == Cardinality(DOMAIN jobs) + 1
  <2>1. DOMAIN jobs = 1..next - 1 /\ next \in 1..MaxJobs
    BY StoredIds, MailAssumption DEF AddJob, MailInv
  <2>2. jobs' = [j \in DOMAIN jobs \cup {next} |->
             IF j \in DOMAIN jobs THEN jobs[j] ELSE
               [mail |-> x, at |-> "WAITING", left |-> attempts[x], stalled |-> 0,
                holder |-> "NONE"]]
    BY DEF AddJob, Stored
  <2> HIDE DEF next
  <2>3. next \in JobIds \ DOMAIN jobs
    BY <2>1, MailAssumption DEF JobIds
  <2> WITNESS next \in JobIds \ DOMAIN jobs
  <2> QED
    BY <2>1, <2>2, <2>3, MailAssumption DEF JobIds
<1>2. PICK known \in {"QUEUED", "ADDING", "ERROR"} : reply' = [reply EXCEPT ![x] = known]
  BY DEF AddJob
<1>3. UNCHANGED <<attempts, work, copies>> /\ reply[x] = "ADDING"
  BY DEF AddJob
<1>4. /\ reply' \in [Mails -> {"NONE", "SKIPPED", "ADDING", "QUEUED", "ERROR", "SENT"}]
      /\ \A y \in Mails : reply[y] # "NONE" => reply'[y] # "NONE"
      /\ reply'[x] # "NONE"
  BY <1>2 DEF MailInv, MailKinds
<1>5. attempts[x] \in Nat \ {0}
  BY DEF MailInv, MailKinds
<1>6. jobs'[new] \in Jobs
  BY <1>1, <1>5 DEF Jobs
<1>7. MailKinds'
  BY <1>1, <1>3, <1>4, <1>6 DEF MailInv, MailKinds
<1>8. JobsLive'
  BY <1>1, <1>4, <1>5 DEF MailInv, MailKinds, JobsLive, Jobs, Contexts
<1>9. WorkIsStored' /\ SentWasSent'
  BY <1>1, <1>3 DEF MailInv, WorkIsStored, SentWasSent, CompletedMailWasSent
<1>10. CopiesArePaid'
  <2>1. copies[new] = 0
    BY <1>1 DEF MailInv, SentWasSent
  <2>2. ASSUME NEW c \in Contexts PROVE Sending(c, new)' = 0
    BY <1>1, <1>3 DEF MailInv, WorkIsStored, Sending
  <2>3. Unspent(new)' = attempts[x]
    BY <1>1 DEF Unspent
  <2>4. \A j \in DOMAIN jobs : /\ Unspent(j)' = Unspent(j)
                               /\ Sending("options", j)' = Sending("options", j)
                               /\ Sending("app", j)' = Sending("app", j)
    BY <1>1, <1>3 DEF Unspent, Sending
  <2> QED
    BY <1>1, <1>3, <1>5, <2>1, <2>2, <2>3, <2>4 DEF MailInv, CopiesArePaid, Contexts
<1> QED
  BY <1>7, <1>8, <1>9, <1>10 DEF MailInv

\* A worker takes a job: an attempt that is left becomes a copy that may be made.
LEMMA TakeStep ==
  ASSUME MailInv, NEW c \in Contexts, NEW j \in DOMAIN jobs, Take(c, j)
  PROVE  MailInv'
<1>1. /\ jobs[j].at = "WAITING" /\ jobs[j] \in Jobs /\ j \in Nat
      /\ work[c] = Idle
      /\ work' = [work EXCEPT ![c] = [job |-> j, at |-> "SENDING"]]
      /\ UNCHANGED <<reply, attempts, copies>>
  BY StoredIds DEF Take, MailInv, MailKinds, JobIds
<1>2. /\ DOMAIN jobs' = DOMAIN jobs
      /\ \A i \in DOMAIN jobs : i # j => jobs'[i] = jobs[i]
      /\ jobs'[j] = [[jobs[j] EXCEPT !.at = "ACTIVE"] EXCEPT !.holder = c]
  BY DEF Take
<1>3. /\ jobs'[j] \in Jobs
      /\ jobs'[j].at = "ACTIVE"
      /\ jobs'[j].mail = jobs[j].mail /\ jobs'[j].left = jobs[j].left
      /\ jobs'[j].stalled = jobs[j].stalled
  BY <1>1, <1>2 DEF Jobs
<1>4. /\ work' \in [Contexts -> [job : Nat, at : Steps]]
      /\ \A d \in Contexts : d # c => work'[d] = work[d]
      /\ work'[c] = [job |-> j, at |-> "SENDING"]
  BY <1>1 DEF MailInv, MailKinds, Steps
<1>5. MailKinds'
  BY <1>1, <1>2, <1>3, <1>4 DEF MailInv, MailKinds
<1>6. JobsLive'
  <2>1. ASSUME NEW i \in DOMAIN jobs, i # j
        PROVE  /\ jobs'[i].at \in {"WAITING", "ACTIVE"} => jobs'[i].left >= 1
               /\ jobs'[i].holder \in Contexts => jobs'[i].at = "ACTIVE"
               /\ reply'[jobs'[i].mail] # "NONE"
    BY <1>1, <1>2, <2>1 DEF MailInv, JobsLive
  <2>2. jobs'[j].left >= 1 /\ reply'[jobs'[j].mail] # "NONE"
    BY <1>1, <1>3 DEF MailInv, JobsLive
  <2> QED
    BY <1>2, <1>3, <2>1, <2>2 DEF JobsLive
<1>7. WorkIsStored' /\ SentWasSent'
  BY <1>1, <1>2, <1>3, <1>4 DEF MailInv, WorkIsStored, SentWasSent, CompletedMailWasSent
<1>8. CopiesArePaid'
  <2>1. ASSUME NEW i \in DOMAIN jobs, i # j
        PROVE  /\ Unspent(i)' = Unspent(i)
               /\ \A d \in Contexts : Sending(d, i)' = Sending(d, i)
    BY <1>1, <1>2, <1>4, <2>1 DEF Unspent, Sending, Idle
  <2>2. Unspent(j)' = jobs[j].left - 1 /\ Unspent(j) = jobs[j].left
    BY <1>1, <1>3 DEF Unspent
  <2>3. /\ Sending(c, j)' = 1 /\ Sending(c, j) = 0
        /\ \A d \in Contexts : d # c => Sending(d, j)' = Sending(d, j)
    BY <1>1, <1>4 DEF Sending, Idle
  <2>4. jobs[j].left \in Nat /\ copies[j] \in Nat /\ jobs[j].stalled \in Nat
    BY <1>1, StoredIds DEF Jobs, MailInv, MailKinds
  <2>5. attempts[jobs[j].mail] \in Nat
    BY <1>1 DEF Jobs, MailInv, MailKinds
  <2>6. \A d \in Contexts : Sending(d, j) \in 0..1
    BY DEF Sending
  <2>7. copies[j] + Sending("options", j) + Sending("app", j) + jobs[j].left
          <= attempts[jobs[j].mail] + jobs[j].stalled
    BY <2>2 DEF MailInv, CopiesArePaid
  <2>8. Sending("options", j)' + Sending("app", j)' = Sending("options", j) + Sending("app", j) + 1
    BY <2>3, <2>6 DEF Contexts
  <2>9. copies'[j] + Sending("options", j)' + Sending("app", j)' + Unspent(j)'
          <= attempts'[jobs'[j].mail] + jobs'[j].stalled
    <3>1. \A d \in Contexts : Sending(d, j)' \in 0..1
      BY <2>3, <2>6
    <3> QED
      BY <1>1, <1>3, <2>2, <2>4, <2>5, <2>6, <2>7, <2>8, <3>1 DEF Contexts
  <2> QED
    BY <1>1, <1>2, <2>1, <2>9 DEF MailInv, CopiesArePaid, Contexts
<1> QED
  BY <1>5, <1>6, <1>7, <1>8 DEF MailInv

\* The copy that a worker may make is made, or not.
LEMMA SendEmailStep ==
  ASSUME MailInv, NEW c \in Contexts, SendEmail(c)
  PROVE  MailInv'
<1>1. PICK j \in DOMAIN jobs :
        /\ work[c].job = j /\ j \in JobIds
        /\ work[c].at = "SENDING" /\ work[c] \in [job : Nat, at : Steps]
        /\ UNCHANGED <<reply, attempts, jobs>>
  BY StoredIds DEF SendEmail, MailInv, MailKinds, WorkIsStored
<1>2. PICK n \in 0..1, s \in {"SENT", "THROWN"} :
        /\ s = "SENT" => n = 1
        /\ copies' = [copies EXCEPT ![j] = @ + n]
        /\ work' = [work EXCEPT ![c].at = s]
  <2>1. PICK arrives \in BOOLEAN, ok \in BOOLEAN :
          /\ ok => arrives
          /\ work' = [work EXCEPT ![c].at = IF ok THEN "SENT" ELSE "THROWN"]
          /\ copies' = [copies EXCEPT ![work[c].job] = @ + (IF arrives THEN 1 ELSE 0)]
    BY DEF SendEmail
  <2>2. CASE ok
    <3>1. copies' = [copies EXCEPT ![j] = @ + 1] /\ work' = [work EXCEPT ![c].at = "SENT"]
      BY <1>1, <2>1, <2>2
    <3> WITNESS 1 \in 0..1, "SENT" \in {"SENT", "THROWN"}
    <3> QED
      BY <3>1
  <2>3. CASE ~ok
    <3> DEFINE n == IF arrives THEN 1 ELSE 0
    <3>1. /\ copies' = [copies EXCEPT ![j] = @ + n]
          /\ work' = [work EXCEPT ![c].at = "THROWN"]
      BY <1>1, <2>1, <2>3
    <3>2. n \in 0..1
      OBVIOUS
    <3> HIDE DEF n
    <3> WITNESS n \in 0..1, "THROWN" \in {"SENT", "THROWN"}
    <3> QED
      BY <3>1
  <2> QED
    BY <2>2, <2>3
<1>3. /\ work' \in [Contexts -> [job : Nat, at : Steps]]
      /\ \A d \in Contexts : d # c => work'[d] = work[d]
      /\ work'[c].job = j /\ work'[c].at = s
  BY <1>2, <1>1 DEF MailInv, MailKinds, Steps
<1>4. /\ copies' \in [JobIds -> Nat]
      /\ \A i \in JobIds : i # j => copies'[i] = copies[i]
      /\ copies'[j] = copies[j] + n
      /\ \A i \in JobIds : copies'[i] >= copies[i] /\ copies[i] \in Nat
  BY <1>2, <1>1 DEF MailInv, MailKinds
<1>5. MailKinds' /\ JobsLive'
  BY <1>1, <1>3, <1>4 DEF MailInv, MailKinds, JobsLive
<1>6. WorkIsStored'
  BY <1>1, <1>3 DEF MailInv, WorkIsStored
<1>7. SentWasSent'
  <2>1. ASSUME NEW d \in Contexts, work'[d].at = "SENT" PROVE copies'[work'[d].job] > 0
    <3>1. CASE d = c
      BY <1>2, <1>1, <1>3, <1>4, <2>1, <3>1
    <3>2. CASE d # c
      <4>1. work'[d] = work[d] /\ work[d].job \in JobIds /\ copies[work[d].job] > 0
        BY <1>3, <2>1, <3>2, StoredIds DEF MailInv, SentWasSent, WorkIsStored
      <4> QED
        BY <1>4, <4>1
    <3> QED
      BY <3>1, <3>2
  <2>2. CompletedMailWasSent'
    BY <1>1, <1>4, StoredIds DEF MailInv, SentWasSent, CompletedMailWasSent
  <2>3. \A i \in JobIds \ DOMAIN jobs : copies'[i] = 0
    BY <1>1, <1>4 DEF MailInv, SentWasSent
  <2> QED
    BY <1>1, <2>1, <2>2, <2>3 DEF SentWasSent
<1>8. CopiesArePaid'
  <2>1. ASSUME NEW i \in DOMAIN jobs
        PROVE  Unspent(i)' = Unspent(i) /\ jobs'[i] = jobs[i] /\ i \in JobIds
    BY <1>1, StoredIds DEF Unspent, MailInv
  <2>2. ASSUME NEW i \in DOMAIN jobs, i # j, NEW d \in Contexts
        PROVE  Sending(d, i)' = Sending(d, i)
    BY <1>1, <1>3, <2>2 DEF Sending
  <2>3. Sending(c, j) = 1 /\ Sending(c, j)' = 0
    BY <1>2, <1>1, <1>3 DEF Sending
  <2>4. \A d \in Contexts : d # c => Sending(d, j)' = Sending(d, j)
    BY <1>3 DEF Sending
  <2>5. \A d \in Contexts : Sending(d, j) \in 0..1
    BY DEF Sending
  <2>6. Sending("options", j)' + Sending("app", j)' + 1 = Sending("options", j) + Sending("app", j)
    BY <2>3, <2>4, <2>5 DEF Contexts
  <2>7. /\ copies[j] \in Nat /\ Unspent(j) \in Int /\ attempts[jobs[j].mail] \in Nat
        /\ jobs[j].stalled \in Nat
    BY <1>1, StoredIds DEF MailInv, MailKinds, Jobs, Unspent
  <2>8. copies'[j] + Sending("options", j)' + Sending("app", j)' + Unspent(j)
          <= attempts[jobs[j].mail] + jobs[j].stalled
    <3>1. copies[j] + Sending("options", j) + Sending("app", j) + Unspent(j)
            <= attempts[jobs[j].mail] + jobs[j].stalled
      BY <1>1 DEF MailInv, CopiesArePaid
    <3>2. Sending("options", j)' \in 0..1 /\ Sending("app", j)' \in 0..1
      BY <2>3, <2>4, <2>5 DEF Contexts
    <3> QED
      BY <1>4, <2>5, <2>6, <2>7, <3>1, <3>2 DEF Contexts
  <2> QED
    BY <1>1, <1>4, <2>1, <2>2, <2>8 DEF MailInv, CopiesArePaid, Contexts
<1> QED
  BY <1>5, <1>6, <1>7, <1>8 DEF MailInv

\* What the fields of a job are after its worker has reported.
LEMMA FinishedJob ==
  ASSUME MailInv, NEW c \in Contexts, Finish(c), NEW j, j = work[c].job
  PROVE  /\ j \in DOMAIN jobs /\ j \in JobIds
         /\ DOMAIN jobs' = DOMAIN jobs
         /\ \A i \in DOMAIN jobs : i # j => jobs'[i] = jobs[i]
         /\ jobs'[j] \in Jobs
         /\ jobs'[j].mail = jobs[j].mail /\ jobs'[j].stalled = jobs[j].stalled
         /\ jobs'[j].at \in {"WAITING", "ACTIVE"} => jobs'[j].left >= 1
         /\ jobs'[j].holder \in Contexts => jobs'[j].at = "ACTIVE"
         /\ Unspent(j)' <= Unspent(j)
         /\ jobs'[j].at = "COMPLETED" => jobs[j].at = "COMPLETED" \/ work[c].at = "SENT"
<1>1. /\ j \in DOMAIN jobs /\ j \in JobIds /\ jobs[j] \in Jobs
      /\ jobs[j].at \in {"WAITING", "ACTIVE"} => jobs[j].left >= 1
      /\ jobs[j].holder \in Contexts => jobs[j].at = "ACTIVE"
      /\ work[c].at \in {"SENT", "THROWN"}
  BY StoredIds DEF Finish, MailInv, MailKinds, WorkIsStored, JobsLive
<1>2. /\ DOMAIN jobs' = DOMAIN jobs
      /\ \A i \in DOMAIN jobs : i # j => jobs'[i] = jobs[i]
  BY DEF Finish, Release
<1>3. CASE jobs[j].holder # c
  <2>1. jobs'[j] = jobs[j]
    BY <1>1, <1>3 DEF Finish
  <2>2. Unspent(j)' <= Unspent(j)
    BY <1>1, <2>1 DEF Unspent, Jobs
  <2> QED
    BY <1>1, <1>2, <2>1, <2>2
<1>4. CASE jobs[j].holder = c
  <2> DEFINE at == IF work[c].at = "SENT" THEN "COMPLETED"
                   ELSE IF jobs[j].left = 1 THEN "FAILED" ELSE "WAITING"
  <2>1. jobs'[j] = [mail |-> jobs[j].mail, at |-> at, left |-> jobs[j].left - 1,
                    stalled |-> jobs[j].stalled, holder |-> "NONE"]
    BY <1>1, <1>4 DEF Finish, Release
  <2>2. /\ at \in {"COMPLETED", "FAILED", "WAITING"}
        /\ at = "COMPLETED" => work[c].at = "SENT"
        /\ at = "WAITING" => jobs[j].left # 1
    OBVIOUS
  <2>3. jobs[j].at = "ACTIVE" /\ jobs[j].left \in Nat /\ jobs[j].left >= 1
    BY <1>1, <1>4 DEF Jobs
  <2> HIDE DEF at
  <2>4. /\ jobs'[j].holder = "NONE" /\ jobs'[j].left = jobs[j].left - 1
        /\ jobs'[j].at = at /\ jobs'[j].mail = jobs[j].mail
        /\ jobs'[j].stalled = jobs[j].stalled
        /\ jobs'[j] \in Jobs
    BY <1>1, <2>1, <2>2, <2>3 DEF Jobs
  <2>5. Unspent(j)' <= Unspent(j)
    BY <2>2, <2>3, <2>4 DEF Unspent
  <2>6. "NONE" \notin Contexts
    BY DEF Contexts
  <2> QED
    BY <1>1, <1>2, <2>2, <2>3, <2>4, <2>5, <2>6
<1> QED
  BY <1>3, <1>4

\* An attempt is over: one that is left less, or none of the worker's affair.
LEMMA FinishStep ==
  ASSUME MailInv, NEW c \in Contexts, Finish(c)
  PROVE  MailInv'
<1>1. PICK j : j = work[c].job
  OBVIOUS
<1>2. /\ work' \in [Contexts -> [job : Nat, at : Steps]]
      /\ \A d \in Contexts : d # c => work'[d] = work[d]
      /\ work'[c] = Idle
      /\ work[c].at \in {"SENT", "THROWN"}
      /\ UNCHANGED <<reply, attempts, copies>>
  BY DEF Finish, MailInv, MailKinds, Steps, Idle
<1>3. MailKinds'
  BY <1>1, <1>2, FinishedJob DEF MailInv, MailKinds
<1>4. JobsLive'
  <2>1. reply'[jobs'[j].mail] # "NONE"
    BY <1>1, <1>2, FinishedJob DEF MailInv, JobsLive
  <2>2. ASSUME NEW i \in DOMAIN jobs, i # j
        PROVE  /\ jobs'[i].at \in {"WAITING", "ACTIVE"} => jobs'[i].left >= 1
               /\ jobs'[i].holder \in Contexts => jobs'[i].at = "ACTIVE"
               /\ reply'[jobs'[i].mail] # "NONE"
    BY <1>1, <1>2, <2>2, FinishedJob DEF MailInv, JobsLive
  <2> QED
    BY <1>1, <2>1, <2>2, FinishedJob DEF JobsLive
<1>5. WorkIsStored' /\ SentWasSent'
  BY <1>1, <1>2, FinishedJob
  DEF MailInv, WorkIsStored, SentWasSent, CompletedMailWasSent, Idle
<1>6. CopiesArePaid'
  <2>1. ASSUME NEW i \in DOMAIN jobs, NEW d \in Contexts
        PROVE  Sending(d, i)' = Sending(d, i)
    BY <1>1, <1>2 DEF Sending, Idle
  <2>2. ASSUME NEW i \in DOMAIN jobs, i # j PROVE Unspent(i)' = Unspent(i)
    BY <1>1, <2>2, FinishedJob DEF Unspent
  <2>3. Unspent(j)' <= Unspent(j) /\ j \in DOMAIN jobs
    BY <1>1, FinishedJob
  <2>4. Unspent(j) \in Int /\ Unspent(j)' \in Int
    <3>1. jobs[j].left \in Nat /\ jobs'[j].left \in Nat
      BY <1>1, FinishedJob DEF MailInv, MailKinds, Jobs
    <3> QED
      BY <3>1 DEF Unspent
  <2>5. /\ copies[j] \in Nat /\ attempts[jobs[j].mail] \in Nat
        /\ jobs[j].stalled \in Nat
    <3>1. j \in DOMAIN jobs /\ j \in JobIds /\ jobs[j] \in Jobs
      BY <1>1, FinishedJob DEF MailInv, MailKinds
    <3> QED
      BY <3>1 DEF MailInv, MailKinds, Jobs
  <2>6. Sending("options", j) \in 0..1 /\ Sending("app", j) \in 0..1
    BY DEF Sending
  <2>7. copies[j] + Sending("options", j) + Sending("app", j) + Unspent(j)'
          <= attempts[jobs[j].mail] + jobs[j].stalled
    BY <2>3, <2>4, <2>5, <2>6 DEF MailInv, CopiesArePaid
  <2> QED
    BY <1>1, <1>2, <2>1, <2>2, <2>7, FinishedJob DEF MailInv, CopiesArePaid, Contexts
<1> QED
  BY <1>3, <1>4, <1>5, <1>6 DEF MailInv

\* A job is taken back: once, with its attempt, or for good.
LEMMA TakeBackStep ==
  ASSUME MailInv, NEW c \in Contexts, NEW j \in DOMAIN jobs, TakeBack(c, j)
  PROVE  MailInv'
<1> DEFINE at == IF jobs[j].stalled = 0 THEN "WAITING" ELSE "FAILED"
<1>1. /\ jobs[j].at = "ACTIVE" /\ jobs[j] \in Jobs /\ jobs[j].left >= 1
      /\ UNCHANGED <<reply, attempts, work, copies>>
  BY DEF TakeBack, MailInv, MailKinds, JobsLive
<1>2. /\ DOMAIN jobs' = DOMAIN jobs
      /\ \A i \in DOMAIN jobs : i # j => jobs'[i] = jobs[i]
      /\ jobs'[j] = [mail |-> jobs[j].mail, at |-> at, left |-> jobs[j].left,
                     stalled |-> 1, holder |-> "NONE"]
  BY DEF TakeBack, Release
<1>3. /\ jobs'[j] \in Jobs /\ jobs'[j].mail = jobs[j].mail
      /\ jobs'[j].left = jobs[j].left /\ jobs'[j].stalled = 1
      /\ jobs'[j].holder = "NONE"
      /\ jobs[j].stalled = 0 => jobs'[j].at = "WAITING"
      /\ jobs[j].stalled # 0 => jobs'[j].at = "FAILED"
  BY <1>1, <1>2 DEF Jobs
<1> HIDE DEF at
<1>4. MailKinds'
  BY <1>1, <1>2, <1>3 DEF MailInv, MailKinds
<1>5. JobsLive'
  <2>1. reply'[jobs'[j].mail] # "NONE"
    BY <1>1, <1>3 DEF MailInv, JobsLive
  <2>2. ASSUME NEW i \in DOMAIN jobs, i # j
        PROVE  /\ jobs'[i].at \in {"WAITING", "ACTIVE"} => jobs'[i].left >= 1
               /\ jobs'[i].holder \in Contexts => jobs'[i].at = "ACTIVE"
               /\ reply'[jobs'[i].mail] # "NONE"
    BY <1>1, <1>2, <2>2 DEF MailInv, JobsLive
  <2> QED
    BY <1>1, <1>2, <1>3, <2>1, <2>2 DEF JobsLive, Contexts
<1>6. WorkIsStored' /\ SentWasSent'
  BY <1>1, <1>2, <1>3 DEF MailInv, WorkIsStored, SentWasSent, CompletedMailWasSent
<1>7. CopiesArePaid'
  <2>1. ASSUME NEW i \in DOMAIN jobs, NEW d \in Contexts
        PROVE  Sending(d, i)' = Sending(d, i)
    BY <1>1 DEF Sending
  <2>2. ASSUME NEW i \in DOMAIN jobs, i # j PROVE Unspent(i)' = Unspent(i)
    BY <1>1, <1>2, <2>2 DEF Unspent
  <2>3. /\ jobs[j].left \in Nat /\ jobs[j].stalled \in 0..1 /\ copies[j] \in Nat
        /\ attempts[jobs[j].mail] \in Nat
    BY <1>1, StoredIds DEF MailInv, MailKinds, Jobs
  <2>4. Sending("options", j) \in 0..1 /\ Sending("app", j) \in 0..1
    BY DEF Sending
  <2>5. Unspent(j)' + jobs[j].stalled <= jobs[j].left /\ Unspent(j)' \in Nat
    BY <1>1, <1>3, <2>3 DEF Unspent
  <2>6. Unspent(j) = jobs[j].left - 1
    BY <1>1 DEF Unspent
  <2>7. copies[j] + Sending("options", j) + Sending("app", j) + Unspent(j)'
          <= attempts[jobs[j].mail] + 1
    BY <2>3, <2>4, <2>5, <2>6 DEF MailInv, CopiesArePaid
  <2> QED
    BY <1>1, <1>2, <1>3, <2>1, <2>2, <2>7 DEF MailInv, CopiesArePaid, Contexts
<1> QED
  BY <1>4, <1>5, <1>6, <1>7 DEF MailInv

\* The process stops: what its workers were sending is lost, the jobs are not.
LEMMA MailCrashStep ==
  ASSUME MailInv, MailCrash
  PROVE  MailInv'
<1>1. /\ work' = [c \in Contexts |-> Idle]
      /\ UNCHANGED <<attempts, jobs, copies>>
      /\ reply' = [x \in Mails |-> IF reply[x] = "ADDING" THEN "ERROR" ELSE reply[x]]
  BY DEF MailCrash
<1>2. MailKinds'
  BY <1>1 DEF MailInv, MailKinds, Idle, Steps
<1>3. JobsLive'
  BY <1>1 DEF MailInv, MailKinds, JobsLive, Jobs
<1>4. WorkIsStored' /\ SentWasSent'
  BY <1>1 DEF MailInv, WorkIsStored, SentWasSent, CompletedMailWasSent, Idle
<1>5. CopiesArePaid'
  <2>1. ASSUME NEW j \in DOMAIN jobs
        PROVE  /\ Unspent(j)' = Unspent(j) /\ Unspent(j) \in Int /\ copies[j] \in Nat
               /\ attempts[jobs[j].mail] \in Nat /\ jobs[j].stalled \in Nat
    BY <1>1, StoredIds DEF MailInv, MailKinds, Unspent, Jobs
  <2>2. ASSUME NEW j \in DOMAIN jobs, NEW c \in Contexts
        PROVE  Sending(c, j)' = 0 /\ Sending(c, j) \in 0..1
    BY <1>1 DEF Sending, Idle
  <2> QED
    BY <1>1, <2>1, <2>2 DEF MailInv, CopiesArePaid, Contexts
<1> QED
  BY <1>2, <1>3, <1>4, <1>5 DEF MailInv

LEMMA MailInvNext == MailInv /\ [MailNext]_mailVars => MailInv'
<1> SUFFICES ASSUME MailInv, [MailNext]_mailVars PROVE MailInv'
  OBVIOUS
<1>1. ASSUME NEW x \in Mails,
             QueueEmail(x) \/ AddQueueJob(x) \/ AddFails(x) \/ SendImmediate(x)
      PROVE  MailInv'
  BY <1>1, CallersStep, CallersKeep
<1>2. ASSUME NEW x \in Mails, AddJob(x) PROVE MailInv'
  BY <1>2, AddJobStep
<1>3. ASSUME NEW c \in Contexts, MailStart(c) PROVE MailInv'
  <2>1. CallersOnly
    BY <1>3 DEF MailStart, CallersOnly, MailInv, MailKinds
  <2> QED
    BY <2>1, CallersKeep
<1>4. ASSUME NEW c \in Contexts, Working(c) PROVE MailInv'
  BY <1>4, SendEmailStep, FinishStep, TakeStep DEF Working
<1>5. ASSUME NEW c \in Contexts, NEW j \in DOMAIN jobs, TakeBack(c, j) PROVE MailInv'
  BY <1>5, TakeBackStep
<1>6. CASE MailCrash
  BY <1>6, MailCrashStep
<1>7. CASE UNCHANGED mailVars
  <2>1. CallersOnly
    BY <1>7 DEF mailVars, CallersOnly, MailInv, MailKinds
  <2> QED
    BY <2>1, CallersKeep
<1> QED
  BY <1>1, <1>2, <1>3, <1>4, <1>5, <1>6, <1>7 DEF MailNext

THEOREM MailInvariance == MailSpec => []MailInv
BY MailInvInit, MailInvNext, PTL DEF MailSpec

\* Whatever fails between the caller and the SMTP server, a job that is completed
\* has had its mail taken.
THEOREM CompletedMailWasSentCorrect == MailSpec => []CompletedMailWasSent
<1>1. MailInv => CompletedMailWasSent
  BY DEF MailInv, SentWasSent
<1> QED
  BY <1>1, MailInvariance, PTL

\* A job's mail is handed over once for each attempt that was asked for, and once
\* more if the job was taken back, however many workers, restarts and lost locks.
THEOREM MailIsSentOnceCorrect == MailSpec => []MailIsSentOnce
<1>1. MailInv => MailIsSentOnce
  <2> SUFFICES ASSUME MailInv, NEW j \in DOMAIN jobs
               PROVE  copies[j] <= attempts[jobs[j].mail] + jobs[j].stalled
    BY DEF MailIsSentOnce
  <2>1. /\ jobs[j] \in Jobs /\ copies[j] \in Nat
        /\ jobs[j].at \in {"WAITING", "ACTIVE"} => jobs[j].left >= 1
    BY StoredIds DEF MailInv, MailKinds, JobsLive
  <2>2. attempts[jobs[j].mail] \in Nat /\ jobs[j].stalled \in Nat /\ jobs[j].left \in Nat
    BY <2>1 DEF MailInv, MailKinds, Jobs
  <2>3. Unspent(j) \in Nat
    BY <2>1, <2>2 DEF Unspent
  <2>4. \A c \in Contexts : Sending(c, j) \in Nat
    BY DEF Sending
  <2>5. copies[j] + Sending("options", j) + Sending("app", j) + Unspent(j)
          <= attempts[jobs[j].mail] + jobs[j].stalled
    BY DEF MailInv, CopiesArePaid
  <2> QED
    BY <2>1, <2>2, <2>3, <2>4, <2>5 DEF Contexts
<1> QED
  BY <1>1, MailInvariance, PTL

\* The types that MailInv leaves out.
MailRest ==
  /\ enabled \in BOOLEAN
  /\ context \in [Contexts -> {"DOWN", "OFF", "QUEUE", "WORKER"}]
  /\ attempts \in [Mails -> AttemptLimits \cup {1}]
  /\ \A c \in Contexts : work[c].job \in JobIds \cup {0}
  /\ restarts \in 0..MaxRestarts

LEMMA MailRestNext == MailInv /\ MailRest /\ [MailNext]_mailVars => MailRest'
<1> SUFFICES ASSUME MailInv, MailRest, [MailNext]_mailVars PROVE MailRest'
  OBVIOUS
<1>1. /\ work \in [Contexts -> [job : Nat, at : Steps]]
      /\ DOMAIN jobs \subseteq JobIds
  BY StoredIds DEF MailInv, MailKinds
<1>2. CASE UNCHANGED <<enabled, context, attempts, work, restarts>>
  BY <1>2 DEF MailRest
<1>3. ASSUME NEW x \in Mails,
             QueueEmail(x) \/ AddJob(x) \/ AddFails(x) \/ SendImmediate(x)
      PROVE  MailRest'
  BY <1>2, <1>3 DEF QueueEmail, AddJob, AddFails, SendImmediate
<1>4. ASSUME NEW x \in Mails, AddQueueJob(x) PROVE MailRest'
  BY <1>4 DEF AddQueueJob, MailRest
<1>5. ASSUME NEW c \in Contexts, MailStart(c) PROVE MailRest'
  <2>1. PICK has \in {"DOWN", "OFF", "QUEUE", "WORKER"} :
          context' = [context EXCEPT ![c] = has]
    BY <1>5 DEF MailStart, CreateWorker, MailRest, Contexts
  <2> QED
    BY <1>5, <2>1 DEF MailStart, MailRest
<1>6. ASSUME NEW c \in Contexts, NEW new, new.job \in JobIds \cup {0},
             work' = [work EXCEPT ![c] = new],
             UNCHANGED <<enabled, context, attempts, restarts>>
      PROVE  MailRest'
  BY <1>1, <1>6 DEF MailRest
<1>7. ASSUME NEW c \in Contexts, SendEmail(c) PROVE MailRest'
  <2>1. work[c] \in [job : Nat, at : Steps] /\ work[c].job \in JobIds \cup {0}
    BY <1>1 DEF MailRest
  <2>2. PICK at : work' = [work EXCEPT ![c].at = at]
    BY <1>7 DEF SendEmail
  <2>3. PICK new : new = [work[c] EXCEPT !.at = at]
    OBVIOUS
  <2>4. new.job \in JobIds \cup {0} /\ work' = [work EXCEPT ![c] = new]
    BY <2>1, <2>2, <2>3
  <2> QED
    BY <1>6, <1>7, <2>4 DEF SendEmail
<1>8. ASSUME NEW c \in Contexts, Finish(c) PROVE MailRest'
  BY <1>6, <1>8 DEF Finish, Idle
<1>9. ASSUME NEW c \in Contexts, NEW j \in DOMAIN jobs, Take(c, j) PROVE MailRest'
  BY <1>1, <1>6, <1>9 DEF Take
<1>10. ASSUME NEW c \in Contexts, NEW j \in DOMAIN jobs, TakeBack(c, j) PROVE MailRest'
  BY <1>2, <1>10 DEF TakeBack
<1>11. CASE MailCrash
  <2>1. context' \in [Contexts -> {"DOWN", "OFF", "QUEUE", "WORKER"}]
    BY <1>11 DEF MailCrash
  <2>2. \A c \in Contexts : work'[c].job \in JobIds \cup {0}
    BY <1>11 DEF MailCrash, Idle
  <2>3. restarts' \in 0..MaxRestarts
    BY <1>11, MailAssumption DEF MailCrash, MailRest
  <2>4. enabled' \in BOOLEAN /\ attempts' = attempts
    BY <1>11 DEF MailCrash
  <2> QED
    BY <2>1, <2>2, <2>3, <2>4 DEF MailRest
<1>12. CASE UNCHANGED mailVars
  BY <1>2, <1>12 DEF mailVars
<1> QED
  BY <1>3, <1>4, <1>5, <1>7, <1>8, <1>9, <1>10, <1>11, <1>12 DEF MailNext, Working

\* The queue keeps its types.
THEOREM MailTypeCorrect == MailSpec => []MailTypeOK
<1>1. MailInit => MailRest
  <2> SUFFICES ASSUME MailInit PROVE MailRest
    OBVIOUS
  <2>1. \A c \in Contexts : work[c].job \in JobIds \cup {0}
    BY DEF MailInit, Idle
  <2> QED
    BY <2>1, MailAssumption DEF MailInit, MailRest
<1>2. MailInv /\ MailRest => MailTypeOK
  <2> SUFFICES ASSUME MailInv, MailRest PROVE MailTypeOK
    OBVIOUS
  <2>1. work \in [Contexts -> [job : JobIds \cup {0},
                               at : {"IDLE", "SENDING", "SENT", "THROWN"}]]
    BY DEF MailInv, MailKinds, MailRest, Steps
  <2>2. DOMAIN jobs \subseteq JobIds
    BY StoredIds DEF MailInv
  <2> QED
    BY <2>1, <2>2 DEF MailInv, MailKinds, MailRest, MailTypeOK
<1> QED
  BY <1>1, <1>2, MailInvInit, MailInvNext, MailRestNext, PTL DEF MailSpec

-----------------------------------------------------------------------------
(* Mail: the turns of a job are counted, which QueuedMailEnds rests on.    *)

\* A job is waiting and then active once for each attempt that is left to it, and
\* once more if it has not been taken back yet.
TurnsOf(job) ==
  IF job.at \in {"COMPLETED", "FAILED"} THEN 0
  ELSE 2 * (job.left + 1 - job.stalled) - (IF job.at = "ACTIVE" THEN 1 ELSE 0)

\* A job that has not ended has a turn left.
TurnsCounted ==
  \A j \in DOMAIN jobs : /\ TurnsOf(jobs[j]) \in Nat
                         /\ TurnsOf(jobs[j]) = 0 <=> Ended(j)

\* A job stays in Redis, and taking it, reporting on it and taking it back all use up
\* a turn.
EveryChangeIsATurn ==
  \A j \in DOMAIN jobs :
    /\ j \in DOMAIN jobs'
    /\ jobs'[j] # jobs[j] => TurnsOf(jobs'[j]) < TurnsOf(jobs[j])

\* A worker that reports uses up the attempt, if it is still its own.
LEMMA FinishIsATurn ==
  ASSUME MailInv, NEW c \in Contexts, Finish(c), NEW j \in DOMAIN jobs,
         jobs'[j] # jobs[j]
  PROVE  TurnsOf(jobs'[j]) < TurnsOf(jobs[j])
<1>1. work[c].job = j /\ jobs[j].holder = c
  <2>1. PICK i : i = work[c].job
    OBVIOUS
  <2>2. i # j => jobs'[j] = jobs[j]
    BY <2>1, FinishedJob
  <2>3. jobs[i].holder # c => UNCHANGED jobs
    BY <2>1 DEF Finish
  <2> QED
    BY <2>1, <2>2, <2>3
<1> DEFINE at == IF work[c].at = "SENT" THEN "COMPLETED"
                 ELSE IF jobs[j].left = 1 THEN "FAILED" ELSE "WAITING"
<1>2. jobs'[j] = [mail |-> jobs[j].mail, at |-> at, left |-> jobs[j].left - 1,
                  stalled |-> jobs[j].stalled, holder |-> "NONE"]
  BY <1>1 DEF Finish, Release
<1>3. /\ at \in {"COMPLETED", "FAILED", "WAITING"}
      /\ at = "WAITING" => jobs[j].left # 1
  OBVIOUS
<1>4. jobs[j] \in Jobs /\ jobs[j].at = "ACTIVE" /\ jobs[j].left >= 1
  BY <1>1 DEF MailInv, MailKinds, JobsLive
<1> HIDE DEF at
<1>5. PICK more \in Nat \ {0}, stalled \in 0..1 : more = jobs[j].left /\ stalled = jobs[j].stalled
  BY <1>4 DEF Jobs
<1>6. TurnsOf(jobs[j]) = 2 * (more + 1 - stalled) - 1
  BY <1>4, <1>5 DEF TurnsOf
<1>7. /\ jobs'[j].at = at /\ jobs'[j].left = more - 1 /\ jobs'[j].stalled = stalled
  BY <1>2, <1>5
<1>8. CASE at = "WAITING"
  <2>1. TurnsOf(jobs'[j]) = 2 * (more - 1 + 1 - stalled)
    BY <1>7, <1>8 DEF TurnsOf
  <2> QED
    BY <1>5, <1>6, <2>1
<1>9. CASE at # "WAITING"
  <2>1. TurnsOf(jobs'[j]) = 0
    BY <1>3, <1>7, <1>9 DEF TurnsOf
  <2> QED
    BY <1>5, <1>6, <2>1
<1> QED
  BY <1>8, <1>9

LEMMA TakeBackIsATurn ==
  ASSUME MailInv, NEW c \in Contexts, NEW i \in DOMAIN jobs, TakeBack(c, i),
         NEW j \in DOMAIN jobs, jobs'[j] # jobs[j]
  PROVE  TurnsOf(jobs'[j]) < TurnsOf(jobs[j])
<1>1. j = i /\ jobs[j].at = "ACTIVE"
  BY DEF TakeBack, Release
<1>2. jobs[j] \in Jobs /\ jobs[j].left >= 1
  BY <1>1 DEF MailInv, MailKinds, JobsLive
<1>3. PICK more \in Nat \ {0}, stalled \in 0..1 : more = jobs[j].left /\ stalled = jobs[j].stalled
  BY <1>2 DEF Jobs
<1>4. TurnsOf(jobs[j]) = 2 * (more + 1 - stalled) - 1
  BY <1>1, <1>3 DEF TurnsOf
<1>5. jobs'[j] = [mail |-> jobs[j].mail, at |-> IF stalled = 0 THEN "WAITING" ELSE "FAILED",
                  left |-> more, stalled |-> 1, holder |-> "NONE"]
  BY <1>1, <1>3 DEF TakeBack, Release
<1>6. CASE stalled = 0
  <2>1. TurnsOf(jobs'[j]) = 2 * (more + 1 - 1)
    BY <1>5, <1>6 DEF TurnsOf
  <2> QED
    BY <1>4, <1>6, <2>1
<1>7. CASE stalled = 1
  <2>1. TurnsOf(jobs'[j]) = 0
    BY <1>5, <1>7 DEF TurnsOf
  <2> QED
    BY <1>4, <1>7, <2>1
<1> QED
  BY <1>6, <1>7

LEMMA TakeIsATurn ==
  ASSUME MailInv, NEW c \in Contexts, NEW i \in DOMAIN jobs, Take(c, i),
         NEW j \in DOMAIN jobs, jobs'[j] # jobs[j]
  PROVE  TurnsOf(jobs'[j]) < TurnsOf(jobs[j])
<1>1. /\ j = i /\ jobs[j].at = "WAITING" /\ jobs[j] \in Jobs
      /\ jobs'[j] = [[jobs[j] EXCEPT !.at = "ACTIVE"] EXCEPT !.holder = c]
  BY DEF Take, MailInv, MailKinds
<1>2. PICK more \in Nat, stalled \in 0..1 : more = jobs[j].left /\ stalled = jobs[j].stalled
  BY <1>1 DEF Jobs
<1>3. jobs'[j].at = "ACTIVE" /\ jobs'[j].left = more /\ jobs'[j].stalled = stalled
  BY <1>1, <1>2 DEF Jobs
<1>4. TurnsOf(jobs[j]) = 2 * (more + 1 - stalled)
  BY <1>1, <1>2 DEF TurnsOf
<1>5. TurnsOf(jobs'[j]) = 2 * (more + 1 - stalled) - 1
  BY <1>3 DEF TurnsOf
<1> QED
  BY <1>4, <1>5

\* Whatever workers stop or lose, every change of a job in Redis uses up one of
\* finitely many turns, and none of them gives it one back: a job that goes on
\* being worked on ends.
THEOREM MailJobsAreFinite ==
  MailSpec => []TurnsCounted /\ [][EveryChangeIsATurn]_mailVars
<1>1. MailInv => TurnsCounted
  <2> SUFFICES ASSUME MailInv, NEW j \in DOMAIN jobs
               PROVE  /\ TurnsOf(jobs[j]) \in Nat
                      /\ TurnsOf(jobs[j]) = 0 <=> Ended(j)
    BY DEF TurnsCounted
  <2>1. /\ jobs[j] \in Jobs
        /\ jobs[j].at \in {"WAITING", "ACTIVE"} => jobs[j].left >= 1
    BY DEF MailInv, MailKinds, JobsLive
  <2>2. PICK more \in Nat, stalled \in 0..1 : more = jobs[j].left /\ stalled = jobs[j].stalled
    BY <2>1 DEF Jobs
  <2>3. CASE jobs[j].at \in {"COMPLETED", "FAILED"}
    BY <2>3 DEF TurnsOf, Ended
  <2>4. CASE jobs[j].at \in {"WAITING", "ACTIVE"}
    <3>1. TurnsOf(jobs[j]) = 2 * (more + 1 - stalled) - (IF jobs[j].at = "ACTIVE" THEN 1 ELSE 0)
      BY <2>2, <2>4 DEF TurnsOf
    <3> QED
      BY <2>1, <2>2, <2>4, <3>1 DEF Ended
  <2> QED
    BY <2>1, <2>3, <2>4 DEF Jobs
<1>2. MailInv /\ [MailNext]_mailVars => [EveryChangeIsATurn]_mailVars
  <2> SUFFICES ASSUME MailInv, MailNext PROVE EveryChangeIsATurn
    OBVIOUS
  <2>1. CASE UNCHANGED jobs
    BY <2>1 DEF EveryChangeIsATurn
  <2>2. ASSUME NEW x \in Mails, AddJob(x) PROVE EveryChangeIsATurn
    BY <2>2 DEF AddJob, Stored, EveryChangeIsATurn
  <2>3. ASSUME NEW c \in Contexts, NEW i \in DOMAIN jobs, Take(c, i) \/ TakeBack(c, i)
        PROVE  EveryChangeIsATurn
    <3>1. DOMAIN jobs' = DOMAIN jobs
      BY <2>3 DEF Take, TakeBack, Release
    <3> QED
      BY <2>3, <3>1, TakeIsATurn, TakeBackIsATurn DEF EveryChangeIsATurn
  <2>4. ASSUME NEW c \in Contexts, Finish(c) PROVE EveryChangeIsATurn
    <3>1. DOMAIN jobs' = DOMAIN jobs
      BY <2>4 DEF Finish, Release
    <3> QED
      BY <2>4, <3>1, FinishIsATurn DEF EveryChangeIsATurn
  <2>5. ASSUME \/ \E x \in Mails : \/ QueueEmail(x) \/ AddQueueJob(x)
                                   \/ AddFails(x) \/ SendImmediate(x)
               \/ \E c \in Contexts : MailStart(c) \/ SendEmail(c)
               \/ MailCrash
        PROVE  UNCHANGED jobs
    BY <2>5 DEF QueueEmail, AddQueueJob, AddFails, SendImmediate, MailStart, SendEmail,
                MailCrash
  <2> QED
    BY <2>1, <2>2, <2>3, <2>4, <2>5 DEF MailNext, Working
<1> QED
  BY <1>1, <1>2, MailInvariance, PTL DEF MailSpec

-----------------------------------------------------------------------------
(* Users: the invariant.  A request changes one thing at most, when it is  *)
(* past its write, and a user that was deleted does not come back.         *)

Requests ==
  [op : Routes \cup {"NONE"}, id : UserIds \cup {"NONE"},
   address : Addresses \cup {"NONE"}, role : UserRoles \cup {"NONE"},
   at : {"NEW", "FIND", "WRITE", "WRITTEN", "ANSWERED"}, answer : Statuses \cup {"NONE"}]

\* An event is published for a change that was made and for nothing else, and
\* every change has its event, unless its acknowledgement was lost or the process
\* stopped before it was published.
EventsMatchChanges ==
  /\ told \subseteq written
  /\ \A change \in written \ told :
       tasks[change.by].at = "WRITTEN" \/ tasks[change.by].answer \in {"500", "LOST"}

ChangeOf(t) == [what |-> tasks[t].op, id |-> tasks[t].id, by |-> t]

WritesAreDone ==
  /\ \A change \in written :
       /\ change \in Changes
       /\ tasks[change.by].at \in {"WRITTEN", "ANSWERED"}
       /\ \A other \in written : other.by = change.by => other = change
  /\ \A t \in Tasks :
       /\ tasks[t].at = "WRITTEN" => ChangeOf(t) \in written
       /\ tasks[t].answer = "204" => tasks[t].op = "delete" /\ ChangeOf(t) \in written

DeletedStayAway ==
  \A change \in written : change.what = "delete" =>
    /\ ~Present(change.id)
    /\ \A other \in written :
         other.what = "delete" /\ other.id = change.id => other = change

UsersInv ==
  /\ tasks \in [Tasks -> Requests]
  /\ DOMAIN people \subseteq UserIds
  /\ WritesAreDone /\ DeletedStayAway /\ EventsMatchChanges

LEMMA UsersInvInit == UsersInit => UsersInv
<1> SUFFICES ASSUME UsersInit PROVE UsersInv
  OBVIOUS
<1>1. Unmade \in Requests
  BY DEF Unmade, Requests
<1> QED
  BY <1>1, UsersAssumption DEF UsersInit, UsersInv, WritesAreDone, DeletedStayAway, EventsMatchChanges, Unmade

-----------------------------------------------------------------------------
(* Users: the steps.                                                       *)

\* A step before, or without, a change: one request goes on, but not to where
\* a change would be missed.
Proceeds(t) ==
  /\ UNCHANGED <<people, written, told>>
  /\ tasks[t].at \in {"NEW", "FIND", "WRITE"}
  /\ \A o \in Tasks : o # t => tasks'[o] = tasks[o]
  /\ tasks' \in [Tasks -> Requests]
  /\ tasks'[t].at # "WRITTEN" /\ tasks'[t].answer # "204"

LEMMA ProceedsKeep ==
  ASSUME UsersInv, NEW t \in Tasks, Proceeds(t)
  PROVE  UsersInv'
<1>1. \A change \in written : change.by # t
  BY DEF UsersInv, WritesAreDone, Proceeds
<1>2. WritesAreDone'
  BY <1>1 DEF UsersInv, WritesAreDone, Proceeds, ChangeOf, Changes
<1>3. DeletedStayAway'
  BY DEF UsersInv, DeletedStayAway, Proceeds, Present
<1>4. EventsMatchChanges'
  BY <1>1 DEF UsersInv, EventsMatchChanges, WritesAreDone, Proceeds, Changes
<1> QED
  BY <1>2, <1>3, <1>4 DEF UsersInv, Proceeds

\* What an answer does to its request.
LEMMA Answered ==
  ASSUME UsersInv, NEW t \in Tasks, NEW status \in Statuses, Answer(t, status)
  PROVE  /\ tasks' \in [Tasks -> Requests]
         /\ \A o \in Tasks : o # t => tasks'[o] = tasks[o]
         /\ tasks'[t].at = "ANSWERED" /\ tasks'[t].answer = status
         /\ tasks'[t].op = tasks[t].op /\ tasks'[t].id = tasks[t].id
<1>1. tasks[t] \in Requests
  BY DEF UsersInv
<1>2. /\ \A o \in Tasks : o # t => tasks'[o] = tasks[o]
      /\ tasks'[t] = [[tasks[t] EXCEPT !.at = "ANSWERED"] EXCEPT !.answer = status]
  BY DEF Answer, UsersInv
<1>3. /\ tasks'[t] \in Requests
      /\ tasks'[t].at = "ANSWERED" /\ tasks'[t].answer = status
      /\ tasks'[t].op = tasks[t].op /\ tasks'[t].id = tasks[t].id
  BY <1>1, <1>2 DEF Requests
<1>4. tasks' = [o \in Tasks |-> tasks'[o]]
  BY DEF Answer, UsersInv
<1> QED
  BY <1>2, <1>3, <1>4 DEF UsersInv

\* A request comes in.
LEMMA RequestStep ==
  ASSUME UsersInv, NEW t \in Tasks, NEW op \in Routes, NEW id \in UserIds \cup {"NONE"},
         NEW address \in Addresses \cup {"NONE"}, NEW role \in UserRoles \cup {"NONE"},
         Request(t, op, id, address, role)
  PROVE  Proceeds(t)
<1>1. tasks[t] = Unmade /\ UNCHANGED <<people, written, told>>
  BY DEF Request
<1>2. FirstStep(op) \in {"FIND", "WRITE"}
  BY DEF FirstStep
<1>3. PICK new : /\ tasks' = [tasks EXCEPT ![t] = new]
                 /\ new \in Requests /\ new.at # "WRITTEN" /\ new.answer # "204"
  <2>1. Guarded(op, role) \in {"401", "403", "PASS"}
    BY DEF Guarded
  <2>2. \A s \in BodyRefusals(op) \cup DomainRefusals(op) : s \in {"400", "500"}
    BY DEF BodyRefusals, DomainRefusals
  <2> DEFINE first == [op |-> op, id |-> id, address |-> address, role |-> role,
                       at |-> FirstStep(op), answer |-> "NONE"]
             refused(s) == [first EXCEPT !.at = "ANSWERED", !.answer = s]
  <2>3. \/ tasks' = [tasks EXCEPT ![t] = first]
        \/ \E s \in {"400", "401", "403", "500"} :
             tasks' = [tasks EXCEPT ![t] = refused(s)]
    <3>1. PICK new \in IF Guarded(op, role) = "PASS"
                         THEN {first} \cup {refused(s) : s \in BodyRefusals(op) \cup
                                                             DomainRefusals(op)}
                         ELSE {refused(Guarded(op, role))} :
            tasks' = [tasks EXCEPT ![t] = new]
      BY DEF Request
    <3> HIDE DEF first, refused
    <3> QED
      BY <2>1, <2>2, <3>1
  <2>4. first \in Requests /\ first.at # "WRITTEN" /\ first.answer # "204"
    BY <1>2 DEF Requests
  <2>5. ASSUME NEW s \in {"400", "401", "403", "500"}
        PROVE  refused(s) \in Requests /\ refused(s).at # "WRITTEN"
                 /\ refused(s).answer # "204"
    BY DEF Requests, Statuses
  <2> HIDE DEF first, refused
  <2> QED
    BY <2>3, <2>4, <2>5
<1> QED
  BY <1>1, <1>3 DEF Proceeds, UsersInv, Unmade

\* Requests that only read, or that are refused.
LEMMA ReadStep ==
  ASSUME UsersInv, NEW t \in Tasks, Read(t) \/ FindFirst(t) \/ DatabaseFails(t)
  PROVE  Proceeds(t)
<1>1. CASE Read(t)
  <2>1. PICK status \in {"200", "404"} : Answer(t, status)
    BY <1>1 DEF Read
  <2> QED
    BY <1>1, <2>1, Answered DEF Read, At, Proceeds, Statuses
<1>2. CASE FindFirst(t) /\ Present(tasks[t].id)
  <2>1. tasks' = [tasks EXCEPT ![t].at = "WRITE"] /\ UNCHANGED <<people, written, told>>
    BY <1>2 DEF FindFirst
  <2>2. tasks[t].answer # "204"
    BY <1>2 DEF FindFirst, At, UsersInv, WritesAreDone, ChangeOf
  <2> QED
    BY <1>2, <2>1, <2>2 DEF FindFirst, At, Proceeds, UsersInv, Requests
<1>3. CASE FindFirst(t) /\ ~Present(tasks[t].id)
  BY <1>3, Answered DEF FindFirst, At, Proceeds, Statuses
<1>4. CASE DatabaseFails(t)
  BY <1>4, Answered DEF DatabaseFails, Rejected, Proceeds, Statuses
<1> QED
  BY <1>1, <1>2, <1>3, <1>4

\* A write is committed, and its acknowledgement received or lost.
LEMMA CommitStep ==
  ASSUME UsersInv, NEW t \in Tasks, NEW id \in UserIds, Commit(t, id),
         tasks[t].at = "WRITE", tasks[t].op \in {"create", "update", "delete"},
         DOMAIN people' \subseteq DOMAIN people \cup {id},
         tasks[t].op = "create" => \A change \in written : change.id # id,
         tasks[t].op = "update" => id \in DOMAIN people,
         tasks[t].op = "delete" => id \in DOMAIN people /\ id \notin DOMAIN people'
  PROVE  UsersInv'
<1> DEFINE change0 == [what |-> tasks[t].op, id |-> id, by |-> t]
<1>1. PICK change : /\ change = change0
                    /\ change \in Changes
                    /\ change.what = tasks[t].op /\ change.id = id /\ change.by = t
                    /\ written' = written \cup {change} /\ told' = told
  BY DEF Commit, Changes
<1>2. /\ \A other \in written : other.by # t
      /\ tasks[t] \in Requests /\ tasks[t].answer # "204"
  BY DEF UsersInv, WritesAreDone, ChangeOf
<1>3. \/ /\ tasks'[t].at = "WRITTEN" /\ tasks'[t].id = id
         /\ tasks'[t].answer = tasks[t].answer /\ tasks'[t] \in Requests
         /\ tasks'[t].op = tasks[t].op
      \/ /\ tasks'[t].at = "ANSWERED" /\ tasks'[t].answer = "500"
         /\ tasks'[t] \in Requests
  <2>1. CASE Answer(t, "500")
    BY <2>1, Answered DEF Statuses
  <2>2. CASE tasks' = [tasks EXCEPT ![t].at = "WRITTEN", ![t].id = id]
    <3>1. tasks'[t] = [[tasks[t] EXCEPT !.at = "WRITTEN"] EXCEPT !.id = id]
      BY <2>2 DEF UsersInv
    <3> QED
      BY <1>2, <3>1 DEF Requests
  <2> QED
    BY <2>1, <2>2 DEF Commit
<1>4. /\ tasks' \in [Tasks -> Requests]
      /\ \A o \in Tasks : o # t => tasks'[o] = tasks[o]
  <2>1. CASE Answer(t, "500")
    BY <2>1, Answered DEF Statuses
  <2>2. CASE tasks' = [tasks EXCEPT ![t].at = "WRITTEN", ![t].id = id]
    BY <1>3, <2>2 DEF UsersInv
  <2> QED
    BY <2>1, <2>2 DEF Commit
<1>5. WritesAreDone'
  <2>1. ASSUME NEW c \in written'
        PROVE  /\ c \in Changes
               /\ tasks'[c.by].at \in {"WRITTEN", "ANSWERED"}
               /\ \A other \in written' : other.by = c.by => other = c
    <3>1. CASE c = change
      BY <1>1, <1>2, <1>3, <3>1
    <3>2. CASE c \in written
      BY <1>1, <1>2, <1>4, <3>2 DEF UsersInv, WritesAreDone, Changes
    <3> QED
      BY <1>1, <2>1, <3>1, <3>2
  <2>2. ASSUME NEW o \in Tasks
        PROVE  /\ tasks'[o].at = "WRITTEN" => ChangeOf(o)' \in written'
               /\ tasks'[o].answer = "204" =>
                    tasks'[o].op = "delete" /\ ChangeOf(o)' \in written'
    <3>1. CASE o = t
      BY <1>1, <1>2, <1>3, <3>1 DEF ChangeOf
    <3>2. CASE o # t
      BY <1>1, <1>4, <3>2 DEF UsersInv, WritesAreDone, ChangeOf
    <3> QED
      BY <3>1, <3>2
  <2> QED
    BY <2>1, <2>2 DEF WritesAreDone
<1>6. DeletedStayAway'
  <2>1. ASSUME NEW c \in written, c.what = "delete"
        PROVE  c.id \notin DOMAIN people' /\ (tasks[t].op # "update" => c.id # id)
    BY <2>1 DEF UsersInv, DeletedStayAway, Present
  <2>2. tasks[t].op = "delete" => change.id \notin DOMAIN people'
    BY <1>1
  <2>3. ASSUME NEW c \in written', c.what = "delete", NEW other \in written',
               other.what = "delete", other.id = c.id
        PROVE  other = c
    <3>1. CASE c \in written /\ other \in written
      BY <2>3, <3>1 DEF UsersInv, DeletedStayAway
    <3>2. CASE c = change /\ other \in written
      BY <1>1, <2>1, <2>3, <3>2
    <3>3. CASE c \in written /\ other = change
      BY <1>1, <2>1, <2>3, <3>3
    <3> QED
      BY <1>1, <2>3, <3>1, <3>2, <3>3
  <2>4. ASSUME NEW c \in written', c.what = "delete" PROVE c.id \notin DOMAIN people'
    BY <1>1, <2>1, <2>2, <2>4
  <2> QED
    BY <2>3, <2>4 DEF DeletedStayAway, Present
<1>7. EventsMatchChanges'
  <2>1. told' \subseteq written'
    BY <1>1 DEF UsersInv, EventsMatchChanges
  <2>2. ASSUME NEW c \in written' \ told'
        PROVE  tasks'[c.by].at = "WRITTEN" \/ tasks'[c.by].answer \in {"500", "LOST"}
    <3>1. CASE c = change
      BY <1>1, <1>3, <3>1
    <3>2. CASE c \in written
      BY <1>1, <1>2, <1>4, <2>2, <3>2 DEF UsersInv, EventsMatchChanges, WritesAreDone, Changes
    <3> QED
      BY <1>1, <2>2, <3>1, <3>2
  <2> QED
    BY <2>1, <2>2 DEF EventsMatchChanges
<1> QED
  BY <1>4, <1>5, <1>6, <1>7 DEF UsersInv

\* A write that the database refuses.
LEMMA RejectedStep ==
  ASSUME UsersInv, NEW t \in Tasks, NEW status \in {"404", "500"}, Rejected(t, status),
         tasks[t].at = "WRITE"
  PROVE  UsersInv'
<1>1. Proceeds(t)
  BY Answered DEF Rejected, Proceeds, Statuses
<1> QED
  BY <1>1, ProceedsKeep

\* The three writes of PrismaUserRepo.
LEMMA WriteStep ==
  ASSUME UsersInv, NEW t \in Tasks, InsertUser(t) \/ Update(t) \/ Remove(t)
  PROVE  UsersInv'
<1>1. CASE InsertUser(t)
  <2>1. CASE Held(tasks[t].address, {})
    BY <1>1, <2>1, RejectedStep DEF InsertUser, At
  <2>2. CASE ~Held(tasks[t].address, {})
    <3>1. PICK id \in UserIds : /\ Unused(id) /\ Commit(t, id)
                               /\ DOMAIN people' = DOMAIN people \cup {id}
      BY <1>1, <2>2 DEF InsertUser
    <3>2. tasks[t].at = "WRITE" /\ tasks[t].op = "create"
      BY <1>1 DEF InsertUser, At
    <3> QED
      BY <3>1, <3>2, CommitStep DEF Unused
  <2> QED
    BY <2>1, <2>2
<1>2. CASE Update(t)
  <2> DEFINE refused == ~Present(tasks[t].id)
                        \/ (tasks[t].address # "NONE" /\ Held(tasks[t].address, {tasks[t].id}))
  <2>1. CASE refused
    <3>1. PICK status \in {"404", "500"} : Rejected(t, status)
      BY <1>2, <2>1 DEF Update
    <3> QED
      BY <1>2, <3>1, RejectedStep DEF Update, At
  <2>2. CASE ~refused
    <3>1. PICK id : id = tasks[t].id
      OBVIOUS
    <3>2. /\ tasks[t].at = "WRITE" /\ tasks[t].op = "update"
          /\ Present(id) /\ Commit(t, id)
      BY <1>2, <2>2, <3>1 DEF Update, At
    <3>3. DOMAIN people' = DOMAIN people
      BY <1>2, <2>2 DEF Update
    <3>4. id \in UserIds
      BY <3>2 DEF Present, UsersInv
    <3> QED
      BY <3>2, <3>3, <3>4, CommitStep DEF Present
  <2> QED
    BY <2>1, <2>2
<1>3. CASE Remove(t)
  <2> DEFINE refused == ~Present(tasks[t].id) \/ tasks[t].id \in pinned
  <2>1. CASE refused
    <3>1. PICK status \in {"404", "500"} : Rejected(t, status)
      BY <1>3, <2>1 DEF Remove
    <3> QED
      BY <1>3, <3>1, RejectedStep DEF Remove, At
  <2>2. CASE ~refused
    <3>1. PICK id : id = tasks[t].id
      OBVIOUS
    <3>2. /\ tasks[t].at = "WRITE" /\ tasks[t].op = "delete"
          /\ Present(id) /\ Commit(t, id)
          /\ DOMAIN people' = DOMAIN people \ {id}
      BY <1>3, <2>2, <3>1 DEF Remove, At
    <3>4. id \in UserIds
      BY <3>2 DEF Present, UsersInv
    <3> QED
      BY <3>2, <3>4, CommitStep DEF Present
  <2> QED
    BY <2>1, <2>2
<1> QED
  BY <1>1, <1>2, <1>3

\* The event follows its change.
LEMMA PublishStep ==
  ASSUME UsersInv, NEW t \in Tasks, PublishEvent(t)
  PROVE  UsersInv'
<1>1. PICK change : change = ChangeOf(t)
  OBVIOUS
<1>2. /\ change \in written /\ change.by = t
      /\ change.what = tasks[t].op /\ change.id = tasks[t].id
      /\ tasks[t].op \in {"create", "update", "delete"}
  BY <1>1 DEF PublishEvent, UsersInv, WritesAreDone, ChangeOf, Changes
<1>3. told' = told \cup {change} /\ people' = people /\ written' = written
  BY <1>1 DEF PublishEvent, ChangeOf
<1>4. PICK status \in {"200", "201", "204"} :
        /\ Answer(t, status)
        /\ status = "204" => tasks[t].op = "delete"
  BY <1>2 DEF PublishEvent
<1>5. /\ tasks' \in [Tasks -> Requests]
      /\ \A o \in Tasks : o # t => tasks'[o] = tasks[o]
      /\ tasks'[t].at = "ANSWERED" /\ tasks'[t].answer = status
      /\ tasks'[t].op = tasks[t].op /\ tasks'[t].id = tasks[t].id
  BY <1>4, Answered DEF Statuses
<1>6. WritesAreDone'
  <2>1. ASSUME NEW c \in written
        PROVE  /\ c \in Changes /\ tasks'[c.by].at \in {"WRITTEN", "ANSWERED"}
               /\ \A other \in written : other.by = c.by => other = c
    BY <1>5 DEF UsersInv, WritesAreDone, Changes
  <2>2. ASSUME NEW o \in Tasks
        PROVE  /\ tasks'[o].at = "WRITTEN" => ChangeOf(o)' \in written
               /\ tasks'[o].answer = "204" =>
                    tasks'[o].op = "delete" /\ ChangeOf(o)' \in written
    <3>1. CASE o = t
      BY <1>1, <1>2, <1>4, <1>5, <3>1 DEF ChangeOf
    <3>2. CASE o # t
      BY <1>5, <3>2 DEF UsersInv, WritesAreDone, ChangeOf
    <3> QED
      BY <3>1, <3>2
  <2> QED
    BY <1>3, <2>1, <2>2 DEF WritesAreDone
<1>7. DeletedStayAway'
  BY <1>3 DEF UsersInv, DeletedStayAway, Present
<1>8. EventsMatchChanges'
  <2>1. ASSUME NEW c \in written \ told' PROVE c.by # t
    BY <1>2, <1>3, <2>1 DEF UsersInv, WritesAreDone
  <2>2. ASSUME NEW c \in written \ told'
        PROVE  tasks'[c.by].at = "WRITTEN" \/ tasks'[c.by].answer \in {"500", "LOST"}
    <3>1. c \in written \ told /\ c.by \in Tasks /\ c.by # t
      BY <1>3, <2>1, <2>2 DEF UsersInv, WritesAreDone, Changes
    <3> QED
      BY <1>5, <3>1 DEF UsersInv, EventsMatchChanges
  <2>3. told' \subseteq written'
    BY <1>2, <1>3 DEF UsersInv, EventsMatchChanges
  <2> QED
    BY <1>3, <2>2, <2>3 DEF EventsMatchChanges
<1> QED
  BY <1>3, <1>5, <1>6, <1>7, <1>8 DEF UsersInv

\* The process stops: a request that was not answered is lost.
LEMMA UsersCrashStep ==
  ASSUME UsersInv, UsersCrash
  PROVE  UsersInv'
<1>1. /\ people' = people /\ written' = written /\ told' = told
      /\ tasks' = [t \in Tasks |->
           IF tasks[t].at \in {"NEW", "ANSWERED"} THEN tasks[t]
           ELSE [[tasks[t] EXCEPT !.at = "ANSWERED"] EXCEPT !.answer = "LOST"]]
  BY DEF UsersCrash
<1>2. ASSUME NEW t \in Tasks
      PROVE  /\ tasks'[t] \in Requests
             /\ tasks'[t].op = tasks[t].op /\ tasks'[t].id = tasks[t].id
             /\ tasks'[t].at \in {"NEW", "ANSWERED"}
             /\ tasks'[t].at = "NEW" => tasks[t].at = "NEW"
             /\ tasks'[t].answer \in {tasks[t].answer, "LOST"}
             /\ tasks[t].at = "WRITTEN" => tasks'[t].answer = "LOST"
  <2>1. tasks[t] \in Requests
    BY DEF UsersInv
  <2>2. CASE tasks[t].at \in {"NEW", "ANSWERED"}
    BY <1>1, <2>1, <2>2
  <2>3. CASE tasks[t].at \notin {"NEW", "ANSWERED"}
    <3>1. tasks'[t] = [[tasks[t] EXCEPT !.at = "ANSWERED"] EXCEPT !.answer = "LOST"]
      BY <1>1, <2>3
    <3> QED
      BY <2>1, <3>1 DEF Requests, Statuses
  <2> QED
    BY <2>2, <2>3
<1>3. tasks' \in [Tasks -> Requests]
  BY <1>1, <1>2
<1>4. WritesAreDone'
  <2>1. ASSUME NEW c \in written
        PROVE  /\ c \in Changes /\ tasks'[c.by].at \in {"WRITTEN", "ANSWERED"}
               /\ \A other \in written : other.by = c.by => other = c
    <3>1. c \in Changes /\ c.by \in Tasks /\ tasks[c.by].at # "NEW"
      BY <2>1 DEF UsersInv, WritesAreDone, Changes
    <3> QED
      BY <1>2, <2>1, <3>1 DEF UsersInv, WritesAreDone
  <2>2. ASSUME NEW t \in Tasks
        PROVE  /\ tasks'[t].at = "WRITTEN" => ChangeOf(t)' \in written
               /\ tasks'[t].answer = "204" =>
                    tasks'[t].op = "delete" /\ ChangeOf(t)' \in written
    BY <1>2, <2>2 DEF UsersInv, WritesAreDone, ChangeOf
  <2> QED
    BY <1>1, <2>1, <2>2 DEF WritesAreDone
<1>5. DeletedStayAway'
  BY <1>1 DEF UsersInv, DeletedStayAway, Present
<1>6. EventsMatchChanges'
  <2>1. ASSUME NEW c \in written \ told
        PROVE  tasks'[c.by].answer \in {"500", "LOST"}
    <3>1. c.by \in Tasks
      BY DEF UsersInv, WritesAreDone, Changes
    <3> QED
      BY <1>2, <2>1, <3>1 DEF UsersInv, EventsMatchChanges
  <2> QED
    BY <1>1, <2>1 DEF UsersInv, EventsMatchChanges
<1> QED
  BY <1>1, <1>3, <1>4, <1>5, <1>6 DEF UsersInv

LEMMA UsersInvNext == UsersInv /\ [UsersNext]_usersVars => UsersInv'
<1> SUFFICES ASSUME UsersInv, [UsersNext]_usersVars PROVE UsersInv'
  OBVIOUS
<1>1. ASSUME NEW t \in Tasks, NEW op \in Routes, NEW id \in UserIds \cup {"NONE"},
             NEW address \in Addresses \cup {"NONE"}, NEW role \in UserRoles \cup {"NONE"},
             Request(t, op, id, address, role)
      PROVE  UsersInv'
  BY <1>1, RequestStep, ProceedsKeep
<1>2. ASSUME NEW t \in Tasks, Read(t) \/ FindFirst(t) \/ DatabaseFails(t) PROVE UsersInv'
  BY <1>2, ReadStep, ProceedsKeep
<1>3. ASSUME NEW t \in Tasks, InsertUser(t) \/ Update(t) \/ Remove(t) PROVE UsersInv'
  BY <1>3, WriteStep
<1>4. ASSUME NEW t \in Tasks, PublishEvent(t) PROVE UsersInv'
  BY <1>4, PublishStep
<1>5. CASE UsersCrash
  BY <1>5, UsersCrashStep
<1>6. CASE UNCHANGED <<people, tasks, written, told>>
  BY <1>6 DEF UsersInv, WritesAreDone, DeletedStayAway, EventsMatchChanges, ChangeOf, Present
<1>7. ASSUME NEW id \in UserIds, LogIn(id) PROVE UsersInv'
  BY <1>6, <1>7 DEF LogIn
<1>8. CASE UNCHANGED usersVars
  BY <1>6, <1>8 DEF usersVars
<1> QED
  BY <1>1, <1>2, <1>3, <1>4, <1>5, <1>7, <1>8 DEF UsersNext

THEOREM UsersInvariance == UsersSpec => []UsersInv
BY UsersInvInit, UsersInvNext, PTL DEF UsersSpec

\* However the requests interleave and whenever the process stops, an event is
\* published for a change that was made, and is missing only where the caller
\* was not told of success either.
THEOREM EventsMatchChangesCorrect == UsersSpec => []EventsMatchChanges
<1>1. UsersInv => EventsMatchChanges
  BY DEF UsersInv
<1> QED
  BY <1>1, UsersInvariance, PTL

\* Of several requests that delete one user, and that may all have found it, one
\* is answered with 204 at most, and the user is gone then.
DeletedOnce ==
  \A t \in Tasks : tasks[t].op = "delete" /\ tasks[t].answer = "204" =>
    /\ ~Present(tasks[t].id)
    /\ \A o \in Tasks \ {t} :
         ~(tasks[o].op = "delete" /\ tasks[o].id = tasks[t].id
             /\ tasks[o].answer = "204")

\* Of any number of requests that delete a user, one at most is told that it did.
THEOREM DeletedOnceCorrect == UsersSpec => []DeletedOnce
<1>1. UsersInv => DeletedOnce
  <2> SUFFICES ASSUME UsersInv, NEW t \in Tasks,
                      tasks[t].op = "delete", tasks[t].answer = "204"
               PROVE  /\ ~Present(tasks[t].id)
                      /\ \A o \in Tasks \ {t} :
                           ~(tasks[o].op = "delete" /\ tasks[o].id = tasks[t].id
                               /\ tasks[o].answer = "204")
    BY DEF DeletedOnce
  <2>1. ChangeOf(t) \in written /\ ~Present(tasks[t].id)
    BY DEF UsersInv, WritesAreDone, DeletedStayAway, ChangeOf
  <2>2. ASSUME NEW o \in Tasks \ {t}, tasks[o].op = "delete",
               tasks[o].id = tasks[t].id, tasks[o].answer = "204"
        PROVE  FALSE
    <3>1. ChangeOf(o) \in written /\ ChangeOf(o).by = o /\ ChangeOf(t).by = t
      BY <2>2 DEF UsersInv, WritesAreDone, ChangeOf
    <3>2. ChangeOf(o) = ChangeOf(t)
      BY <2>1, <2>2, <3>1 DEF UsersInv, DeletedStayAway, ChangeOf
    <3> QED
      BY <2>2, <3>1, <3>2
  <2> QED
    BY <2>1, <2>2
<1> QED
  BY <1>1, UsersInvariance, PTL

\* The types that UsersInv leaves out, and that no address is used twice.
PeopleFit(persons) ==
  /\ \A id \in DOMAIN persons :
       persons[id] \in [email : Addresses, role : UserRoles, hashed : BOOLEAN]
  /\ \A id, other \in DOMAIN persons : id # other => persons[id].email # persons[other].email

UsersRest ==
  /\ PeopleFit(people)
  /\ pinned \subseteq DOMAIN people
  /\ \A t \in Tasks : tasks[t].op = "create" => tasks[t].address \in Addresses

\* A request keeps what it asks for.
SameAsks ==
  \A t \in Tasks : tasks'[t].op = tasks[t].op /\ tasks'[t].address = tasks[t].address

LEMMA AsksStay ==
  ASSUME tasks \in [Tasks -> Requests], NEW t \in Tasks,
         \/ \E status : Answer(t, status)
         \/ \E at : tasks' = [tasks EXCEPT ![t].at = at]
         \/ \E at, id : tasks' = [tasks EXCEPT ![t].at = at, ![t].id = id]
  PROVE  SameAsks
<1>1. tasks[t] \in Requests
  OBVIOUS
<1>2. ASSUME NEW new, new.op = tasks[t].op, new.address = tasks[t].address,
             tasks' = [tasks EXCEPT ![t] = new]
      PROVE  SameAsks
  BY <1>2 DEF SameAsks
<1>3. ASSUME NEW status, Answer(t, status) PROVE SameAsks
  <2>1. PICK new : new = [[tasks[t] EXCEPT !.at = "ANSWERED"] EXCEPT !.answer = status]
    OBVIOUS
  <2>2. new.op = tasks[t].op /\ new.address = tasks[t].address
    BY <1>1, <2>1 DEF Requests
  <2>3. tasks' = [tasks EXCEPT ![t] = new]
    BY <1>3, <2>1 DEF Answer
  <2> QED
    BY <1>2, <2>2, <2>3
<1>4. ASSUME NEW at, tasks' = [tasks EXCEPT ![t].at = at] PROVE SameAsks
  <2>1. PICK new : new = [tasks[t] EXCEPT !.at = at]
    OBVIOUS
  <2>2. new.op = tasks[t].op /\ new.address = tasks[t].address
    BY <1>1, <2>1 DEF Requests
  <2> QED
    BY <1>2, <1>4, <2>1, <2>2
<1>5. ASSUME NEW at, NEW id, tasks' = [tasks EXCEPT ![t].at = at, ![t].id = id]
      PROVE  SameAsks
  <2>1. PICK new : new = [[tasks[t] EXCEPT !.at = at] EXCEPT !.id = id]
    OBVIOUS
  <2>2. new.op = tasks[t].op /\ new.address = tasks[t].address
    BY <1>1, <2>1 DEF Requests
  <2>3. tasks' = [tasks EXCEPT ![t] = new]
    BY <1>5, <2>1
  <2> QED
    BY <1>2, <2>2, <2>3
<1> QED
  BY <1>3, <1>4, <1>5

\* What leaves the table as it is, or changes it as it may.
LEMMA UsersRestKept ==
  ASSUME UsersRest, SameAsks, PeopleFit(people'), pinned' \subseteq DOMAIN people'
  PROVE  UsersRest'
BY DEF UsersRest, SameAsks

LEMMA InsertFits ==
  ASSUME UsersInv, UsersRest, NEW t \in Tasks, InsertUser(t)
  PROVE  SameAsks /\ PeopleFit(people') /\ pinned' \subseteq DOMAIN people'
<1>1. CASE Held(tasks[t].address, {})
  BY <1>1, AsksStay DEF InsertUser, Rejected, UsersInv, UsersRest
<1>2. CASE ~Held(tasks[t].address, {})
  <2>1. PICK id \in UserIds, role \in UserRoles :
          /\ Unused(id)
          /\ people' = [x \in DOMAIN people \cup {id} |->
               IF x = id THEN [email |-> tasks[t].address, role |-> role, hashed |-> FALSE]
                         ELSE people[x]]
          /\ Commit(t, id) /\ UNCHANGED pinned
    BY <1>2 DEF InsertUser
  <2>2. SameAsks
    BY <2>1, AsksStay DEF Commit, UsersInv
  <2>3. tasks[t].address \in Addresses
    BY DEF InsertUser, At, UsersRest
  <2>4. PICK row : row = [email |-> tasks[t].address, role |-> role, hashed |-> FALSE]
    OBVIOUS
  <2>5. row \in [email : Addresses, role : UserRoles, hashed : BOOLEAN]
    BY <2>3, <2>4
  <2>6. /\ DOMAIN people' = DOMAIN people \cup {id} /\ people'[id] = row
        /\ \A x \in DOMAIN people : x # id /\ people'[x] = people[x]
    BY <2>1, <2>4 DEF Unused, Present
  <2>7. \A x \in DOMAIN people : people[x].email # row.email
    BY <1>2, <2>4 DEF Held
  <2>8. PeopleFit(people')
    BY <2>5, <2>6, <2>7 DEF PeopleFit, UsersRest
  <2> QED
    BY <2>1, <2>2, <2>6, <2>8 DEF UsersRest
<1> QED
  BY <1>1, <1>2

LEMMA UpdateFits ==
  ASSUME UsersInv, UsersRest, NEW t \in Tasks, Update(t)
  PROVE  SameAsks /\ PeopleFit(people') /\ pinned' \subseteq DOMAIN people'
<1> DEFINE id == tasks[t].id
           address == tasks[t].address
<1>1. CASE \E status : Rejected(t, status)
  BY <1>1, AsksStay DEF Rejected, UsersInv, UsersRest
<1>2. CASE /\ Present(id) /\ ~(address # "NONE" /\ Held(address, {id}))
           /\ people' \in {[people EXCEPT ![id] = person] :
                             person \in Updated(people[id], address)}
           /\ Commit(t, id) /\ UNCHANGED pinned
  <2>1. SameAsks
    BY <1>2, AsksStay DEF Commit, UsersInv
  <2>2. PICK row \in Updated(people[id], address) : people' = [people EXCEPT ![id] = row]
    BY ONLY <1>2
  <2>3. PICK role \in UserRoles :
          row = [people[id] EXCEPT !.email = IF address = "NONE" THEN @ ELSE address,
                                   !.role = role]
    BY ONLY <2>2 DEF Updated
  <2>4. /\ people[id] \in [email : Addresses, role : UserRoles, hashed : BOOLEAN]
        /\ address \in Addresses \cup {"NONE"} /\ id \in DOMAIN people
    BY <1>2 DEF UsersInv, UsersRest, PeopleFit, Requests, Present
  <2>5. /\ row \in [email : Addresses, role : UserRoles, hashed : BOOLEAN]
        /\ row.email = IF address = "NONE" THEN people[id].email ELSE address
    BY <2>3, <2>4
  <2>6. /\ DOMAIN people' = DOMAIN people /\ people'[id] = row
        /\ \A x \in DOMAIN people : x # id => people'[x] = people[x]
    BY <2>2, <2>3, <2>4
  <2>7. \A x \in DOMAIN people : x # id => people[x].email # row.email
    BY <1>2, <2>4, <2>5 DEF Held, UsersRest, PeopleFit
  <2>8. PeopleFit(people')
    BY <2>5, <2>6, <2>7 DEF PeopleFit, UsersRest
  <2> QED
    BY <1>2, <2>1, <2>6, <2>8 DEF UsersRest
<1> QED
  BY <1>1, <1>2 DEF Update

LEMMA RemoveFits ==
  ASSUME UsersInv, UsersRest, NEW t \in Tasks, Remove(t)
  PROVE  SameAsks /\ PeopleFit(people') /\ pinned' \subseteq DOMAIN people'
<1> DEFINE id == tasks[t].id
<1>1. CASE \E status : Rejected(t, status)
  BY <1>1, AsksStay DEF Rejected, UsersInv, UsersRest
<1>2. CASE /\ id \notin pinned
           /\ people' = [other \in DOMAIN people \ {id} |-> people[other]]
           /\ Commit(t, id) /\ UNCHANGED pinned
  <2>1. SameAsks
    BY <1>2, AsksStay DEF Commit, UsersInv
  <2>2. /\ DOMAIN people' = DOMAIN people \ {id}
        /\ \A x \in DOMAIN people' : people'[x] = people[x]
    BY <1>2
  <2> QED
    BY <1>2, <2>1, <2>2 DEF UsersRest, PeopleFit
<1> QED
  BY <1>1, <1>2 DEF Remove

LEMMA UsersRestNext == UsersInv /\ UsersRest /\ [UsersNext]_usersVars => UsersRest'
<1> SUFFICES ASSUME UsersInv, UsersRest, [UsersNext]_usersVars PROVE UsersRest'
  OBVIOUS
<1>1. tasks \in [Tasks -> Requests]
  BY DEF UsersInv
<1>2. ASSUME NEW t \in Tasks, NEW op \in Routes, NEW id \in UserIds \cup {"NONE"},
             NEW address \in Addresses \cup {"NONE"}, NEW role \in UserRoles \cup {"NONE"},
             Request(t, op, id, address, role)
      PROVE  UsersRest'
  <2>1. /\ op = "create" => address \in Addresses
        /\ UNCHANGED <<people, pinned>>
    BY <1>2 DEF Request
  <2>2. PICK new : /\ tasks' = [tasks EXCEPT ![t] = new]
                   /\ new.op = op /\ new.address = address
    <3> DEFINE request == [op |-> op, id |-> id, address |-> address, role |-> role,
                           at |-> FirstStep(op), answer |-> "NONE"]
               refused(status) == [request EXCEPT !.at = "ANSWERED", !.answer = status]
    <3>1. request.op = op /\ request.address = address
      OBVIOUS
    <3>2. \A status : refused(status).op = op /\ refused(status).address = address
      OBVIOUS
    <3>3. \/ tasks' = [tasks EXCEPT ![t] = request]
          \/ \E status : tasks' = [tasks EXCEPT ![t] = refused(status)]
      <4> HIDE DEF request
      <4> QED
        BY <1>2 DEF Request, request
    <3> HIDE DEF request, refused
    <3> QED
      BY <3>1, <3>2, <3>3
  <2> QED
    BY <1>1, <2>1, <2>2 DEF UsersRest
<1>3. ASSUME SameAsks, UNCHANGED people, pinned' \subseteq DOMAIN people PROVE UsersRest'
  BY <1>3, UsersRestKept DEF UsersRest
<1>4. ASSUME NEW t \in Tasks, Read(t) \/ FindFirst(t) \/ DatabaseFails(t) \/ PublishEvent(t)
      PROVE  UsersRest'
  <2>1. SameAsks
    BY <1>1, <1>4, AsksStay DEF Read, FindFirst, DatabaseFails, Rejected, PublishEvent
  <2>2. UNCHANGED <<people, pinned>>
    BY <1>4 DEF Read, FindFirst, DatabaseFails, Rejected, PublishEvent
  <2> QED
    BY <1>3, <2>1, <2>2 DEF UsersRest
<1>5. ASSUME NEW t \in Tasks, InsertUser(t) \/ Update(t) \/ Remove(t) PROVE UsersRest'
  BY <1>5, InsertFits, UpdateFits, RemoveFits, UsersRestKept
<1>6. ASSUME NEW id \in UserIds, LogIn(id) PROVE UsersRest'
  BY <1>3, <1>6 DEF LogIn, UsersRest, SameAsks, Present
<1>7. CASE UsersCrash
  <2>1. ASSUME NEW t \in Tasks
        PROVE  tasks'[t].op = tasks[t].op /\ tasks'[t].address = tasks[t].address
    <3>1. PICK lost : lost = [[tasks[t] EXCEPT !.at = "ANSWERED"] EXCEPT !.answer = "LOST"]
      OBVIOUS
    <3>2. tasks'[t] \in {tasks[t], lost}
      BY <1>7, <3>1 DEF UsersCrash
    <3>3. lost.op = tasks[t].op /\ lost.address = tasks[t].address
      BY <1>1, <3>1 DEF Requests
    <3> QED
      BY <3>2, <3>3
  <2> QED
    BY <1>3, <1>7, <2>1 DEF UsersCrash, UsersRest, SameAsks
<1>8. CASE UNCHANGED usersVars
  BY <1>8 DEF usersVars, UsersRest
<1> QED
  BY <1>2, <1>4, <1>5, <1>6, <1>7, <1>8 DEF UsersNext

LEMMA UsersRestInit == UsersInit => UsersRest
<1> SUFFICES ASSUME UsersInit PROVE UsersRest
  OBVIOUS
<1>1. PICK address \in Addresses :
        people = [id \in {FirstUser} |->
                    [email |-> address, role |-> "admin", hashed |-> TRUE]]
  BY DEF UsersInit
<1>2. PeopleFit(people)
  BY <1>1 DEF PeopleFit, UserRoles
<1> QED
  BY <1>2 DEF UsersInit, UsersRest, Unmade

\* The table and the requests keep their types, and no address is used twice.
THEOREM UsersTypeCorrect == UsersSpec => []UsersTypeOK
<1>1. UsersInv /\ UsersRest => UsersTypeOK
  <2> SUFFICES ASSUME UsersInv, UsersRest PROVE UsersTypeOK
    OBVIOUS
  <2>1. \A id \in DOMAIN people : ~Held(people[id].email, {id})
    BY DEF UsersRest, PeopleFit, Held
  <2>2. written \subseteq Changes /\ told \subseteq Changes
    BY DEF UsersInv, WritesAreDone, EventsMatchChanges
  <2> QED
    BY <2>1, <2>2 DEF UsersInv, UsersRest, PeopleFit, UsersTypeOK, Requests
<1> QED
  BY <1>1, UsersInvInit, UsersInvNext, UsersRestInit, UsersRestNext, PTL DEF UsersSpec

-----------------------------------------------------------------------------
(* Users: the refinement of Directory.                                     *)

\* What the guards have let pass and may change the table is an admin's.
AdminsWrite ==
  \A t \in Tasks :
    tasks[t].at \in {"FIND", "WRITE", "WRITTEN"} /\ tasks[t].op \notin {"get", "list"}
      => tasks[t].role = "admin" /\ tasks[t].op \in {"create", "update", "delete"}

TableNow == [id \in DOMAIN people |-> people[id].email]
AdminsNow == {t \in Tasks : tasks[t].role = "admin"}
OutcomesNow == [t \in Tasks |-> OutcomeOf(t)]

\* One request goes on, with what it came with.
GoesOn(t) ==
  /\ \A o \in Tasks \ {t} : tasks'[o] = tasks[o]
  /\ tasks'[t].op = tasks[t].op /\ tasks'[t].role = tasks[t].role

LEMMA OneGoesOn ==
  ASSUME NEW t \in Tasks, GoesOn(t)
  PROVE  /\ AdminsNow' = AdminsNow
         /\ \A how : OutcomeOf(t)' = how => OutcomesNow' = [OutcomesNow EXCEPT ![t] = how]
<1>1. \A o \in Tasks : tasks'[o].role = tasks[o].role
  BY DEF GoesOn
<1>2. \A o \in Tasks \ {t} : OutcomeOf(o)' = OutcomeOf(o)
  BY DEF GoesOn, OutcomeOf
<1> QED
  BY <1>1, <1>2 DEF AdminsNow, OutcomesNow

LEMMA AnswerGoesOn ==
  ASSUME UsersInv, NEW t \in Tasks, NEW status, Answer(t, status)
  PROVE  GoesOn(t) /\ tasks'[t].at = "ANSWERED" /\ tasks'[t].answer = status
<1>1. PICK new : new = [tasks[t] EXCEPT !.at = "ANSWERED", !.answer = status]
  OBVIOUS
<1>2. tasks[t] \in Requests
  BY DEF UsersInv
<1>3. /\ new.op = tasks[t].op /\ new.role = tasks[t].role
      /\ new.at = "ANSWERED" /\ new.answer = status
  BY <1>1, <1>2 DEF Requests
<1>4. tasks' = [tasks EXCEPT ![t] = new]
  BY <1>1 DEF Answer
<1> QED
  BY <1>3, <1>4 DEF GoesOn, UsersInv

\* Before its write a request has changed nothing.
LEMMA Unchanged ==
  ASSUME UsersInv, NEW t \in Tasks, tasks[t].at \in {"NEW", "FIND", "WRITE"}
  PROVE  OutcomeOf(t) = "OPEN" /\ ~ \E c \in written : c.by = t
<1>1. OutcomeOf(t) = "OPEN"
  BY DEF OutcomeOf
<1>2. ASSUME NEW c \in written, c.by = t PROVE FALSE
  BY <1>2 DEF UsersInv, WritesAreDone
<1> QED
  BY <1>1, <1>2

\* Refusals, answers that read, and errors, without a change.
LEMMA AnswersUnchanged ==
  ASSUME UsersInv, NEW t \in Tasks, NEW status \in {"200", "404", "500"},
         tasks[t].at \in {"FIND", "WRITE"},
         status = "200" => tasks[t].op \in {"get", "list"},
         Answer(t, status), UNCHANGED <<people, written, told>>
  PROVE  [People!Next]_People!vars
<1>1. OutcomesNow[t] = "OPEN" /\ ~ \E c \in written : c.by = t
  BY Unchanged DEF OutcomesNow
<1>2. TableNow' = TableNow
  BY DEF TableNow
<1>3. CASE status = "500"
  <2>1. OutcomeOf(t)' = "ERROR"
    BY <1>3, AnswerGoesOn DEF OutcomeOf
  <2>2. OutcomesNow' = [OutcomesNow EXCEPT ![t] = "ERROR"] /\ AdminsNow' = AdminsNow
    BY <2>1, AnswerGoesOn, OneGoesOn
  <2>3. OutcomesNow' = [r \in Tasks |-> IF r \in {t} THEN "ERROR" ELSE OutcomesNow[r]]
    BY <2>2 DEF OutcomesNow
  <2>4. People!Fail({t})
    BY <1>1, <1>2, <2>2, <2>3
    DEF People!Fail, People!Open, TableNow, AdminsNow, OutcomesNow
  <2> QED
    BY <2>4 DEF People!Next
<1>4. CASE status \in {"200", "404"}
  <2>1. PICK how \in {"READ", "REFUSED"} : OutcomeOf(t)' = how
    BY <1>4, AnswerGoesOn DEF OutcomeOf, GoesOn
  <2>2. OutcomesNow' = [OutcomesNow EXCEPT ![t] = how] /\ AdminsNow' = AdminsNow
    BY <2>1, AnswerGoesOn, OneGoesOn
  <2>3. People!AnswerUnchanged(t)
    BY <1>1, <1>2, <2>2
    DEF People!AnswerUnchanged, People!Open, People!Changed, People!Ends,
        TableNow, AdminsNow, OutcomesNow
  <2> QED
    BY <2>3 DEF People!Next
<1> QED
  BY <1>3, <1>4

\* A request comes in.
LEMMA EntersStep ==
  ASSUME UsersInv, NEW t \in Tasks, NEW op \in Routes, NEW id \in UserIds \cup {"NONE"},
         NEW address \in Addresses \cup {"NONE"}, NEW role \in UserRoles \cup {"NONE"},
         Request(t, op, id, address, role)
  PROVE  [People!Next]_People!vars
<1>1. tasks[t] = Unmade /\ UNCHANGED <<people, written, told>>
  BY DEF Request
<1>2. OutcomesNow[t] = "OPEN" /\ (~ \E c \in written : c.by = t) /\ t \notin AdminsNow
  BY <1>1, Unchanged DEF Unmade, OutcomesNow, AdminsNow
<1>3. PICK new : /\ tasks' = [tasks EXCEPT ![t] = new]
                 /\ \/ new.at # "ANSWERED"
                    \/ new.at = "ANSWERED" /\ new.answer \in {"400", "401", "403", "500"}
  <2> DEFINE request == [op |-> op, id |-> id, address |-> address, role |-> role,
                         at |-> FirstStep(op), answer |-> "NONE"]
             refused(status) == [request EXCEPT !.at = "ANSWERED", !.answer = status]
             bad == {refused(s) : s \in BodyRefusals(op) \cup DomainRefusals(op)}
  <2>1. request.at # "ANSWERED"
    BY DEF FirstStep
  <2>2. \A s : refused(s).at = "ANSWERED" /\ refused(s).answer = s
    OBVIOUS
  <2>3. Guarded(op, role) \in {"PASS", "401", "403"}
    BY DEF Guarded
  <2>4. BodyRefusals(op) \cup DomainRefusals(op) \subseteq {"400", "500"}
    BY DEF BodyRefusals, DomainRefusals
  <2>5. tasks' \in {[tasks EXCEPT ![t] = new] : new \in
          IF Guarded(op, role) = "PASS" THEN {request} \cup bad
                                        ELSE {refused(Guarded(op, role))}}
    BY DEF Request
  <2> HIDE DEF request, refused
  <2>6. PICK new \in IF Guarded(op, role) = "PASS" THEN {request} \cup bad
                     ELSE {refused(Guarded(op, role))} :
          tasks' = [tasks EXCEPT ![t] = new]
    BY ONLY <2>5
  <2> QED
    BY <2>1, <2>2, <2>3, <2>4, <2>6
<1>4. PICK how \in {"OPEN", "REFUSED", "ERROR"} : OutcomeOf(t)' = how
  BY <1>3 DEF OutcomeOf, UsersInv
<1>5. \A o \in Tasks \ {t} : tasks'[o] = tasks[o]
  BY <1>3 DEF UsersInv
<1>6. OutcomesNow' = [OutcomesNow EXCEPT ![t] = how]
  BY <1>4, <1>5 DEF OutcomesNow, OutcomeOf
<1>7. AdminsNow' \in {AdminsNow, AdminsNow \cup {t}}
  BY <1>2, <1>5 DEF AdminsNow
<1>8. People!Enter(t)
  BY <1>1, <1>2, <1>6, <1>7
  DEF People!Enter, People!Open, People!Changed, People!Ends,
      TableNow, AdminsNow, OutcomesNow
<1> QED
  BY <1>8 DEF People!Next

\* A request that goes on before its write.
LEMMA LookupStep ==
  ASSUME UsersInv, NEW t \in Tasks, FindFirst(t) \/ Read(t) \/ DatabaseFails(t)
  PROVE  [People!Next]_People!vars
<1>1. /\ UNCHANGED <<people, written, told>>
      /\ tasks[t].at \in {"FIND", "WRITE"}
  BY DEF FindFirst, Read, DatabaseFails, Rejected, At
<1>2. CASE \E status \in {"404", "500"} : Answer(t, status)
  BY <1>1, <1>2, AnswersUnchanged
<1>3. CASE Read(t)
  <2>1. tasks[t].op \in {"get", "list"} /\ \E status \in {"200", "404"} : Answer(t, status)
    BY <1>3 DEF Read, At
  <2> QED
    BY <1>1, <2>1, AnswersUnchanged
<1>4. CASE tasks[t].at = "FIND" /\ tasks' = [tasks EXCEPT ![t].at = "WRITE"]
  <2>1. PICK new : new = [tasks[t] EXCEPT !.at = "WRITE"]
    OBVIOUS
  <2>2. new.at = "WRITE" /\ new.op = tasks[t].op /\ new.role = tasks[t].role
    BY <2>1 DEF UsersInv, Requests
  <2>3. GoesOn(t) /\ tasks'[t].at = "WRITE"
    BY <1>4, <2>1, <2>2 DEF GoesOn, UsersInv
  <2>4. OutcomeOf(t)' = "OPEN" /\ OutcomeOf(t) = "OPEN"
    BY <1>4, <2>3 DEF OutcomeOf
  <2>5. OutcomesNow' = OutcomesNow /\ AdminsNow' = AdminsNow
    BY <2>3, <2>4, OneGoesOn DEF OutcomesNow
  <2> QED
    BY <1>1, <2>5 DEF People!vars, OutcomesNow, AdminsNow
<1> QED
  BY <1>2, <1>3, <1>4 DEF FindFirst, DatabaseFails, Rejected, At

\* A write that is committed is the change of an admin, of which the request
\* learns unless the acknowledgement is lost.
LEMMA CommitMakes ==
  ASSUME UsersInv, AdminsWrite, NEW t \in Tasks, NEW id,
         tasks[t].at = "WRITE", tasks[t].op \in {"create", "update", "delete"},
         Commit(t, id)
  PROVE  People!Makes(t, tasks[t].op, id)
<1>1. /\ OutcomesNow[t] = "OPEN" /\ (~ \E c \in written : c.by = t)
      /\ t \in AdminsNow
  BY Unchanged DEF OutcomesNow, AdminsNow, AdminsWrite
<1>2. GoesOn(t) /\ \E how \in {"OPEN", "ERROR"} : OutcomeOf(t)' = how
  <2>1. CASE Answer(t, "500")
    <3>1. OutcomeOf(t)' = "ERROR"
      BY <2>1, AnswerGoesOn DEF OutcomeOf
    <3> QED
      BY <2>1, <3>1, AnswerGoesOn
  <2>2. CASE tasks' = [tasks EXCEPT ![t].at = "WRITTEN", ![t].id = id]
    <3>1. PICK new : new = [tasks[t] EXCEPT !.at = "WRITTEN", !.id = id]
      OBVIOUS
    <3>2. new.at = "WRITTEN" /\ new.op = tasks[t].op /\ new.role = tasks[t].role
      BY <3>1 DEF UsersInv, Requests
    <3>3. GoesOn(t) /\ tasks'[t].at = "WRITTEN"
      BY <2>2, <3>1, <3>2 DEF GoesOn, UsersInv
    <3>4. OutcomeOf(t)' = "OPEN"
      BY <3>3 DEF OutcomeOf
    <3> QED
      BY <3>3, <3>4
  <2> QED
    BY <2>1, <2>2 DEF Commit
<1>3. PICK how \in {"OPEN", "ERROR"} : OutcomeOf(t)' = how
  BY <1>2
<1>4. OutcomesNow' = [OutcomesNow EXCEPT ![t] = how] /\ AdminsNow' = AdminsNow
  BY <1>2, <1>3, OneGoesOn
<1>5. /\ told' = told
      /\ written' = written \cup {[what |-> tasks[t].op, id |-> id, by |-> t]}
  BY DEF Commit
<1> QED
  BY <1>1, <1>4, <1>5
  DEF People!Makes, People!Open, People!Changed, People!Ends, AdminsNow, OutcomesNow

\* PrismaUserRepo: each write is right for the table it meets.
LEMMA InsertCreates ==
  ASSUME UsersInv, UsersRest, AdminsWrite, NEW t \in Tasks, InsertUser(t)
  PROVE  [People!Next]_People!vars
<1>1. tasks[t].at = "WRITE" /\ tasks[t].op = "create" /\ tasks[t].address \in Addresses
  BY DEF InsertUser, At, UsersRest
<1>2. CASE Rejected(t, "500")
  BY <1>1, <1>2, AnswersUnchanged DEF Rejected
<1>3. ASSUME NEW id \in UserIds, NEW role \in UserRoles,
             ~Held(tasks[t].address, {}), Unused(id), Commit(t, id),
             people' = [x \in DOMAIN people \cup {id} |->
               IF x = id THEN [email |-> tasks[t].address, role |-> role, hashed |-> FALSE]
                         ELSE people[x]]
      PROVE  [People!Next]_People!vars
  <2>0. PICK e \in Addresses : e = tasks[t].address
    BY <1>1
  <2>1. People!Makes(t, "create", id)
    BY <1>1, <1>3, CommitMakes
  <2>2. id \notin DOMAIN TableNow /\ \A c \in written : c.id # id
    BY <1>3 DEF Unused, Present, TableNow
  <2>3. \A x \in DOMAIN TableNow \ {id} : TableNow[x] # e
    BY <1>3, <2>0 DEF Held, TableNow
  <2>4. TableNow' = [x \in DOMAIN TableNow \cup {id} |-> IF x = id THEN e ELSE TableNow[x]]
    BY <1>3, <2>0 DEF TableNow
  <2>5. People!Create(t, id, e)
    BY <2>1, <2>2, <2>3, <2>4 DEF People!Create, People!Free, TableNow
  <2> QED
    BY <2>5 DEF People!Next
<1> QED
  BY <1>2, <1>3 DEF InsertUser

LEMMA UpdateUpdates ==
  ASSUME UsersInv, UsersRest, AdminsWrite, NEW t \in Tasks, Update(t)
  PROVE  [People!Next]_People!vars
<1> DEFINE id == tasks[t].id
           address == tasks[t].address
<1>1. tasks[t].at = "WRITE" /\ tasks[t].op = "update"
  BY DEF Update, At
<1>2. CASE \E status \in {"404", "500"} : Rejected(t, status)
  BY <1>1, <1>2, AnswersUnchanged DEF Rejected
<1>3. CASE /\ Present(id) /\ ~(address # "NONE" /\ Held(address, {id}))
           /\ people' \in {[people EXCEPT ![id] = person] :
                             person \in Updated(people[id], address)}
           /\ Commit(t, id)
  <2>1. People!Makes(t, "update", id)
    BY <1>1, <1>3, CommitMakes
  <2>2. PICK row \in Updated(people[id], address) : people' = [people EXCEPT ![id] = row]
    BY ONLY <1>3
  <2>3. PICK role \in UserRoles :
          row = [people[id] EXCEPT !.email = IF address = "NONE" THEN @ ELSE address,
                                   !.role = role]
    BY ONLY <2>2 DEF Updated
  <2>4. PICK e : e = IF address = "NONE" THEN people[id].email ELSE address
    OBVIOUS
  <2>5. /\ people[id] \in [email : Addresses, role : UserRoles, hashed : BOOLEAN]
        /\ address \in Addresses \cup {"NONE"} /\ id \in DOMAIN people /\ id \in UserIds
    BY <1>3 DEF UsersInv, UsersRest, PeopleFit, Requests, Present
  <2>6. row.email = e /\ e \in Addresses
    BY <2>3, <2>4, <2>5
  <2>7. TableNow' = [TableNow EXCEPT ![id] = e]
    BY <2>2, <2>5, <2>6 DEF TableNow
  <2>8. \A x \in DOMAIN TableNow \ {id} : TableNow[x] # e
    BY <1>3, <2>4, <2>5 DEF Held, UsersRest, PeopleFit, TableNow
  <2>9. id \in DOMAIN TableNow
    BY <2>5 DEF TableNow
  <2>10. People!Update(t, id, e)
    BY <2>1, <2>7, <2>8, <2>9 DEF People!Update, People!Free, TableNow
  <2> QED
    BY <2>5, <2>6, <2>10 DEF People!Next
<1> QED
  BY <1>2, <1>3 DEF Update

LEMMA RemoveDeletes ==
  ASSUME UsersInv, AdminsWrite, NEW t \in Tasks, Remove(t)
  PROVE  [People!Next]_People!vars
<1>0. PICK id : id = tasks[t].id
  OBVIOUS
<1>1. tasks[t].at = "WRITE" /\ tasks[t].op = "delete"
  BY DEF Remove, At
<1>2. CASE \E status \in {"404", "500"} : Rejected(t, status)
  BY <1>1, <1>2, AnswersUnchanged DEF Rejected
<1>3. CASE /\ Present(id)
           /\ people' = [other \in DOMAIN people \ {id} |-> people[other]]
           /\ Commit(t, id)
  <2>1. People!Makes(t, "delete", id)
    BY <1>1, <1>3, CommitMakes
  <2>2. TableNow' = [x \in DOMAIN TableNow \ {id} |-> TableNow[x]]
    BY <1>3 DEF TableNow
  <2>3. id \in DOMAIN TableNow /\ id \in UserIds
    BY <1>3 DEF TableNow, Present, UsersInv
  <2>4. People!Delete(t, id)
    BY <2>1, <2>2, <2>3 DEF People!Delete, TableNow
  <2> QED
    BY <2>3, <2>4 DEF People!Next
<1> QED
  BY <1>0, <1>2, <1>3 DEF Remove

\* The event and the answer are those of the change that was made.
LEMMA PublishSucceeds ==
  ASSUME UsersInv, AdminsWrite, NEW t \in Tasks, PublishEvent(t)
  PROVE  [People!Next]_People!vars
<1>1. PICK c : c = ChangeOf(t)
  OBVIOUS
<1>2. /\ c \in written /\ c.by = t
      /\ tasks[t].at = "WRITTEN" /\ tasks[t].op \in {"create", "update", "delete"}
  BY <1>1 DEF PublishEvent, UsersInv, WritesAreDone, ChangeOf, Changes
<1>3. UNCHANGED <<people, written>> /\ told' = told \cup {c}
  BY <1>1 DEF PublishEvent, ChangeOf
<1>4. PICK status \in {"200", "201", "204"} : Answer(t, status)
  BY <1>2 DEF PublishEvent
<1>5. OutcomeOf(t)' = "DONE"
  BY <1>2, <1>4, AnswerGoesOn DEF OutcomeOf, GoesOn
<1>6. OutcomesNow' = [OutcomesNow EXCEPT ![t] = "DONE"] /\ AdminsNow' = AdminsNow
  BY <1>4, <1>5, AnswerGoesOn, OneGoesOn
<1>7. OutcomesNow[t] = "OPEN" /\ TableNow' = TableNow
  BY <1>2, <1>3 DEF OutcomesNow, OutcomeOf, TableNow
<1>8. People!Succeed(c)
  BY <1>2, <1>3, <1>6, <1>7
  DEF People!Succeed, People!Open, People!Ends, OutcomesNow, AdminsNow, TableNow
<1> QED
  BY <1>2, <1>8 DEF People!Next

\* Logging in is not seen, and a crash is an error for all that is being served.
LEMMA CrashFails ==
  ASSUME UsersInv, UsersCrash
  PROVE  [People!Next]_People!vars
<1> DEFINE lost == {t \in Tasks : tasks[t].at \notin {"NEW", "ANSWERED"}}
<1>1. TableNow' = TableNow /\ UNCHANGED <<written, told>>
  BY DEF UsersCrash, TableNow
<1>2. ASSUME NEW t \in Tasks
      PROVE  /\ tasks'[t].role = tasks[t].role
             /\ t \in lost => OutcomeOf(t)' = "ERROR" /\ OutcomeOf(t) = "OPEN"
             /\ t \notin lost => OutcomeOf(t)' = OutcomeOf(t)
  <2>1. PICK gone : gone = [[tasks[t] EXCEPT !.at = "ANSWERED"] EXCEPT !.answer = "LOST"]
    OBVIOUS
  <2>2. tasks'[t] = IF t \in lost THEN gone ELSE tasks[t]
    BY <2>1 DEF UsersCrash
  <2>3. gone.role = tasks[t].role /\ gone.at = "ANSWERED" /\ gone.answer = "LOST"
    BY <2>1 DEF UsersInv, Requests
  <2> QED
    BY <2>2, <2>3 DEF OutcomeOf
<1>3. /\ OutcomesNow' = [r \in Tasks |-> IF r \in lost THEN "ERROR" ELSE OutcomesNow[r]]
      /\ AdminsNow' = AdminsNow
      /\ \A r \in lost : OutcomesNow[r] = "OPEN"
  BY <1>2 DEF OutcomesNow, AdminsNow
<1> HIDE DEF lost
<1>4. People!Fail(lost)
  BY <1>1, <1>3 DEF People!Fail, People!Open, TableNow, AdminsNow, OutcomesNow
<1>5. lost \in SUBSET Tasks
  BY DEF lost
<1> QED
  BY <1>4, <1>5 DEF People!Next

LEMMA DirectoryStep ==
  UsersInv /\ UsersRest /\ AdminsWrite /\ [UsersNext]_usersVars
    => [People!Next]_People!vars
<1> SUFFICES ASSUME UsersInv, UsersRest, AdminsWrite, [UsersNext]_usersVars
             PROVE  [People!Next]_People!vars
  OBVIOUS
<1>1. CASE UNCHANGED <<people, tasks, written, told>>
  <2>1. TableNow' = TableNow /\ AdminsNow' = AdminsNow /\ OutcomesNow' = OutcomesNow
    BY <1>1 DEF TableNow, AdminsNow, OutcomesNow, OutcomeOf
  <2> QED
    BY <1>1, <2>1 DEF People!vars, TableNow, AdminsNow, OutcomesNow
<1>2. CASE UNCHANGED usersVars
  BY <1>1, <1>2 DEF usersVars
<1>3. ASSUME NEW id \in UserIds, LogIn(id) PROVE [People!Next]_People!vars
  BY <1>1, <1>3 DEF LogIn
<1> QED
  BY <1>2, <1>3, EntersStep, LookupStep, InsertCreates, UpdateUpdates, RemoveDeletes,
     PublishSucceeds, CrashFails
  DEF UsersNext

LEMMA AdminsWriteNext ==
  UsersInv /\ AdminsWrite /\ [UsersNext]_usersVars => AdminsWrite'
<1> SUFFICES ASSUME UsersInv, AdminsWrite, [UsersNext]_usersVars PROVE AdminsWrite'
  OBVIOUS
<1>1. ASSUME NEW t \in Tasks, GoesOn(t),
             tasks[t].at \in {"FIND", "WRITE", "WRITTEN"} \/ tasks'[t].at = "ANSWERED"
      PROVE  AdminsWrite'
  <2> SUFFICES ASSUME NEW o \in Tasks, tasks'[o].at \in {"FIND", "WRITE", "WRITTEN"},
                      tasks'[o].op \notin {"get", "list"}
               PROVE  tasks'[o].role = "admin" /\ tasks'[o].op \in {"create", "update", "delete"}
    BY DEF AdminsWrite
  <2>1. CASE o = t
    BY <1>1, <2>1 DEF GoesOn, AdminsWrite
  <2>2. CASE o # t
    BY <1>1, <2>2 DEF GoesOn, AdminsWrite
  <2> QED
    BY <2>1, <2>2
<1>2. ASSUME NEW t \in Tasks, NEW status, Answer(t, status) PROVE AdminsWrite'
  <2>1. GoesOn(t) /\ tasks'[t].at = "ANSWERED"
    <3>1. PICK new : new = [tasks[t] EXCEPT !.at = "ANSWERED", !.answer = status]
      OBVIOUS
    <3>2. new.op = tasks[t].op /\ new.role = tasks[t].role /\ new.at = "ANSWERED"
      BY <3>1 DEF UsersInv, Requests
    <3>3. tasks' = [tasks EXCEPT ![t] = new]
      BY <1>2, <3>1 DEF Answer
    <3> QED
      BY <3>2, <3>3 DEF GoesOn, UsersInv
  <2> QED
    BY <1>1, <2>1
<1>3. ASSUME NEW t \in Tasks, tasks[t].at \in {"FIND", "WRITE"}, NEW step, NEW id,
             \/ tasks' = [tasks EXCEPT ![t].at = step]
             \/ tasks' = [tasks EXCEPT ![t].at = step, ![t].id = id]
      PROVE  AdminsWrite'
  <2>1. PICK new : /\ tasks' = [tasks EXCEPT ![t] = new]
                   /\ \/ new = [tasks[t] EXCEPT !.at = step]
                      \/ new = [[tasks[t] EXCEPT !.at = step] EXCEPT !.id = id]
    BY <1>3
  <2>2. new.op = tasks[t].op /\ new.role = tasks[t].role
    BY <2>1 DEF UsersInv, Requests
  <2>3. GoesOn(t)
    BY <2>1, <2>2 DEF GoesOn, UsersInv
  <2> QED
    BY <1>1, <1>3, <2>3
<1>4. ASSUME NEW t \in Tasks, NEW op \in Routes, NEW id \in UserIds \cup {"NONE"},
             NEW address \in Addresses \cup {"NONE"}, NEW role \in UserRoles \cup {"NONE"},
             Request(t, op, id, address, role)
      PROVE  AdminsWrite'
  <2> DEFINE request == [op |-> op, id |-> id, address |-> address, role |-> role,
                         at |-> FirstStep(op), answer |-> "NONE"]
             refused(status) == [request EXCEPT !.at = "ANSWERED", !.answer = status]
             bad == {refused(s) : s \in BodyRefusals(op) \cup DomainRefusals(op)}
  <2>1. /\ request.op = op /\ request.role = role
        /\ \A s : refused(s).at = "ANSWERED"
    OBVIOUS
  <2>2. tasks' \in {[tasks EXCEPT ![t] = new] : new \in
          IF Guarded(op, role) = "PASS" THEN {request} \cup bad
                                        ELSE {refused(Guarded(op, role))}}
    BY <1>4 DEF Request
  <2> HIDE DEF request, refused
  <2>3. PICK new \in IF Guarded(op, role) = "PASS" THEN {request} \cup bad
                     ELSE {refused(Guarded(op, role))} :
          tasks' = [tasks EXCEPT ![t] = new]
    BY ONLY <2>2
  <2>4. \/ new.at = "ANSWERED"
        \/ new.op = op /\ new.role = role /\ Guarded(op, role) = "PASS"
    BY <2>1, <2>3
  <2>5. Guarded(op, role) = "PASS" /\ op \notin {"get", "list"}
          => role = "admin" /\ op \in {"create", "update", "delete"}
    BY DEF Guarded, Identified, Can, Policy, Routes
  <2>6. \A o \in Tasks \ {t} : tasks'[o] = tasks[o]
    BY <2>3 DEF UsersInv
  <2>7. tasks'[t] = new
    BY <2>3 DEF UsersInv
  <2> QED
    BY <2>4, <2>5, <2>6, <2>7 DEF AdminsWrite
<1>5. ASSUME NEW t \in Tasks, Read(t) \/ FindFirst(t) \/ DatabaseFails(t) \/ PublishEvent(t)
      PROVE  AdminsWrite'
  BY <1>2, <1>3, <1>5 DEF Read, FindFirst, DatabaseFails, Rejected, PublishEvent, At
<1>6. ASSUME NEW t \in Tasks, InsertUser(t) \/ Update(t) \/ Remove(t) PROVE AdminsWrite'
  <2>1. ASSUME NEW id, Commit(t, id) PROVE AdminsWrite'
    BY <1>2, <1>3, <1>6, <2>1 DEF Commit, InsertUser, Update, Remove, At
  <2>2. ASSUME NEW status, Rejected(t, status) PROVE AdminsWrite'
    BY <1>2, <2>2 DEF Rejected
  <2> QED
    BY <1>6, <2>1, <2>2 DEF InsertUser, Update, Remove
<1>7. CASE UsersCrash
  <2>1. ASSUME NEW t \in Tasks
        PROVE  tasks'[t] = tasks[t] \/ tasks'[t].at = "ANSWERED"
    <3>1. PICK gone : gone = [[tasks[t] EXCEPT !.at = "ANSWERED"] EXCEPT !.answer = "LOST"]
      OBVIOUS
    <3>2. tasks'[t] \in {tasks[t], gone}
      BY <1>7, <3>1 DEF UsersCrash
    <3>3. gone.at = "ANSWERED"
      BY <3>1 DEF UsersInv, Requests
    <3> QED
      BY <3>2, <3>3
  <2> QED
    BY <2>1 DEF AdminsWrite
<1>8. CASE UNCHANGED tasks
  BY <1>8 DEF AdminsWrite
<1> QED
  BY <1>4, <1>5, <1>6, <1>7, <1>8 DEF UsersNext, usersVars, LogIn

\* Guards, lookups, writes, acknowledgements and events, however the requests
\* interleave: one atomic change for each request of an admin, if any, and
\* answers and events that are true of it.
THEOREM DirectoryImplemented == UsersSpec => ImplementsDirectory
<1>1. UsersInit => UsersInv /\ UsersRest /\ AdminsWrite
  <2>1. UsersInit => \A t \in Tasks : tasks[t].at = "NEW"
    BY DEF UsersInit, Unmade
  <2> QED
    BY <2>1, UsersInvInit, UsersRestInit DEF AdminsWrite
<1>2. UsersInit => People!Init
  <2> SUFFICES ASSUME UsersInit PROVE People!Init
    OBVIOUS
  <2>1. PICK address \in Addresses :
          people = [id \in {FirstUser} |->
                      [email |-> address, role |-> "admin", hashed |-> TRUE]]
    BY DEF UsersInit
  <2>2. TableNow = [x \in {FirstUser} |-> address]
    BY <2>1 DEF TableNow
  <2>3. AdminsNow = {} /\ OutcomesNow = [t \in Tasks |-> "OPEN"]
    BY DEF UsersInit, AdminsNow, OutcomesNow, OutcomeOf, Unmade
  <2> QED
    BY <2>2, <2>3, UsersAssumption
    DEF UsersInit, People!Init, TableNow, AdminsNow, OutcomesNow
<1> QED
  BY <1>1, <1>2, UsersInvNext, UsersRestNext, AdminsWriteNext, DirectoryStep, PTL
  DEF UsersSpec, ImplementsDirectory, People!Spec

-----------------------------------------------------------------------------
(* Side by side: what is proved of a part holds of the whole.              *)

\* Registration, the endpoints and the queue share no state: a behaviour of the
\* three is a behaviour of each.
THEOREM AccountsAreTheirParts == AccountsSpec => Spec /\ UsersSpec /\ MailSpec
<1>1. AccountsInit => Init /\ UsersInit /\ MailInit
  BY DEF AccountsInit
<1>2. [AccountsNext]_<<part, vars, usersVars, mailVars>> =>
        [Next]_vars /\ [UsersNext]_usersVars /\ [MailNext]_mailVars
  BY DEF AccountsNext
<1> QED
  BY <1>1, <1>2, PTL DEF AccountsSpec, Spec, UsersSpec, MailSpec

\* Every part keeps its types, whichever of them runs.
THEOREM AccountsTypeCorrect == AccountsSpec => []AccountsTypeOK
<1>1. AccountsInit => part \in Parts
  BY DEF AccountsInit
<1>2. part \in Parts /\ [AccountsNext]_<<part, vars, usersVars, mailVars>> => (part \in Parts)'
  BY DEF AccountsNext
<1>3. AccountsSpec => [](part \in Parts)
  BY <1>1, <1>2, PTL DEF AccountsSpec
<1>4. part \in Parts /\ TypeOK /\ UsersTypeOK /\ MailTypeOK => AccountsTypeOK
  BY DEF AccountsTypeOK
<1> QED
  BY <1>3, <1>4, AccountsAreTheirParts, TypeCorrect, UsersTypeCorrect, MailTypeCorrect, PTL

\* Of registration, one row an address and no mail without its row; of the
\* queue, a completed job was sent, and once unless a process died with it; of
\* the endpoints, no event without its change and one deletion of a user:
\* always, whichever of the parts runs.
THEOREM AccountsAreCorrect ==
  AccountsSpec => []( /\ EmailsAreUnique /\ OnlyAccountsAreWelcomed
                      /\ CompletedMailWasSent /\ MailIsSentOnce
                      /\ EventsMatchChanges /\ DeletedOnce )
BY AccountsAreTheirParts, EmailsAreUniqueCorrect, OnlyAccountsAreWelcomedCorrect,
   CompletedMailWasSentCorrect, MailIsSentOnceCorrect, EventsMatchChangesCorrect,
   DeletedOnceCorrect, PTL

\* The promises to callers, one address one account and one change a request,
\* are those of the whole.
THEOREM AccountsKeepTheirPromises ==
  AccountsSpec => ImplementsRegistry /\ ImplementsDirectory
BY AccountsAreTheirParts, RegistryImplemented, DirectoryImplemented, PTL
=============================================================================
