-------------------------------- MODULE Mail --------------------------------
(***************************************************************************)
(* EmailingService over BullMQService: a mail becomes a job in Redis, a    *)
(* worker takes it and hands it to the SMTP server.                        *)
(*                                                                         *)
(* main.ts creates AppModule twice, first for the HTTPS options and then   *)
(* for the application.  BullMQService closes nothing when its module is   *)
(* destroyed, so the worker of the first context goes on beside the        *)
(* second.  Jobs outlive the process.  Abstracted: the texts of the mails  *)
(* (the templates of UserEmailService), delays, and the removal of old     *)
(* jobs, which ended before.                                               *)
(***************************************************************************)
EXTENDS Naturals, FiniteSets

CONSTANTS
  Mails,         \* mails, each requested once
  MaxJobs,       \* bound: jobs in Redis
  AttemptLimits, \* options.attempts of POST /microservice/queue/job
  MaxRestarts    \* bound: restarts of the process

ASSUME MailAssumption ==
  AttemptLimits \subseteq Nat \ {0} /\ MaxJobs \in Nat /\ MaxRestarts \in Nat

VARIABLES
  enabled,    \* isEmailServiceEnabled
  context,    \* what the EmailingService of each context has
  reply,      \* what the caller of each mail knows
  attempts,   \* options.attempts of each mail
  jobs,       \* the jobs in Redis, by id
  work,       \* the job of the worker of each context, and how far it is
  copies,     \* history: how often the mail of a job reached the server
  restarts    \* history: restarts so far

mailVars == <<enabled, context, reply, attempts, jobs, work, copies, restarts>>

Contexts == {"options", "app"}
JobIds == 1..MaxJobs
Idle == [job |-> 0, at |-> "IDLE"]

MailInit ==
  /\ enabled \in BOOLEAN
  /\ context = [c \in Contexts |-> "DOWN"]
  /\ reply = [x \in Mails |-> "NONE"]
  /\ attempts = [x \in Mails |-> 1]
  /\ jobs = [j \in {} |-> 0]
  /\ work = [c \in Contexts |-> Idle]
  /\ copies = [j \in JobIds |-> 0]
  /\ restarts = 0

\* createWorker(), called by createQueue(): the constructor may throw, and the
\* queue is there without a worker.
CreateWorker == {"QUEUE", "WORKER"}

\* onModuleInit().  Without Redis there is no queue either; an SMTP server that
\* does not answer is only logged.  The second context has the settings of the
\* first, and fares like it.
MailStart(c) ==
  /\ context[c] = "DOWN"
  /\ c = "app" => context["options"] # "DOWN"
  /\ LET outcomes == {"OFF"} \cup (IF enabled THEN CreateWorker ELSE {})
         same == {context["options"]}
     IN context' \in {[context EXCEPT ![c] = has] :
                        has \in IF c = "app" THEN same ELSE outcomes}
  /\ UNCHANGED <<enabled, reply, attempts, jobs, work, copies, restarts>>

-----------------------------------------------------------------------------
(* The callers.                                                            *)

\* A mail is asked for, by the methods of UserEmailService with their texts or
\* by a job that is posted.
Arrives(x) == context["app"] # "DOWN" /\ reply[x] = "NONE"

\* queueEmail(): no options, one attempt.  Without a queue the mail is skipped,
\* and the caller gets null.
QueueEmail(x) ==
  /\ Arrives(x)
  /\ reply' = [reply EXCEPT ![x] =
       IF context["app"] = "OFF" THEN "SKIPPED" ELSE "ADDING"]
  /\ UNCHANGED <<enabled, context, attempts, jobs, work, copies, restarts>>

\* POST /microservice/queue/job passes its options on, and answers success for a
\* job that was skipped.
AddQueueJob(x) ==
  \E limit \in AttemptLimits :
    /\ Arrives(x)
    /\ attempts' = [attempts EXCEPT ![x] = limit]
    /\ reply' = [reply EXCEPT ![x] =
         IF context["app"] = "OFF" THEN "SKIPPED" ELSE "ADDING"]
    /\ UNCHANGED <<enabled, context, jobs, work, copies, restarts>>

Stored(x, left) ==
  jobs' = [j \in DOMAIN jobs \cup {Cardinality(DOMAIN jobs) + 1} |->
             IF j \in DOMAIN jobs THEN jobs[j] ELSE
               [mail |-> x, at |-> "WAITING", left |-> left, stalled |-> 0,
                holder |-> "NONE"]]

\* Mutant of AddJob: it asks for three attempts when the caller does not.
AddJobThrice(x) ==
  /\ reply[x] = "ADDING" /\ Cardinality(DOMAIN jobs) < MaxJobs
  /\ Stored(x, IF attempts[x] = 1 THEN 3 ELSE attempts[x])
  /\ reply' \in {[reply EXCEPT ![x] = known] : known \in {"QUEUED", "ADDING", "ERROR"}}
  /\ UNCHANGED <<enabled, context, attempts, work, copies, restarts>>

\* queue.add(): a connection that breaks before the answer makes the client send
\* the command again.
AddJob(x) ==
  /\ reply[x] = "ADDING" /\ Cardinality(DOMAIN jobs) < MaxJobs
  /\ Stored(x, attempts[x])
  /\ reply' \in {[reply EXCEPT ![x] = known] : known \in {"QUEUED", "ADDING", "ERROR"}}
  /\ UNCHANGED <<enabled, context, attempts, work, copies, restarts>>

AddFails(x) ==
  /\ reply[x] = "ADDING"
  /\ reply' = [reply EXCEPT ![x] = "ERROR"]
  /\ UNCHANGED <<enabled, context, attempts, jobs, work, copies, restarts>>

\* sendImmediateEmail(): no job; the server takes the mail, or the caller gets
\* the error.
SendImmediate(x) ==
  /\ Arrives(x)
  /\ reply' \in {[reply EXCEPT ![x] = known] :
       known \in IF enabled THEN {"SENT", "ERROR"} ELSE {"SKIPPED"}}
  /\ UNCHANGED <<enabled, context, attempts, jobs, work, copies, restarts>>

-----------------------------------------------------------------------------
(* The workers.                                                            *)

\* A worker takes one job at a time.
Take(c, j) ==
  /\ context[c] = "WORKER" /\ work[c] = Idle
  /\ jobs[j].at = "WAITING"
  /\ jobs' = [jobs EXCEPT ![j].at = "ACTIVE", ![j].holder = c]
  /\ work' = [work EXCEPT ![c] = [job |-> j, at |-> "SENDING"]]
  /\ UNCHANGED <<enabled, context, reply, attempts, copies, restarts>>

\* Mutant of SendEmail: the error is only logged.
SendEmailLogs(c) ==
  /\ work[c].at = "SENDING"
  /\ \E arrives \in BOOLEAN :
       /\ work' = [work EXCEPT ![c].at = "SENT"]
       /\ copies' = [copies EXCEPT ![work[c].job] = @ + (IF arrives THEN 1 ELSE 0)]
  /\ UNCHANGED <<enabled, context, reply, attempts, jobs, restarts>>

\* processEmailJob() awaits sendEmail(), and rethrows.  The server may have
\* taken the mail although the call fails.
SendEmail(c) ==
  /\ work[c].at = "SENDING"
  /\ \E arrives, ok \in BOOLEAN :
       /\ ok => arrives
       /\ work' = [work EXCEPT ![c].at = IF ok THEN "SENT" ELSE "THROWN"]
       /\ copies' = [copies EXCEPT ![work[c].job] = @ + (IF arrives THEN 1 ELSE 0)]
  /\ UNCHANGED <<enabled, context, reply, attempts, jobs, restarts>>

\* Redis lets a job go.
Release(j, at, left, stalled) ==
  jobs' = [jobs EXCEPT ![j] =
    [mail |-> @.mail, at |-> at, left |-> left, stalled |-> stalled, holder |-> "NONE"]]

\* Mutant of Finish: a mail that was refused is queued again.
FinishAgain(c) ==
  LET j == work[c].job IN
  /\ work[c].at \in {"SENT", "THROWN"}
  /\ IF jobs[j].holder # c THEN UNCHANGED jobs
     ELSE Release(j, IF work[c].at = "SENT" THEN "COMPLETED" ELSE "WAITING",
                  jobs[j].left, jobs[j].stalled)
  /\ work' = [work EXCEPT ![c] = Idle]
  /\ UNCHANGED <<enabled, context, reply, attempts, copies, restarts>>

\* The worker reports; Redis ignores one that no longer holds the job.
Finish(c) ==
  LET j == work[c].job IN
  /\ work[c].at \in {"SENT", "THROWN"}
  /\ IF jobs[j].holder # c THEN UNCHANGED jobs
     ELSE Release(j, IF work[c].at = "SENT" THEN "COMPLETED"
                     ELSE IF jobs[j].left = 1 THEN "FAILED" ELSE "WAITING",
                  jobs[j].left - 1, jobs[j].stalled)
  /\ work' = [work EXCEPT ![c] = Idle]
  /\ UNCHANGED <<enabled, context, reply, attempts, copies, restarts>>

\* A worker finds an active job whose lock has expired: its process stopped, or
\* could not renew the lock.  It is taken back once.
TakeBack(c, j) ==
  /\ context[c] = "WORKER"
  /\ jobs[j].at = "ACTIVE"
  /\ Release(j, IF jobs[j].stalled = 0 THEN "WAITING" ELSE "FAILED", jobs[j].left, 1)
  /\ UNCHANGED <<enabled, context, reply, attempts, work, copies, restarts>>

\* The process stops; the next one may have another setting.
MailCrash ==
  /\ restarts < MaxRestarts
  /\ restarts' = restarts + 1
  /\ enabled' \in BOOLEAN
  /\ context' = [c \in Contexts |-> "DOWN"]
  /\ work' = [c \in Contexts |-> Idle]
  /\ reply' = [x \in Mails |-> IF reply[x] = "ADDING" THEN "ERROR" ELSE reply[x]]
  /\ UNCHANGED <<attempts, jobs, copies>>

Working(c) ==
  \/ SendEmail(c) \/ Finish(c)
  \/ \E j \in DOMAIN jobs : Take(c, j)

\* A worker takes back a job that nobody works on.
Unlock(c) ==
  \E j \in DOMAIN jobs : (\A d \in Contexts : work[d].job # j) /\ TakeBack(c, j)

MailNext ==
  \/ \E x \in Mails : QueueEmail(x) \/ AddQueueJob(x) \/ AddJob(x)
                        \/ AddFails(x) \/ SendImmediate(x)
  \/ \E c \in Contexts :
       MailStart(c) \/ Working(c) \/ \E j \in DOMAIN jobs : TakeBack(c, j)
  \/ MailCrash

\* A worker goes on; the SMTP client has time limits.  Expired locks are looked
\* for every 30 seconds.
MailFairness ==
  \A c \in Contexts :
    /\ WF_mailVars(Working(c))
    /\ WF_mailVars(Unlock(c))

MailSpec == MailInit /\ [][MailNext]_mailVars
MailFairSpec == MailSpec /\ MailFairness

-----------------------------------------------------------------------------
(* Properties.                                                             *)

Jobs == [mail : Mails, left : Nat, stalled : 0..1, holder : Contexts \cup {"NONE"},
         at : {"WAITING", "ACTIVE", "COMPLETED", "FAILED"}]

\* Every variable keeps its type.
MailTypeOK ==
  /\ enabled \in BOOLEAN
  /\ context \in [Contexts -> {"DOWN", "OFF", "QUEUE", "WORKER"}]
  /\ reply \in [Mails -> {"NONE", "SKIPPED", "ADDING", "QUEUED", "ERROR", "SENT"}]
  /\ attempts \in [Mails -> AttemptLimits \cup {1}]
  /\ DOMAIN jobs \subseteq JobIds /\ \A j \in DOMAIN jobs : jobs[j] \in Jobs
  /\ work \in [Contexts -> [job : JobIds \cup {0},
                            at : {"IDLE", "SENDING", "SENT", "THROWN"}]]
  /\ copies \in [JobIds -> Nat]
  /\ restarts \in 0..MaxRestarts

\* A job is only completed when the server has taken its mail, whatever the
\* settings of the processes that stored it and that ran it.
CompletedMailWasSent ==
  \A j \in DOMAIN jobs : jobs[j].at = "COMPLETED" => copies[j] > 0

\* A job hands its mail over once for each attempt that its caller asked for,
\* and once more if it was taken back: welcome mails are not repeated by an SMTP
\* error.
MailIsSentOnce ==
  \A j \in DOMAIN jobs : copies[j] <= attempts[jobs[j].mail] + jobs[j].stalled

Ended(j) == j \in DOMAIN jobs /\ jobs[j].at \in {"COMPLETED", "FAILED"}

\* When a worker stays up, every job ends.
QueuedMailEnds ==
  (\E c \in Contexts : <>[](context[c] = "WORKER")) =>
    \A j \in JobIds : j \in DOMAIN jobs ~> Ended(j)
=============================================================================
