------------------------------ MODULE Scheduler ------------------------------
(***************************************************************************)
(* SchedulerManager: cron jobs by name, and the runs of their wrapped      *)
(* tasks.  A run awaits its task and then waits 2^retries seconds before   *)
(* it tries again; nothing ends it when its job is stopped, replaced or    *)
(* removed, and nothing keeps the next tick from starting another.         *)
(*                                                                         *)
(* A name may be given to several CronJob objects in turn; crons[n] holds  *)
(* them in the order of their construction and jobs[n] says which of them  *)
(* the map has.  A pattern is due at any moment.  Abstracted: patterns,    *)
(* time zones, durations, and what becomes of the error that a run which   *)
(* gives up throws into cron's timer callback.                             *)
(***************************************************************************)
EXTENDS Integers, Sequences, FiniteSets

CONSTANTS
  JobNames,       \* names of jobs
  Defaults,    \* those that initializeDefaultJobs() adds ...
  AutoStart,   \* ... and among them those with startNow
  Slots,       \* bound: runs that may be in flight together
  RetryOptions,     \* values of options.maxRetries; 0 also stands for undefined
  MaxCrons,    \* bound: CronJob objects constructed for one name
  MaxRuns      \* bound: runs of one CronJob

ASSUME SchedulerAssumption ==
  /\ AutoStart \subseteq Defaults
  /\ Defaults \subseteq JobNames
  /\ IsFiniteSet(Slots)
  /\ RetryOptions \subseteq Nat
  /\ MaxCrons \in Nat \ {0}
  /\ MaxRuns \in Nat

VARIABLES
  schedulerOn,   \* the flag that initialize() reads
  crons,       \* CronJob objects by name: maxRetries, and whether they tick
  jobs,        \* the map: an index of crons[n] (0 if absent) and isRunning
  jobStats,       \* executionStats: runs so far, NoStats if absent
  runs,        \* the runs in flight
  book         \* history: runs the job has started and inherited

schedulerVars == <<schedulerOn, crons, jobs, jobStats, runs, book>>

NoJob == [cron |-> 0, isRunning |-> FALSE]
NoStats == -1
NoRun == [name |-> "NONE", cron |-> 0, retries |-> 0, at |-> "IDLE"]
Flying(n) == {s \in Slots : runs[s].at # "IDLE" /\ runs[s].name = n}

\* options.maxRetries || 3
MaxRetries(option) == IF option = 0 THEN 3 ELSE option

\* The fields of a SchedulerManager before initialize().
SchedulerInit ==
  /\ schedulerOn = FALSE
  /\ crons = [n \in JobNames |-> <<>>]
  /\ jobs = [n \in JobNames |-> NoJob]
  /\ jobStats = [n \in JobNames |-> NoStats]
  /\ runs = [s \in Slots |-> NoRun]
  /\ book = [n \in JobNames |-> [started |-> 0, inherited |-> 0]]

-----------------------------------------------------------------------------
(* The map of jobs.                                                        *)

Stopped(s, i) == IF i = 0 THEN s ELSE [s EXCEPT ![i].ticks = FALSE]

\* initialize(): the default jobs, each once.
InitializeScheduler(flag) ==
  /\ ~schedulerOn
  /\ \A n \in JobNames : crons[n] = <<>>
  /\ schedulerOn' = flag
  /\ LET added == IF flag THEN Defaults ELSE {} IN
     /\ crons' = [n \in JobNames |-> IF n \in added
          THEN <<[max |-> MaxRetries(0), ticks |-> n \in AutoStart]>> ELSE <<>>]
     /\ jobs' = [n \in JobNames |-> IF n \in added
          THEN [cron |-> 1, isRunning |-> FALSE] ELSE NoJob]
     /\ jobStats' = [n \in JobNames |-> IF n \in added THEN 0 ELSE NoStats]
  /\ UNCHANGED <<runs, book>>

\* addJob(): the old job of that name is stopped and removed first.
AddJob(n, option, startNow) ==
  /\ schedulerOn
  /\ Len(crons[n]) < MaxCrons
  /\ crons' = [crons EXCEPT ![n] =
       Append(Stopped(@, jobs[n].cron),
              [max |-> MaxRetries(option), ticks |-> startNow])]
  /\ jobs' = [jobs EXCEPT ![n] =
       [cron |-> Len(crons[n]) + 1, isRunning |-> FALSE]]
  /\ jobStats' = [jobStats EXCEPT ![n] = 0]
  /\ book' = [book EXCEPT ![n] =
       [started |-> 0, inherited |-> Cardinality(Flying(n))]]
  /\ UNCHANGED <<schedulerOn, runs>>

\* Mutant of RemoveJob: the timer is left behind.
RemoveJobOnly(n) ==
  /\ jobs[n] # NoJob
  /\ jobs' = [jobs EXCEPT ![n] = NoJob]
  /\ jobStats' = [jobStats EXCEPT ![n] = NoStats]
  /\ UNCHANGED <<schedulerOn, crons, runs, book>>

\* removeJob(); also an addJob() whose pattern CronJob refuses, which has
\* removed the old job by then.
RemoveJob(n) ==
  /\ jobs[n] # NoJob
  /\ crons' = [crons EXCEPT ![n] = Stopped(@, jobs[n].cron)]
  /\ jobs' = [jobs EXCEPT ![n] = NoJob]
  /\ jobStats' = [jobStats EXCEPT ![n] = NoStats]
  /\ UNCHANGED <<schedulerOn, runs, book>>

StartJob(n) ==
  /\ jobs[n] # NoJob
  /\ crons' = [crons EXCEPT ![n][jobs[n].cron].ticks = TRUE]
  /\ jobs' = [jobs EXCEPT ![n].isRunning = TRUE]
  /\ UNCHANGED <<schedulerOn, jobStats, runs, book>>

StopJob(n) ==
  /\ jobs[n] # NoJob
  /\ crons' = [crons EXCEPT ![n] = Stopped(@, jobs[n].cron)]
  /\ jobs' = [jobs EXCEPT ![n].isRunning = FALSE]
  /\ UNCHANGED <<schedulerOn, jobStats, runs, book>>

\* destroy(): every timer stops, no run does, and schedulerOn stays.
DestroyScheduler ==
  /\ crons' = [n \in JobNames |-> Stopped(crons[n], jobs[n].cron)]
  /\ jobs' = [n \in JobNames |-> NoJob]
  /\ jobStats' = [n \in JobNames |-> NoStats]
  /\ UNCHANGED <<schedulerOn, runs, book>>

-----------------------------------------------------------------------------
(* wrapTask(): the runs.                                                   *)

StartRun(s, n, i) ==
  /\ runs[s].at = "IDLE"
  /\ i = jobs[n].cron => book[n].started < MaxRuns
  /\ runs' = [runs EXCEPT
       ![s] = [name |-> n, cron |-> i, retries |-> 0, at |-> "TASK"]]
  /\ book' = IF i = jobs[n].cron THEN [book EXCEPT ![n].started = @ + 1]
                                 ELSE book
  /\ UNCHANGED <<schedulerOn, crons, jobs, jobStats>>

\* A timer fires.
CronTick(s, n) ==
  \E i \in DOMAIN crons[n] : crons[n][i].ticks /\ StartRun(s, n, i)

\* runJobNow(), whether the job ticks or not.
RunJobNow(s, n) == jobs[n] # NoJob /\ StartRun(s, n, jobs[n].cron)

\* updateExecutionStats(): by name, whatever job has it now.
UpdateStats(n) ==
  jobStats' = [jobStats EXCEPT ![n] = IF @ = NoStats THEN @ ELSE @ + 1]

TaskSucceeds(s) ==
  /\ runs[s].at = "TASK"
  /\ UpdateStats(runs[s].name)
  /\ runs' = [runs EXCEPT ![s] = NoRun]
  /\ UNCHANGED <<schedulerOn, crons, jobs, book>>

\* Mutants of TaskFails: every attempt enters the statistics; a failed attempt
\* is not counted; the limit is compared before the attempt is counted.
TaskFailsNoted(s) ==
  LET run == runs[s] IN
  /\ run.at = "TASK"
  /\ UpdateStats(run.name)
  /\ runs' = [runs EXCEPT ![s] =
       IF run.retries + 1 > crons[run.name][run.cron].max
         THEN NoRun ELSE [run EXCEPT !.retries = @ + 1, !.at = "BACKOFF"]]
  /\ UNCHANGED <<schedulerOn, crons, jobs, book>>

TaskFailsAgain(s) ==
  /\ runs[s].at = "TASK"
  /\ runs' = [runs EXCEPT ![s].at = "BACKOFF"]
  /\ UNCHANGED <<schedulerOn, crons, jobs, jobStats, book>>

TaskFailsOnceMore(s) ==
  LET run == runs[s] IN
  /\ run.at = "TASK"
  /\ IF run.retries > crons[run.name][run.cron].max
       THEN UpdateStats(run.name) /\ runs' = [runs EXCEPT ![s] = NoRun]
       ELSE /\ runs' = [runs EXCEPT
                 ![s].retries = @ + 1, ![s].at = "BACKOFF"]
            /\ UNCHANGED jobStats
  /\ UNCHANGED <<schedulerOn, crons, jobs, book>>

\* The task throws: another attempt later, or the run gives up.
TaskFails(s) ==
  LET run == runs[s] IN
  /\ run.at = "TASK"
  /\ IF run.retries + 1 > crons[run.name][run.cron].max
       THEN /\ UpdateStats(run.name)
            /\ runs' = [runs EXCEPT ![s] = NoRun]
       ELSE /\ runs' = [runs EXCEPT
                 ![s].retries = @ + 1, ![s].at = "BACKOFF"]
            /\ UNCHANGED jobStats
  /\ UNCHANGED <<schedulerOn, crons, jobs, book>>

BackoffEnds(s) ==
  /\ runs[s].at = "BACKOFF"
  /\ runs' = [runs EXCEPT ![s].at = "TASK"]
  /\ UNCHANGED <<schedulerOn, crons, jobs, jobStats, book>>

RunContinues(s) == TaskSucceeds(s) \/ TaskFails(s) \/ BackoffEnds(s)

\* POST /microservice/cron: no options, so neither startNow nor maxRetries.
AddCronJob(n) == AddJob(n, 0, FALSE)

\* POST /microservice/cron/:name/remove, which answers success either way.
RemoveCronJob(n) == RemoveJob(n)

SchedulerNext ==
  \/ \E flag \in BOOLEAN : InitializeScheduler(flag)
  \/ \E n \in JobNames :
       \/ \E option \in RetryOptions, startNow \in BOOLEAN :
            AddJob(n, option, startNow)
       \/ RemoveJob(n) \/ StartJob(n) \/ StopJob(n)
       \/ AddCronJob(n) \/ RemoveCronJob(n)
       \/ \E s \in Slots : CronTick(s, n) \/ RunJobNow(s, n)
  \/ DestroyScheduler
  \/ \E s \in Slots : RunContinues(s)

SchedulerSpec == SchedulerInit /\ [][SchedulerNext]_schedulerVars

\* Timers fire and tasks settle; nobody has to call the manager.
SchedulerFairness ==
  /\ \A n \in JobNames : WF_schedulerVars(\E s \in Slots : CronTick(s, n))
  /\ \A s \in Slots : WF_schedulerVars(RunContinues(s))

SchedulerFairSpec == SchedulerSpec /\ SchedulerFairness

-----------------------------------------------------------------------------
(* Properties.                                                             *)

\* Every variable keeps its type; a retry never exceeds its job's limit.
SchedulerTypeOK ==
  /\ schedulerOn \in BOOLEAN
  /\ crons \in [JobNames -> Seq([max : Nat \ {0}, ticks : BOOLEAN])]
  /\ jobs \in [JobNames -> [cron : Nat, isRunning : BOOLEAN]]
  /\ \A n \in JobNames : jobs[n].cron \in {0} \cup DOMAIN crons[n]
  /\ jobStats \in [JobNames -> Nat \cup {NoStats}]
  /\ runs \in [Slots -> [name : JobNames \cup {"NONE"}, cron : Nat,
                         retries : Nat, at : {"IDLE", "TASK", "BACKOFF"}]]
  /\ \A s \in Slots : runs[s].at # "IDLE" =>
       /\ runs[s].name \in JobNames
       /\ runs[s].cron \in DOMAIN crons[runs[s].name]
       /\ runs[s].retries <= crons[runs[s].name][runs[s].cron].max
  /\ book \in [JobNames -> [started : Nat, inherited : Nat]]

\* A timer ticks only for the job that the map has: one that addJob() replaced,
\* or that removeJob() and destroy() dropped, can no longer be stopped by anyone.
\* isRunning is never shown for a job that does not tick (the reverse happens:
\* startNow starts the timer and leaves the flag).
NoOrphanedTimers ==
  \A n \in JobNames :
    /\ \A i \in DOMAIN crons[n] : crons[n][i].ticks => jobs[n].cron = i
    /\ jobs[n].isRunning => crons[n][jobs[n].cron].ticks

\* Overlapping and retried runs are each counted once, in the job that has
\* their name: what its count holds beyond its own runs is what was in flight
\* when it took the name over.  A run that outlives a removed job does not
\* bring its statistics back.
RunsAreCountedOnce ==
  \A n \in JobNames :
    IF jobs[n] = NoJob
      THEN jobStats[n] = NoStats
      ELSE jobStats[n] + Cardinality(Flying(n))
             = book[n].started + book[n].inherited

\* A run ends: after maxRetries + 1 attempts at the latest.
RunsEnd == \A s \in Slots : runs[s].at # "IDLE" ~> runs[s].at = "IDLE"

-----------------------------------------------------------------------------
(* A statement of the documentation that the code does not meet.           *)

\* A job that was added runs (initializeDefaultJobs: "Daily at 2 AM").
JobsRun ==
  \A n \in JobNames :
    jobs[n] # NoJob ~> jobs[n] = NoJob \/ Flying(n) # {}
=============================================================================
