--------------------------- MODULE ServicesProofs ---------------------------
(***************************************************************************)
(* The parts of Services for any jobs, keys, clients, runners and bounds:  *)
(* no timer of the scheduler is lost and each run is counted once, the     *)
(* cache keeps its bound, what is stored is whole, what is recorded of the *)
(* migrations was built, the streaming status catches up, and a healthy    *)
(* answer is about servers that were up.                                   *)
(***************************************************************************)
EXTENDS Services, TransportsProofs, HybridWorkflowProofs, SequenceTheorems,
        FiniteSetTheorems, TLAPS

-----------------------------------------------------------------------------
(* Scheduler: a timer ticks for the job of the map only.                   *)

Crons == [max : Nat \ {0}, ticks : BOOLEAN]

\* What is true of the timers and the job of one name.
JobHasItsTimer(cs, job) ==
  /\ cs \in Seq(Crons)
  /\ job \in [cron : Nat, isRunning : BOOLEAN]
  /\ job.cron \in {0} \cup DOMAIN cs
  /\ job.cron = 0 => ~job.isRunning
  /\ \A i \in DOMAIN cs : cs[i].ticks => job.cron = i
  /\ job.isRunning => cs[job.cron].ticks

TimersInv ==
  /\ crons \in [JobNames -> Seq(Crons)]
  /\ jobs \in [JobNames -> [cron : Nat, isRunning : BOOLEAN]]
  /\ \A n \in JobNames : JobHasItsTimer(crons[n], jobs[n])

LEMMA TimersInvInit == SchedulerInit => TimersInv
BY DEF SchedulerInit, TimersInv, JobHasItsTimer, NoJob

LEMMA OneJobChanges ==
  ASSUME TimersInv, NEW n \in JobNames, NEW cs, NEW job, JobHasItsTimer(cs, job),
         crons' = [crons EXCEPT ![n] = cs], jobs' = [jobs EXCEPT ![n] = job]
  PROVE  TimersInv'
<1>1. cs \in Seq(Crons) /\ job \in [cron : Nat, isRunning : BOOLEAN]
  BY DEF JobHasItsTimer
<1>2. /\ crons' \in [JobNames -> Seq(Crons)]
      /\ jobs' \in [JobNames -> [cron : Nat, isRunning : BOOLEAN]]
      /\ crons'[n] = cs /\ jobs'[n] = job
      /\ \A m \in JobNames : m # n => crons'[m] = crons[m] /\ jobs'[m] = jobs[m]
  BY <1>1 DEF TimersInv
<1>3. ASSUME NEW m \in JobNames PROVE JobHasItsTimer(crons'[m], jobs'[m])
  <2>1. CASE m = n
    BY <1>2, <2>1
  <2>2. CASE m # n
    BY <1>2, <2>2 DEF TimersInv
  <2> QED
    BY <2>1, <2>2
<1> QED
  BY <1>2, <1>3 DEF TimersInv

\* CronJob.stop() of the job that the map has leaves no timer of that name ticking.
LEMMA NoneTicks ==
  ASSUME NEW cs, NEW job, JobHasItsTimer(cs, job)
  PROVE  /\ Stopped(cs, job.cron) \in Seq(Crons)
         /\ Len(Stopped(cs, job.cron)) = Len(cs)
         /\ \A i \in 1..Len(cs) : Stopped(cs, job.cron)[i].ticks = FALSE
<1>1. cs \in Seq(Crons) /\ Len(cs) \in Nat /\ DOMAIN cs = 1..Len(cs)
  BY LenProperties DEF JobHasItsTimer
<1>2. CASE job.cron = 0
  BY <1>1, <1>2, ElementOfSeq DEF JobHasItsTimer, Stopped, Crons
<1>3. CASE job.cron # 0
  <2>1. PICK i \in 1..Len(cs) : i = job.cron
    BY <1>1, <1>3 DEF JobHasItsTimer
  <2>2. PICK off \in Crons : off = [cs[i] EXCEPT !.ticks = FALSE] /\ off.ticks = FALSE
    <3>1. cs[i] \in Crons
      BY <1>1, <2>1, ElementOfSeq
    <3> DEFINE stopped == [cs[i] EXCEPT !.ticks = FALSE]
    <3>2. stopped \in Crons
      BY <3>1 DEF Crons
    <3>3. stopped.ticks = FALSE
      BY <3>1 DEF Crons
    <3> WITNESS stopped \in Crons
    <3> QED
      BY <3>3
  <2>3. Stopped(cs, job.cron) = [cs EXCEPT ![i] = off]
    BY <1>3, <2>1, <2>2 DEF Stopped
  <2>4. /\ [cs EXCEPT ![i] = off] \in Seq(Crons)
        /\ Len([cs EXCEPT ![i] = off]) = Len(cs)
        /\ \A j \in 1..Len(cs) : [cs EXCEPT ![i] = off][j] = IF j = i THEN off ELSE cs[j]
    BY <1>1, ExceptSeq
  <2>5. \A j \in 1..Len(cs) : j # i => cs[j].ticks = FALSE
    BY <1>1, <2>1, ElementOfSeq DEF JobHasItsTimer, Crons
  <2> QED
    BY <2>2, <2>3, <2>4, <2>5
<1> QED
  BY <1>2, <1>3

LEMMA AddJobStep ==
  ASSUME TimersInv, NEW n \in JobNames, NEW option \in Nat, NEW startNow \in BOOLEAN,
         AddJob(n, option, startNow)
  PROVE  TimersInv'
<1> DEFINE old == Stopped(crons[n], jobs[n].cron)
           new == [max |-> MaxRetries(option), ticks |-> startNow]
           job == [cron |-> Len(crons[n]) + 1, isRunning |-> FALSE]
<1>1. /\ JobHasItsTimer(crons[n], jobs[n]) /\ new \in Crons /\ new.ticks = startNow
      /\ Len(crons[n]) \in Nat
  BY LenProperties DEF TimersInv, Crons, MaxRetries
<1>2. /\ old \in Seq(Crons) /\ Len(old) = Len(crons[n])
      /\ \A i \in 1..Len(crons[n]) : old[i].ticks = FALSE
  BY <1>1, NoneTicks
<1>3. crons' = [crons EXCEPT ![n] = Append(old, new)] /\ jobs' = [jobs EXCEPT ![n] = job]
  BY DEF AddJob, TimersInv
<1> HIDE DEF old, new
<1>4. /\ Append(old, new) \in Seq(Crons) /\ Len(Append(old, new)) = Len(crons[n]) + 1
      /\ \A i \in 1..Len(crons[n]) : Append(old, new)[i] = old[i]
  BY <1>1, <1>2, AppendProperties
<1>5. DOMAIN Append(old, new) = 1..Len(crons[n]) + 1
  BY <1>4, LenProperties
<1>6. JobHasItsTimer(Append(old, new), job)
  BY <1>1, <1>2, <1>4, <1>5 DEF JobHasItsTimer
<1> QED
  BY <1>3, <1>6, OneJobChanges

LEMMA StopStep ==
  ASSUME TimersInv, NEW n \in JobNames, RemoveJob(n) \/ StopJob(n)
  PROVE  TimersInv'
<1> DEFINE old == Stopped(crons[n], jobs[n].cron)
<1>1. JobHasItsTimer(crons[n], jobs[n])
  BY DEF TimersInv
<1>2. /\ old \in Seq(Crons) /\ DOMAIN old = DOMAIN crons[n]
      /\ \A i \in DOMAIN old : old[i].ticks = FALSE
  <2>1. /\ old \in Seq(Crons) /\ Len(old) = Len(crons[n])
        /\ \A i \in 1..Len(crons[n]) : old[i].ticks = FALSE
    BY <1>1, NoneTicks
  <2>2. DOMAIN old = 1..Len(old) /\ DOMAIN crons[n] = 1..Len(crons[n])
    BY <2>1, LenProperties DEF TimersInv
  <2> QED
    BY <2>1, <2>2
<1>3. crons' = [crons EXCEPT ![n] = old]
  BY DEF RemoveJob, StopJob
<1>4. PICK job : /\ jobs' = [jobs EXCEPT ![n] = job]
                 /\ job \in [cron : Nat, isRunning : BOOLEAN]
                 /\ job.isRunning = FALSE /\ job.cron \in {0, jobs[n].cron}
  <2>1. CASE RemoveJob(n)
    <3>1. jobs' = [jobs EXCEPT ![n] = NoJob]
      BY <2>1 DEF RemoveJob
    <3>2. NoJob \in [cron : Nat, isRunning : BOOLEAN] /\ NoJob.isRunning = FALSE
            /\ NoJob.cron = 0
      BY DEF NoJob
    <3> QED
      BY <3>1, <3>2
  <2>2. CASE StopJob(n)
    <3> DEFINE job == [jobs[n] EXCEPT !.isRunning = FALSE]
    <3>1. jobs' = [jobs EXCEPT ![n] = job]
      BY <2>2 DEF StopJob
    <3>2. job \in [cron : Nat, isRunning : BOOLEAN] /\ job.isRunning = FALSE
            /\ job.cron = jobs[n].cron
      BY <1>1 DEF JobHasItsTimer
    <3> QED
      BY <3>1, <3>2
  <2> QED
    BY <2>1, <2>2
<1> HIDE DEF old
<1>5. JobHasItsTimer(old, job)
  BY <1>1, <1>2, <1>4 DEF JobHasItsTimer
<1> QED
  BY <1>3, <1>4, <1>5, OneJobChanges

LEMMA StartJobStep ==
  ASSUME TimersInv, NEW n \in JobNames, StartJob(n)
  PROVE  TimersInv'
<1>1. JobHasItsTimer(crons[n], jobs[n]) /\ jobs[n] # NoJob
  BY DEF TimersInv, StartJob
<1>2. jobs[n].cron # 0
  BY <1>1 DEF JobHasItsTimer, NoJob
<1>3. PICK i \in 1..Len(crons[n]) : i = jobs[n].cron
  <2>1. DOMAIN crons[n] = 1..Len(crons[n])
    BY <1>1, LenProperties DEF JobHasItsTimer
  <2> QED
    BY <1>1, <1>2, <2>1 DEF JobHasItsTimer
<1>4. PICK on \in Crons : on = [crons[n][i] EXCEPT !.ticks = TRUE] /\ on.ticks = TRUE
  <2>1. crons[n][i] \in Crons
    BY <1>1, <1>3, ElementOfSeq DEF JobHasItsTimer
  <2> DEFINE started == [crons[n][i] EXCEPT !.ticks = TRUE]
  <2>2. started \in Crons
    BY <2>1 DEF Crons
  <2>3. started.ticks = TRUE
    BY <2>1 DEF Crons
  <2> WITNESS started \in Crons
  <2> QED
    BY <2>3
<1>5. PICK cs : cs = [crons[n] EXCEPT ![i] = on]
  OBVIOUS
<1>6. /\ cs \in Seq(Crons) /\ DOMAIN cs = DOMAIN crons[n] /\ i \in DOMAIN cs
      /\ cs[i] = on /\ \A j \in DOMAIN cs : j # i => cs[j] = crons[n][j]
  BY <1>1, <1>3, <1>5, ExceptSeq, LenProperties DEF JobHasItsTimer
<1>7. PICK job : job = [jobs[n] EXCEPT !.isRunning = TRUE]
  OBVIOUS
<1>8. job \in [cron : Nat, isRunning : BOOLEAN] /\ job.cron = i
  <2>1. jobs[n] \in [cron : Nat, isRunning : BOOLEAN]
    BY <1>1 DEF JobHasItsTimer
  <2> QED
    BY <1>3, <1>7, <2>1
<1>9. crons' = [crons EXCEPT ![n] = cs] /\ jobs' = [jobs EXCEPT ![n] = job]
  BY <1>3, <1>4, <1>5, <1>7 DEF StartJob
<1>10. JobHasItsTimer(cs, job)
  <2>1. \A j \in DOMAIN cs : cs[j].ticks => i = j
    BY <1>1, <1>3, <1>6 DEF JobHasItsTimer
  <2>2. cs[job.cron].ticks
    BY <1>4, <1>6, <1>8
  <2>3. job.cron # 0
    BY <1>3, <1>8
  <2> QED
    BY <1>6, <1>8, <2>1, <2>2, <2>3 DEF JobHasItsTimer
<1> QED
  BY <1>9, <1>10, OneJobChanges

LEMMA InitializeStep ==
  ASSUME TimersInv, NEW flag \in BOOLEAN, InitializeScheduler(flag)
  PROVE  TimersInv'
<1> DEFINE added == IF flag THEN Defaults ELSE {}
           cs(n) == IF n \in added
             THEN <<[max |-> MaxRetries(0), ticks |-> n \in AutoStart]>> ELSE <<>>
           job(n) == IF n \in added THEN [cron |-> 1, isRunning |-> FALSE] ELSE NoJob
<1>1. crons' = [n \in JobNames |-> cs(n)] /\ jobs' = [n \in JobNames |-> job(n)]
  BY DEF InitializeScheduler
<1>2. ASSUME NEW n PROVE JobHasItsTimer(cs(n), job(n))
  <2>1. [max |-> MaxRetries(0), ticks |-> n \in AutoStart] \in Crons
    BY DEF MaxRetries, Crons
  <2>2. CASE n \in added
    <3>1. PICK cron \in Crons : cs(n) = <<cron>>
      BY <2>1, <2>2
    <3>2. <<cron>> \in Seq(Crons) /\ DOMAIN <<cron>> = {1}
      OBVIOUS
    <3>3. job(n) = [cron |-> 1, isRunning |-> FALSE]
      BY <2>2
    <3> QED
      BY <3>1, <3>2, <3>3 DEF JobHasItsTimer
  <2>3. CASE n \notin added
    BY <2>3 DEF JobHasItsTimer, NoJob
  <2> QED
    BY <2>2, <2>3
<1> HIDE DEF cs, job
<1>3. ASSUME NEW n \in JobNames
      PROVE  cs(n) \in Seq(Crons) /\ job(n) \in [cron : Nat, isRunning : BOOLEAN]
  BY <1>2 DEF JobHasItsTimer
<1> QED
  BY <1>1, <1>2, <1>3 DEF TimersInv

LEMMA DestroyStep ==
  ASSUME TimersInv, DestroyScheduler
  PROVE  TimersInv'
<1>1. /\ crons' = [n \in JobNames |-> Stopped(crons[n], jobs[n].cron)]
      /\ jobs' = [n \in JobNames |-> NoJob]
  BY DEF DestroyScheduler
<1>2. ASSUME NEW n \in JobNames
      PROVE  crons'[n] \in Seq(Crons) /\ JobHasItsTimer(crons'[n], NoJob)
  <2>1. JobHasItsTimer(crons[n], jobs[n]) /\ crons'[n] = Stopped(crons[n], jobs[n].cron)
    BY <1>1 DEF TimersInv
  <2>2. PICK cs : cs = Stopped(crons[n], jobs[n].cron)
    OBVIOUS
  <2>3. /\ cs \in Seq(Crons) /\ Len(cs) = Len(crons[n])
        /\ \A i \in 1..Len(crons[n]) : cs[i].ticks = FALSE
    BY <2>1, <2>2, NoneTicks
  <2>4. DOMAIN cs = 1..Len(cs)
    BY <2>3, LenProperties
  <2> QED
    BY <2>1, <2>2, <2>3, <2>4 DEF JobHasItsTimer, NoJob
<1> QED
  BY <1>1, <1>2 DEF TimersInv, NoJob

LEMMA TimersInvNext == TimersInv /\ [SchedulerNext]_schedulerVars => TimersInv'
<1> SUFFICES ASSUME TimersInv, [SchedulerNext]_schedulerVars PROVE TimersInv'
  OBVIOUS
<1>1. ASSUME NEW flag \in BOOLEAN, InitializeScheduler(flag) PROVE TimersInv'
  BY <1>1, InitializeStep
<1>2. ASSUME NEW n \in JobNames, NEW option \in RetryOptions, NEW startNow \in BOOLEAN,
             AddJob(n, option, startNow)
      PROVE  TimersInv'
  BY <1>2, SchedulerAssumption, AddJobStep
<1>3. ASSUME NEW n \in JobNames, AddCronJob(n) PROVE TimersInv'
  BY <1>3, AddJobStep DEF AddCronJob
<1>4. ASSUME NEW n \in JobNames, RemoveJob(n) \/ StopJob(n) \/ RemoveCronJob(n)
      PROVE  TimersInv'
  BY <1>4, StopStep DEF RemoveCronJob
<1>5. ASSUME NEW n \in JobNames, StartJob(n) PROVE TimersInv'
  BY <1>5, StartJobStep
<1>6. CASE UNCHANGED <<crons, jobs>>
  BY <1>6 DEF TimersInv
<1>7. ASSUME NEW n \in JobNames, NEW s \in Slots, CronTick(s, n) \/ RunJobNow(s, n)
      PROVE  TimersInv'
  BY <1>6, <1>7 DEF CronTick, RunJobNow, StartRun
<1>8. ASSUME NEW s \in Slots, RunContinues(s) PROVE TimersInv'
  BY <1>6, <1>8 DEF RunContinues, TaskSucceeds, TaskFails, BackoffEnds
<1>9. CASE DestroyScheduler
  BY <1>9, DestroyStep
<1>10. CASE UNCHANGED schedulerVars
  BY <1>6, <1>10 DEF schedulerVars
<1> QED
  BY <1>1, <1>2, <1>3, <1>4, <1>5, <1>7, <1>8, <1>9, <1>10 DEF SchedulerNext

THEOREM TimersInvariance == SchedulerSpec => []TimersInv
BY TimersInvInit, TimersInvNext, PTL DEF SchedulerSpec

\* However often jobs are added, replaced, started, stopped and removed, no timer
\* goes on that nobody can stop.
THEOREM NoOrphanedTimersCorrect == SchedulerSpec => []NoOrphanedTimers
<1>1. TimersInv => NoOrphanedTimers
  BY DEF TimersInv, JobHasItsTimer, NoOrphanedTimers
<1> QED
  BY <1>1, TimersInvariance, PTL

-----------------------------------------------------------------------------
(* Scheduler: each run is counted once.                                    *)

Runs == [name : JobNames \cup {"NONE"}, cron : Nat, retries : Nat,
         at : {"IDLE", "TASK", "BACKOFF"}]

\* A run is one of a CronJob that was made, and has retried no more than that allows.
RunFits(cs, run) ==
  run.at # "IDLE" =>
    /\ run.name \in JobNames
    /\ run.cron \in DOMAIN cs[run.name]
    /\ run.retries <= cs[run.name][run.cron].max

FliesAs(run, n) == run.at # "IDLE" /\ run.name = n
Weight(run, n) == IF FliesAs(run, n) THEN 1 ELSE 0
InFlight(rs, n) == Cardinality({s \in Slots : FliesAs(rs[s], n)})

\* What is true of the statistics of one name, when `flying` runs have it.
Counted(job, stats, flying, b) ==
  IF job = NoJob
    THEN stats = NoStats
    ELSE stats \in Nat /\ stats + flying = b.started + b.inherited

CountsInv ==
  /\ schedulerOn \in BOOLEAN
  /\ jobStats \in [JobNames -> Nat \cup {NoStats}]
  /\ runs \in [Slots -> Runs]
  /\ book \in [JobNames -> [started : Nat, inherited : Nat]]
  /\ \A s \in Slots : RunFits(crons, runs[s])
  /\ \A n \in JobNames : crons[n] = <<>> => book[n] = [started |-> 0, inherited |-> 0]
  /\ \A n \in JobNames : Counted(jobs[n], jobStats[n], InFlight(runs, n), book[n])

\* One run more or less: the runs of a name are those of the other slots, and it.
LEMMA InFlightChanges ==
  ASSUME NEW rs \in [Slots -> Runs], NEW s \in Slots, NEW new \in Runs, NEW n
  PROVE  \E others \in Nat :
           /\ InFlight(rs, n) = others + Weight(rs[s], n)
           /\ InFlight([rs EXCEPT ![s] = new], n)
                = others + Weight(new, n)
<1> DEFINE rest == {t \in Slots : t # s /\ FliesAs(rs[t], n)}
           after == [rs EXCEPT ![s] = new]
<1>1. IsFiniteSet(rest) /\ Cardinality(rest) \in Nat /\ s \notin rest
  BY SchedulerAssumption, FS_Subset, FS_CardinalityType
<1>2. Cardinality(rest \cup {s}) = Cardinality(rest) + 1
  BY <1>1, FS_AddElement
<1>3. {t \in Slots : FliesAs(rs[t], n)} = IF FliesAs(rs[s], n) THEN rest \cup {s} ELSE rest
  OBVIOUS
<1>4. {t \in Slots : FliesAs(after[t], n)} = IF FliesAs(new, n) THEN rest \cup {s} ELSE rest
  <2>1. after[s] = new /\ \A t \in Slots : t # s => after[t] = rs[t]
    OBVIOUS
  <2> HIDE DEF after
  <2> QED
    BY <2>1
<1> HIDE DEF rest, after
<1>5. /\ InFlight(rs, n) = Cardinality(rest) + Weight(rs[s], n)
      /\ InFlight(after, n) = Cardinality(rest) + Weight(new, n)
  <2>1. /\ InFlight(rs, n) = IF FliesAs(rs[s], n) THEN Cardinality(rest) + 1
                                                   ELSE Cardinality(rest)
        /\ InFlight(after, n) = IF FliesAs(new, n) THEN Cardinality(rest) + 1
                                                   ELSE Cardinality(rest)
    BY <1>2, <1>3, <1>4 DEF InFlight
  <2> QED
    BY <1>1, <2>1 DEF Weight
<1>6. PICK others \in Nat : others = Cardinality(rest)
  BY <1>1
<1> QED
  BY <1>5, <1>6 DEF after

LEMMA InFlightType == ASSUME NEW rs, NEW n PROVE InFlight(rs, n) \in Nat
BY SchedulerAssumption, FS_Subset, FS_CardinalityType DEF InFlight

LEMMA NoneInFlight ==
  ASSUME NEW rs, NEW n, \A s \in Slots : ~FliesAs(rs[s], n)
  PROVE  InFlight(rs, n) = 0
BY FS_EmptySet DEF InFlight

\* The CronJobs of a name stay, with their limits, whatever becomes of the timers.
Grows(cs, after) ==
  \A i \in DOMAIN cs : i \in DOMAIN after /\ after[i].max = cs[i].max

LEMMA RunsGoOn ==
  ASSUME CountsInv, TimersInv, UNCHANGED runs,
         \A n \in JobNames : Grows(crons[n], crons'[n])
  PROVE  \A s \in Slots : RunFits(crons', runs'[s])
BY DEF CountsInv, Grows, RunFits

\* CronJob.stop() leaves the limits as they are.
LEMMA StoppedGrows ==
  ASSUME NEW cs, NEW job, JobHasItsTimer(cs, job)
  PROVE  Grows(cs, Stopped(cs, job.cron))
<1>1. cs \in Seq(Crons) /\ Len(cs) \in Nat /\ DOMAIN cs = 1..Len(cs)
  BY LenProperties DEF JobHasItsTimer
<1>2. CASE job.cron = 0
  BY <1>2 DEF Stopped, Grows
<1>3. CASE job.cron # 0
  <2>1. PICK i \in DOMAIN cs : i = job.cron
    BY <1>3 DEF JobHasItsTimer
  <2>2. PICK off : off = [cs[i] EXCEPT !.ticks = FALSE]
    OBVIOUS
  <2>3. off.max = cs[i].max
    <3>1. cs[i] \in Crons
      BY <1>1, <2>1, ElementOfSeq
    <3> QED
      BY <2>2, <3>1 DEF Crons
  <2>4. Stopped(cs, job.cron) = [cs EXCEPT ![i] = off]
    BY <1>3, <2>1, <2>2 DEF Stopped
  <2> QED
    BY <2>3, <2>4 DEF Grows
<1> QED
  BY <1>2, <1>3

\* addJob() gives the name a CronJob more, and changes no limit.
LEMMA AddJobGrows ==
  ASSUME TimersInv, NEW n \in JobNames, NEW option \in Nat,
         NEW startNow \in BOOLEAN, AddJob(n, option, startNow)
  PROVE  \A m \in JobNames : Grows(crons[m], crons'[m]) /\ (m = n => crons'[m] # <<>>)
<1> DEFINE old == Stopped(crons[n], jobs[n].cron)
           new == [max |-> MaxRetries(option), ticks |-> startNow]
<1>1. JobHasItsTimer(crons[n], jobs[n])
  BY DEF TimersInv
<1>2. old \in Seq(Crons) /\ Len(old) = Len(crons[n]) /\ Len(old) \in Nat
  BY <1>1, NoneTicks, LenProperties DEF JobHasItsTimer
<1>3. Grows(crons[n], old)
  BY <1>1, StoppedGrows
<1>4. crons' = [crons EXCEPT ![n] = Append(old, new)]
  BY DEF AddJob
<1>5. new \in Crons
  BY DEF Crons, MaxRetries
<1> HIDE DEF old, new
<1>6. /\ Append(old, new) \in Seq(Crons) /\ Len(Append(old, new)) = Len(old) + 1
      /\ \A i \in 1..Len(old) : Append(old, new)[i] = old[i]
  BY <1>2, <1>5, AppendProperties
<1>7. DOMAIN Append(old, new) = 1..Len(old) + 1 /\ DOMAIN old = 1..Len(old)
  BY <1>2, <1>6, LenProperties
<1>8. Append(old, new) # <<>>
  <2>1. Len(Append(old, new)) # 0
    BY <1>2, <1>6
  <2> QED
    BY <1>6, <2>1, EmptySeq
<1>9. Grows(old, Append(old, new))
  BY <1>2, <1>6, <1>7 DEF Grows
<1>10. Grows(crons[n], Append(old, new))
  BY <1>3, <1>9 DEF Grows
<1> QED
  BY <1>4, <1>8, <1>10 DEF TimersInv, Grows

LEMMA MapOfJobsGrows ==
  ASSUME TimersInv, NEW n \in JobNames, RemoveJob(n) \/ StopJob(n) \/ StartJob(n)
  PROVE  \A m \in JobNames : Grows(crons[m], crons'[m])
<1>1. JobHasItsTimer(crons[n], jobs[n]) /\ jobs[n] # NoJob
  BY DEF TimersInv, RemoveJob, StopJob, StartJob
<1>2. CASE RemoveJob(n) \/ StopJob(n)
  <2>1. crons' = [crons EXCEPT ![n] = Stopped(crons[n], jobs[n].cron)]
    BY <1>2 DEF RemoveJob, StopJob
  <2> QED
    BY <1>1, <2>1, StoppedGrows DEF TimersInv, Grows
<1>3. CASE StartJob(n)
  <2>1. PICK i \in DOMAIN crons[n] : i = jobs[n].cron
    BY <1>1 DEF JobHasItsTimer, NoJob
  <2>2. PICK on : on = [crons[n][i] EXCEPT !.ticks = TRUE]
    OBVIOUS
  <2>3. on.max = crons[n][i].max
    <3>1. crons[n][i] \in Crons
      BY <1>1, ElementOfSeq, LenProperties DEF JobHasItsTimer
    <3> QED
      BY <2>2, <3>1 DEF Crons
  <2>4. crons' = [crons EXCEPT ![n] = [crons[n] EXCEPT ![i] = on]]
    BY <1>3, <2>1, <2>2 DEF StartJob, TimersInv
  <2> QED
    BY <2>3, <2>4 DEF TimersInv, Grows
<1> QED
  BY <1>2, <1>3

\* The operations on the map of jobs.
LEMMA CountsAddJob ==
  ASSUME CountsInv, TimersInv, NEW n \in JobNames, NEW option \in Nat,
         NEW startNow \in BOOLEAN, AddJob(n, option, startNow)
  PROVE  CountsInv'
<1> DEFINE old == Stopped(crons[n], jobs[n].cron)
           new == [max |-> MaxRetries(option), ticks |-> startNow]
<1>1. JobHasItsTimer(crons[n], jobs[n])
  BY DEF TimersInv
<1>2. /\ crons[n] \in Seq(Crons) /\ old \in Seq(Crons) /\ Len(old) = Len(crons[n])
      /\ Len(old) \in Nat
  BY <1>1, NoneTicks, LenProperties DEF JobHasItsTimer
<1>4. /\ crons' = [crons EXCEPT ![n] = Append(old, new)]
      /\ jobs' = [jobs EXCEPT ![n] = [cron |-> Len(crons[n]) + 1, isRunning |-> FALSE]]
      /\ jobStats' = [jobStats EXCEPT ![n] = 0]
      /\ book' = [book EXCEPT ![n] =
                    [started |-> 0, inherited |-> Cardinality(Flying(n))]]
      /\ UNCHANGED <<schedulerOn, runs>>
  BY DEF AddJob
<1>5. Cardinality(Flying(n)) = InFlight(runs, n) /\ InFlight(runs, n) \in Nat
  BY InFlightType DEF Flying, FliesAs, InFlight
<1>6. \A m \in JobNames : Grows(crons[m], crons'[m]) /\ (m = n => crons'[m] # <<>>)
  BY AddJobGrows
<1> HIDE DEF old, new
<1>7. crons'[n] # <<>> /\ \A m \in JobNames : Grows(crons[m], crons'[m])
  BY <1>6
<1>8. \A s \in Slots : RunFits(crons', runs'[s])
  BY <1>4, <1>7, RunsGoOn
<1>9. ASSUME NEW m \in JobNames
      PROVE  /\ crons'[m] = <<>> => book'[m] = [started |-> 0, inherited |-> 0]
             /\ Counted(jobs'[m], jobStats'[m], InFlight(runs', m), book'[m])
  <2>1. CASE m = n
    <3>1. /\ crons'[m] # <<>> /\ jobStats'[m] = 0 /\ jobs'[m] # NoJob
          /\ book'[m] = [started |-> 0, inherited |-> InFlight(runs, n)]
      BY <1>2, <1>4, <1>5, <1>7, <2>1 DEF CountsInv, TimersInv, NoJob
    <3>2. InFlight(runs', m) = InFlight(runs, n)
      BY <1>4, <2>1
    <3> QED
      BY <1>5, <3>1, <3>2 DEF Counted
  <2>2. CASE m # n
    BY <1>4, <2>2 DEF CountsInv, TimersInv
  <2> QED
    BY <2>1, <2>2
<1>10. /\ jobStats' \in [JobNames -> Nat \cup {NoStats}]
       /\ book' \in [JobNames -> [started : Nat, inherited : Nat]]
  BY <1>4, <1>5 DEF CountsInv
<1> QED
  BY <1>4, <1>8, <1>9, <1>10 DEF CountsInv

\* What leaves the runs and the books as they are.
LEMMA CountsKept ==
  ASSUME CountsInv, TimersInv, UNCHANGED <<schedulerOn, runs, book>>,
         \A n \in JobNames : Grows(crons[n], crons'[n]),
         jobStats' \in [JobNames -> Nat \cup {NoStats}],
         \A n \in JobNames :
           \/ jobs'[n] = NoJob /\ jobStats'[n] = NoStats
           \/ jobStats'[n] = jobStats[n] /\ (jobs'[n] = NoJob <=> jobs[n] = NoJob)
  PROVE  CountsInv'
<1>1. \A s \in Slots : RunFits(crons', runs'[s])
  BY RunsGoOn
<1>2. ASSUME NEW n \in JobNames, crons'[n] = <<>> PROVE crons[n] = <<>>
  <2>1. crons[n] \in Seq(Crons) /\ DOMAIN crons[n] = {}
    BY <1>2 DEF TimersInv, Grows
  <2>2. PICK k \in Nat : k = Len(crons[n]) /\ DOMAIN crons[n] = 1..k
    BY <2>1, LenProperties
  <2>3. k = 0
    <3>1. 1..k = {}
      BY <2>1, <2>2
    <3>2. k # 0 => 1 \in 1..k
      OBVIOUS
    <3> QED
      BY <3>1, <3>2
  <2> QED
    BY <2>1, <2>2, <2>3, EmptySeq
<1>3. ASSUME NEW n \in JobNames
      PROVE  Counted(jobs'[n], jobStats'[n], InFlight(runs', n), book'[n])
  <2>1. Counted(jobs[n], jobStats[n], InFlight(runs, n), book[n])
    BY DEF CountsInv
  <2>2. InFlight(runs', n) = InFlight(runs, n) /\ book'[n] = book[n]
    OBVIOUS
  <2> QED
    BY <2>1, <2>2 DEF Counted
<1> QED
  BY <1>1, <1>2, <1>3 DEF CountsInv

LEMMA CountsMapOfJobs ==
  ASSUME CountsInv, TimersInv,
         NEW n \in JobNames, RemoveJob(n) \/ StopJob(n) \/ StartJob(n)
  PROVE  CountsInv'
<1>1. JobHasItsTimer(crons[n], jobs[n]) /\ jobs[n] # NoJob
  BY DEF TimersInv, RemoveJob, StopJob, StartJob
<1>2. jobs[n].cron # 0 /\ jobs[n] \in [cron : Nat, isRunning : BOOLEAN]
  BY <1>1 DEF JobHasItsTimer, NoJob
<1>3. CASE RemoveJob(n)
  <2>1. /\ crons' = [crons EXCEPT ![n] = Stopped(crons[n], jobs[n].cron)]
        /\ jobs' = [jobs EXCEPT ![n] = NoJob]
        /\ jobStats' = [jobStats EXCEPT ![n] = NoStats]
        /\ UNCHANGED <<schedulerOn, runs, book>>
    BY <1>3 DEF RemoveJob
  <2>2. \A m \in JobNames : Grows(crons[m], crons'[m])
    BY <1>3, MapOfJobsGrows
  <2>3. jobStats' \in [JobNames -> Nat \cup {NoStats}]
    BY <2>1 DEF CountsInv
  <2>4. \A m \in JobNames :
           \/ jobs'[m] = NoJob /\ jobStats'[m] = NoStats
           \/ jobStats'[m] = jobStats[m] /\ (jobs'[m] = NoJob <=> jobs[m] = NoJob)
    BY <2>1 DEF CountsInv, TimersInv
  <2> QED
    BY <2>1, <2>2, <2>3, <2>4, CountsKept
<1>4. CASE StopJob(n) \/ StartJob(n)
  <2>1. /\ UNCHANGED <<schedulerOn, runs, book, jobStats>>
        /\ \A m \in JobNames : m # n => crons'[m] = crons[m] /\ jobs'[m] = jobs[m]
    BY <1>4 DEF StopJob, StartJob, TimersInv
  <2>2. jobs'[n] # NoJob
    <3>1. PICK job : jobs' = [jobs EXCEPT ![n] = job] /\ job.cron = jobs[n].cron
      <4> DEFINE stopped == [jobs[n] EXCEPT !.isRunning = FALSE]
                 started == [jobs[n] EXCEPT !.isRunning = TRUE]
      <4>1. stopped.cron = jobs[n].cron /\ started.cron = jobs[n].cron
        BY <1>2
      <4>2. jobs' = [jobs EXCEPT ![n] = stopped] \/ jobs' = [jobs EXCEPT ![n] = started]
        BY <1>4 DEF StopJob, StartJob
      <4> QED
        BY <4>1, <4>2
    <3> QED
      BY <1>2, <3>1 DEF TimersInv, NoJob
  <2>4. \A m \in JobNames : Grows(crons[m], crons'[m])
    BY <1>4, MapOfJobsGrows
  <2>5. jobStats' \in [JobNames -> Nat \cup {NoStats}]
    BY <2>1 DEF CountsInv
  <2> QED
    BY <1>1, <2>1, <2>2, <2>4, <2>5, CountsKept
<1> QED
  BY <1>3, <1>4

LEMMA CountsDestroy ==
  ASSUME CountsInv, TimersInv, DestroyScheduler
  PROVE  CountsInv'
<1>1. ASSUME NEW n \in JobNames PROVE Grows(crons[n], crons'[n])
  BY StoppedGrows DEF TimersInv, DestroyScheduler
<1>2. /\ UNCHANGED <<schedulerOn, runs, book>>
      /\ jobStats' \in [JobNames -> Nat \cup {NoStats}]
      /\ \A n \in JobNames : jobs'[n] = NoJob /\ jobStats'[n] = NoStats
  BY DEF DestroyScheduler
<1> QED
  BY <1>1, <1>2, CountsKept

\* Before initialize() nothing runs, so what it counts starts at nothing.
LEMMA CountsInitialize ==
  ASSUME CountsInv, TimersInv, NEW flag \in BOOLEAN, InitializeScheduler(flag)
  PROVE  CountsInv'
<1> DEFINE added == IF flag THEN Defaults ELSE {}
<1>1. /\ jobs' = [n \in JobNames |-> IF n \in added
           THEN [cron |-> 1, isRunning |-> FALSE] ELSE NoJob]
      /\ jobStats' = [n \in JobNames |-> IF n \in added THEN 0 ELSE NoStats]
      /\ schedulerOn' \in BOOLEAN /\ UNCHANGED <<runs, book>>
      /\ \A n \in JobNames : crons[n] = <<>>
  BY DEF InitializeScheduler
<1>2. ASSUME NEW s \in Slots PROVE runs[s].at = "IDLE"
  BY <1>1 DEF CountsInv, RunFits
<1>3. \A n : InFlight(runs', n) = 0
  BY <1>1, <1>2, NoneInFlight DEF FliesAs
<1>4. \A n \in JobNames : book'[n] = [started |-> 0, inherited |-> 0]
  BY <1>1 DEF CountsInv
<1>5. jobStats' \in [JobNames -> Nat \cup {NoStats}]
  BY <1>1
<1>6. ASSUME NEW n \in JobNames
      PROVE  Counted(jobs'[n], jobStats'[n], InFlight(runs', n), book'[n])
  <2>1. CASE n \in added
    <3>1. jobs'[n] # NoJob /\ jobStats'[n] = 0
      BY <1>1, <2>1 DEF NoJob
    <3> QED
      BY <1>3, <1>4, <3>1 DEF Counted
  <2>2. CASE n \notin added
    BY <1>1, <2>2 DEF Counted
  <2> QED
    BY <2>1, <2>2
<1> HIDE DEF added
<1>7. \A s \in Slots : RunFits(crons', runs'[s])
  BY <1>1, <1>2 DEF RunFits
<1> QED
  BY <1>1, <1>4, <1>5, <1>6, <1>7 DEF CountsInv

\* A run that comes, goes on or ends in a slot.
LEMMA CountsOneRun ==
  ASSUME CountsInv, TimersInv, UNCHANGED <<schedulerOn, crons, jobs>>,
         NEW s \in Slots, NEW new \in Runs, RunFits(crons, new),
         runs' = [runs EXCEPT ![s] = new],
         jobStats' \in [JobNames -> Nat \cup {NoStats}],
         book' \in [JobNames -> [started : Nat, inherited : Nat]],
         \A n \in JobNames : book'[n] = book[n] \/ crons[n] # <<>>,
         \A n \in JobNames :
           Counted(jobs[n], jobStats'[n],
                   InFlight([runs EXCEPT ![s] = new], n), book'[n])
  PROVE  CountsInv'
<1>1. runs' \in [Slots -> Runs] /\ \A t \in Slots : RunFits(crons', runs'[t])
  BY DEF CountsInv
<1>2. \A n \in JobNames : crons'[n] = <<>> => book'[n] = [started |-> 0, inherited |-> 0]
  BY DEF CountsInv
<1>3. \A n \in JobNames : Counted(jobs'[n], jobStats'[n], InFlight(runs', n), book'[n])
  OBVIOUS
<1> QED
  BY <1>1, <1>2, <1>3 DEF CountsInv

LEMMA CountsStartRun ==
  ASSUME CountsInv, TimersInv, NEW s \in Slots, NEW n \in JobNames,
         NEW i \in DOMAIN crons[n], StartRun(s, n, i),
         jobs[n] # NoJob => i = jobs[n].cron
  PROVE  CountsInv'
<1>0. PICK new : new = [name |-> n, cron |-> i, retries |-> 0, at |-> "TASK"]
  OBVIOUS
<1>1. /\ JobHasItsTimer(crons[n], jobs[n]) /\ crons[n] \in Seq(Crons)
      /\ i \in Nat \ {0} /\ crons[n][i] \in Crons /\ crons[n] # <<>>
  BY LenProperties, ElementOfSeq DEF TimersInv
<1>2. new \in Runs /\ FliesAs(new, n) /\ \A m : m # n => ~FliesAs(new, m)
  BY <1>0, <1>1 DEF Runs, FliesAs
<1>3. RunFits(crons, new)
  BY <1>0, <1>1 DEF RunFits, Crons
<1>4. \A m : ~FliesAs(runs[s], m)
  BY DEF StartRun, FliesAs
<1>5. /\ runs' = [runs EXCEPT ![s] = new]
      /\ book' = IF i = jobs[n].cron THEN [book EXCEPT ![n].started = @ + 1] ELSE book
      /\ UNCHANGED <<schedulerOn, crons, jobs, jobStats>>
  BY <1>0 DEF StartRun
<1>6. ASSUME NEW m \in JobNames
      PROVE  Counted(jobs[m], jobStats[m], InFlight([runs EXCEPT ![s] = new], m), book'[m])
  <2>1. PICK others \in Nat :
           /\ InFlight(runs, m) = others
           /\ InFlight([runs EXCEPT ![s] = new], m)
                = others + Weight(new, m)
    <3>1. PICK others \in Nat :
             /\ InFlight(runs, m) = others + Weight(runs[s], m)
             /\ InFlight([runs EXCEPT ![s] = new], m) = others + Weight(new, m)
      <4>1. runs \in [Slots -> Runs]
        BY DEF CountsInv
      <4>2. new \in Runs
        BY <1>2
      <4>3. \E others \in Nat :
             /\ InFlight(runs, m) = others + Weight(runs[s], m)
             /\ InFlight([runs EXCEPT ![s] = new], m) = others + Weight(new, m)
        BY ONLY <4>1, <4>2, s \in Slots, InFlightChanges
      <4> QED
        BY <4>3
    <3>2. Weight(runs[s], m) = 0
      BY <1>4 DEF Weight
    <3> QED
      BY <3>1, <3>2
  <2>2. Counted(jobs[m], jobStats[m], others, book[m])
    BY <2>1 DEF CountsInv
  <2>3. CASE m # n
    BY <1>2, <1>5, <2>1, <2>2, <2>3 DEF CountsInv, Weight
  <2>4. CASE m = n /\ jobs[m] = NoJob
    BY <2>2, <2>4 DEF Counted
  <2>5. CASE m = n /\ jobs[m] # NoJob
    <3>1. /\ book'[m].started = book[m].started + 1
          /\ book'[m].inherited = book[m].inherited
          /\ book[m].started \in Nat /\ book[m].inherited \in Nat
      BY <1>5, <2>5 DEF CountsInv
    <3>2. InFlight([runs EXCEPT ![s] = new], m) = others + 1
      BY <1>2, <2>1, <2>5 DEF Weight
    <3>3. jobStats[m] \in Nat /\ jobStats[m] + others = book[m].started + book[m].inherited
      BY <2>2, <2>5 DEF Counted
    <3>4. jobStats[m] + (others + 1) = book'[m].started + book'[m].inherited
      BY <3>1, <3>3
    <3> QED
      BY <2>5, <3>2, <3>3, <3>4 DEF Counted
  <2> QED
    BY <2>3, <2>4, <2>5
<1>7. /\ book' \in [JobNames -> [started : Nat, inherited : Nat]]
      /\ \A m \in JobNames : book'[m] = book[m] \/ crons[m] # <<>>
  <2>1. PICK b \in [started : Nat, inherited : Nat] :
          book' = [book EXCEPT ![n] = b] \/ book' = book
    <3> DEFINE more == [book[n] EXCEPT !.started = @ + 1]
    <3>1. more \in [started : Nat, inherited : Nat]
      BY DEF CountsInv
    <3>2. book' = [book EXCEPT ![n] = more] \/ book' = book
      BY <1>5
    <3> QED
      BY <3>1, <3>2
  <2> QED
    BY <1>1, <2>1 DEF CountsInv
<1> QED
  BY <1>2, <1>3, <1>5, <1>6, <1>7, CountsOneRun DEF CountsInv

\* A run that goes on without leaving its slot.
LEMMA CountsRunGoesOn ==
  ASSUME CountsInv, TimersInv, UNCHANGED <<schedulerOn, crons, jobs, jobStats, book>>,
         NEW s \in Slots, runs[s].at # "IDLE",
         NEW new \in Runs, RunFits(crons, new), new.at # "IDLE",
         new.name = runs[s].name, runs' = [runs EXCEPT ![s] = new]
  PROVE  CountsInv'
<1>1. ASSUME NEW n \in JobNames
      PROVE  Counted(jobs[n], jobStats'[n],
                     InFlight([runs EXCEPT ![s] = new], n), book'[n])
  <2>1. FliesAs(runs[s], n) <=> FliesAs(new, n)
    BY DEF FliesAs
  <2>2. InFlight([runs EXCEPT ![s] = new], n) = InFlight(runs, n)
    <3>1. runs \in [Slots -> Runs]
      BY DEF CountsInv
    <3>2. PICK others \in Nat :
             /\ InFlight(runs, n) = others + Weight(runs[s], n)
             /\ InFlight([runs EXCEPT ![s] = new], n)
                  = others + Weight(new, n)
      BY <3>1, InFlightChanges
    <3> QED
      BY <2>1, <3>2 DEF Weight
  <2>3. Counted(jobs[n], jobStats[n], InFlight(runs, n), book[n])
    BY DEF CountsInv
  <2> QED
    BY <2>2, <2>3
<1> QED
  BY <1>1, CountsOneRun DEF CountsInv

\* A run that ends enters the statistics of its name.
LEMMA CountsRunEnds ==
  ASSUME CountsInv, TimersInv, UNCHANGED <<schedulerOn, crons, jobs, book>>,
         NEW s \in Slots, runs[s].at # "IDLE", UpdateStats(runs[s].name),
         runs' = [runs EXCEPT ![s] = NoRun]
  PROVE  CountsInv'
<1>1. PICK n \in JobNames : n = runs[s].name
  BY DEF CountsInv, RunFits
<1>2. /\ FliesAs(runs[s], n) /\ \A m : m # n => ~FliesAs(runs[s], m)
      /\ \A m : ~FliesAs(NoRun, m)
  BY <1>1 DEF FliesAs, NoRun
<1>3. NoRun \in Runs /\ RunFits(crons, NoRun)
  BY DEF NoRun, Runs, RunFits
<1>4. jobStats' = [jobStats EXCEPT ![n] = IF jobStats[n] = NoStats THEN jobStats[n]
                                                                   ELSE jobStats[n] + 1]
  BY <1>1 DEF UpdateStats
<1>5. jobStats' \in [JobNames -> Nat \cup {NoStats}]
  BY <1>4 DEF CountsInv
<1>6. ASSUME NEW m \in JobNames
      PROVE  Counted(jobs[m], jobStats'[m], InFlight([runs EXCEPT ![s] = NoRun], m), book[m])
  <2>1. PICK others \in Nat :
           /\ InFlight(runs, m) = others + Weight(runs[s], m)
           /\ InFlight([runs EXCEPT ![s] = NoRun], m) = others
    <3>1. runs \in [Slots -> Runs]
      BY DEF CountsInv
    <3>2. PICK others \in Nat :
             /\ InFlight(runs, m) = others + Weight(runs[s], m)
             /\ InFlight([runs EXCEPT ![s] = NoRun], m)
                  = others + Weight(NoRun, m)
      BY <1>3, <3>1, InFlightChanges
    <3> QED
      BY <1>2, <3>2 DEF Weight
  <2>2. Counted(jobs[m], jobStats[m], InFlight(runs, m), book[m])
    BY DEF CountsInv
  <2>3. CASE m # n
    BY <1>2, <1>4, <2>1, <2>2, <2>3 DEF CountsInv, Weight
  <2>4. CASE m = n /\ jobs[m] = NoJob
    BY <1>4, <2>2, <2>4 DEF Counted, CountsInv
  <2>5. CASE m = n /\ jobs[m] # NoJob
    <3>1. /\ jobStats[m] \in Nat
          /\ jobStats[m] + (others + 1) = book[m].started + book[m].inherited
      BY <1>2, <2>1, <2>2, <2>5 DEF Counted, Weight
    <3>2. book[m].started + book[m].inherited \in Nat
      BY DEF CountsInv
    <3>3. jobStats'[m] = jobStats[m] + 1
      BY <1>4, <2>5, <3>1 DEF CountsInv, NoStats
    <3>4. jobStats'[m] + others = book[m].started + book[m].inherited
      BY <3>1, <3>2, <3>3
    <3> QED
      BY <2>1, <2>5, <3>1, <3>3, <3>4 DEF Counted
  <2> QED
    BY <2>3, <2>4, <2>5
<1> QED
  BY <1>3, <1>5, <1>6, CountsOneRun DEF CountsInv

LEMMA CountsTask ==
  ASSUME CountsInv, TimersInv, NEW s \in Slots, TaskSucceeds(s) \/ TaskFails(s)
  PROVE  CountsInv'
<1> DEFINE run == runs[s]
<1>1. /\ run \in Runs /\ run.at = "TASK" /\ RunFits(crons, run)
      /\ UNCHANGED <<schedulerOn, crons, jobs, book>>
  BY DEF CountsInv, TaskSucceeds, TaskFails
<1>2. CASE UpdateStats(run.name) /\ runs' = [runs EXCEPT ![s] = NoRun]
  BY <1>1, <1>2, CountsRunEnds
<1>3. CASE /\ ~(run.retries + 1 > crons[run.name][run.cron].max)
           /\ runs' = [runs EXCEPT ![s].retries = @ + 1, ![s].at = "BACKOFF"]
           /\ UNCHANGED jobStats
  <2>1. PICK tried \in Nat : tried = run.retries + 1
    BY <1>1 DEF Runs
  <2>2. PICK new : /\ new = [run EXCEPT !.retries = tried, !.at = "BACKOFF"]
                   /\ runs' = [runs EXCEPT ![s] = new]
    BY <1>3, <2>1 DEF CountsInv
  <2>6. /\ new \in Runs /\ new.at = "BACKOFF" /\ new.name = run.name
        /\ new.cron = run.cron /\ new.retries = run.retries + 1
    BY <1>1, <2>1, <2>2 DEF Runs
  <2>3. PICK max \in Nat : max = crons[run.name][run.cron].max
    <3>1. run.name \in JobNames /\ run.cron \in DOMAIN crons[run.name]
      BY <1>1 DEF RunFits
    <3>2. crons[run.name][run.cron] \in Crons
      BY <3>1, ElementOfSeq, LenProperties DEF TimersInv
    <3> QED
      BY <3>2 DEF Crons
  <2>4. run.retries + 1 <= max
    BY <1>1, <1>3, <2>3 DEF Runs
  <2>5. RunFits(crons, new)
    BY <1>1, <2>6, <2>3, <2>4 DEF RunFits
  <2> QED
    BY <1>1, <1>3, <2>2, <2>5, <2>6, CountsRunGoesOn
<1>4. CASE TaskSucceeds(s)
  BY <1>2, <1>4 DEF TaskSucceeds
<1>5. CASE TaskFails(s)
  BY <1>2, <1>3, <1>5 DEF TaskFails
<1> QED
  BY <1>4, <1>5

LEMMA CountsBackoffEnds ==
  ASSUME CountsInv, TimersInv, NEW s \in Slots, BackoffEnds(s)
  PROVE  CountsInv'
<1>1. /\ runs[s] \in Runs /\ runs[s].at = "BACKOFF" /\ RunFits(crons, runs[s])
      /\ UNCHANGED <<schedulerOn, crons, jobs, jobStats, book>>
  BY DEF CountsInv, BackoffEnds
<1>2. PICK new : new = [runs[s] EXCEPT !.at = "TASK"]
  OBVIOUS
<1>3. /\ new \in Runs /\ new.at = "TASK" /\ new.name = runs[s].name
      /\ new.cron = runs[s].cron /\ new.retries = runs[s].retries
  BY <1>1, <1>2 DEF Runs
<1>4. RunFits(crons, new) /\ runs' = [runs EXCEPT ![s] = new]
  BY <1>1, <1>2, <1>3 DEF RunFits, BackoffEnds
<1> QED
  BY <1>1, <1>3, <1>4, CountsRunGoesOn

LEMMA CountsInvNext ==
  CountsInv /\ TimersInv /\ [SchedulerNext]_schedulerVars => CountsInv'
<1> SUFFICES ASSUME CountsInv, TimersInv, [SchedulerNext]_schedulerVars PROVE CountsInv'
  OBVIOUS
<1>1. ASSUME NEW flag \in BOOLEAN, InitializeScheduler(flag) PROVE CountsInv'
  BY <1>1, CountsInitialize
<1>2. ASSUME NEW n \in JobNames, NEW option \in RetryOptions, NEW startNow \in BOOLEAN,
             AddJob(n, option, startNow)
      PROVE  CountsInv'
  BY <1>2, SchedulerAssumption, CountsAddJob
<1>3. ASSUME NEW n \in JobNames, AddCronJob(n) PROVE CountsInv'
  BY <1>3, CountsAddJob DEF AddCronJob
<1>4. ASSUME NEW n \in JobNames,
             RemoveJob(n) \/ StartJob(n) \/ StopJob(n) \/ RemoveCronJob(n)
      PROVE  CountsInv'
  BY <1>4, CountsMapOfJobs DEF RemoveCronJob
<1>5. ASSUME NEW n \in JobNames, NEW s \in Slots, CronTick(s, n) PROVE CountsInv'
  <2>1. PICK i \in DOMAIN crons[n] : crons[n][i].ticks /\ StartRun(s, n, i)
    BY <1>5 DEF CronTick
  <2>2. jobs[n].cron = i
    BY <2>1 DEF TimersInv, JobHasItsTimer
  <2> QED
    BY <2>1, <2>2, CountsStartRun
<1>6. ASSUME NEW n \in JobNames, NEW s \in Slots, RunJobNow(s, n) PROVE CountsInv'
  <2>1. jobs[n] # NoJob /\ StartRun(s, n, jobs[n].cron)
    BY <1>6 DEF RunJobNow
  <2>2. jobs[n].cron \in DOMAIN crons[n]
    BY <2>1 DEF TimersInv, JobHasItsTimer, NoJob
  <2> QED
    BY <2>1, <2>2, CountsStartRun
<1>7. CASE DestroyScheduler
  BY <1>7, CountsDestroy
<1>8. ASSUME NEW s \in Slots, RunContinues(s) PROVE CountsInv'
  BY <1>8, CountsTask, CountsBackoffEnds DEF RunContinues
<1>9. CASE UNCHANGED schedulerVars
  BY <1>9 DEF schedulerVars, CountsInv
<1> QED
  BY <1>1, <1>2, <1>3, <1>4, <1>5, <1>6, <1>7, <1>8, <1>9 DEF SchedulerNext

THEOREM CountsInvariance == SchedulerSpec => [](TimersInv /\ CountsInv)
<1>1. SchedulerInit => CountsInv
  <2> SUFFICES ASSUME SchedulerInit PROVE CountsInv
    OBVIOUS
  <2>1. \A s \in Slots : runs[s] = NoRun
    BY DEF SchedulerInit
  <2>2. runs \in [Slots -> Runs]
    BY DEF SchedulerInit, NoRun, Runs
  <2>3. \A s \in Slots : RunFits(crons, runs[s])
    BY <2>1 DEF NoRun, RunFits
  <2>4. schedulerOn \in BOOLEAN
    BY DEF SchedulerInit
  <2> QED
    BY <2>2, <2>3, <2>4 DEF SchedulerInit, CountsInv, Counted
<1> QED
  BY <1>1, TimersInvInit, TimersInvNext, CountsInvNext, PTL DEF SchedulerSpec

\* The scheduler keeps its types, and no run retries more than its job allows.
THEOREM SchedulerTypeCorrect == SchedulerSpec => []SchedulerTypeOK
<1>1. TimersInv /\ CountsInv => SchedulerTypeOK
  BY DEF TimersInv, JobHasItsTimer, CountsInv, SchedulerTypeOK, Crons, Runs, RunFits
<1> QED
  BY <1>1, CountsInvariance, PTL

\* However runs overlap, retry and outlive their jobs, each is counted once, in
\* the job that has its name.
THEOREM RunsAreCountedOnceCorrect == SchedulerSpec => []RunsAreCountedOnce
<1>1. ASSUME CountsInv PROVE RunsAreCountedOnce
  <2>1. ASSUME NEW n \in JobNames
        PROVE  IF jobs[n] = NoJob THEN jobStats[n] = NoStats
               ELSE jobStats[n] + InFlight(runs, n) = book[n].started + book[n].inherited
    BY <1>1 DEF CountsInv, Counted
  <2>2. ASSUME NEW n \in JobNames PROVE Cardinality(Flying(n)) = InFlight(runs, n)
    BY DEF Flying, FliesAs, InFlight
  <2> QED
    BY <2>1, <2>2 DEF RunsAreCountedOnce
<1> QED
  BY <1>1, CountsInvariance, PTL

-----------------------------------------------------------------------------
(* Scheduler: the steps of a run are counted, which RunsEnd rests on.      *)

\* The steps of a run of a job with this limit until it has ended: an attempt,
\* and before it a wait, for each retry that is left to it.
RunSteps(run, max) ==
  IF run.at = "IDLE" THEN 0
  ELSE 2 * (max - run.retries) + (IF run.at = "TASK" THEN 1 ELSE 2)

LimitOf(cs, run) == cs[run.name][run.cron].max
RunStepsLeft(s) == RunSteps(runs[s], LimitOf(crons, runs[s]))

\* Nothing but initialize(), before which nothing runs, touches the limits.
LEMMA CronsGrow ==
  ASSUME CountsInv, TimersInv, SchedulerNext
  PROVE  \/ \A s \in Slots : runs[s].at = "IDLE"
         \/ \A m \in JobNames : Grows(crons[m], crons'[m])
<1>1. ASSUME NEW flag \in BOOLEAN, InitializeScheduler(flag), NEW s \in Slots
      PROVE  runs[s].at = "IDLE"
  BY <1>1 DEF InitializeScheduler, CountsInv, RunFits
<1>2. CASE \E n \in JobNames :
             \/ \E option \in RetryOptions, startNow \in BOOLEAN : AddJob(n, option, startNow)
             \/ AddCronJob(n)
  <2>1. PICK n \in JobNames, option \in Nat, startNow \in BOOLEAN :
               AddJob(n, option, startNow)
    BY <1>2, SchedulerAssumption DEF AddCronJob
  <2> QED
    BY <2>1, AddJobGrows
<1>3. ASSUME NEW n \in JobNames, RemoveJob(n) \/ StartJob(n) \/ StopJob(n) \/ RemoveCronJob(n)
      PROVE  \A m \in JobNames : Grows(crons[m], crons'[m])
  BY <1>3, MapOfJobsGrows DEF RemoveCronJob
<1>4. CASE DestroyScheduler
  BY <1>4, StoppedGrows DEF TimersInv, DestroyScheduler
<1>5. CASE UNCHANGED crons
  BY <1>5 DEF Grows
<1>6. ASSUME NEW n \in JobNames, NEW s \in Slots, CronTick(s, n) \/ RunJobNow(s, n)
      PROVE  UNCHANGED crons
  BY <1>6 DEF CronTick, RunJobNow, StartRun
<1>7. ASSUME NEW s \in Slots, RunContinues(s) PROVE UNCHANGED crons
  BY <1>7 DEF RunContinues, TaskSucceeds, TaskFails, BackoffEnds
<1> QED
  BY <1>1, <1>2, <1>3, <1>4, <1>5, <1>6, <1>7 DEF SchedulerNext

\* A run in flight has a limit, and keeps it.
LEMMA LimitIsFixed ==
  ASSUME CountsInv, TimersInv, NEW s \in Slots, runs[s].at # "IDLE",
         \A n \in JobNames : Grows(crons[n], crons'[n])
  PROVE  \E max \in Nat : /\ LimitOf(crons, runs[s]) = max
                          /\ LimitOf(crons', runs[s]) = max
                          /\ runs[s].retries \in 0..max
<1>1. /\ runs[s] \in Runs /\ runs[s].name \in JobNames
      /\ runs[s].cron \in DOMAIN crons[runs[s].name]
      /\ runs[s].retries <= LimitOf(crons, runs[s])
  BY DEF CountsInv, RunFits, LimitOf
<1>2. crons[runs[s].name][runs[s].cron] \in Crons
  BY <1>1, ElementOfSeq, LenProperties DEF TimersInv
<1>3. PICK max \in Nat : max = LimitOf(crons, runs[s])
  BY <1>2 DEF Crons, LimitOf
<1>4. LimitOf(crons', runs[s]) = max
  BY <1>1, <1>3 DEF Grows, LimitOf
<1>5. runs[s].retries \in 0..max
  BY <1>1, <1>3 DEF Runs
<1> QED
  BY <1>3, <1>4, <1>5

\* Whatever changes a run that is in flight is a step of it.
LEMMA OnlyItsSteps ==
  ASSUME CountsInv, TimersInv, SchedulerNext, NEW s \in Slots,
         runs[s].at # "IDLE", runs'[s] # runs[s]
  PROVE  /\ UNCHANGED crons
         /\ \/ runs'[s] = NoRun
            \/ /\ runs[s].at = "TASK"
               /\ runs[s].retries + 1 <= LimitOf(crons, runs[s])
               /\ runs'[s] = [runs[s] EXCEPT !.retries = @ + 1, !.at = "BACKOFF"]
            \/ /\ runs[s].at = "BACKOFF"
               /\ runs'[s] = [runs[s] EXCEPT !.at = "TASK"]
<1>1. ASSUME UNCHANGED runs PROVE FALSE
  BY <1>1
<1>2. ASSUME NEW n \in JobNames, NEW t \in Slots, CronTick(t, n) \/ RunJobNow(t, n)
      PROVE  FALSE
  <2>1. runs[t].at = "IDLE" /\ \E new : runs' = [runs EXCEPT ![t] = new]
    BY <1>2 DEF CronTick, RunJobNow, StartRun
  <2> QED
    BY <2>1 DEF CountsInv
<1>3. PICK t \in Slots : RunContinues(t)
  BY <1>1, <1>2
  DEF SchedulerNext, InitializeScheduler, AddJob, RemoveJob, StartJob, StopJob,
      AddCronJob, RemoveCronJob, DestroyScheduler
<1>4. runs \in [Slots -> Runs] /\ UNCHANGED crons
  BY <1>3 DEF CountsInv, RunContinues, TaskSucceeds, TaskFails, BackoffEnds
<1>5. CASE runs' = [runs EXCEPT ![t] = NoRun]
  BY <1>4, <1>5
<1>6. CASE /\ runs[t].at = "TASK"
           /\ ~(runs[t].retries + 1 > crons[runs[t].name][runs[t].cron].max)
           /\ runs' = [runs EXCEPT ![t].retries = @ + 1, ![t].at = "BACKOFF"]
  <2>1. t = s
    BY <1>4, <1>6
  <2>2. runs'[s] = [runs[s] EXCEPT !.retries = @ + 1, !.at = "BACKOFF"]
    BY <1>4, <1>6, <2>1
  <2>3. /\ runs[s].name \in JobNames /\ runs[s] \in Runs
        /\ crons[runs[s].name][runs[s].cron] \in Crons
    <3>1. runs[s].name \in JobNames /\ runs[s].cron \in DOMAIN crons[runs[s].name]
      BY DEF CountsInv, RunFits
    <3> QED
      BY <1>4, <3>1, ElementOfSeq, LenProperties DEF TimersInv
  <2>4. PICK max \in Nat : max = LimitOf(crons, runs[s])
    BY <2>3 DEF Crons, LimitOf
  <2>5. PICK tried \in Nat : tried = runs[s].retries
    BY <2>3 DEF Runs
  <2>6. ~(tried + 1 > max)
    BY <1>6, <2>1, <2>4, <2>5 DEF LimitOf
  <2>7. runs[s].retries + 1 <= LimitOf(crons, runs[s])
    BY <2>4, <2>5, <2>6
  <2> QED
    BY <1>4, <1>6, <2>1, <2>2, <2>7
<1>7. CASE BackoffEnds(t)
  <2>1. t = s
    BY <1>4, <1>7 DEF BackoffEnds
  <2> QED
    BY <1>4, <1>7, <2>1 DEF BackoffEnds
<1> QED
  BY <1>3, <1>5, <1>6, <1>7 DEF RunContinues, TaskSucceeds, TaskFails

\* A run that has not ended has at least one step left, and two at most for each of the
\* attempts that maxRetries allows.
RunStepsCounted ==
  \A s \in Slots :
    /\ RunStepsLeft(s) \in Nat
    /\ RunStepsLeft(s) = 0 <=> runs[s].at = "IDLE"
    /\ runs[s].at # "IDLE" => RunStepsLeft(s) <= 2 * LimitOf(crons, runs[s]) + 2

\* wrapTask(): whatever changes a run uses up a step; nothing else touches the count.
EveryChangeIsAStep ==
  \A s \in Slots : runs[s].at # "IDLE" =>
    IF runs'[s] = runs[s] THEN RunStepsLeft(s)' = RunStepsLeft(s)
                          ELSE RunStepsLeft(s)' < RunStepsLeft(s)

\* A run has at most two steps for each attempt that its job allows; every change of it
\* is such a step, and no operation on the jobs, replacement of its own among them,
\* gives it another: if tasks settle, it ends.
THEOREM RunsAreFinite ==
  SchedulerSpec => []RunStepsCounted /\ [][EveryChangeIsAStep]_schedulerVars
<1>1. ASSUME TimersInv, CountsInv, NEW s \in Slots
      PROVE  /\ RunStepsLeft(s) \in Nat
             /\ RunStepsLeft(s) = 0 <=> runs[s].at = "IDLE"
             /\ runs[s].at # "IDLE" => RunStepsLeft(s) <= 2 * LimitOf(crons, runs[s]) + 2
  <2>1. CASE runs[s].at = "IDLE"
    BY <2>1 DEF RunStepsLeft, RunSteps
  <2>2. CASE runs[s].at # "IDLE"
    <3>1. /\ runs[s] \in Runs /\ runs[s].name \in JobNames
          /\ runs[s].cron \in DOMAIN crons[runs[s].name]
          /\ runs[s].retries <= LimitOf(crons, runs[s])
      BY <1>1, <2>2 DEF CountsInv, RunFits, LimitOf
    <3>2. crons[runs[s].name][runs[s].cron] \in Crons
      BY <1>1, <3>1, ElementOfSeq, LenProperties DEF TimersInv
    <3>3. PICK max \in Nat : max = LimitOf(crons, runs[s])
      BY <3>2 DEF Crons, LimitOf
    <3>4. PICK tried \in 0..max : tried = runs[s].retries
      BY <3>1, <3>3 DEF Runs
    <3> QED
      BY <2>2, <3>3, <3>4 DEF RunStepsLeft, RunSteps
  <2> QED
    BY <2>1, <2>2
<1>2. TimersInv /\ CountsInv /\ [SchedulerNext]_schedulerVars =>
        [EveryChangeIsAStep]_schedulerVars
  <2> SUFFICES ASSUME TimersInv, CountsInv, SchedulerNext,
                      NEW s \in Slots, runs[s].at # "IDLE"
               PROVE  IF runs'[s] = runs[s] THEN RunStepsLeft(s)' = RunStepsLeft(s)
                                            ELSE RunStepsLeft(s)' < RunStepsLeft(s)
    BY DEF EveryChangeIsAStep
  <2>1. PICK max \in Nat : /\ LimitOf(crons, runs[s]) = max
                           /\ LimitOf(crons', runs[s]) = max
                           /\ runs[s].retries \in 0..max
    BY CronsGrow, LimitIsFixed
  <2>2. CASE runs'[s] = runs[s]
    <3>1. LimitOf(crons', runs'[s]) = max
      BY <2>1, <2>2
    <3>2. RunStepsLeft(s)' = RunSteps(runs'[s], max) /\ RunStepsLeft(s) = RunSteps(runs[s], max)
      BY <2>1, <3>1 DEF RunStepsLeft
    <3> QED
      BY <2>2, <3>2
  <2>3. CASE runs'[s] # runs[s]
    <3>1. runs[s] \in Runs /\ RunStepsLeft(s) = RunSteps(runs[s], max)
      BY <2>1 DEF CountsInv, RunStepsLeft
    <3>2. CASE runs'[s] = NoRun
      <4>1. RunStepsLeft(s)' = 0
        BY <3>2 DEF RunStepsLeft, RunSteps, NoRun
      <4> QED
        BY <2>1, <2>3, <3>1, <4>1 DEF RunSteps
    <3>3. PICK tried \in 0..max : tried = runs[s].retries
      BY <2>1
    <3>4. CASE /\ runs[s].at = "TASK" /\ runs[s].retries + 1 <= max
               /\ runs'[s] = [runs[s] EXCEPT !.retries = @ + 1, !.at = "BACKOFF"]
      <4>1. /\ runs'[s].at = "BACKOFF" /\ runs'[s].retries = tried + 1
            /\ runs'[s].name = runs[s].name /\ runs'[s].cron = runs[s].cron
        BY <3>1, <3>3, <3>4 DEF Runs
      <4>2. LimitOf(crons', runs'[s]) = max
        BY <2>1, <4>1 DEF LimitOf
      <4>3. RunStepsLeft(s)' = 2 * (max - (tried + 1)) + 2
        BY <4>1, <4>2 DEF RunStepsLeft, RunSteps
      <4>4. RunStepsLeft(s) = 2 * (max - tried) + 1
        BY <3>1, <3>3, <3>4 DEF RunSteps
      <4> QED
        BY <2>3, <4>3, <4>4
    <3>5. CASE runs[s].at = "BACKOFF" /\ runs'[s] = [runs[s] EXCEPT !.at = "TASK"]
      <4>1. /\ runs'[s].at = "TASK" /\ runs'[s].retries = tried
            /\ runs'[s].name = runs[s].name /\ runs'[s].cron = runs[s].cron
        BY <3>1, <3>3, <3>5 DEF Runs
      <4>2. LimitOf(crons', runs'[s]) = max
        BY <2>1, <4>1 DEF LimitOf
      <4>3. RunStepsLeft(s)' = 2 * (max - tried) + 1
        BY <4>1, <4>2 DEF RunStepsLeft, RunSteps
      <4>4. RunStepsLeft(s) = 2 * (max - tried) + 2
        BY <3>1, <3>3, <3>5 DEF RunSteps
      <4> QED
        BY <2>3, <4>3, <4>4
    <3> QED
      BY <2>1, <2>3, <3>2, <3>4, <3>5, OnlyItsSteps
  <2> QED
    BY <2>2, <2>3
<1>3. TimersInv /\ CountsInv => RunStepsCounted
  BY <1>1 DEF RunStepsCounted
<1> QED
  BY <1>2, <1>3, CountsInvariance, PTL DEF SchedulerSpec

-----------------------------------------------------------------------------
(* CacheManager: the bound on the entries is passed in two cases only.     *)

Entries == [left : {Forever} \cup Int, age : 0..OldAge, stale : BOOLEAN]
Loads == [key : {{}} \cup {{k} : k \in Keys}, ttl : Ttls \cup {0}, overtaken : BOOLEAN]

\* A map of finitely many entries.
CacheMap(c) ==
  /\ DOMAIN c \subseteq Keys /\ IsFiniteSet(DOMAIN c)
  /\ \A k \in DOMAIN c : c[k] \in Entries

CacheInv == cacheOn \in BOOLEAN /\ CacheMap(cache) /\ loaders \in [Loaders -> Loads]

LEMMA WithoutKeeps ==
  ASSUME NEW c, NEW ks, CacheMap(c)
  PROVE  /\ CacheMap(Without(c, ks))
         /\ DOMAIN Without(c, ks) = DOMAIN c \ ks
         /\ Cardinality(DOMAIN Without(c, ks)) <= Cardinality(DOMAIN c)
<1>1. /\ DOMAIN Without(c, ks) = DOMAIN c \ ks
      /\ \A k \in DOMAIN c \ ks : Without(c, ks)[k] = c[k]
  BY DEF Without
<1>2. /\ IsFiniteSet(DOMAIN c \ ks)
      /\ Cardinality(DOMAIN c \ ks) <= Cardinality(DOMAIN c)
  BY FS_Subset DEF CacheMap
<1> HIDE DEF Without
<1> QED
  BY <1>1, <1>2 DEF CacheMap

\* When nothing makes room: every entry is of this millisecond, or the oldest is
\* that of the empty key.
NothingToEvict == EmptyKeyIsOldest \/ \A k \in DOMAIN cache : cache[k].age = 0

\* Otherwise eviction removes one entry.
LEMMA EvictedOnes ==
  ASSUME CacheMap(cache), NEW c \in Evicted
  PROVE  /\ CacheMap(c)
         /\ \/ DOMAIN c = DOMAIN cache /\ NothingToEvict
            \/ \E o \in DOMAIN cache : DOMAIN c = DOMAIN cache \ {o}
<1> DEFINE old == {k \in DOMAIN cache : cache[k].age > 0}
           oldest == {k \in old : \A o \in old : cache[o].age <= cache[k].age}
<1>1. CASE old = {}
  <2>1. c = cache
    BY <1>1 DEF Evicted
  <2>2. \A k \in DOMAIN cache : cache[k].age = 0
    BY <1>1 DEF CacheMap, Entries
  <2> QED
    BY <2>1, <2>2 DEF NothingToEvict
<1>2. CASE old # {}
  <2>1. PICK o \in oldest : c = Without(cache, {o} \ {EmptyKey})
    BY <1>2 DEF Evicted
  <2>2. CacheMap(c) /\ DOMAIN c = DOMAIN cache \ ({o} \ {EmptyKey})
    BY <2>1, WithoutKeeps
  <2>3. o \in DOMAIN cache /\ \A k \in DOMAIN cache : cache[k].age <= cache[o].age
    BY DEF CacheMap, Entries
  <2>4. CASE o = EmptyKey
    <3>1. EmptyKeyIsOldest
      BY <2>3, <2>4 DEF EmptyKeyIsOldest, Cached
    <3> QED
      BY <2>2, <2>4, <3>1 DEF NothingToEvict
  <2>5. CASE o # EmptyKey
    BY <2>2, <2>3, <2>5
  <2> QED
    BY <2>4, <2>5
<1> QED
  BY <1>1, <1>2

LEMMA RoomOnes ==
  ASSUME CacheMap(cache), NEW k \in Keys, NEW c \in Room(k)
  PROVE  /\ CacheMap(c)
         /\ \/ DOMAIN c = DOMAIN cache
            \/ /\ k \notin DOMAIN cache
               /\ \E o \in DOMAIN cache : DOMAIN c = DOMAIN cache \ {o}
         /\ \/ Size < MaxEntries \/ k \in DOMAIN cache
            \/ NothingToEvict
            \/ \E o \in DOMAIN cache : DOMAIN c = DOMAIN cache \ {o}
<1>1. Size \in Nat /\ MaxEntries \in Nat
  BY CacheAssumption, FS_CardinalityType DEF CacheMap, Size
<1>2. CASE Size >= MaxEntries /\ k \notin DOMAIN cache
  <2>1. c \in Evicted
    BY <1>2 DEF Room, Cached
  <2> QED
    BY <1>2, <2>1, EvictedOnes
<1>3. CASE ~(Size >= MaxEntries) \/ k \in DOMAIN cache
  <2>1. c = cache
    BY <1>3 DEF Room, Cached
  <2> QED
    BY <1>1, <1>3, <2>1
<1> QED
  BY <1>2, <1>3

\* What an entry more does to the map and to the number of its entries.
LEMMA StoreSteps ==
  ASSUME CacheMap(cache), NEW k \in Keys, NEW ttl \in Ttls \cup {0}, NEW stale \in BOOLEAN,
         Store(k, ttl, stale)
  PROVE  /\ CacheMap(cache')
         /\ Size >= MaxEntries /\ Size' > Size => NothingToEvict
<1> DEFINE entry == [left |-> Lifetime(ttl), age |-> 0, stale |-> stale]
<1>1. PICK c \in Room(k) :
        cache' = [x \in DOMAIN c \cup {k} |-> IF x = k THEN entry ELSE c[x]]
  BY DEF Store
<1>2. entry \in Entries
  BY CacheAssumption DEF Lifetime, Forever, Entries
<1> HIDE DEF entry
<1>3. CacheMap(c)
  BY RoomOnes
<1>4. DOMAIN cache' = DOMAIN c \cup {k}
  BY <1>1
<1>5. CacheMap(cache')
  <2>1. DOMAIN cache' \subseteq Keys /\ IsFiniteSet(DOMAIN cache')
    BY <1>3, <1>4, FS_AddElement DEF CacheMap
  <2>2. \A x \in DOMAIN cache' : cache'[x] \in Entries
    BY <1>1, <1>2, <1>3, <1>4 DEF CacheMap
  <2> QED
    BY <2>1, <2>2 DEF CacheMap
<1>6. ASSUME Size >= MaxEntries, Size' > Size, ~NothingToEvict
      PROVE  FALSE
  <2>1. /\ IsFiniteSet(DOMAIN cache) /\ Size \in Nat /\ Size' = Cardinality(DOMAIN c \cup {k})
    BY <1>4, FS_CardinalityType DEF CacheMap, Size
  <2>2. CASE k \in DOMAIN cache
    <3>1. DOMAIN c = DOMAIN cache
      BY <2>2, RoomOnes
    <3>2. DOMAIN c \cup {k} = DOMAIN cache
      BY <2>2, <3>1
    <3> QED
      BY <1>6, <2>1, <3>2 DEF Size
  <2>3. CASE k \notin DOMAIN cache
    <3>1. Size < MaxEntries \/ \E o \in DOMAIN cache : DOMAIN c = DOMAIN cache \ {o}
      BY <1>6, <2>3, RoomOnes
    <3>2. PICK o \in DOMAIN cache : DOMAIN c = DOMAIN cache \ {o}
      BY <1>6, <2>1, <3>1, CacheAssumption
    <3>3. /\ IsFiniteSet(DOMAIN cache \ {o})
          /\ Cardinality(DOMAIN cache \ {o}) = Size - 1
      BY <2>1, FS_RemoveElement DEF Size
    <3>4. Cardinality(DOMAIN c \cup {k}) = Size - 1 + 1
      BY <2>3, <3>2, <3>3, FS_AddElement
    <3>5. Size' = Size
      BY <2>1, <3>4
    <3> QED
      BY <1>6, <2>1, <3>5
  <2> QED
    BY <2>2, <2>3
<1> QED
  BY <1>5, <1>6

\* A step that takes entries away, or keeps them.
LEMMA FewerEntries ==
  ASSUME CacheMap(cache), NEW ks, cache' = Without(cache, ks)
  PROVE  CacheMap(cache') /\ ~(Size' > Size)
<1>1. /\ CacheMap(cache')
      /\ Cardinality(DOMAIN cache') <= Cardinality(DOMAIN cache)
  BY WithoutKeeps
<1>2. Size \in Nat /\ Size' \in Nat
  BY <1>1, FS_CardinalityType DEF CacheMap, Size
<1> QED
  BY <1>1, <1>2 DEF Size

LEMMA SameEntries ==
  ASSUME DOMAIN cache' = DOMAIN cache, IsFiniteSet(DOMAIN cache)
  PROVE  ~(Size' > Size)
<1>1. Size' = Size /\ Size \in Nat
  BY FS_CardinalityType DEF Size
<1> QED
  BY <1>1

LEMMA OvertakeKeeps ==
  ASSUME loaders \in [Loaders -> Loads], NEW ks, Overtake(ks)
  PROVE  loaders' \in [Loaders -> Loads]
BY DEF Overtake, Loads

LEMMA LoadersMove ==
  ASSUME loaders \in [Loaders -> Loads], NEW l \in Loaders, NEW load \in Loads,
         loaders' = [loaders EXCEPT ![l] = load]
  PROVE  loaders' \in [Loaders -> Loads]
OBVIOUS

BoundKept ==
  Size >= MaxEntries /\ Size' > Size => NothingToEvict

LEMMA CacheStep ==
  ASSUME CacheInv, [CacheNext]_cacheVars
  PROVE  CacheInv' /\ BoundKept
<1>1. CacheMap(cache) /\ loaders \in [Loaders -> Loads] /\ cacheOn \in BOOLEAN
      /\ IsFiniteSet(DOMAIN cache)
  BY DEF CacheInv, CacheMap
<1>2. Resting \in Loads
  BY DEF Resting, Loads
<1>3. ASSUME NEW ks, cache' = Without(cache, ks), UNCHANGED cacheOn,
             \/ UNCHANGED loaders
             \/ \E set : Overtake(set)
             \/ \E l \in Loaders, load \in Loads : loaders' = [loaders EXCEPT ![l] = load]
      PROVE  CacheInv' /\ BoundKept
  <2>1. loaders' \in [Loaders -> Loads]
    BY <1>1, <1>3, OvertakeKeeps, LoadersMove
  <2>2. CacheMap(cache') /\ ~(Size' > Size)
    BY <1>1, <1>3, FewerEntries
  <2> QED
    BY <1>1, <1>3, <2>1, <2>2 DEF CacheInv, BoundKept
<1>4. CASE InitializeCache
  <2>1. CacheInv'
    BY <1>4 DEF InitializeCache, CacheInv
  <2>2. ~(Size' > Size)
    BY <1>1, <1>4, SameEntries DEF InitializeCache
  <2> QED
    BY <2>1, <2>2 DEF BoundKept
<1>5. ASSUME NEW k \in Keys, NEW ttl \in Ttls, Set(k, ttl) PROVE CacheInv' /\ BoundKept
  <2>1. Store(k, ttl, FALSE) /\ Overtake({k}) /\ UNCHANGED cacheOn
    BY <1>5 DEF Set
  <2>2. CacheMap(cache') /\ BoundKept
    BY <1>1, <2>1, StoreSteps DEF BoundKept
  <2>3. loaders' \in [Loaders -> Loads]
    BY <1>1, <2>1, OvertakeKeeps
  <2> QED
    BY <1>1, <2>1, <2>2, <2>3 DEF CacheInv
<1>6. ASSUME NEW k \in Keys, Drop(k) \/ Delete(k) PROVE CacheInv' /\ BoundKept
  BY <1>3, <1>6 DEF Drop, Delete
<1>7. ASSUME NEW ks \in SUBSET Keys, Mget(ks) \/ Mdelete(ks) PROVE CacheInv' /\ BoundKept
  BY <1>3, <1>7 DEF Mget, Mdelete
<1>8. CASE Clear
  <2>1. cache' = <<>> /\ Overtake(Keys) /\ UNCHANGED cacheOn
    BY <1>8 DEF Clear
  <2>2. DOMAIN cache' = {}
    BY <2>1
  <2>3. CacheMap(cache') /\ Size' = 0
    BY <2>2, FS_EmptySet DEF CacheMap, Size
  <2>4. ~(Size' > Size)
    BY <1>1, <2>3, FS_CardinalityType DEF Size
  <2>5. loaders' \in [Loaders -> Loads]
    BY <1>1, <2>1, OvertakeKeeps
  <2> QED
    BY <1>1, <2>1, <2>3, <2>4, <2>5 DEF CacheInv, BoundKept
<1>9. ASSUME NEW k \in Keys, NEW l \in Loaders, NEW ttl \in Ttls, Miss(l, k, ttl)
      PROVE  CacheInv' /\ BoundKept
  <2>1. PICK load : load = [key |-> {k}, ttl |-> ttl, overtaken |-> FALSE]
    OBVIOUS
  <2>2. load \in Loads
    BY <2>1 DEF Loads
  <2>3. /\ cache' = Without(cache, {k}) /\ loaders' = [loaders EXCEPT ![l] = load]
        /\ UNCHANGED cacheOn
    BY <1>9, <2>1 DEF Miss
  <2> QED
    BY <1>3, <2>2, <2>3
<1>10. ASSUME NEW l \in Loaders, Loaded(l) PROVE CacheInv' /\ BoundKept
  <2>1. PICK k \in Keys : loaders[l].key = {k}
    BY <1>1, <1>10 DEF Loaded, Loading, Loads
  <2>2. loaders[l].ttl \in Ttls \cup {0} /\ loaders[l].overtaken \in BOOLEAN
    BY <1>1 DEF Loads
  <2>3. \/ Store(k, loaders[l].ttl, loaders[l].overtaken)
        \/ UNCHANGED cache
    BY <1>10, <2>1 DEF Loaded
  <2>4. loaders' \in [Loaders -> Loads] /\ UNCHANGED cacheOn
    BY <1>1, <1>2, <1>10, LoadersMove DEF Loaded
  <2>5. CASE Store(k, loaders[l].ttl, loaders[l].overtaken)
    <3>1. CacheMap(cache') /\ BoundKept
      BY <1>1, <2>2, <2>5, StoreSteps DEF BoundKept
    <3> QED
      BY <1>1, <2>4, <3>1 DEF CacheInv
  <2>6. CASE UNCHANGED cache
    BY <1>1, <2>4, <2>6, SameEntries DEF CacheInv, BoundKept
  <2> QED
    BY <2>3, <2>5, <2>6
<1>11. ASSUME NEW l \in Loaders, LoadFails(l) PROVE CacheInv' /\ BoundKept
  <2>1. loaders' \in [Loaders -> Loads]
    BY <1>1, <1>2, <1>11, LoadersMove DEF LoadFails
  <2> QED
    BY <1>1, <1>11, <2>1, SameEntries DEF LoadFails, CacheInv, BoundKept
<1>12. ASSUME NEW k \in Keys, NEW ttl \in Ttls, Expire(k, ttl) PROVE CacheInv' /\ BoundKept
  <2>1. k \in DOMAIN cache /\ cache[k] \in Entries
    BY <1>1, <1>12 DEF Expire, Cached, CacheMap
  <2>2. PICK entry : entry = [cache[k] EXCEPT !.left = ttl]
    OBVIOUS
  <2>3. entry \in Entries
    BY <2>1, <2>2, CacheAssumption DEF Entries
  <2>4. cache' = [cache EXCEPT ![k] = entry] /\ UNCHANGED <<cacheOn, loaders>>
    BY <1>12, <2>2 DEF Expire
  <2>5. DOMAIN cache' = DOMAIN cache
    BY <2>4
  <2>6. \A x \in DOMAIN cache' : cache'[x] \in Entries
    BY <1>1, <2>3, <2>4 DEF CacheMap
  <2> QED
    BY <1>1, <2>4, <2>5, <2>6, SameEntries DEF CacheInv, CacheMap, BoundKept
<1>13. CASE Cleanup
  BY <1>3, <1>13 DEF Cleanup
<1>14. CASE CacheTick
  <2>1. DOMAIN cache' = DOMAIN cache /\ UNCHANGED <<cacheOn, loaders>>
    BY <1>14 DEF CacheTick
  <2>2. ASSUME NEW k \in DOMAIN cache PROVE cache'[k] \in Entries
    <3>1. /\ cache[k] \in Entries
          /\ cache'[k] = [cache[k] EXCEPT !.age = IF @ < OldAge THEN @ + 1 ELSE @,
                                          !.left = IF @ >= 0 THEN @ - 1 ELSE @]
      BY <1>1, <1>14 DEF CacheTick, CacheMap
    <3>2. PICK age, left : /\ age = IF cache[k].age < OldAge THEN cache[k].age + 1
                                                             ELSE cache[k].age
                           /\ left = IF cache[k].left >= 0 THEN cache[k].left - 1
                                                           ELSE cache[k].left
      OBVIOUS
    <3>3. age \in 0..OldAge /\ left \in Int
      BY <3>1, <3>2, CacheAssumption DEF Entries, Forever
    <3>4. cache'[k] = [cache[k] EXCEPT !.age = age, !.left = left]
      BY <3>1, <3>2 DEF Entries
    <3> QED
      BY <3>1, <3>3, <3>4 DEF Entries
  <2> QED
    BY <1>1, <2>1, <2>2, SameEntries DEF CacheInv, CacheMap, BoundKept
<1>15. CASE UNCHANGED cacheVars
  BY <1>1, <1>15, SameEntries DEF cacheVars, CacheInv, BoundKept
<1> QED
  BY <1>4, <1>5, <1>6, <1>7, <1>8, <1>9, <1>10, <1>11, <1>12, <1>13, <1>14, <1>15
  DEF CacheNext

THEOREM CacheInvariance == CacheSpec => []CacheInv
<1>1. CacheInit => CacheInv
  <2> SUFFICES ASSUME CacheInit PROVE CacheInv
    OBVIOUS
  <2>1. DOMAIN cache = {} /\ IsFiniteSet({})
    BY FS_EmptySet DEF CacheInit
  <2>2. cacheOn \in BOOLEAN /\ loaders \in [Loaders -> Loads]
    BY DEF CacheInit, Resting, Loads
  <2> QED
    BY <2>1, <2>2 DEF CacheInv, CacheMap
<1> QED
  BY <1>1, CacheStep, PTL DEF CacheSpec

\* The cache keeps its types.
THEOREM CacheTypeCorrect == CacheSpec => []CacheTypeOK
<1>1. CacheInv => CacheTypeOK
  BY DEF CacheInv, CacheMap, Entries, Loads, CacheTypeOK
<1> QED
  BY <1>1, CacheInvariance, PTL

\* Whatever calls, factories and timers come together, the number of entries passes
\* its bound only while all of them are of the present millisecond, or none is older
\* than that of the empty key.
THEOREM NoGrowthPastBoundCorrect == CacheSpec => NoGrowthPastBound
<1>1. CacheInv /\ [CacheNext]_cacheVars =>
        [Size >= MaxEntries /\ Size' > Size
           => EmptyKeyIsOldest \/ \A k \in DOMAIN cache : cache[k].age = 0]_cacheVars
  BY CacheStep DEF BoundKept, NothingToEvict
<1> QED
  BY <1>1, CacheInvariance, PTL DEF CacheSpec, NoGrowthPastBound


\* What StaleValuesGo rests on: with a default time to live every entry runs out;
\* a value is only put back, and a stale one only lasts longer, by a factory that
\* was overtaken or by expire().
EntriesRunOut ==
  DefaultTtl # 0 => \A k \in DOMAIN cache : cache[k].left \in Nat \cup {-1}

StaleComesFromLoaders ==
  \A k \in Keys :
    Stale(k)' /\ (Stale(k) => cache'[k].left > cache[k].left) =>
      \/ \E ttl \in Ttls : Expire(k, ttl)
      \/ \E l \in Loaders : Loaded(l) /\ loaders[l].key = {k} /\ loaders[l].overtaken

\* An entry that stays, aged by a step or not.
Remains(k) ==
  /\ k \in DOMAIN cache
  /\ cache'[k].stale = cache[k].stale
  /\ \/ cache'[k].left = cache[k].left
     \/ cache[k].left >= 0 /\ cache'[k].left = cache[k].left - 1

KeptFor(k, stale) ==
  \E ttl \in Ttls \cup {0} : cache'[k].left = Lifetime(ttl) /\ cache'[k].stale = stale

\* Where an entry comes from.
Origin(k) ==
  \/ Remains(k)
  \/ \E ttl \in Ttls : Expire(k, ttl)
  \/ KeptFor(k, FALSE)
  \/ \E l \in Loaders : Loaded(l) /\ loaders[l].key = {k} /\ KeptFor(k, loaders[l].overtaken)

LEMMA WithoutRemains ==
  ASSUME NEW ks, cache' = Without(cache, ks), NEW k \in DOMAIN cache'
  PROVE  Remains(k)
BY DEF Without, Remains

LEMMA StoreOrigin ==
  ASSUME NEW x \in Keys, NEW ttl \in Ttls \cup {0}, NEW stale, Store(x, ttl, stale),
         NEW k \in DOMAIN cache'
  PROVE  IF k = x THEN KeptFor(k, stale) ELSE Remains(k)
<1>1. PICK c \in Room(x) :
        cache' = [y \in DOMAIN c \cup {x} |->
          IF y = x THEN [left |-> Lifetime(ttl), age |-> 0, stale |-> stale] ELSE c[y]]
  BY DEF Store
<1>2. c = cache \/ \E ks : c = Without(cache, ks)
  BY DEF Room, Evicted
<1>3. \A y \in DOMAIN c : y \in DOMAIN cache /\ c[y] = cache[y]
  BY <1>2 DEF Without
<1>4. CASE k = x
  <2>1. cache'[k] = [left |-> Lifetime(ttl), age |-> 0, stale |-> stale]
    BY <1>1, <1>4
  <2> QED
    BY <1>4, <2>1 DEF KeptFor
<1>5. CASE k # x
  BY <1>1, <1>3, <1>5 DEF Remains
<1> QED
  BY <1>4, <1>5

LEMMA EntryOrigin ==
  ASSUME CacheInv, [CacheNext]_cacheVars, NEW k \in DOMAIN cache'
  PROVE  Origin(k)
<1>1. ASSUME NEW ks, cache' = Without(cache, ks) PROVE Origin(k)
  BY <1>1, WithoutRemains DEF Origin
<1>2. CASE UNCHANGED cache
  BY <1>2 DEF Origin, Remains
<1>3. ASSUME NEW x \in Keys, NEW ttl \in Ttls, Set(x, ttl) PROVE Origin(k)
  BY <1>3, StoreOrigin DEF Set, Origin
<1>4. ASSUME NEW x \in Keys, Drop(x) \/ Delete(x) PROVE Origin(k)
  BY <1>1, <1>4 DEF Drop, Delete
<1>5. ASSUME NEW ks \in SUBSET Keys, Mget(ks) \/ Mdelete(ks) PROVE Origin(k)
  BY <1>1, <1>5 DEF Mget, Mdelete
<1>6. CASE Clear
  BY <1>6 DEF Clear
<1>7. CASE Cleanup
  BY <1>1, <1>7 DEF Cleanup
<1>8. ASSUME NEW x \in Keys, NEW l \in Loaders, NEW ttl \in Ttls, Miss(l, x, ttl)
      PROVE  Origin(k)
  BY <1>1, <1>8 DEF Miss
<1>9. ASSUME NEW l \in Loaders, Loaded(l) PROVE Origin(k)
  <2>1. PICK x \in Keys : loaders[l].key = {x}
    BY <1>9 DEF CacheInv, Loaded, Loading, Loads
  <2>2. loaders[l].ttl \in Ttls \cup {0}
    BY DEF CacheInv, Loads
  <2>3. CASE Store(x, loaders[l].ttl, loaders[l].overtaken)
    BY <1>9, <2>1, <2>2, <2>3, StoreOrigin DEF Origin
  <2> QED
    BY <1>2, <1>9, <2>1, <2>3 DEF Loaded
<1>10. ASSUME NEW x \in Keys, NEW ttl \in Ttls, Expire(x, ttl) PROVE Origin(k)
  <2>1. CASE k = x
    BY <1>10, <2>1 DEF Origin
  <2>2. CASE k # x
    BY <1>10, <2>2 DEF Expire, Origin, Remains
  <2> QED
    BY <2>1, <2>2
<1>11. CASE CacheTick
  <2>1. k \in DOMAIN cache /\ cache[k] \in Entries
    BY <1>11 DEF CacheTick, CacheInv, CacheMap
  <2>2. cache'[k] = [cache[k] EXCEPT !.age = IF @ < OldAge THEN @ + 1 ELSE @,
                                     !.left = IF @ >= 0 THEN @ - 1 ELSE @]
    BY <1>11, <2>1 DEF CacheTick
  <2>3. /\ cache'[k].stale = cache[k].stale
        /\ cache'[k].left = IF cache[k].left >= 0 THEN cache[k].left - 1 ELSE cache[k].left
    BY <2>1, <2>2 DEF Entries
  <2> QED
    BY <2>1, <2>3 DEF Origin, Remains
<1>12. ASSUME InitializeCache \/ (\E l \in Loaders : LoadFails(l)) \/ UNCHANGED cacheVars
       PROVE  UNCHANGED cache
  BY <1>12 DEF InitializeCache, LoadFails, cacheVars
<1> QED
  BY <1>2, <1>3, <1>4, <1>5, <1>6, <1>7, <1>8, <1>9, <1>10, <1>11, <1>12 DEF CacheNext

\* With a default time to live no entry stays for ever, and only a factory that was
\* overtaken by a set, delete or clear of its key puts an older value back.
THEOREM StaleValuesRunOut ==
  CacheSpec => []EntriesRunOut /\ [][StaleComesFromLoaders]_cacheVars
<1>1. CacheInit => EntriesRunOut
  BY DEF CacheInit, EntriesRunOut
<1>2. CacheInv /\ EntriesRunOut /\ [CacheNext]_cacheVars => EntriesRunOut'
  <2> SUFFICES ASSUME CacheInv, EntriesRunOut, [CacheNext]_cacheVars, DefaultTtl # 0,
                      NEW k \in DOMAIN cache'
               PROVE  cache'[k].left \in Nat \cup {-1}
    BY DEF EntriesRunOut
  <2>1. Origin(k)
    BY EntryOrigin
  <2>2. CASE Remains(k)
    <3>1. cache[k].left \in Nat \cup {-1}
      BY <2>2 DEF Remains, EntriesRunOut
    <3> QED
      BY <2>2, <3>1 DEF Remains
  <2>3. ASSUME NEW ttl \in Ttls \cup {0} PROVE Lifetime(ttl) \in Nat
    BY CacheAssumption DEF Lifetime
  <2>4. ASSUME NEW stale, KeptFor(k, stale) PROVE cache'[k].left \in Nat
    BY <2>3, <2>4 DEF KeptFor
  <2>5. ASSUME NEW ttl \in Ttls, Expire(k, ttl) PROVE cache'[k].left \in Nat
    <3>1. k \in DOMAIN cache /\ cache[k] \in Entries
      BY <2>5 DEF Expire, Cached, CacheInv, CacheMap
    <3>2. cache'[k] = [cache[k] EXCEPT !.left = ttl]
      BY <2>5, <3>1 DEF Expire
    <3> QED
      BY <3>1, <3>2, CacheAssumption DEF Entries
  <2> QED
    BY <2>1, <2>2, <2>4, <2>5 DEF Origin
<1>3. CacheInv /\ [CacheNext]_cacheVars => [StaleComesFromLoaders]_cacheVars
  <2> SUFFICES ASSUME CacheInv, CacheNext, NEW k \in Keys, Stale(k)',
                      Stale(k) => cache'[k].left > cache[k].left
               PROVE  \/ \E ttl \in Ttls : Expire(k, ttl)
                      \/ \E l \in Loaders : /\ Loaded(l) /\ loaders[l].key = {k}
                                            /\ loaders[l].overtaken
    BY DEF StaleComesFromLoaders
  <2>1. k \in DOMAIN cache' /\ cache'[k].stale
    BY DEF Stale, Cached
  <2>2. Origin(k)
    BY <2>1, EntryOrigin
  <2>3. ~Remains(k)
    <3>1. SUFFICES ASSUME Remains(k) PROVE FALSE
      OBVIOUS
    <3>2. Stale(k)
      BY <2>1, <3>1 DEF Remains, Stale, Cached
    <3>3. PICK left \in Int : left = cache[k].left
      BY <3>1 DEF Remains, CacheInv, CacheMap, Entries, Forever
    <3>4. cache'[k].left = left \/ cache'[k].left = left - 1
      BY <3>1, <3>3 DEF Remains
    <3> QED
      BY <3>2, <3>3, <3>4
  <2>4. ~KeptFor(k, FALSE)
    BY <2>1 DEF KeptFor
  <2>5. ASSUME NEW l \in Loaders, KeptFor(k, loaders[l].overtaken) PROVE loaders[l].overtaken
    BY <2>1, <2>5 DEF KeptFor
  <2> QED
    BY <2>2, <2>3, <2>4, <2>5 DEF Origin
<1> QED
  BY <1>1, <1>2, <1>3, CacheInvariance, PTL DEF CacheSpec

-----------------------------------------------------------------------------
(* Storage: what is drained has been piped to its end, and a body that is  *)
(* stored stays that of an upload that is done.                            *)

Calls == [at : {"NEW", "PIPING", "DRAINING", "DONE", "READING", "RECEIVED", "FAILED"},
          file : Files \cup {"NONE"}, size : Sizes \cup {0}, gzip : BOOLEAN,
          piped : Nat, got : Bodies]

StorageInv ==
  /\ calls \in [Clients -> Calls]
  /\ \A f \in DOMAIN store : store[f] \in Bodies
  /\ \A c \in Clients : calls[c].at = "DRAINING" => calls[c].piped = calls[c].size
  /\ WholeBodies

\* Whole() of the calls cs.
WholeIn(cs, body) ==
  body.by \in Clients /\ cs[body.by].at = "DONE" /\ body.pieces = cs[body.by].size

LEMMA WholeBodiesIn ==
  /\ WholeBodies <=>
       /\ \A f \in DOMAIN store : WholeIn(calls, store[f])
       /\ \A c \in Clients : calls[c].at \in {"READING", "RECEIVED"} =>
            WholeIn(calls, calls[c].got)
  /\ WholeBodies' <=>
       /\ \A f \in DOMAIN store' : WholeIn(calls', store'[f])
       /\ \A c \in Clients : calls'[c].at \in {"READING", "RECEIVED"} =>
            WholeIn(calls', calls'[c].got)
BY DEF WholeBodies, Whole, WholeIn

LEMMA StorageInvInit == StorageInit => StorageInv
BY DEF StorageInit, StorageInv, WholeBodies, Calls, Bodies, NoCall, Call, NoBody

LEMMA NoBodyIsOne == NoBody \in Bodies
BY DEF NoBody, Bodies

\* The calls that a request begins with.
LEMMA FirstCall ==
  ASSUME NEW at \in {"PIPING", "DONE", "READING", "FAILED"}, NEW f \in Files,
         NEW size \in Sizes \cup {0}, NEW gzip \in BOOLEAN, NEW piped \in Nat,
         NEW got \in Bodies
  PROVE  Call(at, f, size, gzip, piped, got) \in Calls
BY DEF Call, Calls

\* A call that is not done goes on: what is stored then is stored already, or is
\* all of the call's body.
LEMMA OneCall ==
  ASSUME StorageInv, NEW c \in Clients, NEW new \in Calls,
         calls' = [calls EXCEPT ![c] = new], calls[c].at # "DONE",
         new.at = "DRAINING" => new.piped = new.size,
         new.at \in {"READING", "RECEIVED"} =>
           WholeIn(calls, new.got) /\ new.got.by # c,
         \A f \in DOMAIN store' :
           \/ f \in DOMAIN store /\ store'[f] = store[f]
           \/ /\ store'[f] \in Bodies /\ store'[f].by = c
              /\ new.at = "DONE" /\ store'[f].pieces = new.size
  PROVE  StorageInv'
<1>1. /\ calls' \in [Clients -> Calls] /\ calls'[c] = new
      /\ \A d \in Clients : d # c => calls'[d] = calls[d]
  BY DEF StorageInv
<1>2. ASSUME NEW body, WholeIn(calls, body) PROVE WholeIn(calls', body)
  BY <1>1, <1>2 DEF WholeIn
<1>3. ASSUME NEW f \in DOMAIN store'
      PROVE  store'[f] \in Bodies /\ WholeIn(calls', store'[f])
  <2>1. CASE f \in DOMAIN store /\ store'[f] = store[f]
    BY <1>2, <2>1, WholeBodiesIn DEF StorageInv
  <2>2. CASE /\ store'[f] \in Bodies /\ store'[f].by = c
             /\ new.at = "DONE" /\ store'[f].pieces = new.size
    BY <1>1, <2>2 DEF WholeIn
  <2> QED
    BY <1>3, <2>1, <2>2
<1>4. ASSUME NEW d \in Clients, calls'[d].at \in {"READING", "RECEIVED"}
      PROVE  WholeIn(calls', calls'[d].got)
  <2>1. WholeIn(calls, calls'[d].got)
    <3>1. CASE d = c
      BY <1>1, <1>4, <3>1
    <3>2. CASE d # c
      BY <1>1, <1>4, <3>2, WholeBodiesIn DEF StorageInv
    <3> QED
      BY <3>1, <3>2
  <2> QED
    BY <1>2, <2>1
<1>5. \A d \in Clients : calls'[d].at = "DRAINING" => calls'[d].piped = calls'[d].size
  BY <1>1 DEF StorageInv
<1>6. WholeBodies'
  BY <1>3, <1>4, WholeBodiesIn
<1> QED
  BY <1>1, <1>3, <1>5, <1>6 DEF StorageInv

LEMMA StorageInvNext == StorageInv /\ [StorageNext]_storageVars => StorageInv'
<1> SUFFICES ASSUME StorageInv, [StorageNext]_storageVars PROVE StorageInv'
  OBVIOUS
<1>1. ASSUME NEW c \in Clients, NEW f \in Files, NEW size \in Sizes, NEW gzip \in BOOLEAN,
             Upload(c, f, size, gzip)
      PROVE  StorageInv'
  <2>1. PICK new : new = Call("PIPING", f, size, gzip, 0, NoBody)
    OBVIOUS
  <2>2. new \in Calls
    BY <1>1, <2>1, NoBodyIsOne, FirstCall
  <2>3. calls' = [calls EXCEPT ![c] = new] /\ calls[c].at = "NEW" /\ store' = store
    BY <1>1, <2>1 DEF StorageInv, Upload, NoCall, Call
  <2>4. new.at = "PIPING"
    BY <2>1 DEF Call
  <2> QED
    BY <2>2, <2>3, <2>4, OneCall
<1>2. ASSUME NEW c \in Clients, NEW f \in Files, NEW size \in Sizes,
             UploadBuffer(c, f, size)
      PROVE  StorageInv'
  <2>1. PICK new : new = Call("DONE", f, size, FALSE, size, NoBody)
    OBVIOUS
  <2>2. new \in Calls
    BY <1>2, <2>1, StorageAssumption, NoBodyIsOne, FirstCall
  <2>3. calls' = [calls EXCEPT ![c] = new] /\ calls[c].at = "NEW" /\ calls[c].gzip = FALSE
    BY <1>2, <2>1 DEF StorageInv, UploadBuffer, NoCall, Call
  <2>4. store' = [g \in DOMAIN store \cup {f} |->
                    IF g = f THEN Body(c, size) ELSE store[g]]
    BY <1>2 DEF UploadBuffer, Put
  <2>5. Body(c, size) \in Bodies /\ Body(c, size).by = c /\ Body(c, size).pieces = size
    BY <2>3, StorageAssumption DEF Body, Bodies
  <2>6. new.at = "DONE" /\ new.size = size
    BY <2>1 DEF Call
  <2> QED
    BY <2>2, <2>3, <2>4, <2>5, <2>6, OneCall
<1>3. ASSUME NEW c \in Clients, NEW f \in Files, NEW gunzip \in BOOLEAN,
             Download(c, f, gunzip)
      PROVE  StorageInv'
  <2>1. calls[c].at = "NEW" /\ store' = store
    BY <1>3 DEF StorageInv, Download, NoCall, Call
  <2>2. CASE f \in DOMAIN store
    <3>1. PICK new : new = Call("READING", f, 0, gunzip, 0, store[f])
      OBVIOUS
    <3>2. new.at = "READING" /\ new.got = store[f] /\ store[f] \in Bodies
      BY <2>2, <3>1 DEF StorageInv, Call
    <3>3. new \in Calls
      BY <1>3, <3>1, <3>2, FirstCall
    <3>4. calls' = [calls EXCEPT ![c] = new]
      BY <1>3, <2>2, <3>1 DEF StorageInv, Download, NoCall, Call
    <3>5. WholeIn(calls, new.got) /\ new.got.by # c
      BY <2>1, <2>2, <3>2 DEF StorageInv, WholeBodies, Whole, WholeIn
    <3> QED
      BY <2>1, <3>2, <3>3, <3>4, <3>5, OneCall
  <2>3. CASE f \notin DOMAIN store
    <3>1. PICK new : new = Call("FAILED", f, 0, FALSE, 0, NoBody)
      OBVIOUS
    <3>2. new \in Calls
      BY <1>3, <3>1, NoBodyIsOne, FirstCall
    <3>3. calls' = [calls EXCEPT ![c] = new]
      BY <1>3, <2>3, <3>1 DEF StorageInv, Download, NoCall, Call
    <3>4. new.at = "FAILED"
      BY <3>1 DEF Call
    <3> QED
      BY <2>1, <3>2, <3>3, <3>4, OneCall
  <2> QED
    BY <2>2, <2>3
<1>4. ASSUME NEW c \in Clients, Pipe(c) PROVE StorageInv'
  <2>1. PICK new : new = [calls[c] EXCEPT !.piped = calls[c].piped + 1]
    OBVIOUS
  <2>2. new \in Calls /\ new.at = "PIPING"
    BY <1>4, <2>1 DEF StorageInv, Pipe, Calls
  <2>3. calls' = [calls EXCEPT ![c] = new] /\ store' = store /\ calls[c].at = "PIPING"
    BY <1>4, <2>1 DEF StorageInv, Pipe
  <2> QED
    BY <2>2, <2>3, OneCall
<1>5. ASSUME NEW c \in Clients, NEW at \in {"DRAINING", "FAILED", "RECEIVED"},
             Phase(c, at), store' = store, calls[c].at # "DONE",
             at = "DRAINING" => calls[c].piped = calls[c].size,
             at = "RECEIVED" => calls[c].at = "READING"
      PROVE  StorageInv'
  <2>1. PICK new : new = [calls[c] EXCEPT !.at = at]
    OBVIOUS
  <2>2. /\ new \in Calls /\ new.at = at /\ new.piped = calls[c].piped
        /\ new.size = calls[c].size /\ new.got = calls[c].got
    BY <2>1 DEF StorageInv, Calls
  <2>3. calls' = [calls EXCEPT ![c] = new]
    BY <1>5, <2>1 DEF Phase
  <2>4. at = "RECEIVED" => WholeIn(calls, new.got) /\ new.got.by # c
    BY <1>5, <2>2 DEF StorageInv, WholeBodies, Whole, WholeIn
  <2> QED
    BY <1>5, <2>2, <2>3, <2>4, OneCall
<1>6. ASSUME NEW c \in Clients, PipelineEnds(c) \/ BreakOff(c) \/ Reply(c)
      PROVE  StorageInv'
  BY <1>5, <1>6 DEF PipelineEnds, BreakOff, Reply
<1>7. ASSUME NEW c \in Clients, Drain(c) PROVE StorageInv'
  <2>1. PICK new : new = [calls[c] EXCEPT !.at = "DONE"]
    OBVIOUS
  <2>2. new \in Calls /\ new.at = "DONE" /\ new.size = calls[c].size
    BY <2>1 DEF StorageInv, Calls
  <2>3. PICK n : n = calls[c].piped
    OBVIOUS
  <2>4. /\ calls' = [calls EXCEPT ![c] = new] /\ calls[c].at = "DRAINING"
        /\ n = calls[c].size /\ n \in Nat /\ calls[c].gzip \in BOOLEAN
    BY <1>7, <2>1, <2>3 DEF StorageInv, Drain, Phase, Calls
  <2>5. \A g \in DOMAIN store' : \/ g \in DOMAIN store /\ store'[g] = store[g]
                                 \/ store'[g] = Body(c, n)
    BY <1>7, <2>3 DEF Drain, Put
  <2>6. Body(c, n) \in Bodies /\ Body(c, n).by = c /\ Body(c, n).pieces = n
    BY <2>4 DEF Body, Bodies
  <2> QED
    BY <2>2, <2>4, <2>5, <2>6, OneCall
<1>8. ASSUME NEW f \in Files, DeleteFile(f) PROVE StorageInv'
  BY <1>8 DEF StorageInv, DeleteFile, WholeBodies, Whole
<1>9. CASE UNCHANGED storageVars
  BY <1>9 DEF StorageInv, storageVars, WholeBodies, Whole
<1> QED
  BY <1>1, <1>2, <1>3, <1>4, <1>6, <1>7, <1>8, <1>9 DEF StorageNext

THEOREM StorageInvariance == StorageSpec => []StorageInv
BY StorageInvInit, StorageInvNext, PTL DEF StorageSpec

\* Whatever breaks off, overlaps or is deleted, nobody reads part of a body.
THEOREM WholeBodiesCorrect == StorageSpec => []WholeBodies
<1>1. StorageInv => WholeBodies
  BY DEF StorageInv
<1> QED
  BY <1>1, StorageInvariance, PTL

\* The types that StorageInv leaves out.
CallFits(call) ==
  /\ call.piped \in 0..HighWaterMark \cup Sizes
  /\ call.at # "NEW" => call.file \in Files

StorageKinds ==
  /\ DOMAIN store \subseteq Files
  /\ \A c \in Clients : CallFits(calls[c])

LEMMA OneCallFits ==
  ASSUME StorageInv, StorageKinds, NEW c \in Clients, NEW new, CallFits(new),
         calls' = [calls EXCEPT ![c] = new], DOMAIN store' \subseteq Files
  PROVE  StorageKinds'
BY DEF StorageInv, StorageKinds

LEMMA StorageKindsNext ==
  StorageInv /\ StorageKinds /\ [StorageNext]_storageVars => StorageKinds'
<1> SUFFICES ASSUME StorageInv, StorageKinds, [StorageNext]_storageVars
             PROVE  StorageKinds'
  OBVIOUS
<1>1. DOMAIN store \subseteq Files
  BY DEF StorageKinds
<1>2. 0 \in 0..HighWaterMark
  BY StorageAssumption
<1>3. ASSUME NEW at, NEW f \in Files, NEW size, NEW gzip,
             NEW piped \in 0..HighWaterMark \cup Sizes, NEW got
      PROVE  CallFits(Call(at, f, size, gzip, piped, got))
  BY DEF CallFits, Call
<1>4. ASSUME NEW c \in Clients, NEW f \in Files, NEW size \in Sizes, NEW gzip \in BOOLEAN,
             Upload(c, f, size, gzip)
      PROVE  StorageKinds'
  BY <1>1, <1>2, <1>3, <1>4, OneCallFits DEF Upload
<1>5. ASSUME NEW c \in Clients, NEW f \in Files, NEW size \in Sizes,
             UploadBuffer(c, f, size)
      PROVE  StorageKinds'
  <2>1. DOMAIN store' \subseteq Files
    BY <1>1, <1>5 DEF UploadBuffer, Put
  <2>2. calls' = [calls EXCEPT ![c] = Call("DONE", f, size, FALSE, size, NoBody)]
    BY <1>5 DEF UploadBuffer
  <2> QED
    BY <1>3, <2>1, <2>2, OneCallFits
<1>6. ASSUME NEW c \in Clients, NEW f \in Files, NEW gunzip \in BOOLEAN,
             Download(c, f, gunzip)
      PROVE  StorageKinds'
  <2>1. PICK new : CallFits(new) /\ calls' = [calls EXCEPT ![c] = new]
    BY <1>2, <1>3, <1>6 DEF Download
  <2> QED
    BY <1>1, <1>6, <2>1, OneCallFits DEF Download
<1>7. ASSUME NEW c \in Clients, Pipe(c) PROVE StorageKinds'
  <2>1. PICK n \in Nat : n = calls[c].piped
    BY DEF StorageInv, Calls
  <2>2. PICK new : new = [calls[c] EXCEPT !.piped = n + 1]
    OBVIOUS
  <2>3. calls' = [calls EXCEPT ![c] = new] /\ store' = store /\ n < HighWaterMark
    BY <1>7, <2>1, <2>2 DEF StorageInv, Pipe
  <2>4. n + 1 \in 0..HighWaterMark
    BY <2>1, <2>3, StorageAssumption
  <2>5. new.piped = n + 1 /\ new.file \in Files
    BY <1>7, <2>2 DEF StorageInv, StorageKinds, CallFits, Calls, Pipe
  <2> QED
    BY <1>1, <2>3, <2>4, <2>5, OneCallFits DEF CallFits
<1>8. ASSUME NEW c \in Clients, NEW at, Phase(c, at), calls[c].at # "NEW",
             DOMAIN store' \subseteq DOMAIN store \cup {calls[c].file}
      PROVE  StorageKinds'
  <2>1. PICK new : new = [calls[c] EXCEPT !.at = at]
    OBVIOUS
  <2>2. calls' = [calls EXCEPT ![c] = new]
    BY <1>8, <2>1 DEF Phase
  <2>3. CallFits(calls[c]) /\ calls[c].file \in Files /\ calls[c] \in Calls
    BY <1>8 DEF StorageKinds, CallFits, StorageInv
  <2>4. CallFits(new)
    BY <2>1, <2>3 DEF CallFits, Calls
  <2> QED
    BY <1>1, <1>8, <2>2, <2>3, <2>4, OneCallFits
<1>9. ASSUME NEW c \in Clients,
             PipelineEnds(c) \/ BreakOff(c) \/ Reply(c) \/ Drain(c)
      PROVE  StorageKinds'
  BY <1>8, <1>9 DEF PipelineEnds, BreakOff, Reply, Drain, Put
<1>10. ASSUME NEW f \in Files, DeleteFile(f) PROVE StorageKinds'
  BY <1>1, <1>10 DEF DeleteFile, StorageKinds
<1>11. CASE UNCHANGED storageVars
  BY <1>11 DEF storageVars, StorageKinds
<1> QED
  BY <1>4, <1>5, <1>6, <1>7, <1>9, <1>10, <1>11 DEF StorageNext

\* The storage keeps its types: no stream holds more than its high water mark.
THEOREM StorageTypeCorrect == StorageSpec => []StorageTypeOK
<1>1. StorageInit => StorageKinds
  <2> SUFFICES ASSUME StorageInit PROVE StorageKinds
    OBVIOUS
  <2>1. CallFits(NoCall)
    BY StorageAssumption DEF CallFits, NoCall, Call
  <2> QED
    BY <2>1 DEF StorageInit, StorageKinds
<1>2. StorageInv /\ StorageKinds => StorageTypeOK
  <2> SUFFICES ASSUME StorageInv, StorageKinds PROVE StorageTypeOK
    OBVIOUS
  <2>1. ASSUME NEW c \in Clients
        PROVE  calls[c] \in
           [at : {"NEW", "PIPING", "DRAINING", "DONE", "READING", "RECEIVED", "FAILED"},
            file : Files \cup {"NONE"}, size : Sizes \cup {0}, gzip : BOOLEAN,
            piped : 0..HighWaterMark \cup Sizes, got : Bodies]
    BY DEF StorageInv, StorageKinds, CallFits, Calls
  <2> QED
    BY <2>1 DEF StorageInv, StorageKinds, StorageTypeOK
<1> QED
  BY <1>1, <1>2, StorageInvInit, StorageInvNext, StorageKindsNext, PTL DEF StorageSpec

-----------------------------------------------------------------------------
(* Migrations: of a migration that was never rolled back, one script at    *)
(* most is past createCollection(), which refuses every other one, and     *)
(* nobody has recorded it before.                                          *)

Scripts == [at : {"IDLE", "NEXT", "CREATE", "INDEX", "MARK", "DROP", "UNMARK", "FIND",
                  "INSERT", "DONE", "FAILED"},
            seen : SUBSET Migrations, i : 1..3, index : 1..Indexes + 1]

Building(r) == scripts[r].at \in {"INDEX", "MARK"}

MigrationKinds ==
  /\ collections \in [Migrations -> [there : BOOLEAN, indexes : SUBSET (1..Indexes)]]
  /\ records \in Seq(Migrations)
  /\ scripts \in [Runners -> Scripts]
  /\ dropped \subseteq Migrations

\* What a script is at, and what it has then.
ScriptsFit ==
  \A r \in Runners :
    /\ scripts[r].at \in {"CREATE", "INDEX", "MARK", "DROP", "UNMARK", "INSERT"} =>
         scripts[r].i \in 1..2
    /\ scripts[r].at = "CREATE" => scripts[r].index = 1
    /\ scripts[r].at = "UNMARK" => Of(r) \in dropped

OneBuilder ==
  \A r \in Runners : Building(r) /\ Of(r) \notin dropped =>
    /\ collections[Of(r)].there
    /\ scripts[r].at = "INDEX" =>
         collections[Of(r)].indexes = 1..scripts[r].index - 1
    /\ scripts[r].at = "MARK" => collections[Of(r)].indexes = 1..Indexes
    /\ ~Recorded(Of(r))
    /\ \A q \in Runners \ {r} : Building(q) => Of(q) # Of(r)

RecordsBuilt ==
  \A i \in DOMAIN records : records[i] \notin dropped =>
    /\ collections[records[i]].there
    /\ collections[records[i]].indexes = 1..Indexes
    /\ \A j \in DOMAIN records \ {i} : records[j] # records[i]

MigrationsInv ==
  /\ MigrationKinds /\ ScriptsFit /\ OneBuilder /\ RecordsBuilt
  /\ \A x \in Migrations : ~collections[x].there => collections[x].indexes = {}

LEMMA MigrationsInvInit == MigrationsInit => MigrationsInv
<1> SUFFICES ASSUME MigrationsInit PROVE MigrationsInv
  OBVIOUS
<1>1. NoScript \in Scripts
  BY MigrationsAssumption DEF NoScript, Scripts
<1>2. NoCollection \in [there : BOOLEAN, indexes : SUBSET (1..Indexes)]
  BY DEF NoCollection
<1>3. MigrationKinds
  BY <1>1, <1>2 DEF MigrationsInit, MigrationKinds
<1> QED
  BY <1>3 DEF MigrationsInit, MigrationsInv, ScriptsFit, OneBuilder, RecordsBuilt, Building,
              NoScript, NoCollection

\* A script goes on to where it builds nothing; of what was not rolled back, no
\* collection loses anything and nothing is recorded, or again.
LEMMA MoveKeeps ==
  ASSUME MigrationsInv, NEW r \in Runners, NEW new \in Scripts,
         scripts' = [scripts EXCEPT ![r] = new],
         new.at \notin {"INDEX", "MARK"},
         new.at \in {"CREATE", "DROP", "UNMARK", "INSERT"} => new.i \in 1..2,
         new.at = "CREATE" => new.index = 1,
         new.at = "UNMARK" => MigrationFiles[new.i] \in dropped',
         dropped \subseteq dropped', dropped' \subseteq Migrations,
         collections' \in [Migrations -> [there : BOOLEAN, indexes : SUBSET (1..Indexes)]],
         \A x \in Migrations : ~collections'[x].there => collections'[x].indexes = {},
         \A x \in Migrations \ dropped' :
           /\ collections'[x].indexes = collections[x].indexes
           /\ collections[x].there => collections'[x].there,
         records' \in Seq(Migrations),
         \A i \in DOMAIN records' : \E j \in DOMAIN records : records[j] = records'[i],
         \A i, j \in DOMAIN records' :
           i # j /\ records'[i] = records'[j] => records'[i] \in dropped'
  PROVE  MigrationsInv'
<1>1. /\ scripts' \in [Runners -> Scripts] /\ scripts'[r] = new
      /\ \A q \in Runners : q # r => scripts'[q] = scripts[q]
  BY DEF MigrationsInv, MigrationKinds
<1>2. MigrationKinds'
  BY <1>1 DEF MigrationKinds
<1>3. ScriptsFit'
  BY <1>1 DEF MigrationsInv, ScriptsFit, Of
<1>4. ASSUME NEW x, ~Recorded(x) PROVE ~Recorded(x)'
  BY <1>4 DEF Recorded
<1>5. OneBuilder'
  <2> SUFFICES ASSUME NEW p \in Runners, Building(p)', Of(p)' \notin dropped'
               PROVE  /\ collections'[Of(p)'].there
                      /\ scripts'[p].at = "INDEX" =>
                           collections'[Of(p)'].indexes = 1..scripts'[p].index - 1
                      /\ scripts'[p].at = "MARK" =>
                           collections'[Of(p)'].indexes = 1..Indexes
                      /\ ~Recorded(Of(p))'
                      /\ \A q \in Runners \ {p} : Building(q)' => Of(q)' # Of(p)'
    BY DEF OneBuilder
  <2>1. p # r /\ scripts'[p] = scripts[p] /\ Building(p) /\ scripts[p].i \in 1..2
    BY <1>1 DEF Building, MigrationsInv, ScriptsFit
  <2>2. PICK x \in Migrations : x = Of(p) /\ x = Of(p)' /\ x \notin dropped'
    BY <2>1 DEF Of, MigrationFiles, Migrations
  <2>3. /\ collections[x].there
        /\ scripts[p].at = "INDEX" => collections[x].indexes = 1..scripts[p].index - 1
        /\ scripts[p].at = "MARK" => collections[x].indexes = 1..Indexes
        /\ ~Recorded(x)
        /\ \A q \in Runners \ {p} : Building(q) => Of(q) # x
    <3>1. Of(p) \notin dropped
      BY <2>2
    <3>2. /\ collections[Of(p)].there
          /\ scripts[p].at = "INDEX" =>
               collections[Of(p)].indexes = 1..scripts[p].index - 1
          /\ scripts[p].at = "MARK" => collections[Of(p)].indexes = 1..Indexes
          /\ ~Recorded(Of(p))
          /\ \A q \in Runners \ {p} : Building(q) => Of(q) # Of(p)
      BY <2>1, <3>1 DEF MigrationsInv, OneBuilder
    <3> QED
      BY <2>2, <3>2
  <2>4. \A q \in Runners : Building(q)' => Building(q) /\ Of(q)' = Of(q)
    BY <1>1 DEF Building, Of
  <2>5. ~Recorded(Of(p))'
    BY <2>2, <2>3 DEF Recorded
  <2> QED
    BY <2>1, <2>2, <2>3, <2>4, <2>5
<1>6. RecordsBuilt'
  <2> SUFFICES ASSUME NEW i \in DOMAIN records', records'[i] \notin dropped'
               PROVE  /\ collections'[records'[i]].there
                      /\ collections'[records'[i]].indexes = 1..Indexes
                      /\ \A j \in DOMAIN records' \ {i} : records'[j] # records'[i]
    BY DEF RecordsBuilt
  <2>1. PICK j \in DOMAIN records : records[j] = records'[i]
    OBVIOUS
  <2>2. records[j] \in Migrations
    BY ElementOfSeq, LenProperties DEF MigrationsInv, MigrationKinds
  <2>3. collections[records[j]].there /\ collections[records[j]].indexes = 1..Indexes
    BY <2>1 DEF MigrationsInv, RecordsBuilt
  <2> QED
    BY <2>1, <2>2, <2>3
<1> QED
  BY <1>2, <1>3, <1>5, <1>6 DEF MigrationsInv

\* What the records are where they do not change: each migration that was not
\* rolled back has one.
LEMMA RecordedOnce ==
  ASSUME MigrationsInv
  PROVE  \A i, j \in DOMAIN records :
           i # j /\ records[i] = records[j] => records[i] \in dropped
BY DEF MigrationsInv, RecordsBuilt

\* A script only goes on.
LEMMA OnlyMoves ==
  ASSUME MigrationsInv, NEW r \in Runners, NEW new \in Scripts,
         scripts' = [scripts EXCEPT ![r] = new],
         new.at \notin {"INDEX", "MARK", "UNMARK"},
         new.at \in {"CREATE", "DROP", "INSERT"} => new.i \in 1..2,
         new.at = "CREATE" => new.index = 1,
         UNCHANGED <<collections, records, dropped>>
  PROVE  MigrationsInv'
<1>1. /\ collections' \in [Migrations -> [there : BOOLEAN, indexes : SUBSET (1..Indexes)]]
      /\ records' \in Seq(Migrations) /\ dropped' \subseteq Migrations
      /\ \A x \in Migrations : ~collections'[x].there => collections'[x].indexes = {}
  BY DEF MigrationsInv, MigrationKinds
<1>2. \A i, j \in DOMAIN records' :
        i # j /\ records'[i] = records'[j] => records'[i] \in dropped'
  BY RecordedOnce
<1> QED
  BY <1>1, <1>2, MoveKeeps

\* Scripts that start, end, read, or find that they can do nothing.
LEMMA QuietStep ==
  ASSUME MigrationsInv, NEW r \in Runners,
         Migrate(r) \/ NextFile(r) \/ SeedScript(r) \/ FindAccount(r) \/ Stops(r)
  PROVE  MigrationsInv'
<1>1. scripts[r] \in Scripts
  BY DEF MigrationsInv, MigrationKinds
<1>2. CASE Migrate(r)
  <2>1. PICK new : new = [at |-> "NEXT", seen |-> {x \in Migrations : Recorded(x)},
                          i |-> 1, index |-> 1]
    OBVIOUS
  <2>2. new \in Scripts /\ new.at = "NEXT"
    BY <2>1, MigrationsAssumption DEF Scripts
  <2>3. scripts' = [scripts EXCEPT ![r] = new] /\ UNCHANGED <<collections, records, dropped>>
    BY <1>2, <2>1 DEF Migrate, StartScript
  <2> QED
    BY <2>2, <2>3, OnlyMoves
<1>3. CASE SeedScript(r)
  <2>1. PICK new : new = [at |-> "FIND", seen |-> {}, i |-> 1, index |-> 1]
    OBVIOUS
  <2>2. new \in Scripts /\ new.at = "FIND"
    BY <2>1, MigrationsAssumption DEF Scripts
  <2>3. scripts' = [scripts EXCEPT ![r] = new] /\ UNCHANGED <<collections, records, dropped>>
    BY <1>3, <2>1 DEF SeedScript, StartScript
  <2> QED
    BY <2>2, <2>3, OnlyMoves
<1>4. CASE NextFile(r)
  <2>1. UNCHANGED <<collections, records, dropped>> /\ Len(MigrationFiles) = 2
    BY <1>4 DEF NextFile, MigrationFiles
  <2>2. CASE scripts[r].i > 2
    <3>1. PICK new : new = [scripts[r] EXCEPT !.at = "DONE"]
      OBVIOUS
    <3>2. new \in Scripts /\ new.at = "DONE"
      BY <1>1, <3>1 DEF Scripts
    <3>3. scripts' = [scripts EXCEPT ![r] = new]
      BY <1>4, <2>1, <2>2, <3>1 DEF NextFile
    <3> QED
      BY <2>1, <3>2, <3>3, OnlyMoves
  <2>3. CASE ~(scripts[r].i > 2) /\ Of(r) \in scripts[r].seen
    <3>1. PICK new : new = [scripts[r] EXCEPT !.i = scripts[r].i + 1]
      OBVIOUS
    <3>2. new \in Scripts /\ new.at = "NEXT"
      BY <1>1, <1>4, <2>3, <3>1 DEF Scripts, NextFile
    <3>3. scripts' = [scripts EXCEPT ![r] = new]
      BY <1>4, <2>1, <2>3, <3>1 DEF NextFile
    <3> QED
      BY <2>1, <3>2, <3>3, OnlyMoves
  <2>4. CASE ~(scripts[r].i > 2) /\ Of(r) \notin scripts[r].seen
    <3>1. PICK new : new = [[scripts[r] EXCEPT !.at = "CREATE"] EXCEPT !.index = 1]
      OBVIOUS
    <3>2. scripts[r].i \in 1..2 /\ 1 \in 1..Indexes + 1
      BY <1>1, <2>4, MigrationsAssumption DEF Scripts
    <3>3. new \in Scripts
      BY <1>1, <3>1, <3>2 DEF Scripts
    <3>4. new.at = "CREATE" /\ new.index = 1 /\ new.i \in 1..2
      BY <1>1, <3>1, <3>2 DEF Scripts
    <3>5. scripts' = [scripts EXCEPT ![r] = new]
      BY <1>4, <2>1, <2>4, <3>1 DEF NextFile
    <3> QED
      BY <2>1, <3>3, <3>4, <3>5, OnlyMoves
  <2> QED
    BY <2>2, <2>3, <2>4
<1>5. CASE FindAccount(r)
  <2>1. UNCHANGED <<collections, records, dropped>> /\ Len(Seeds) = 2
    BY <1>5 DEF FindAccount, Seeds
  <2>2. CASE scripts[r].i > 2
    <3>1. PICK new : new = [scripts[r] EXCEPT !.at = "DONE"]
      OBVIOUS
    <3>2. new \in Scripts /\ new.at = "DONE"
      BY <1>1, <3>1 DEF Scripts
    <3>3. scripts' = [scripts EXCEPT ![r] = new]
      BY <1>5, <2>1, <2>2, <3>1 DEF FindAccount
    <3> QED
      BY <2>1, <3>2, <3>3, OnlyMoves
  <2>3. CASE ~(scripts[r].i > 2) /\ Seeds[scripts[r].i] \in accounts
    <3>1. PICK new : new = [scripts[r] EXCEPT !.i = scripts[r].i + 1]
      OBVIOUS
    <3>2. new \in Scripts /\ new.at = "FIND"
      BY <1>1, <1>5, <2>3, <3>1 DEF Scripts, FindAccount
    <3>3. scripts' = [scripts EXCEPT ![r] = new]
      BY <1>5, <2>1, <2>3, <3>1 DEF FindAccount
    <3> QED
      BY <2>1, <3>2, <3>3, OnlyMoves
  <2>4. CASE ~(scripts[r].i > 2) /\ Seeds[scripts[r].i] \notin accounts
    <3>1. PICK new : new = [scripts[r] EXCEPT !.at = "INSERT"]
      OBVIOUS
    <3>2. new \in Scripts /\ new.at = "INSERT" /\ new.i \in 1..2
      BY <1>1, <2>4, <3>1 DEF Scripts
    <3>3. scripts' = [scripts EXCEPT ![r] = new]
      BY <1>5, <2>1, <2>4, <3>1 DEF FindAccount
    <3> QED
      BY <2>1, <3>2, <3>3, OnlyMoves
  <2> QED
    BY <2>2, <2>3, <2>4
<1>6. CASE Stops(r)
  <2>1. PICK new : new = [scripts[r] EXCEPT !.at = "FAILED"]
    OBVIOUS
  <2>2. new \in Scripts /\ new.at = "FAILED"
    BY <1>1, <2>1 DEF Scripts
  <2>3. scripts' = [scripts EXCEPT ![r] = new] /\ UNCHANGED <<collections, records, dropped>>
    BY <1>6, <2>1 DEF Stops, Goes
  <2> QED
    BY <2>2, <2>3, OnlyMoves
<1> QED
  BY <1>2, <1>3, <1>4, <1>5, <1>6

\* users.seed.ts: insertOne() creates the collection if it is missing.
LEMMA InsertStep ==
  ASSUME MigrationsInv, NEW r \in Runners, InsertAccount(r)
  PROVE  MigrationsInv'
<1>1. scripts[r] \in Scripts
  BY DEF MigrationsInv, MigrationKinds
<1>2. CASE Goes(r, "FAILED") /\ UNCHANGED collections
  <2>1. PICK new : new = [scripts[r] EXCEPT !.at = "FAILED"]
    OBVIOUS
  <2>2. new \in Scripts /\ new.at = "FAILED"
    BY <1>1, <2>1 DEF Scripts
  <2>3. scripts' = [scripts EXCEPT ![r] = new] /\ UNCHANGED <<collections, records, dropped>>
    BY <1>2, <2>1 DEF InsertAccount, Goes
  <2> QED
    BY <2>2, <2>3, OnlyMoves
<1>3. CASE ~(Goes(r, "FAILED") /\ UNCHANGED collections)
  <2>0. PICK n \in 1..3 : n = scripts[r].i + 1
    BY DEF InsertAccount, MigrationsInv, ScriptsFit
  <2>1. PICK new : new = [[scripts[r] EXCEPT !.at = "FIND"] EXCEPT !.i = n]
    OBVIOUS
  <2>2. /\ scripts' = [scripts EXCEPT ![r] = new]
        /\ collections' = [collections EXCEPT !["001"].there = TRUE]
        /\ UNCHANGED <<records, dropped>>
    BY <1>3, <2>0, <2>1 DEF InsertAccount
  <2>3. PICK made : made = [collections["001"] EXCEPT !.there = TRUE]
    OBVIOUS
  <2>4. collections["001"] \in [there : BOOLEAN, indexes : SUBSET (1..Indexes)]
    BY DEF MigrationsInv, MigrationKinds, Migrations
  <2>5. made \in [there : BOOLEAN, indexes : SUBSET (1..Indexes)]
    BY <2>3, <2>4
  <2>6. made.there /\ made.indexes = collections["001"].indexes
    BY <2>3, <2>4
  <2>7. /\ collections' \in [Migrations -> [there : BOOLEAN, indexes : SUBSET (1..Indexes)]]
        /\ collections'["001"] = made
        /\ \A x \in Migrations : x # "001" => collections'[x] = collections[x]
    BY <2>2, <2>3, <2>5 DEF MigrationsInv, MigrationKinds, Migrations
  <2>8. \A x \in Migrations : ~collections'[x].there => collections'[x].indexes = {}
    BY <2>6, <2>7 DEF MigrationsInv
  <2>9. \A x \in Migrations : /\ collections'[x].indexes = collections[x].indexes
                              /\ collections[x].there => collections'[x].there
    BY <2>6, <2>7
  <2>10. new.at = "FIND" /\ new \in Scripts
    BY <1>1, <2>1 DEF Scripts
  <2>11. records' \in Seq(Migrations) /\ dropped' \subseteq Migrations
    BY <2>2 DEF MigrationsInv, MigrationKinds
  <2> QED
    BY <2>2, <2>7, <2>8, <2>9, <2>10, <2>11, RecordedOnce, MoveKeeps
<1> QED
  BY <1>2, <1>3

\* A script builds a migration: of one that was not rolled back, it is the only
\* one that does, and nobody has recorded it.
LEMMA BuildKeeps ==
  ASSUME MigrationsInv, NEW r \in Runners, NEW new \in Scripts,
         scripts' = [scripts EXCEPT ![r] = new],
         new.at \in {"INDEX", "MARK"}, new.i = scripts[r].i, new.i \in 1..2,
         NEW built \in [there : BOOLEAN, indexes : SUBSET (1..Indexes)],
         collections' = [collections EXCEPT ![Of(r)] = built],
         ~built.there => built.indexes = {},
         UNCHANGED <<records, dropped>>,
         Of(r) \notin dropped =>
           /\ built.there
           /\ ~Recorded(Of(r))
           /\ \A q \in Runners \ {r} : Building(q) => Of(q) # Of(r)
           /\ new.at = "INDEX" => built.indexes = 1..new.index - 1
           /\ new.at = "MARK" => built.indexes = 1..Indexes
  PROVE  MigrationsInv'
<1>1. /\ scripts' \in [Runners -> Scripts] /\ scripts'[r] = new
      /\ \A q \in Runners : q # r => scripts'[q] = scripts[q]
  BY DEF MigrationsInv, MigrationKinds
<1>2. PICK x \in Migrations : x = Of(r)
  BY DEF Of, MigrationFiles, Migrations
<1>3. /\ collections' \in [Migrations -> [there : BOOLEAN, indexes : SUBSET (1..Indexes)]]
      /\ collections'[x] = built
      /\ \A y \in Migrations : y # x => collections'[y] = collections[y]
  BY <1>2 DEF MigrationsInv, MigrationKinds
<1>4. MigrationKinds'
  BY <1>1, <1>3 DEF MigrationsInv, MigrationKinds
<1>5. ScriptsFit'
  BY <1>1 DEF MigrationsInv, ScriptsFit, Of
<1>6. \A q \in Runners : Of(q)' = Of(q)
  BY <1>1 DEF Of
<1>7. \A q \in Runners : Recorded(Of(q))' <=> Recorded(Of(q))
  BY <1>6 DEF Recorded
<1>8. OneBuilder'
  <2> SUFFICES ASSUME NEW p \in Runners, Building(p)', Of(p)' \notin dropped
               PROVE  /\ collections'[Of(p)'].there
                      /\ scripts'[p].at = "INDEX" =>
                           collections'[Of(p)'].indexes = 1..scripts'[p].index - 1
                      /\ scripts'[p].at = "MARK" =>
                           collections'[Of(p)'].indexes = 1..Indexes
                      /\ ~Recorded(Of(p))'
                      /\ \A q \in Runners \ {p} : Building(q)' => Of(q)' # Of(p)'
    BY DEF OneBuilder
  <2>1. Of(p) \notin dropped /\ Of(p)' = Of(p)
    BY <1>6
  <2>2. CASE p = r
    <3>1. /\ built.there
          /\ ~Recorded(x)
          /\ \A q \in Runners \ {r} : Building(q) => Of(q) # x
          /\ new.at = "INDEX" => built.indexes = 1..new.index - 1
          /\ new.at = "MARK" => built.indexes = 1..Indexes
      BY <1>2, <2>1, <2>2
    <3>2. \A q \in Runners \ {r} : Building(q)' => Building(q)
      BY <1>1 DEF Building
    <3> QED
      BY <1>1, <1>2, <1>3, <1>6, <1>7, <2>1, <2>2, <3>1, <3>2
  <2>3. CASE p # r
    <3>1. Building(p) /\ scripts'[p] = scripts[p] /\ scripts[p].i \in 1..2
      BY <1>1, <2>3 DEF Building, MigrationsInv, ScriptsFit
    <3>2. PICK y \in Migrations : y = Of(p) /\ y = Of(p)'
      BY <2>1, <3>1 DEF Of, MigrationFiles, Migrations
    <3>3. /\ collections[Of(p)].there
          /\ scripts[p].at = "INDEX" =>
               collections[Of(p)].indexes = 1..scripts[p].index - 1
          /\ scripts[p].at = "MARK" => collections[Of(p)].indexes = 1..Indexes
          /\ ~Recorded(Of(p))
          /\ \A q \in Runners \ {p} : Building(q) => Of(q) # Of(p)
      BY <2>1, <3>1 DEF MigrationsInv, OneBuilder
    <3>4. y # x
      BY <1>2, <2>1, <2>3, <3>1, <3>2
    <3>5. \A q \in Runners \ {p, r} : Building(q)' => Building(q)
      BY <1>1 DEF Building
    <3>6. \A q \in Runners \ {p} : Building(q)' => Of(q)' # Of(p)'
      BY <1>2, <1>6, <2>1, <3>2, <3>3, <3>4, <3>5
    <3> QED
      BY <1>3, <1>7, <2>1, <3>1, <3>2, <3>3, <3>4, <3>6
  <2> QED
    BY <2>2, <2>3
<1>9. RecordsBuilt'
  <2> SUFFICES ASSUME NEW i \in DOMAIN records, records[i] \notin dropped
               PROVE  /\ collections'[records[i]].there
                      /\ collections'[records[i]].indexes = 1..Indexes
                      /\ \A j \in DOMAIN records \ {i} : records[j] # records[i]
    BY DEF RecordsBuilt
  <2>1. records[i] # x
    BY <1>2 DEF Recorded
  <2>2. records[i] \in Migrations
    BY ElementOfSeq, LenProperties DEF MigrationsInv, MigrationKinds
  <2>3. /\ collections[records[i]].there
        /\ collections[records[i]].indexes = 1..Indexes
        /\ \A j \in DOMAIN records \ {i} : records[j] # records[i]
    BY DEF MigrationsInv, RecordsBuilt
  <2> QED
    BY <1>3, <2>1, <2>2, <2>3
<1>10. \A y \in Migrations : ~collections'[y].there => collections'[y].indexes = {}
  BY <1>3 DEF MigrationsInv
<1> QED
  BY <1>4, <1>5, <1>8, <1>9, <1>10 DEF MigrationsInv

LEMMA CreateStep ==
  ASSUME MigrationsInv, NEW r \in Runners, CreateCollection(r)
  PROVE  MigrationsInv'
<1>1. /\ scripts[r] \in Scripts /\ scripts[r].i \in 1..2 /\ scripts[r].index = 1
      /\ scripts[r].at = "CREATE"
      /\ UNCHANGED <<records, dropped>>
  BY DEF CreateCollection, MigrationsInv, MigrationKinds, ScriptsFit
<1>2. PICK x \in Migrations : x = Of(r)
  BY <1>1 DEF Of, MigrationFiles, Migrations
<1>3. CASE collections[Of(r)].there
  <2>1. PICK new : new = [scripts[r] EXCEPT !.at = "FAILED"]
    OBVIOUS
  <2>2. new \in Scripts /\ new.at = "FAILED"
    BY <1>1, <2>1 DEF Scripts
  <2>3. scripts' = [scripts EXCEPT ![r] = new] /\ UNCHANGED collections
    BY <1>3, <2>1 DEF CreateCollection, Goes
  <2> QED
    BY <1>1, <2>2, <2>3, OnlyMoves
<1>4. CASE ~collections[Of(r)].there
  <2>1. PICK new : new = [scripts[r] EXCEPT !.at = "INDEX"]
    OBVIOUS
  <2>2. new \in Scripts /\ new.at = "INDEX" /\ new.i = scripts[r].i /\ new.index = 1
    BY <1>1, <2>1 DEF Scripts
  <2>3. scripts' = [scripts EXCEPT ![r] = new]
    BY <1>4, <2>1 DEF CreateCollection, Goes
  <2>4. PICK built : built = [collections[x] EXCEPT !.there = TRUE]
    OBVIOUS
  <2>5. collections[x] \in [there : BOOLEAN, indexes : SUBSET (1..Indexes)]
    BY DEF MigrationsInv, MigrationKinds
  <2>6. built \in [there : BOOLEAN, indexes : SUBSET (1..Indexes)]
    BY <2>4, <2>5
  <2>7. built.there /\ built.indexes = {}
    BY <1>2, <1>4, <2>4, <2>5 DEF MigrationsInv
  <2>8. collections' = [collections EXCEPT ![Of(r)] = built]
    BY <1>2, <1>4, <2>4 DEF CreateCollection
  <2>9. ASSUME Of(r) \notin dropped
        PROVE  /\ ~Recorded(Of(r))
               /\ \A q \in Runners \ {r} : Building(q) => Of(q) # Of(r)
    <3>1. ~Recorded(Of(r))
      BY <1>4, <2>9 DEF Recorded, MigrationsInv, RecordsBuilt
    <3>2. ASSUME NEW q \in Runners, Building(q), Of(q) = Of(r) PROVE FALSE
      BY <1>4, <2>9, <3>2 DEF MigrationsInv, OneBuilder
    <3> QED
      BY <3>1, <3>2
  <2>10. built.indexes = 1..new.index - 1
    BY <2>2, <2>7
  <2> QED
    BY <1>1, <2>2, <2>3, <2>6, <2>7, <2>8, <2>9, <2>10, BuildKeeps
<1> QED
  BY <1>3, <1>4

LEMMA IndexStep ==
  ASSUME MigrationsInv, NEW r \in Runners, CreateIndex(r)
  PROVE  MigrationsInv'
<1>1. /\ scripts[r] \in Scripts /\ scripts[r].i \in 1..2 /\ scripts[r].at = "INDEX"
      /\ UNCHANGED <<records, dropped>> /\ Building(r)
  BY DEF CreateIndex, MigrationsInv, MigrationKinds, ScriptsFit, Building
<1>2. PICK x \in Migrations : x = Of(r)
  BY <1>1 DEF Of, MigrationFiles, Migrations
<1>3. collections[x] \in [there : BOOLEAN, indexes : SUBSET (1..Indexes)]
  BY DEF MigrationsInv, MigrationKinds
<1>4. ASSUME Of(r) \notin dropped
      PROVE  /\ collections[x].there
             /\ collections[x].indexes = 1..scripts[r].index - 1
             /\ ~Recorded(Of(r))
             /\ \A q \in Runners \ {r} : Building(q) => Of(q) # Of(r)
  BY <1>1, <1>2, <1>4 DEF MigrationsInv, OneBuilder
<1>5. PICK n \in 1..Indexes + 1 : n = scripts[r].index
  BY <1>1 DEF Scripts
<1>6. CASE n > Indexes
  <2>1. PICK new : new = [scripts[r] EXCEPT !.at = "MARK"]
    OBVIOUS
  <2>2. new \in Scripts /\ new.at = "MARK" /\ new.i = scripts[r].i
    BY <1>1, <2>1 DEF Scripts
  <2>3. scripts' = [scripts EXCEPT ![r] = new] /\ collections' = collections
    BY <1>5, <1>6, <2>1 DEF CreateIndex, Goes
  <2>4. n = Indexes + 1 /\ 1..n - 1 = 1..Indexes
    BY <1>6, MigrationsAssumption
  <2>5. collections' = [collections EXCEPT ![Of(r)] = collections[x]]
    BY <1>2, <2>3 DEF MigrationsInv, MigrationKinds
  <2>6. Of(r) \notin dropped => collections[x].indexes = 1..Indexes
    BY <1>4, <1>5, <2>4
  <2>7. ~collections[x].there => collections[x].indexes = {}
    BY DEF MigrationsInv
  <2> QED
    BY <1>1, <1>3, <1>4, <2>2, <2>3, <2>5, <2>6, <2>7, BuildKeeps
<1>7. CASE n \in 1..Indexes
  <2>1. PICK new : new = [scripts[r] EXCEPT !.index = n + 1]
    OBVIOUS
  <2>2. new \in Scripts
    BY <1>1, <1>7, <2>1, MigrationsAssumption DEF Scripts
  <2>3. new.at = "INDEX" /\ new.i = scripts[r].i /\ new.index = n + 1
    BY <1>1, <2>1 DEF Scripts
  <2>4. PICK built : built = [there |-> TRUE, indexes |-> collections[x].indexes \cup {n}]
    OBVIOUS
  <2>5. built \in [there : BOOLEAN, indexes : SUBSET (1..Indexes)]
    BY <1>3, <1>7, <2>4
  <2>6. built.there
    BY <2>4
  <2>7. /\ scripts' = [scripts EXCEPT ![r] = new]
        /\ collections' = [collections EXCEPT ![Of(r)] = built]
    <3>1. ~(n > Indexes)
      BY <1>7, MigrationsAssumption
    <3> QED
      BY <1>2, <1>5, <2>1, <2>4, <3>1 DEF CreateIndex
  <2>8. ASSUME Of(r) \notin dropped PROVE built.indexes = 1..new.index - 1
    <3>1. built.indexes = (1..n - 1) \cup {n}
      BY <1>4, <1>5, <2>4, <2>8
    <3> QED
      BY <1>7, <2>3, <3>1, MigrationsAssumption
  <2> QED
    BY <1>1, <1>4, <2>2, <2>3, <2>5, <2>6, <2>7, <2>8, BuildKeeps
<1> QED
  BY <1>5, <1>6, <1>7, MigrationsAssumption

\* markMigrationAsApplied()
LEMMA MarkStep ==
  ASSUME MigrationsInv, NEW r \in Runners, Mark(r)
  PROVE  MigrationsInv'
<1>1. /\ scripts[r] \in Scripts /\ scripts[r].i \in 1..2 /\ scripts[r].at = "MARK"
      /\ records' = Append(records, Of(r))
      /\ UNCHANGED <<collections, dropped>> /\ Building(r)
  BY DEF Mark, MigrationsInv, MigrationKinds, ScriptsFit, Building
<1>2. PICK x \in Migrations : x = Of(r)
  BY <1>1 DEF Of, MigrationFiles, Migrations
<1>3. PICK n \in 1..3 : n = scripts[r].i + 1
  BY <1>1
<1>4. PICK new : new = [[scripts[r] EXCEPT !.at = "NEXT"] EXCEPT !.i = n]
  OBVIOUS
<1>5. new \in Scripts /\ new.at = "NEXT"
  <2>1. new \in Scripts
    BY <1>1, <1>3, <1>4 DEF Scripts
  <2>2. new.at = "NEXT"
    BY <1>1, <1>4 DEF Scripts
  <2> QED
    BY <2>1, <2>2
<1>6. scripts' = [scripts EXCEPT ![r] = new]
  BY <1>3, <1>4 DEF Mark
<1>7. /\ scripts' \in [Runners -> Scripts] /\ scripts'[r] = new
      /\ \A q \in Runners : q # r => scripts'[q] = scripts[q]
  BY <1>5, <1>6 DEF MigrationsInv, MigrationKinds
<1>8. PICK len \in Nat : /\ DOMAIN records = 1..len /\ DOMAIN records' = 1..len + 1
                         /\ records' \in Seq(Migrations)
                         /\ \A i \in 1..len : records'[i] = records[i]
                         /\ records'[len + 1] = x
  <2>1. records \in Seq(Migrations)
    BY DEF MigrationsInv, MigrationKinds
  <2>2. /\ Len(records) \in Nat /\ DOMAIN records = 1..Len(records)
        /\ records' \in Seq(Migrations) /\ Len(records') = Len(records) + 1
        /\ \A i \in 1..Len(records) : records'[i] = records[i]
        /\ records'[Len(records) + 1] = x
    BY <1>1, <1>2, <2>1, AppendProperties, LenProperties
  <2>3. DOMAIN records' = 1..Len(records')
    BY <2>2, LenProperties
  <2> QED
    BY <2>2, <2>3
<1>9. MigrationKinds' /\ ScriptsFit'
  BY <1>1, <1>5, <1>7, <1>8 DEF MigrationsInv, MigrationKinds, ScriptsFit, Of
<1>10. ASSUME NEW p \in Runners, Building(p)', Of(p)' \notin dropped'
       PROVE  /\ collections'[Of(p)'].there
              /\ scripts'[p].at = "INDEX" =>
                   collections'[Of(p)'].indexes = 1..scripts'[p].index - 1
              /\ scripts'[p].at = "MARK" => collections'[Of(p)'].indexes = 1..Indexes
              /\ ~Recorded(Of(p))'
              /\ \A q \in Runners \ {p} : Building(q)' => Of(q)' # Of(p)'
  <2>1. p # r /\ scripts'[p] = scripts[p] /\ Building(p)
    BY <1>5, <1>7, <1>10 DEF Building
  <2>2. Of(p)' = Of(p) /\ \A q \in Runners : Building(q)' => Building(q) /\ Of(q)' = Of(q)
    BY <1>5, <1>7, <2>1 DEF Building, Of
  <2>3. /\ collections[Of(p)].there
        /\ scripts[p].at = "INDEX" =>
             collections[Of(p)].indexes = 1..scripts[p].index - 1
        /\ scripts[p].at = "MARK" => collections[Of(p)].indexes = 1..Indexes
        /\ ~Recorded(Of(p))
        /\ \A q \in Runners \ {p} : Building(q) => Of(q) # Of(p)
    BY <1>1, <1>10, <2>1, <2>2 DEF MigrationsInv, OneBuilder
  <2>4. Of(p) # x
    BY <1>1, <1>2, <2>1, <2>3
  <2>5. ~Recorded(Of(p))'
    BY <1>8, <2>2, <2>3, <2>4 DEF Recorded
  <2> QED
    BY <1>1, <2>1, <2>2, <2>3, <2>5
<1>11. ASSUME NEW i \in DOMAIN records', records'[i] \notin dropped'
       PROVE  /\ collections'[records'[i]].there
              /\ collections'[records'[i]].indexes = 1..Indexes
              /\ \A j \in DOMAIN records' \ {i} : records'[j] # records'[i]
  <2>1. x \notin dropped => /\ collections[x].there /\ collections[x].indexes = 1..Indexes
                            /\ \A j \in DOMAIN records : records[j] # x
    BY <1>1, <1>2 DEF MigrationsInv, OneBuilder, Recorded
  <2>2. CASE i = len + 1
    BY <1>1, <1>8, <1>11, <2>1, <2>2
  <2>3. CASE i \in 1..len
    <3>1. records'[i] = records[i] /\ records[i] \notin dropped
      BY <1>1, <1>8, <1>11, <2>3
    <3>2. /\ collections[records[i]].there
          /\ collections[records[i]].indexes = 1..Indexes
          /\ \A j \in DOMAIN records \ {i} : records[j] # records[i]
      BY <1>8, <2>3, <3>1 DEF MigrationsInv, RecordsBuilt
    <3>3. x # records[i]
      BY <1>8, <2>1, <2>3, <3>1
    <3> QED
      BY <1>1, <1>8, <3>1, <3>2, <3>3
  <2> QED
    BY <1>8, <1>11, <2>2, <2>3
<1> QED
  BY <1>1, <1>9, <1>10, <1>11 DEF MigrationsInv, OneBuilder, RecordsBuilt

\* A rollback starts, drops its collection, and removes one record.
LEMMA RollbackStep ==
  ASSUME MigrationsInv, NEW r \in Runners, Rollback(r)
  PROVE  MigrationsInv'
<1>1. PICK at \in {"DONE", "DROP"}, i \in 1..2 : StartScript(r, at, {}, i)
  <2>1. CASE records = <<>>
    BY <2>1 DEF Rollback
  <2>2. CASE records # <<>>
    BY <2>2 DEF Rollback, MigrationFiles
  <2> QED
    BY <2>1, <2>2
<1>2. PICK new : new = [at |-> at, seen |-> {}, i |-> i, index |-> 1]
  OBVIOUS
<1>3. new \in Scripts /\ new.at = at /\ new.i = i
  BY <1>1, <1>2, MigrationsAssumption DEF Scripts
<1>4. scripts' = [scripts EXCEPT ![r] = new] /\ UNCHANGED <<collections, records, dropped>>
  BY <1>1, <1>2 DEF StartScript
<1> QED
  BY <1>1, <1>3, <1>4, OnlyMoves

LEMMA DownStep ==
  ASSUME MigrationsInv, NEW r \in Runners, Down(r)
  PROVE  MigrationsInv'
<1>1. /\ scripts[r] \in Scripts /\ scripts[r].i \in 1..2
      /\ records' = records /\ dropped' = dropped \cup {Of(r)}
      /\ collections' = [collections EXCEPT ![Of(r)] = NoCollection]
  BY DEF Down, MigrationsInv, MigrationKinds, ScriptsFit
<1>2. PICK x \in Migrations : x = Of(r)
  BY <1>1 DEF Of, MigrationFiles, Migrations
<1>3. PICK at \in {"UNMARK", "FAILED"} : Goes(r, at)
  BY DEF Down
<1>4. PICK new : new = [scripts[r] EXCEPT !.at = at]
  OBVIOUS
<1>5. new \in Scripts /\ new.at = at /\ new.i = scripts[r].i
  BY <1>1, <1>3, <1>4 DEF Scripts
<1>6. scripts' = [scripts EXCEPT ![r] = new]
  BY <1>3, <1>4 DEF Goes
<1>7. MigrationFiles[new.i] \in dropped'
  BY <1>1, <1>5 DEF Of
<1>8. /\ NoCollection \in [there : BOOLEAN, indexes : SUBSET (1..Indexes)]
      /\ NoCollection.indexes = {}
  BY DEF NoCollection
<1>9. /\ collections' \in [Migrations -> [there : BOOLEAN, indexes : SUBSET (1..Indexes)]]
      /\ collections'[x] = NoCollection
      /\ \A y \in Migrations : y # x => collections'[y] = collections[y]
  BY <1>1, <1>2, <1>8 DEF MigrationsInv, MigrationKinds
<1>10. \A y \in Migrations : ~collections'[y].there => collections'[y].indexes = {}
  BY <1>8, <1>9 DEF MigrationsInv
<1>11. \A y \in Migrations \ dropped' :
         /\ collections'[y].indexes = collections[y].indexes
         /\ collections[y].there => collections'[y].there
  BY <1>1, <1>2, <1>9
<1>12. /\ records' \in Seq(Migrations) /\ dropped' \subseteq Migrations
       /\ dropped \subseteq dropped'
  BY <1>1, <1>2 DEF MigrationsInv, MigrationKinds
<1>13. \A i, j \in DOMAIN records' :
         i # j /\ records'[i] = records'[j] => records'[i] \in dropped'
  BY <1>1, <1>12, RecordedOnce
<1> QED
  BY <1>1, <1>3, <1>5, <1>6, <1>7, <1>9, <1>10, <1>11, <1>12, <1>13, MoveKeeps

\* A sequence without its element k.
CutOut(s, k) == SubSeq(s, 1, k - 1) \o SubSeq(s, k + 1, Len(s))

LEMMA WithoutOne ==
  ASSUME NEW S, NEW s \in Seq(S), NEW k \in 1..Len(s), NEW t, t = CutOut(s, k)
  PROVE  /\ t \in Seq(S) /\ DOMAIN t = 1..Len(s) - 1
         /\ \A i \in 1..Len(s) - 1 : t[i] = IF i < k THEN s[i] ELSE s[i + 1]
<1>1. /\ Len(s) \in Nat /\ k \in Int /\ k - 1 \in Int /\ k + 1 \in Int
      /\ \A i \in 1..Len(s) : s[i] \in S
  BY LenProperties, ElementOfSeq
<1>2. PICK a : a = SubSeq(s, 1, k - 1)
  OBVIOUS
<1>3. PICK b : b = SubSeq(s, k + 1, Len(s))
  OBVIOUS
<1>4. a \in Seq(S) /\ Len(a) = k - 1 /\ \A i \in 1..k - 1 : a[i] = s[i]
  <2>1. \A i \in 1..k - 1 : s[i] \in S
    BY <1>1
  <2>2. /\ SubSeq(s, 1, k - 1) \in Seq(S)
        /\ Len(SubSeq(s, 1, k - 1)) = IF 1 <= k - 1 THEN k - 1 - 1 + 1 ELSE 0
        /\ \A i \in 1..k - 1 - 1 + 1 : SubSeq(s, 1, k - 1)[i] = s[1 + i - 1]
    BY <1>1, <2>1, SubSeqProperties
  <2> QED
    BY <1>1, <1>2, <2>2
<1>5. b \in Seq(S) /\ Len(b) = Len(s) - k /\ \A i \in 1..Len(s) - k : b[i] = s[k + i]
  <2>1. \A i \in k + 1..Len(s) : s[i] \in S
    BY <1>1
  <2>2. /\ SubSeq(s, k + 1, Len(s)) \in Seq(S)
        /\ Len(SubSeq(s, k + 1, Len(s))) =
             IF k + 1 <= Len(s) THEN Len(s) - (k + 1) + 1 ELSE 0
        /\ \A i \in 1..Len(s) - (k + 1) + 1 :
             SubSeq(s, k + 1, Len(s))[i] = s[k + 1 + i - 1]
    BY <1>1, <2>1, SubSeqProperties
  <2> QED
    BY <1>1, <1>3, <2>2
<1>6. t = a \o b
  BY <1>2, <1>3 DEF CutOut
<1>7. /\ t \in Seq(S) /\ Len(t) = Len(a) + Len(b)
      /\ \A i \in 1..Len(a) + Len(b) : t[i] = IF i <= Len(a) THEN a[i] ELSE b[i - Len(a)]
  <2>1. /\ a \o b \in Seq(S) /\ Len(a \o b) = Len(a) + Len(b)
        /\ \A i \in 1..Len(a) + Len(b) :
             (a \o b)[i] = IF i <= Len(a) THEN a[i] ELSE b[i - Len(a)]
    BY <1>4, <1>5, ConcatProperties
  <2> QED
    BY <1>6, <2>1
<1>8. Len(t) = Len(s) - 1 /\ DOMAIN t = 1..Len(t)
  BY <1>1, <1>4, <1>5, <1>7, LenProperties
<1>9. ASSUME NEW i \in 1..Len(s) - 1 PROVE t[i] = IF i < k THEN s[i] ELSE s[i + 1]
  <2>1. /\ i \in Int /\ i \in 1..Len(a) + Len(b)
        /\ t[i] = IF i <= k - 1 THEN a[i] ELSE b[i - (k - 1)]
    <3>1. Len(a) + Len(b) = Len(s) - 1
      BY <1>1, <1>4, <1>5
    <3>2. i \in Int /\ i \in 1..Len(a) + Len(b)
      BY <1>1, <3>1
    <3>3. t[i] = IF i <= Len(a) THEN a[i] ELSE b[i - Len(a)]
      BY <1>7, <3>2
    <3>4. Len(a) = k - 1
      BY <1>4
    <3>5. t[i] = IF i <= k - 1 THEN a[i] ELSE b[i - (k - 1)]
      BY <3>3, <3>4
    <3> QED
      BY <3>2, <3>5
  <2>2. CASE i < k
    <3>1. i \in 1..k - 1
      BY <1>1, <2>1, <2>2
    <3> QED
      BY <1>1, <1>4, <2>1, <2>2, <3>1
  <2>3. CASE ~(i < k)
    <3>1. t[i] = b[i - (k - 1)]
      <4>1. ~(i <= k - 1)
        BY <1>1, <2>1, <2>3
      <4> QED
        BY <2>1, <4>1
    <3>2. PICK m \in 1..Len(s) - k : m = i - (k - 1)
      BY <1>1, <2>1, <2>3
    <3>3. b[m] = s[k + m] /\ k + m = i + 1
      BY <1>1, <1>5, <2>1, <3>2
    <3> QED
      BY <2>3, <3>1, <3>2, <3>3
  <2> QED
    BY <2>2, <2>3
<1> QED
  BY <1>7, <1>8, <1>9

LEMMA UnmarkStep ==
  ASSUME MigrationsInv, NEW r \in Runners, Unmark(r)
  PROVE  MigrationsInv'
<1>1. /\ scripts[r] \in Scripts /\ UNCHANGED <<collections, dropped>>
      /\ records \in Seq(Migrations)
  BY DEF Unmark, MigrationsInv, MigrationKinds
<1>2. PICK new : new = [scripts[r] EXCEPT !.at = "DONE"]
  OBVIOUS
<1>3. new \in Scripts /\ new.at = "DONE"
  BY <1>1, <1>2 DEF Scripts
<1>4. scripts' = [scripts EXCEPT ![r] = new]
  BY <1>2 DEF Unmark, Goes
<1>5. CASE ~Recorded(Of(r))
  BY <1>1, <1>3, <1>4, <1>5, OnlyMoves DEF Unmark
<1>6. CASE Recorded(Of(r))
  <2>1. PICK k \in DOMAIN records :
          records' = SubSeq(records, 1, k - 1) \o SubSeq(records, k + 1, Len(records))
    BY <1>6 DEF Unmark
  <2>2. Len(records) \in Nat /\ DOMAIN records = 1..Len(records)
    BY <1>1, LenProperties
  <2>3. k \in 1..Len(records)
    BY <2>1, <2>2
  <2>4. /\ records' \in Seq(Migrations) /\ DOMAIN records' = 1..Len(records) - 1
        /\ \A i \in 1..Len(records) - 1 :
             records'[i] = IF i < k THEN records[i] ELSE records[i + 1]
    <3>1. records' = CutOut(records, k)
      BY <2>1 DEF CutOut
    <3> QED
      BY <1>1, <2>3, <3>1, WithoutOne
  <2>5. \A i \in DOMAIN records' : \E j \in DOMAIN records : records[j] = records'[i]
    BY <2>2, <2>3, <2>4
  <2>6. ASSUME NEW i \in DOMAIN records', NEW j \in DOMAIN records', i # j,
               records'[i] = records'[j]
        PROVE  records'[i] \in dropped'
    <3>1. PICK a \in DOMAIN records : a = (IF i < k THEN i ELSE i + 1) /\ records'[i] = records[a]
      BY <2>2, <2>3, <2>4
    <3>2. PICK b \in DOMAIN records : b = (IF j < k THEN j ELSE j + 1) /\ records'[j] = records[b]
      BY <2>2, <2>3, <2>4
    <3>3. a # b
      BY <2>2, <2>3, <2>4, <2>6, <3>1, <3>2
    <3> QED
      BY <1>1, <2>6, <3>1, <3>2, <3>3, RecordedOnce
  <2>7. /\ collections' \in [Migrations -> [there : BOOLEAN, indexes : SUBSET (1..Indexes)]]
        /\ dropped' \subseteq Migrations
        /\ \A x \in Migrations : ~collections'[x].there => collections'[x].indexes = {}
    BY <1>1 DEF MigrationsInv, MigrationKinds
  <2> QED
    BY <1>1, <1>3, <1>4, <2>4, <2>5, <2>6, <2>7, MoveKeeps
<1> QED
  BY <1>5, <1>6

LEMMA MigrationsInvNext == MigrationsInv /\ [MigrationsNext]_migrationVars => MigrationsInv'
<1> SUFFICES ASSUME MigrationsInv, [MigrationsNext]_migrationVars PROVE MigrationsInv'
  OBVIOUS
<1>1. ASSUME NEW r \in Runners,
             Migrate(r) \/ NextFile(r) \/ SeedScript(r) \/ FindAccount(r) \/ Stops(r)
      PROVE  MigrationsInv'
  BY <1>1, QuietStep
<1>2. ASSUME NEW r \in Runners, CreateCollection(r) \/ CreateIndex(r) \/ Mark(r)
      PROVE  MigrationsInv'
  BY <1>2, CreateStep, IndexStep, MarkStep
<1>3. ASSUME NEW r \in Runners, Rollback(r) \/ Down(r) \/ Unmark(r) PROVE MigrationsInv'
  BY <1>3, RollbackStep, DownStep, UnmarkStep
<1>4. ASSUME NEW r \in Runners, InsertAccount(r) PROVE MigrationsInv'
  BY <1>4, InsertStep
<1>5. CASE UNCHANGED migrationVars
  <2> USE <1>5 DEF migrationVars
  <2>1. MigrationKinds' /\ ScriptsFit'
    BY DEF MigrationsInv, MigrationKinds, ScriptsFit, Of
  <2>2. OneBuilder' /\ RecordsBuilt'
    BY DEF MigrationsInv, OneBuilder, RecordsBuilt, Building, Of, Recorded
  <2> QED
    BY <2>1, <2>2 DEF MigrationsInv
<1> QED
  BY <1>1, <1>2, <1>3, <1>4, <1>5 DEF MigrationsNext

THEOREM MigrationsInvariance == MigrationsSpec => []MigrationsInv
BY MigrationsInvInit, MigrationsInvNext, PTL DEF MigrationsSpec

\* However many runners and seeds overlap, and wherever they stop, a migration
\* that is recorded and was never rolled back was built, once.
THEOREM AppliedMeansBuiltCorrect == MigrationsSpec => []AppliedMeansBuilt
<1>1. MigrationsInv => AppliedMeansBuilt
  <2> SUFFICES ASSUME MigrationsInv, NEW i \in DOMAIN records, records[i] \notin dropped
               PROVE  /\ collections[records[i]] = [there |-> TRUE, indexes |-> 1..Indexes]
                      /\ \A j \in DOMAIN records \ {i} : records[j] # records[i]
    BY DEF AppliedMeansBuilt
  <2>1. collections[records[i]] \in [there : BOOLEAN, indexes : SUBSET (1..Indexes)]
    BY ElementOfSeq, LenProperties DEF MigrationsInv, MigrationKinds
  <2>2. /\ collections[records[i]].there
        /\ collections[records[i]].indexes = 1..Indexes
        /\ \A j \in DOMAIN records \ {i} : records[j] # records[i]
    BY DEF MigrationsInv, RecordsBuilt
  <2> QED
    BY <2>1, <2>2
<1> QED
  BY <1>1, MigrationsInvariance, PTL

\* Of the types that MigrationsInv leaves out.
MigrationsRest == accounts \subseteq {Seeds[1], Seeds[2]} /\ starts \in 0..MaxStarts

LEMMA MigrationsRestNext ==
  MigrationsInv /\ MigrationsRest /\ [MigrationsNext]_migrationVars => MigrationsRest'
<1> SUFFICES ASSUME MigrationsInv, MigrationsRest, [MigrationsNext]_migrationVars
             PROVE  MigrationsRest'
  OBVIOUS
<1>1. ASSUME NEW r, NEW first, NEW ids, NEW i, StartScript(r, first, ids, i)
      PROVE  MigrationsRest'
  BY <1>1, MigrationsAssumption DEF StartScript, MigrationsRest
<1>2. CASE UNCHANGED <<accounts, starts>>
  BY <1>2 DEF MigrationsRest
<1>3. ASSUME NEW r \in Runners, InsertAccount(r) PROVE MigrationsRest'
  <2>1. scripts[r].i \in 1..2
    BY <1>3 DEF InsertAccount, MigrationsInv, ScriptsFit
  <2>2. Seeds[scripts[r].i] \in {Seeds[1], Seeds[2]}
    BY <2>1
  <2>3. starts' = starts /\ accounts' \subseteq accounts \cup {Seeds[scripts[r].i]}
    BY <1>3 DEF InsertAccount
  <2> QED
    BY <2>2, <2>3 DEF MigrationsRest
<1>4. ASSUME NEW r \in Runners, Down(r) PROVE MigrationsRest'
  BY <1>4 DEF Down, MigrationsRest
<1>5. ASSUME NEW r \in Runners, Migrate(r) \/ Rollback(r) \/ SeedScript(r)
      PROVE  MigrationsRest'
  BY <1>1, <1>5 DEF Migrate, Rollback, SeedScript
<1>6. ASSUME NEW r \in Runners,
             \/ NextFile(r) \/ CreateCollection(r) \/ CreateIndex(r) \/ Mark(r)
             \/ Unmark(r) \/ FindAccount(r) \/ Stops(r)
      PROVE  MigrationsRest'
  BY <1>2, <1>6
  DEF NextFile, CreateCollection, CreateIndex, Mark, Unmark, FindAccount, Stops
<1>7. CASE UNCHANGED migrationVars
  BY <1>2, <1>7 DEF migrationVars
<1> QED
  BY <1>3, <1>4, <1>5, <1>6, <1>7 DEF MigrationsNext

\* The scripts keep their types: none runs past its files, indexes or seeds.
THEOREM MigrationsTypeCorrect == MigrationsSpec => []MigrationsTypeOK
<1>1. MigrationsInit => MigrationsRest
  BY MigrationsAssumption DEF MigrationsInit, MigrationsRest
<1>2. MigrationsInv /\ MigrationsRest => MigrationsTypeOK
  BY DEF MigrationsInv, MigrationKinds, MigrationsRest, MigrationsTypeOK, Scripts
<1> QED
  BY <1>1, <1>2, MigrationsInvInit, MigrationsInvNext, MigrationsRestNext, PTL
  DEF MigrationsSpec

-----------------------------------------------------------------------------
(* Streaming: what is under way has not been counted yet.                  *)

StreamInv ==
  /\ stack \in Seq([todo : SUBSET Subs, calling : BOOLEAN])
  /\ messageCount \in Nat /\ sent \in Nat
  /\ StatusCatchesUp

\* Until destroy(), a step that leaves the publishings as they are tells what it
\* leaves behind, or changes nothing of it.
LEMMA TellsWhatIs ==
  ASSUME StreamInv, UNCHANGED <<stack, messageCount, sent>>,
         \/ UpdateStatus(streamingOn', subjects', messageCount) /\ UNCHANGED closed
         \/ UNCHANGED <<streamingOn, subjects, status, closed>>
         \/ closed'
  PROVE  StreamInv'
<1>1. messageCount + Len(stack) = sent
  BY DEF StreamInv, StatusCatchesUp, Nested
<1>2. stack = <<>> => messageCount = sent
  BY <1>1, EmptySeq DEF StreamInv
<1>3. stack' = <<>> /\ ~closed' =>
        status' = [enabled |-> streamingOn', channels |-> subjects', messageCount |-> sent']
  BY <1>2 DEF StreamInv, StatusCatchesUp, UpdateStatus
<1> QED
  BY <1>1, <1>3 DEF StreamInv, StatusCatchesUp, Nested

LEMMA StreamInvNext == StreamInv /\ [StreamingNext]_streamVars => StreamInv'
<1> SUFFICES ASSUME StreamInv, [StreamingNext]_streamVars PROVE StreamInv'
  OBVIOUS
<1> DEFINE Frames == [todo : SUBSET Subs, calling : BOOLEAN]
<1>1. /\ stack \in Seq(Frames) /\ Len(stack) \in Nat
      /\ messageCount \in Nat /\ sent \in Nat /\ messageCount + Len(stack) = sent
  BY LenProperties DEF StreamInv, StatusCatchesUp, Nested
<1>2. stack # <<>> => Len(stack) \in Nat \ {0} /\ Top \in Frames
  <2>1. stack # <<>> => Len(stack) \in Nat \ {0}
    BY <1>1, EmptySeq
  <2>2. stack # <<>> => Len(stack) \in 1..Len(stack)
    BY <2>1
  <2> QED
    BY <1>1, <2>1, <2>2, ElementOfSeq DEF Top, Nested
<1>3. CASE InitializeStreaming \/ DestroyStreaming
  BY <1>3, TellsWhatIs DEF InitializeStreaming, DestroyStreaming
<1>4. ASSUME NEW ch \in Channels, CreateChannel(ch) \/ DestroyChannel(ch)
      PROVE  StreamInv'
  BY <1>4, TellsWhatIs DEF CreateChannel, DestroyChannel
<1>5. ASSUME NEW s \in Subs,
             Unsubscribe(s) \/ \E ch \in Channels : Subscribe(s, ch)
      PROVE  StreamInv'
  BY <1>5, TellsWhatIs DEF Unsubscribe, Subscribe
<1>6. ASSUME NEW ch \in Channels, Publish(ch) PROVE StreamInv'
  <2>1. PICK frame \in Frames : stack' = Append(stack, frame)
    BY <1>6 DEF Publish, Observers
  <2>2. stack' \in Seq(Frames) /\ Len(stack') = Len(stack) + 1
    BY <1>1, <2>1, AppendProperties
  <2>3. stack' # <<>>
    BY <1>1, <2>2, EmptySeq
  <2>4. sent' = sent + 1 /\ messageCount' = messageCount
    BY <1>6 DEF Publish
  <2>5. messageCount' + Len(stack') = sent'
    BY <1>1, <2>2, <2>4
  <2>6. messageCount' \in Nat /\ sent' \in Nat
    BY <1>1, <2>4
  <2>7. StatusCatchesUp'
    BY <2>3, <2>5 DEF StatusCatchesUp, Nested
  <2> QED
    BY <2>2, <2>6, <2>7 DEF StreamInv
<1>7. ASSUME NEW s \in Subs, Deliver(s) PROVE StreamInv'
  <2>1. Len(stack) \in 1..Len(stack) /\ stack # <<>>
    BY <1>2, <1>7 DEF Deliver
  <2>2. PICK frame : frame = [todo |-> Top.todo \ {s}, calling |-> TRUE]
    OBVIOUS
  <2>3. frame \in Frames
    BY <1>2, <2>1, <2>2
  <2>4. stack' = [stack EXCEPT ![Len(stack)] = frame]
    BY <1>7, <2>2 DEF Deliver, Top, Nested
  <2>5. stack' \in Seq(Frames) /\ Len(stack') = Len(stack)
    BY <1>1, <2>1, <2>3, <2>4, ExceptSeq
  <2>6. stack' # <<>>
    BY <1>2, <2>1, <2>5, EmptySeq
  <2> QED
    BY <1>1, <1>7, <2>5, <2>6 DEF Deliver, StreamInv, StatusCatchesUp, Nested
<1>8. CASE Published
  <2>1. /\ stack # <<>>
        /\ stack' = SubSeq(stack, 1, Len(stack) - 1)
        /\ messageCount' = messageCount + 1
        /\ UNCHANGED <<streamingOn, subjects, closed, sent>>
    BY <1>8 DEF Published, Nested
  <2>2. PICK n \in Nat \ {0} : n = Len(stack)
    BY <1>2, <2>1
  <2>3. PICK popped : popped = SubSeq(stack, 1, n - 1)
    OBVIOUS
  <2>4. popped \in Seq(Frames) /\ Len(popped) = n - 1
    <3>1. \A i \in 1..n : stack[i] \in Frames
      BY <1>1, <2>2, ElementOfSeq
    <3>2. \A i \in 1..n - 1 : stack[i] \in Frames
      BY <3>1
    <3>3. /\ SubSeq(stack, 1, n - 1) \in Seq(Frames)
          /\ Len(SubSeq(stack, 1, n - 1)) = IF 1 <= n - 1 THEN n - 1 - 1 + 1 ELSE 0
      BY <3>2, SubSeqProperties
    <3>4. (IF 1 <= n - 1 THEN n - 1 - 1 + 1 ELSE 0) = n - 1
      OBVIOUS
    <3> QED
      BY <2>3, <3>3, <3>4
  <2>5. stack' = popped
    BY <2>1, <2>2, <2>3
  <2>6. messageCount + n = sent
    BY <1>1, <2>2
  <2>7. messageCount' + Len(stack') = sent'
    <3>1. Len(stack') = n - 1
      BY <2>4, <2>5
    <3>2. PICK m \in Nat : m = messageCount
      BY <1>1
    <3>3. (m + 1) + (n - 1) = m + n
      OBVIOUS
    <3> QED
      BY <2>1, <2>6, <3>1, <3>2, <3>3
  <2>8. ASSUME stack' = <<>> PROVE messageCount' = sent'
    <3>1. Len(popped) = 0
      BY <2>5, <2>8, EmptySeq
    <3> QED
      BY <1>1, <2>1, <2>4, <2>6, <3>1
  <2>9. stack' = <<>> /\ ~closed' =>
          status' = [enabled |-> streamingOn', channels |-> subjects', messageCount |-> sent']
    BY <1>8, <2>1, <2>8 DEF Published, UpdateStatus
  <2> QED
    <3>1. messageCount' \in Nat /\ sent' \in Nat
      BY <1>1, <2>1
    <3>2. stack' \in Seq([todo : SUBSET Subs, calling : BOOLEAN])
      BY <2>4, <2>5
    <3> QED
      BY <2>7, <2>9, <3>1, <3>2 DEF StreamInv, StatusCatchesUp, Nested
<1>9. CASE UNCHANGED streamVars
  BY <1>9, TellsWhatIs DEF streamVars
<1> QED
  BY <1>3, <1>4, <1>5, <1>6, <1>7, <1>8, <1>9 DEF StreamingNext

LEMMA StreamInvInit == StreamingInit => StreamInv
<1> SUFFICES ASSUME StreamingInit PROVE StreamInv
  OBVIOUS
<1>1. stack \in Seq([todo : SUBSET Subs, calling : BOOLEAN]) /\ Len(stack) = 0
  BY EmptySeq DEF StreamingInit
<1>2. messageCount = 0 /\ sent = 0 /\ messageCount + Len(stack) = sent
  BY <1>1 DEF StreamingInit
<1>3. status = [enabled |-> streamingOn, channels |-> subjects, messageCount |-> sent]
  BY DEF StreamingInit
<1> QED
  BY <1>1, <1>2, <1>3 DEF StreamInv, StatusCatchesUp, Nested

\* However publishings nest, the count and the status catch up.
THEOREM StatusCatchesUpCorrect == StreamingSpec => []StatusCatchesUp
<1>1. StreamInv => StatusCatchesUp
  BY DEF StreamInv
<1> QED
  BY <1>1, StreamInvInit, StreamInvNext, PTL DEF StreamingSpec

\* The types that StreamInv leaves out.
StreamKinds ==
  /\ streamingOn \in BOOLEAN /\ closed \in BOOLEAN
  /\ subjects \subseteq Channels
  /\ subscribed \in [Subs -> Channels \cup {"NEW", Gone}]
  /\ status \in [enabled : BOOLEAN, channels : SUBSET Channels, messageCount : Nat]

LEMMA StreamKindsNext ==
  StreamInv /\ StreamKinds /\ [StreamingNext]_streamVars => StreamKinds'
<1> SUFFICES ASSUME StreamInv, StreamKinds, [StreamingNext]_streamVars
             PROVE  StreamKinds'
  OBVIOUS
<1>1. messageCount \in Nat
  BY DEF StreamInv
<1>2. ASSUME NEW on \in BOOLEAN, NEW chs \in SUBSET Channels, NEW count \in Nat,
             UpdateStatus(on, chs, count)
      PROVE  status' \in [enabled : BOOLEAN, channels : SUBSET Channels, messageCount : Nat]
  BY <1>2 DEF UpdateStatus, StreamKinds
<1>3. ASSUME NEW chs
      PROVE  Completed(chs) \in [Subs -> Channels \cup {"NEW", Gone}]
  BY DEF Completed, StreamKinds
<1>4. CASE InitializeStreaming
  <2>1. streamingOn' = TRUE /\ streamingOn' \in BOOLEAN
    BY <1>4, Zenon DEF InitializeStreaming
  <2>2. subjects' \in SUBSET Channels
    BY <1>4, StreamingAssumption DEF InitializeStreaming, Initialized, StreamKinds
  <2>3. status' \in [enabled : BOOLEAN, channels : SUBSET Channels, messageCount : Nat]
    BY <1>1, <1>2, <1>4, <2>2 DEF InitializeStreaming
  <2> QED
    BY <1>4, <2>1, <2>2, <2>3 DEF InitializeStreaming, StreamKinds
<1>5. CASE DestroyStreaming
  <2>1. closed' \in BOOLEAN
    BY <1>5, Zenon DEF DestroyStreaming
  <2> QED
    BY <1>3, <1>5, <2>1 DEF DestroyStreaming, StreamKinds
<1>6. ASSUME NEW ch \in Channels, CreateChannel(ch) PROVE StreamKinds'
  <2>1. subjects' \in SUBSET Channels
    BY <1>6 DEF CreateChannel, StreamKinds
  <2>2. status' \in [enabled : BOOLEAN, channels : SUBSET Channels, messageCount : Nat]
    BY <1>1, <1>2, <1>6, <2>1 DEF CreateChannel, StreamKinds
  <2> QED
    BY <1>6, <2>1, <2>2 DEF CreateChannel, StreamKinds
<1>7. ASSUME NEW ch \in Channels, DestroyChannel(ch) PROVE StreamKinds'
  <2>1. subjects' \in SUBSET Channels
    BY <1>7 DEF DestroyChannel, StreamKinds
  <2>2. status' \in [enabled : BOOLEAN, channels : SUBSET Channels, messageCount : Nat]
    BY <1>1, <1>2, <1>7, <2>1 DEF DestroyChannel, StreamKinds
  <2> QED
    BY <1>3, <1>7, <2>1, <2>2 DEF DestroyChannel, StreamKinds
<1>8. ASSUME NEW s \in Subs,
             Unsubscribe(s) \/ Deliver(s) \/ \E ch \in Channels : Subscribe(s, ch)
      PROVE  StreamKinds'
  BY <1>8 DEF Unsubscribe, Deliver, Subscribe, StreamKinds
<1>9. ASSUME NEW ch \in Channels, Publish(ch) PROVE StreamKinds'
  BY <1>9 DEF Publish, StreamKinds
<1>10. CASE Published
  <2>1. messageCount' \in Nat
    BY <1>1, <1>10 DEF Published
  <2>2. status' \in [enabled : BOOLEAN, channels : SUBSET Channels, messageCount : Nat]
    BY <1>2, <1>10, <2>1 DEF Published, StreamKinds
  <2> QED
    BY <1>10, <2>2 DEF Published, StreamKinds
<1>11. CASE UNCHANGED streamVars
  BY <1>11 DEF streamVars, StreamKinds
<1> QED
  BY <1>4, <1>5, <1>6, <1>7, <1>8, <1>9, <1>10, <1>11 DEF StreamingNext

\* The streams keep their types.
THEOREM StreamingTypeCorrect == StreamingSpec => []StreamingTypeOK
<1>1. StreamingInit => StreamKinds
  <2> SUFFICES ASSUME StreamingInit PROVE StreamKinds
    OBVIOUS
  <2>1. streamingOn \in BOOLEAN /\ closed \in BOOLEAN
    BY Zenon DEF StreamingInit
  <2> QED
    BY <2>1 DEF StreamingInit, StreamKinds
<1>2. StreamInv /\ StreamKinds => StreamingTypeOK
  BY DEF StreamInv, StreamKinds, StreamingTypeOK
<1> QED
  BY <1>1, <1>2, StreamInvInit, StreamInvNext, StreamKindsNext, PTL DEF StreamingSpec

-----------------------------------------------------------------------------
(* Health: only a process that has injected Prisma gets as far as serving, *)
(* and what a check has found was up since the request came in.            *)

HealthInv ==
  /\ boot = "LOADED" /\ injected # "prisma" => IsMongoDb(env)
  /\ boot \in {"CONSTRUCTED", "SERVING"} => injected = "prisma"
  /\ alive \subseteq seen
  /\ checks \in [database : {"IDLE", "ASKED", "healthy", "unhealthy"},
                 redis : {"IDLE", "ASKED", "healthy", "unhealthy"}]
  /\ checks # NoChecks => boot = "SERVING" /\ (redisUp => "redis" \in seen)
  /\ checks.database = "healthy" => "prisma" \in seen
  /\ checks.redis = "healthy" => "redis" \in seen
  /\ HealthyMeansBothAnswered

LEMMA StartupKeeps ==
  ASSUME HealthInv, StartupNext, seen' = seen \cup alive',
         UNCHANGED <<redisUp, checks, health>>
  PROVE  HealthInv'
<1>1. ASSUME NEW process \in Settings, NEW dotenv \in DatabaseTypes, Load(process, dotenv)
      PROVE  HealthInv'
  <2>1. IsMongoDb(process) => IsMongoDb(env')
    BY <1>1 DEF Load, Settings, IsMongoDb
  <2> QED
    BY <1>1, <2>1 DEF Load, HealthInv, HealthyMeansBothAnswered, NoChecks
<1>2. ASSUME NEW credentials \in BOOLEAN, Construct(credentials) PROVE HealthInv'
  BY <1>2 DEF Construct, HealthInv, HealthyMeansBothAnswered
<1>3. CASE Connect
  BY <1>3 DEF Connect, HealthInv, HealthyMeansBothAnswered
<1>4. ASSUME NEW database \in Databases, DatabaseChanges(database) PROVE HealthInv'
  BY <1>4 DEF DatabaseChanges, HealthInv, HealthyMeansBothAnswered
<1> QED
  BY <1>1, <1>2, <1>3, <1>4 DEF StartupNext

LEMMA HealthInvNext ==
  HealthInv /\ [HealthNext]_<<startupVars, healthVars>> => HealthInv'
<1> SUFFICES ASSUME HealthInv, [HealthNext]_<<startupVars, healthVars>>
             PROVE  HealthInv'
  OBVIOUS
<1>1. CASE StartupNext /\ seen' = seen \cup alive' /\ UNCHANGED <<redisUp, checks, health>>
  BY <1>1, StartupKeeps
<1>2. CASE HealthRequest
  BY <1>2 DEF HealthRequest, startupVars, HealthInv, HealthyMeansBothAnswered, NoChecks
<1>3. CASE CheckDatabase
  BY <1>3 DEF CheckDatabase, Asked, startupVars, HealthInv, HealthyMeansBothAnswered, NoChecks
<1>4. CASE CheckRedis
  BY <1>4 DEF CheckRedis, startupVars, HealthInv, HealthyMeansBothAnswered, NoChecks
<1>5. CASE Combine
  BY <1>5 DEF Combine, startupVars, HealthInv, HealthyMeansBothAnswered, NoChecks
<1>6. CASE RedisChanges
  BY <1>6 DEF RedisChanges, startupVars, HealthInv, HealthyMeansBothAnswered
<1>7. CASE UNCHANGED <<startupVars, healthVars>>
  BY <1>7 DEF startupVars, healthVars, HealthInv, HealthyMeansBothAnswered
<1> QED
  BY <1>1, <1>2, <1>3, <1>4, <1>5, <1>6, <1>7 DEF HealthNext

LEMMA HealthInvInit == StartupInit /\ HealthInit => HealthInv
BY DEF StartupInit, HealthInit, HealthInv, NoChecks, HealthyMeansBothAnswered

\* A healthy answer is about servers that were up since the request came in.
THEOREM HealthyMeansBothAnsweredCorrect == HealthSpec => []HealthyMeansBothAnswered
<1>1. HealthInv => HealthyMeansBothAnswered
  BY DEF HealthInv
<1> QED
  BY <1>1, HealthInvInit, HealthInvNext, PTL DEF HealthSpec

\* The types that HealthInv leaves out.
StartupKinds ==
  /\ boot \in {"NEW", "LOADED", "CONSTRUCTED", "SERVING", "FAILED"}
  /\ given \in Settings /\ env \in Settings
  /\ injected \in Databases \cup {"NONE"}
  /\ adapter \in {"NONE", "memory", "S3", "Azure", "GCS"}
  /\ alive \subseteq Databases
HealthKinds ==
  /\ StartupKinds
  /\ redisUp \in BOOLEAN /\ seen \subseteq Databases \cup {"redis"}
  /\ health \in {"NONE", "healthy", "unhealthy"}

LEMMA StartupKindsNext ==
  ASSUME StartupKinds, StartupNext
  PROVE  StartupKinds'
<1>1. ASSUME NEW process \in Settings, NEW dotenv \in DatabaseTypes, Load(process, dotenv)
      PROVE  StartupKinds'
  <2>1. env' \in Settings
    BY <1>1 DEF Load, Settings
  <2>2. injected' \in Databases \cup {"NONE"}
    BY <1>1 DEF Load, Databases
  <2> QED
    BY <1>1, <2>1, <2>2 DEF Load, StartupKinds
<1>2. ASSUME NEW credentials \in BOOLEAN, Construct(credentials) PROVE StartupKinds'
  <2>1. Adapter(env) \in {"NONE", "memory", "S3", "Azure", "GCS"}
    BY DEF Adapter
  <2> QED
    BY <1>2, <2>1 DEF Construct, StartupKinds
<1>3. CASE Connect
  BY <1>3 DEF Connect, StartupKinds
<1>4. ASSUME NEW database \in Databases, DatabaseChanges(database) PROVE StartupKinds'
  BY <1>4 DEF DatabaseChanges, StartupKinds
<1> QED
  BY <1>1, <1>2, <1>3, <1>4 DEF StartupNext

LEMMA HealthKindsNext ==
  HealthKinds /\ [HealthNext]_<<startupVars, healthVars>> => HealthKinds'
<1> SUFFICES ASSUME HealthKinds, [HealthNext]_<<startupVars, healthVars>>
             PROVE  HealthKinds'
  OBVIOUS
<1>1. StartupKinds
  BY DEF HealthKinds
<1>2. ASSUME UNCHANGED startupVars PROVE StartupKinds'
  BY <1>1, <1>2 DEF startupVars, StartupKinds
<1>3. CASE StartupNext /\ seen' = seen \cup alive' /\ UNCHANGED <<redisUp, checks, health>>
  <2>1. StartupKinds'
    BY <1>1, <1>3, StartupKindsNext
  <2> QED
    BY <1>3, <2>1 DEF HealthKinds, StartupKinds
<1>4. CASE HealthRequest
  BY <1>1, <1>2, <1>4 DEF HealthRequest, HealthKinds, StartupKinds
<1>5. CASE CheckDatabase \/ CheckRedis \/ Combine
  BY <1>2, <1>5 DEF CheckDatabase, CheckRedis, Combine, HealthKinds
<1>6. CASE RedisChanges
  BY <1>2, <1>6 DEF RedisChanges, HealthKinds
<1>7. CASE UNCHANGED <<startupVars, healthVars>>
  BY <1>2, <1>7 DEF healthVars, HealthKinds
<1> QED
  BY <1>3, <1>4, <1>5, <1>6, <1>7 DEF HealthNext

LEMMA HealthKindsInit == StartupInit /\ HealthInit => HealthKinds
<1> SUFFICES ASSUME StartupInit, HealthInit PROVE HealthKinds
  OBVIOUS
<1>1. given \in Settings /\ env \in Settings
  BY StartupAssumption DEF StartupInit, Settings, Unset
<1>2. redisUp \in BOOLEAN
  BY Zenon DEF HealthInit
<1> QED
  BY <1>1, <1>2 DEF StartupInit, HealthInit, HealthKinds, StartupKinds

\* Start-up and health check keep their types.
THEOREM HealthTypeCorrect == HealthSpec => []HealthTypeOK
<1>1. HealthInv /\ HealthKinds => HealthTypeOK
  BY DEF HealthInv, HealthKinds, StartupKinds, HealthTypeOK
<1> QED
  BY <1>1, HealthInvInit, HealthInvNext, HealthKindsInit, HealthKindsNext, PTL DEF HealthSpec

-----------------------------------------------------------------------------
(* Side by side: what is proved of a part holds of the whole.              *)

\* The parts share no state: a behaviour of the whole is a behaviour of each.  The
\* transports are used by two of them.
THEOREM ServicesAreTheirParts ==
  ServicesSpec => /\ SchedulerSpec /\ CacheSpec /\ StreamingSpec /\ HealthSpec
                  /\ StorageSpec /\ WorkflowSpec /\ MigrationsSpec
<1>1. ServicesInit => /\ SchedulerInit /\ CacheInit /\ StreamingInit
                      /\ StartupInit /\ HealthInit
                      /\ StorageInit /\ WorkflowInit /\ MigrationsInit
  BY DEF ServicesInit
<1>2. [ServicesNext]_<<part, partsVars>> =>
        /\ [SchedulerNext]_schedulerVars /\ [CacheNext]_cacheVars
        /\ [StreamingNext]_streamVars /\ [HealthNext]_<<startupVars, healthVars>>
        /\ [StorageNext]_storageVars /\ [WorkflowNext]_workflowVars
        /\ [MigrationsNext]_migrationVars
  BY DEF ServicesNext, Others, partsVars
<1> QED
  BY <1>1, <1>2, PTL DEF ServicesSpec, SchedulerSpec, CacheSpec, StreamingSpec, HealthSpec,
              StorageSpec, WorkflowSpec, MigrationsSpec

\* What the transports do under the whole, and the handlers that use them.
LEMMA TransportsAmongParts ==
  TransportsTypeOK /\ [ServicesNext]_<<part, partsVars>> =>
    /\ [Moves]_transportVars
    /\ [ExampleNext]_<<transportVars, exampleVars>> \/ UNCHANGED exampleVars
<1> SUFFICES ASSUME TransportsTypeOK, [ServicesNext]_<<part, partsVars>>
             PROVE  /\ [Moves]_transportVars
                    /\ [ExampleNext]_<<transportVars, exampleVars>> \/ UNCHANGED exampleVars
  OBVIOUS
<1>1. \/ TransportsNext /\ UNCHANGED exampleVars
      \/ ExampleNext
      \/ UNCHANGED <<transportVars, exampleVars>>
  BY DEF ServicesNext, Others, partsVars
<1>2. CASE TransportsNext /\ UNCHANGED exampleVars
  BY <1>2, RequestsMove
<1>3. CASE ExampleNext
  BY <1>3, HandlersMove
<1>4. CASE UNCHANGED <<transportVars, exampleVars>>
  BY <1>4
<1> QED
  BY <1>1, <1>2, <1>3, <1>4

LEMMA OneOrderAmongParts ==
  TransportsTypeOK /\ OneOrder /\ [ServicesNext]_<<part, partsVars>> => OneOrder'
<1>1. OneOrder /\ UNCHANGED exampleVars => OneOrder'
  BY DEF OneOrder, Fresh, exampleVars
<1> QED
  BY <1>1, TransportsAmongParts, OneOrderNext

THEOREM TransportsInvariance ==
  ServicesSpec => [](TransportsTypeOK /\ Starting /\ Stopping /\ OneOrder)
<1>1. ServicesInit => TransportsTypeOK /\ Starting /\ Stopping /\ OneOrder
  BY HandlersInit DEF ServicesInit
<1>2. /\ TransportsTypeOK /\ Starting /\ Stopping /\ OneOrder
      /\ [ServicesNext]_<<part, partsVars>>
      => (TransportsTypeOK /\ Starting /\ Stopping /\ OneOrder)'
  BY TransportsAmongParts, TransportsTypeNext, StartingNext, StoppingNext, OneOrderAmongParts
<1> QED
  BY <1>1, <1>2, PTL DEF ServicesSpec

\* Every part keeps its types, whichever of them runs.
THEOREM ServicesTypeCorrect == ServicesSpec => []ServicesTypeOK
<1>1. ServicesSpec => [](part \in Parts)
  <2>1. ServicesInit => part \in Parts
    BY DEF ServicesInit
  <2>2. part \in Parts /\ [ServicesNext]_<<part, partsVars>> => (part \in Parts)'
    BY DEF ServicesNext, Others
  <2> QED
    BY <2>1, <2>2, PTL DEF ServicesSpec
<1>2. TransportsTypeOK /\ OneOrder => TransportsTypeOK /\ ExampleTypeOK
  BY DEF OneOrder, ExampleTypeOK
<1>3. /\ part \in Parts /\ SchedulerTypeOK /\ CacheTypeOK /\ StreamingTypeOK
      /\ TransportsTypeOK /\ ExampleTypeOK /\ HealthTypeOK /\ StorageTypeOK
      /\ WorkflowTypeOK /\ MigrationsTypeOK
      => ServicesTypeOK
  BY DEF ServicesTypeOK
<1> QED
  BY <1>1, <1>2, <1>3, ServicesAreTheirParts, TransportsInvariance, SchedulerTypeCorrect,
     CacheTypeCorrect, StreamingTypeCorrect, HealthTypeCorrect, StorageTypeCorrect,
     WorkflowTypeCorrect, MigrationsTypeCorrect, PTL

\* What is proved of the parts holds of the whole.
THEOREM ServicesAreCorrect ==
  ServicesSpec =>
    /\ [](NoOrphanedTimers /\ RunsAreCountedOnce)
    /\ NoGrowthPastBound
    /\ [](StatusCatchesUp /\ HealthyMeansBothAnswered /\ WholeBodies)
    /\ [](FlaggedMeansRoutable /\ ClosedAfterDestroy /\ OrderProcessedOnce)
    /\ [](OutcomeMatchesEffects /\ AppliedMeansBuilt)
<1>1. /\ TransportsTypeOK /\ Starting => FlaggedMeansRoutable
      /\ Stopping => ClosedAfterDestroy
      /\ OneOrder => OrderProcessedOnce
  BY DEF TransportsTypeOK, Starting, FlaggedMeansRoutable, Flagged, Switched, Stopping,
         ClosedAfterDestroy, OneOrder, OrderProcessedOnce
<1> QED
  BY <1>1, ServicesAreTheirParts, TransportsInvariance, NoOrphanedTimersCorrect,
     RunsAreCountedOnceCorrect, NoGrowthPastBoundCorrect, StatusCatchesUpCorrect,
     HealthyMeansBothAnsweredCorrect, WholeBodiesCorrect, OutcomeMatchesEffectsCorrect,
     AppliedMeansBuiltCorrect, PTL
=============================================================================
