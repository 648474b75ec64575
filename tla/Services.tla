------------------------------ MODULE Services ------------------------------
(***************************************************************************)
(* The parts of the repository that share no state with each other, side   *)
(* by side: a behaviour is one of the part that `part` names, while the    *)
(* others rest in an initial state.  (ExampleUsage works through the       *)
(* transports, and Health through what Startup has set up.)                *)
(***************************************************************************)
EXTENDS Scheduler, CacheManager, Streaming, ExampleUsage, Health, Storage,
        HybridWorkflow, MongoMigrations

VARIABLE part

partsVars == <<schedulerVars, cacheVars, streamVars, transportVars, exampleVars,
               startupVars, healthVars, storageVars, workflowVars, migrationVars>>

Parts == {"scheduler", "cache", "streaming", "transports", "examples", "health",
          "storage", "workflow", "migrations"}

ServicesInit ==
  /\ part \in Parts
  /\ SchedulerInit /\ CacheInit /\ StreamingInit /\ TransportsInit /\ ExampleInit
  /\ StartupInit /\ HealthInit /\ StorageInit /\ WorkflowInit /\ MigrationsInit

Others(still) == UNCHANGED <<part, still>>

ServicesNext ==
  \/ /\ part = "scheduler" /\ SchedulerNext
     /\ Others(<<cacheVars, streamVars, transportVars, exampleVars, startupVars,
               healthVars, storageVars, workflowVars, migrationVars>>)
  \/ /\ part = "cache" /\ CacheNext
     /\ Others(<<schedulerVars, streamVars, transportVars, exampleVars, startupVars,
               healthVars, storageVars, workflowVars, migrationVars>>)
  \/ /\ part = "streaming" /\ StreamingNext
     /\ Others(<<schedulerVars, cacheVars, transportVars, exampleVars, startupVars,
               healthVars, storageVars, workflowVars, migrationVars>>)
  \/ /\ part = "transports" /\ TransportsNext
     /\ Others(<<schedulerVars, cacheVars, streamVars, exampleVars, startupVars,
               healthVars, storageVars, workflowVars, migrationVars>>)
  \/ /\ part = "examples" /\ ExampleNext
     /\ Others(<<schedulerVars, cacheVars, streamVars, startupVars, healthVars,
               storageVars, workflowVars, migrationVars>>)
  \/ /\ part = "health" /\ HealthNext
     /\ Others(<<schedulerVars, cacheVars, streamVars, transportVars, exampleVars,
               storageVars, workflowVars, migrationVars>>)
  \/ /\ part = "storage" /\ StorageNext
     /\ Others(<<schedulerVars, cacheVars, streamVars, transportVars, exampleVars,
               startupVars, healthVars, workflowVars, migrationVars>>)
  \/ /\ part = "workflow" /\ WorkflowNext
     /\ Others(<<schedulerVars, cacheVars, streamVars, transportVars, exampleVars,
               startupVars, healthVars, storageVars, migrationVars>>)
  \/ /\ part = "migrations" /\ MigrationsNext
     /\ Others(<<schedulerVars, cacheVars, streamVars, transportVars, exampleVars,
               startupVars, healthVars, storageVars, workflowVars>>)

\* The fairness of each part, for the behaviours of that part.
ServicesFairness ==
  /\ \A n \in JobNames :
       WF_schedulerVars(part = "scheduler" /\ \E s \in Slots : CronTick(s, n))
  /\ \A s \in Slots : WF_schedulerVars(part = "scheduler" /\ RunContinues(s))
  /\ WF_cacheVars(part = "cache" /\ CacheTick)
  /\ WF_cacheVars(part = "cache" /\ Cleanup)

ServicesSpec ==
  ServicesInit /\ [][ServicesNext]_<<part, partsVars>> /\ ServicesFairness

-----------------------------------------------------------------------------
\* Every variable keeps its type, in every part.
ServicesTypeOK ==
  /\ part \in Parts
  /\ SchedulerTypeOK /\ CacheTypeOK /\ StreamingTypeOK /\ TransportsTypeOK
  /\ ExampleTypeOK /\ HealthTypeOK /\ StorageTypeOK /\ WorkflowTypeOK
  /\ MigrationsTypeOK
=============================================================================
