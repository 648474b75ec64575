------------------------------- MODULE Health -------------------------------
(***************************************************************************)
(* HealthService: GET /health asks the database and Redis at once and      *)
(* combines the two results.  The readiness and liveness endpoints answer  *)
(* without asking anything.                                                *)
(***************************************************************************)
EXTENDS Startup

VARIABLES
  redisUp,    \* Redis answers
  checks,     \* the two checks of the request, "IDLE" if there is none
  health,     \* the status of the last answer
  seen        \* history: what was up at some moment of the request

healthVars == <<redisUp, checks, health, seen>>

NoChecks == [database |-> "IDLE", redis |-> "IDLE"]

HealthInit ==
  redisUp = TRUE /\ checks = NoChecks /\ health = "NONE" /\ seen = {}

\* checkDatabase(): the service it asks; DATABASE_TYPE is read again here.
Asked == IF IsSql(env) /\ injected = "prisma" THEN "prisma" ELSE injected

HealthRequest ==
  /\ boot = "SERVING"
  /\ checks = NoChecks
  /\ checks' = [database |-> "ASKED", redis |-> "ASKED"]
  /\ health' = "NONE"
  /\ seen' = alive \cup (IF redisUp THEN {"redis"} ELSE {})
  /\ UNCHANGED <<startupVars, redisUp>>

\* Mutant of CheckDatabase: what the query throws is only logged.
CheckDatabaseLogs ==
  /\ checks.database = "ASKED"
  /\ checks' = [checks EXCEPT !.database = "healthy"]
  /\ UNCHANGED <<startupVars, redisUp, health, seen>>

CheckDatabase ==
  /\ checks.database = "ASKED"
  /\ checks' = [checks EXCEPT !.database =
       IF Asked \in alive THEN "healthy" ELSE "unhealthy"]
  /\ UNCHANGED <<startupVars, redisUp, health, seen>>

\* checkRedis(): set() and get().
CheckRedis ==
  /\ checks.redis = "ASKED"
  /\ checks' = [checks EXCEPT !.redis =
       IF redisUp THEN "healthy" ELSE "unhealthy"]
  /\ UNCHANGED <<startupVars, redisUp, health, seen>>

\* getDetailedHealth() once both have settled.
Combine ==
  /\ {checks.database, checks.redis} \subseteq {"healthy", "unhealthy"}
  /\ health' = IF checks.database = "healthy" /\ checks.redis = "healthy"
                 THEN "healthy" ELSE "unhealthy"
  /\ checks' = NoChecks
  /\ UNCHANGED <<startupVars, redisUp, seen>>

RedisChanges ==
  /\ redisUp' = ~redisUp
  /\ seen' = IF redisUp' THEN seen \cup {"redis"} ELSE seen
  /\ UNCHANGED <<startupVars, checks, health>>

HealthNext ==
  \/ StartupNext /\ seen' = seen \cup alive' /\ UNCHANGED <<redisUp, checks, health>>
  \/ HealthRequest \/ CheckDatabase \/ CheckRedis \/ Combine \/ RedisChanges

HealthSpec == StartupInit /\ HealthInit /\ [][HealthNext]_<<startupVars, healthVars>>

-----------------------------------------------------------------------------
(* Properties.                                                             *)

\* Every variable keeps its type.
HealthTypeOK ==
  /\ boot \in {"NEW", "LOADED", "CONSTRUCTED", "SERVING", "FAILED"}
  /\ given \in Settings /\ env \in Settings
  /\ injected \in Databases \cup {"NONE"}
  /\ adapter \in {"NONE", "memory", "S3", "Azure", "GCS"}
  /\ alive \subseteq Databases
  /\ redisUp \in BOOLEAN /\ seen \subseteq Databases \cup {"redis"}
  /\ checks \in [database : {"IDLE", "ASKED", "healthy", "unhealthy"},
                 redis : {"IDLE", "ASKED", "healthy", "unhealthy"}]
  /\ health \in {"NONE", "healthy", "unhealthy"}

\* A healthy answer is about the database that the process uses and about Redis:
\* the two checks run at once, and each was up at some moment since the request
\* came in, whatever moved in between.
HealthyMeansBothAnswered == health = "healthy" => {"prisma", "redis"} \subseteq seen
=============================================================================
