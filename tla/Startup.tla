------------------------------ MODULE Startup -------------------------------
(***************************************************************************)
(* From the settings of a process to the services that it starts: main.ts, *)
(* AppModule, CommonModule, UsersModule and the database services.         *)
(*                                                                         *)
(* The settings are read at three moments: while app.module.ts is loaded   *)
(* (before ConfigModule has read the .env file), when the providers are    *)
(* constructed, and on every request.  FeatureFlagsService validates them  *)
(* in its constructor: a text its schema does not list ends the start.     *)
(*                                                                         *)
(* Abstracted: settings that are only passed on to a client library, and   *)
(* Fastify's plugins.  main.ts starts AppModule twice, the first time only *)
(* to read the HTTPS options; both start alike, and one is modelled.       *)
(***************************************************************************)
EXTENDS FiniteSets

CONSTANTS
  DatabaseTypes,   \* texts of DATABASE_TYPE, "unset" if there is none
  Providers        \* texts of STORAGE_PROVIDER

ASSUME StartupAssumption == "unset" \in DatabaseTypes \cap Providers

VARIABLES
  boot,       \* how far the start is
  given,      \* settings in the environment of the process
  env,        \* process.env: with those of .env once they are read
  injected,   \* the database service that AppModule provides
  adapter,    \* the storage adapter
  alive       \* databases that answer

startupVars == <<boot, given, env, injected, adapter, alive>>

Settings == [db : DatabaseTypes, provider : Providers, storage : BOOLEAN,
             secret : {"unset", "set"}]
Unset == [db |-> "unset", provider |-> "unset", storage |-> FALSE,
          secret |-> "unset"]

Databases == {"prisma", "mongo"}

\* DatabaseConfig.isMongoDb(), isPostgreSQL() and isMySQL()
IsMongoDb(e) == e.db = "mongodb"
IsSql(e) == e.db \in {"unset", "postgresql", "mysql", "mariadb"}

\* What the schema accepts: the enumerations, and a JWT_SECRET.
Valid(e) ==
  /\ e.db \in {"unset", "postgresql", "mysql", "mongodb", "memory"}
  /\ e.provider \in {"unset", "memory", "s3", "azure", "gcs", "disabled"}
  /\ e.secret = "set"

\* The factory of StorageService has names of its own.
Adapter(e) ==
  CASE e.storage /\ e.provider = "aws"   -> "S3"
    [] e.storage /\ e.provider = "azure" -> "Azure"
    [] e.storage /\ e.provider = "gcp"   -> "GCS"
    [] OTHER                             -> "memory"

StartupInit ==
  /\ boot = "NEW"
  /\ given = Unset /\ env = Unset
  /\ injected = "NONE" /\ adapter = "NONE"
  /\ alive = {}

-----------------------------------------------------------------------------
\* app.module.ts is loaded: databaseProviders first, then the decorator, whose
\* ConfigModule.forRoot() adds what .env has and the environment lacks.
Load(process, dotenv) ==
  /\ boot = "NEW"
  /\ boot' = "LOADED"
  /\ given' = process
  /\ injected' = IF IsMongoDb(process) THEN "mongo" ELSE "prisma"
  /\ env' = [process EXCEPT !.db = IF @ = "unset" THEN dotenv ELSE @]
  /\ UNCHANGED <<adapter, alive>>

\* The providers are constructed, before any onModuleInit().  MongoUserRepo takes
\* its collection in the constructor, from a MongoDbService that connects only
\* in onModuleInit(): with MongoDB the start ends here.  Azure's adapter refuses
\* to be made without credentials.
Construct(credentials) ==
  /\ boot = "LOADED"
  /\ IF Valid(env) /\ ~IsMongoDb(env) /\ (Adapter(env) = "Azure" => credentials)
       THEN boot' = "CONSTRUCTED" /\ adapter' = Adapter(env)
       ELSE boot' = "FAILED" /\ UNCHANGED adapter
  /\ UNCHANGED <<given, env, injected, alive>>

\* onModuleInit() of the database services connects.  No failure stops the start:
\* Prisma tries again with the next query.  Then app.listen().
Connect ==
  /\ boot = "CONSTRUCTED"
  /\ boot' = "SERVING"
  /\ UNCHANGED <<given, env, injected, adapter, alive>>

DatabaseChanges(database) ==
  /\ alive' \in {alive \cup {database}, alive \ {database}}
  /\ UNCHANGED <<boot, given, env, injected, adapter>>

StartupNext ==
  \/ \E process \in Settings, dotenv \in DatabaseTypes : Load(process, dotenv)
  \/ \E credentials \in BOOLEAN : Construct(credentials)
  \/ Connect
  \/ \E database \in Databases : DatabaseChanges(database)

StartupSpec == StartupInit /\ [][StartupNext]_startupVars
=============================================================================
