# A TLA+ model of nestjs-mstv

Specifications, TLC configurations and TLAPS proofs for the parts of this
repository whose behaviour depends on the order in which things happen. Paths
below are relative to the root of the repository.

- [The system](#the-system): its parts, their state and what is hard about them
- [Modules](#modules): how each specification corresponds to the code
- [Runs](#runs): what TLC checks, with which bounds and which fairness
- [Findings](#findings): where the documentation and the code disagree
- [Proofs](#proofs): what is proved for all values of the constants
- [Not modelled](#not-modelled) and [plan](#plan)

## The system

A NestJS process (`src/apps/api-gateway`) that serves authentication, users, a
microservice layer and a few demonstration services over REST and GraphQL, with
PostgreSQL (Prisma) or MongoDB, Redis, Kafka and BullMQ behind it, a separate
Temporal worker (`coordination`) and scripts for MongoDB (`mongodb`). JavaScript
runs one callback at a time, so an interleaving here is always one of *await
points*: between two awaits a handler is atomic, at an await any other request,
timer or callback may run. Every module cuts its actions at the awaits.

| Component | State it keeps | Operations | Interacts with | Hard behaviour | Correct when |
|---|---|---|---|---|---|
| Circuit breaker `src/common/services/circuit-breaker.service.ts` | map of circuits: state, failures, lastFailureTime | execute, getCircuitStatus | HttpClient wraps its requests in execute | calls admitted in one state settle in another | trips on consecutive failures only, is retried after the cool-down, closes again |
| HTTP client `.../http-client.service.ts` | one abort timer per request | fetch | circuit breaker, remote servers | servers that fall silent | every request settles, no timer is left behind |
| Sessions `src/modules/auth` | RefreshToken and User rows, Redis blacklist, tokens held by clients | login, refresh, logout, profile | Prisma, Redis, Kafka | check and use apart; Redis and database failures; role changes and deletions in between | no grant after expiry or an acknowledged logout; roles and rows stay consistent |
| Registration `src/modules/auth/auth.service.ts` | User rows, attempts left | register | Prisma, Kafka, mail queue | racing requests, retries after lost acknowledgements, crashes | one account for each address, no welcome without an account |
| Users, authorization, CQRS `src/modules/users`, `.../auth/policies.guard.ts`, `src/common/cqrs` | user rows, handler maps | create, update, delete, find; publish | guards, repositories, event bus | persist, then publish; find, then delete | an event for each change and for nothing else |
| Mail `src/common/services/emailing.service.ts`, `src/common/messaging/bullmq.service.ts` | queue, worker, jobs in Redis | queue, send at once, process | BullMQ, SMTP | two workers, stalled jobs, restarts with other settings | a completed job was sent; a mail is not repeated |
| Scheduler `src/common/microservice/scheduler.manager.ts` | jobs, statistics, runs in flight | add, remove, start, stop, run now, ticks | cron | runs outlive their job; overlapping runs; retries | no timer that nobody can stop; each run counted once; runs end |
| In-memory cache `.../cache.manager.ts` | entries with their times | get, set, getOrSet, expire, evict, clean up | callers' factories | set after an await; eviction at the bound; expiry boundaries | bounded; a stale value goes away |
| Streaming `.../streaming.manager.ts` | channels, message count, status | publish, subscribe, create, destroy | rxjs subjects | publishing from within a subscriber | count and status catch up |
| Transports `.../microservice.service.ts`, `transport.manager.ts`, controller | clients, connections, status | start, send, emit, destroy | brokers | clients that connect on first use; requests during the shutdown | what is flagged is routable; nothing stays open |
| Example handlers `.../example-usage.service.ts` | none | eight handlers | transports, queues, streams | fallbacks after a failed send | an order is processed once |
| Start-up, health `src/apps/api-gateway/app.module.ts`, `src/common/common.module.ts`, `src/common/services/health.service.ts` | settings, database service | load, construct, connect, check | databases, Redis | settings read at three moments; two concurrent checks | healthy means that both answered |
| Storage `src/common/storage`, demo controller | stored files | upload, download, delete, streams | Node streams | back-pressure, broken and overlapping uploads | what is stored is one whole upload |
| Workflow `coordination/src/workflows.ts` | workflow history, signals | hybridWorkflow, signals | Temporal | lost replies, late effects, compensation, cancellation | the outcome says what is in effect |
| MongoDB scripts `src/mongodb` | collections, `migrations` records | migrate, roll back, seed | MongoDB | several scripts at once, stops between effect and record | a recorded migration is built, by one script |
| Redis cache, protocol adapters, telemetry, schemas, deployment | little or none | forwarding, wiring | | | |

How they interact in the modules: `HttpClientService.fetch` calls
`CircuitBreakerService.execute` with a closure (`HttpClient` conjoins its own
actions with the breaker's). `AuthController` calls `AuthService`, which shares
the `User` table with `PrismaUserRepo`; role updates and deletions therefore
appear as steps of `Sessions`, deletions also in `Registration`. The example
handlers go through the routing of `Transports` while the service starts and
stops, and `Health` asks whatever database `Startup` has injected.

## Modules

| Module | Models | Kind |
|---|---|---|
| `CircuitStates` | the three states and the cool-down an observer may rely on | abstract |
| `CircuitBreaker` | `CircuitBreakerService` | detailed, implements `CircuitStates` |
| `HttpClient` | `HttpClientService.fetch` on top of the breaker | composition, implements the fair `CircuitBreaker` |
| `Approvals` | each refresh is decided at one moment | abstract |
| `Sessions` | login, refresh, logout, profile, and what happens around them | detailed, implements `Approvals` |
| `Registry` | an address is claimed by one request in one step | abstract |
| `Registration` | `AuthService.register` | detailed, implements `Registry` |
| `Directory` | each request of an admin changes one user in one step, or nothing, and learns the truth | abstract |
| `Users` | the /users endpoints with guards, handlers, repository and events | detailed, implements `Directory` |
| `Mail` | `EmailingService` over `BullMQService` and its workers | detailed |
| `Accounts` | `Registration`, `Users` and `Mail` side by side | sum |
| `Scheduler`, `CacheManager`, `Streaming` | the manager of that name | detailed |
| `Transports` | `MicroserviceService`, `TransportManager`, the message endpoints | detailed |
| `ExampleUsage` | `ExampleMicroserviceUsageService` | composition, on top of `Transports` |
| `Startup`, `Health` | from the settings to the services; `GET /health` | detailed, `Health` on top of `Startup` |
| `Storage` | `MemoryStorageAdapter` behind the demo endpoints | detailed |
| `HybridWorkflow` | the Temporal workflow with its activities | detailed |
| `MongoMigrations` | `migration-runner.ts`, `seed-runner.ts` and the files they run | detailed |
| `Services` | the nine parts from `Scheduler` to `MongoMigrations` side by side | sum |
| `*Proofs` | theorems about the module they are named after, or about the parts of the sum | |
| `MC*` | sets of model values for TLC | |

A *sum* chooses one of its parts in the initial state and lets only that part
move, with that part's fairness (`WF(part = "x" /\ A)`). The parts share no
state, so every behaviour of a part is one of the sum, and interleaving them
would only multiply states: one run then asks the questions of all of them. The
theorems `AccountsAreTheirParts` and `ServicesAreTheirParts` say, without regard
to how a part is chosen, that a behaviour of the sum satisfies the
specifications of its parts; `TransportsAmongParts` says it, step by step, of
the transports and the handlers, which share the links.

Definitions whose comment says "Mutant of X" are not part of a model. Each is a
plausible slip in the code behind X, and is there to show that a property
notices it.

### CircuitBreaker

`execute()` runs without interruption up to `await operation()`: that is
`Bypass` (feature flag off), `Admit` (CLOSED or HALF_OPEN), `Probe` (OPEN, cooled
down) or `Reject` (OPEN). When the promise settles, `Succeed` or `Fail` runs
`OnSuccess` or `OnFailure`. Between the two, every other caller may do the same.

- `circuit` is one entry of the map; circuits of different names share nothing.
- `lastFailureTime` becomes `sinceFailure`, which stops at `Cooled`, the
  smallest value greater than `ResetTimeout`: the code only asks whether the
  difference exceeds it. A fresh entry has `lastFailureTime` 0, long ago.
- `failures` is only compared with the threshold; it stops at `CountCap`.
- `streak` and `trial` are history: failures since the last success, and
  failures since HALF_OPEN was entered.
- `monitoringPeriod` is stored by the code and read nowhere, so it is left out.

### HttpClient

`http[c]` is the await `exec` is at. `Fetch` arms the timer and runs `Execute` of
the breaker, `Headers` receives the status line, `Complete`, `Broken` and `Abort` are the
ways out, all through the `finally` block (`Finally`).

### Sessions

A request slot holds a program counter (the await it is at) and the locals the
handler carries across awaits. The stores are the `User` table (`role`, `None`
once deleted), the `RefreshToken` table (`owner`, `flagged`, `expired`) and the
Redis blacklist. Identities: a refresh token is its row id. JWTs carry the id;
`Raw` tokens are the legacy format `refreshAccessToken()` still accepts, which
may or may not have a row at the start.

| Action | Code |
|---|---|
| `Login`, `Validate`, `Compare`, `CreateRow`, `Deliver`, `LoginFails` | `AuthController.login` and `validateUser`, `signAccessToken`, `signRefreshToken` |
| `Refresh`, `CheckRevoked`, `CheckFails`, `FindById`, `FindMisses`, `FindByToken`, `RefreshFails`, `Grant` | `refreshAccessToken` and `isRevoked`, which answers "no" on an error |
| `Logout`, `Revoke`, `RevokeFails` | `revokeRefreshToken` |
| `Profile`, `Serve` | `JwtAuthGuard` and `getProfile` |
| `UpdateRole`, `DeleteUser` | `PrismaUserRepo.update`, `.delete` with the foreign key of the migration |
| `Expire`, `ExpireAccess`, `Crash` | time and restarts |

`hist` records what each request has witnessed since it came in: the roles its
user has had, and whether its token had expired or been logged out at that
moment. `failedOpen` says that `isRevoked()` met an error.

Publishing of events is left out of `Sessions`: every call is wrapped in a
`try`/`catch` of its own and changes nothing the requests read.

### Registration

`pc[r]` is the await or the answer of a request. `Insert` commits a row and
receives the acknowledgement or loses it; `Conflict` is Prisma's P2002,
`InsertFails` any other error, or an answer without a row. `Retry` counts
`retries` down in both branches of the loop. `PublishAll` is the three awaits of
the publishing block, whose errors never reach the caller. `LOST` stands for a
request that was being served when the process stopped. `Refusals` is what the
DTO and the exception filter answer before and after.

### Users

`tasks[t]` is one request: the operation, the body as far as it decides
something, and the await it is at. `Request` is the whole path to the first
await, in Nest's order: `JwtAuthGuard` (`Identified`), `PoliciesGuard`
(`Guarded`, with the abilities in `Can` and `Policy`), the validation of the body
(`BodyRefusals`), the command bus, and the entity's own checks (`DomainRefusals`).
`Read`, `FindFirst`, `InsertUser`, `Update` and `Remove` are the database calls, each
of which may also fail (`DatabaseFails`) or be committed without its
acknowledgement arriving; `PublishEvent` is the rest of the handler with the
answer. `LogIn` creates `RefreshToken` rows, whose foreign key refuses deletions.
`written` and `told` are history: changes committed, events published.

### Mail

| Action | Code |
|---|---|
| `MailStart` | `onModuleInit()` of one of the two contexts that `main.ts` creates: queue and worker, or neither |
| `QueueEmail`, `AddQueueJob`, `AddJob`, `AddFails` | `queueEmail()` or `POST /microservice/queue/job`, and the answer from Redis |
| `SendImmediate` | `sendImmediateEmail()` |
| `Take`, `SendEmail`, `Finish` | a worker takes a job, hands the mail to the transporter, and reports |
| `TakeBack` | BullMQ's check for stalled jobs: once back to the queue, then failed |
| `MailCrash` | the process stops and starts again, possibly with another setting |

BullMQ's side (locks, attempts, the stalled check) is external and modelled as
the code relies on it. A worker that lost its lock may still send and then finds
its report ignored. `copies` is history: what reached the server.

### Scheduler

A name may be given to several `CronJob` objects in turn: `crons[n]` lists them,
`jobs[n]` says which one the map has. A run is `StartRun` (by `CronTick` or
`RunJobNow`), then `TaskSucceeds` or `TaskFails` with `BackoffEnds` in between. A
run carries the name and the `maxRetries` of its job, so it goes on after the
job is stopped, replaced or removed, and `UpdateStats` writes to whatever has the
name by then. `book` is history: runs started by the current job of a name and
runs it inherited.

### CacheManager

One action per operation, at a clock that ticks (`CacheTick`). Instants are kept
relative to now, so that the state space is finite: `left` is the time an entry has, `age` how
long ago it was created, up to `OldAge`. `Miss` and `Loaded`/`LoadFails` are the
two halves of `getOrSet()`. `stale` and `overtaken` are history: an
entry is stale if its value was asked for before the last change of its key.
`EmptyKey` is the empty string among the keys, the one that `evictOldest()` finds
and leaves (`if (oldestKey)`).

### Streaming

Everything is synchronous, and a subscriber may call the manager from within its
callback. `stack` holds the publishings that have begun and not ended; `Deliver`
calls the next subscriber of the innermost, during which `Running` is true and
every operation is enabled again; `Published` is what `publish()` does after
`next()`. `sent` is history.

### Transports and ExampleUsage

`switches` holds the texts of the environment, because two readers disagree
about them: any text enables a transport (`Switched`), only "true" is reported by
`FeatureFlagsService` (`Flagged`). `ConnectClient` initializes the transports one
after the other and registers each whether it connects or not; `Use` is a
request over a client, which connects if it has to; `DestroyServices`, `Closed`,
`CloseFails` and `AllClosed` are the shutdown, during which requests still arrive.
`PostMessage` passes the arguments as the controller does.

`ExampleUsage` writes each handler as the sequence of its steps with the
transports to try, and lets them run against `Transports`: `NotAvailable`, `Sent`,
`Emitted`, `Queued`, `Quietly` are what becomes of one step.

### Startup and Health

`Load` evaluates `app.module.ts` (before `.env` is read), `Construct` the providers
with the validation of the settings, `Connect` the database. `CheckDatabase` and
`CheckRedis` settle in either order between `HealthRequest` and `Combine`, while
servers come and go. `seen` is history: what was up since the request came in.

### Storage

A body is counted in pieces. `Pipe` moves a piece to the last stage, which
nobody reads before `PipelineEnds`; from `HighWaterMark` pieces on, the write is
not acknowledged. `Drain` reads the stage and stores one buffer. `BreakOff`,
`DeleteFile`, `UploadBuffer`, `Download` and `Reply` overlap with it.

### HybridWorkflow

`ActionDone`, `ActionFails`, `Again` and `TakesEffectLate` are what may become of an
attempt of an activity: it succeeds, fails for good, is attempted again (with or
without having taken effect), or takes effect after its time-out. `Compensate`,
`React`, `Confirmed`, `Overdue` and `CancelTakes` are the rest of the function.
`effects` is what is in effect outside; `excused` is history: effects that no
compensation could undo.

### MongoMigrations

`scripts[r]` is what a process runs and where it is; a script may stop anywhere
(`Stops`), and nothing keeps two of them from running at once. Applying a
migration is `CreateCollection`, one `CreateIndex` per index, then `Mark`; rolling
back is `Down`, then `Unmark`; seeding is `FindAccount` and `InsertAccount`.
`dropped` is history: migrations that a rollback has undone.

## Runs

| Run | Configuration | States | What it shows |
|---|---|---|---|
| `http` | 3 callers, threshold 2, cool-down 2 | 16,005 | the breaker and its use by the client: safety, refinements, liveness |
| `sessions` | 2 requests, 1 user, 1 JWT, 1 legacy token, 1 role | 128,814 | what is granted, and to whom |
| `sessions_roles` | 2 requests, 1 user, 1 JWT, 2 roles | 79,685 | which role is signed; logout is final |
| `accounts` | 2 registrations, 2 requests to /users, 1 mail with 2 workers | 130,718 | unique accounts, events, mails, answers |
| `services` | two of whatever overlaps in each of nine parts | 158,949 | the microservice layer, health, storage, workflow, migrations |
| `breaker_probes`, `breaker_trial`, `sessions_reuse`, `sessions_profile`, `scheduler_jobs`, `message_routing`, `large_uploads` | smallest that shows it | | findings |

The properties, by the hazard they are aimed at:

- *Calls that settle in another state than they were admitted in.*
  `ClosedMeansFewFailures`, `TripsOnConsecutiveFailures` and `TrialIsBounded`
  relate the circuit to the history of the calls; `ImplementsCircuitStates` says
  that no late result adds an edge to the state machine or a trial within the
  cool-down.
- *A circuit that never closes.* `OpenIsRetried` and `Recovers`. Late failures
  do push the cool-down out; only calls admitted earlier can do so, and there are
  finitely many.
- *A silent server.* `TimersCoverCalls`, `EveryRequestSettles`.
- *Check and use apart.* `GrantsAreJustified`, `SignedRoleIsFresh` and
  `TokensPinTheirUser` compare what a request ends with to what was true when it
  came in. The stronger reading, "true at the moment of the grant", is false by design: a
  logout may be answered between the check and the grant. `ImplementsApprovals` says what
  is true instead: a refresh is decided as if in one step, at its question to
  Redis, and only the expiry of the token can still withdraw what was approved.
  `LogoutIsFinal` bounds the rest: once Redis stops failing, a request is granted
  a token that was logged out finitely often.
- *Racing and repeated inserts.* `EmailsAreUnique`, `OnlyAccountsAreWelcomed`,
  `RefusalCostsAnAttempt` and `ImplementsRegistry`, which says that the lookup, the
  loop and the unique index together are one atomic claim of the address.
- *Find, write, then tell.* `ImplementsDirectory`: the guards, the lookup, the
  write, its acknowledgement and the event are one atomic change of an admin, which
  was right for the table it met; success is answered, and an event published, for a
  change that was made; a refusal says that there was none, and only an error
  leaves it open. That each event has its change, and that of several requests which
  delete one user one is told so, follows, and is proved by itself
  (`EventsMatchChanges`, `DeletedOnce` in `AccountsProofs`).
- *Jobs that outlive a worker or a process.* `CompletedMailWasSent` and
  `MailIsSentOnce`: one copy for each attempt asked for, one more if the job was
  taken back from a stalled worker.
- *Runs that outlive their job.* `NoOrphanedTimers` (a timer that nobody can stop
  any more) and `RunsAreCountedOnce` (statistics of replaced and removed jobs,
  with runs overlapping and between retries).
- *Caches at their bound, stale values.* `NoGrowthPastBound` admits the two cases
  in which the map does grow: every entry is of the present millisecond, or the oldest has
  the empty string for a key, which `evictOldest()` takes for "none found".
  `StaleValuesGo`: `getOrSet()` can put an old value back, which expires.
- *Re-entrant publishing.* `StatusCatchesUp`.
- *Settings that are read twice.* `FlaggedMeansRoutable`, for the two readings of
  the transports' switches.
- *Checks that settle apart.* `HealthyMeansBothAnswered`. (That `DATABASE_TYPE` is
  read at three moments decides which database is asked, and has no effect on it.)
- *Partial shutdown.* `ClosedAfterDestroy`.
- *A fallback to another transport.* `OrderProcessedOnce`. The fallback is no retry
  today: no gRPC client is ever registered, so the first attempt throws before
  anything is sent, and a reply that fails is never met. The property is what the
  handler owes to that.
- *Broken, stuck and overlapping streams.* `WholeBodies`.
- *Lost replies and late effects.* `OutcomeMatchesEffects`.
- *Scripts that stop or overlap.* `AppliedMeansBuilt`, except after a rollback. It
  rests on the server, which refuses `createCollection()` of a collection that exists.
- *In the models, but in no property*: the second job of a `queue.add()` that was sent
  again (`MailIsSentOnce` speaks of the copies of one job), the order in which nested
  messages are delivered, the role that an access token keeps after its user's has
  changed, and the signals that a workflow's SUCCESS did not wait for. Each is as the
  code has it, and nothing in the repository says that it should be otherwise, or one
  line of the model says it all.
- *Retries that do not end.* `EveryRequestIsAnswered`, `RunsEnd`, `QueuedMailEnds`.

Every module has one type invariant besides; those of the sums are the
conjunction of their parts'.

### Bounds

- `http`: three callers give two late results of opposite kinds around a
  third call's trial, which is what the properties are about; the threshold of
  2 is the smallest with a count worth resetting; `CountCap` exceeds it by one,
  so that the count can pass the threshold while OPEN.
- `sessions`: two requests are enough for any check-then-use race, one user for
  a user and its tokens. Requests are interchangeable, so the safety run uses
  symmetry; the run with a liveness property does not.
- `accounts`: each request is made once, so the model ends and deadlock is not
  checked. Two requests and two addresses contain the same-address race as well
  as the independent case; three attempts are the code's. For the mail, one job
  with two workers, two attempts and two restarts (`MaxRestarts`) is enough for a
  job to be taken back, sent by both workers, and finished under another
  setting; two jobs (310,000 states) show nothing more, because no step of a job
  reads another.
- `services`, where several parts end and deadlock is not checked:
  - scheduler: one name, since names share nothing; `MaxCrons` 3 lets it be
    replaced twice, two slots let runs overlap, retries 0 (which the code reads
    as 3) and 1, two runs of each job;
  - cache: two keys, one of them the empty string, with room for one, two loaders, times to live 0 (undefined)
    and 1 with a default of 2, so that an entry can expire, be extended, be
    evicted by age and be overtaken while it is loaded;
  - streaming: two channels, one of them configured, two subscriptions, three
    messages, so that publishings nest and leave the outer one behind;
  - transports: two known and one unknown;
  - storage: two clients, one key, bodies on both sides of the high water mark;
  - workflow: two attempts per activity that fail or lose their reply;
  - migrations: two scripts at a time, three starts: a migration, another or a
    seed beside it, and a rollback; two indexes, so that a stop can fall
    between them.
- Every module takes these sets and numbers as CONSTANTS; the theorems hold for
  all of them.

### Fairness

- `CircuitBreaker`: time advances, callers keep calling, and an operation
  settles. The last is not granted by anything in the breaker; `HttpClient`
  shows that `fetch` provides it, from nothing but the firing of timers
  (`ImplementsBreaker` is the *fair* specification of the breaker).
- `HttpClient`: the clock, timers and traffic. Nothing is assumed of servers.
- `Registration`: an await is answered or fails eventually, which the drivers'
  timeouts provide; a step chosen may be a failure every time.
- `Mail`: a worker goes on with what it has (the SMTP client has time limits),
  and BullMQ looks for expired locks every 30 seconds. `QueuedMailEnds` further
  assumes that some worker stays up from some moment on.
- `Scheduler`: timers fire and tasks settle; nobody has to call the manager.
- `CacheManager`: the clock and the clean-up timer; `StaleValuesGo` is
  conditional on `expire()` not being called for ever.
- `Storage`, in the finding only: the client sends, and streams move what they can.
- `Sessions` assumes no fairness. `LogoutIsFinal` is conditional on Redis not
  failing for ever, and constrains steps taken, not steps to be taken.

## Findings

| Run | The repository says | The code does |
|---|---|---|
| `breaker_probes` | README.md:365 "one request is allowed in half-open state to probe recovery" | every call is admitted in HALF_OPEN (`circuit-breaker.service.ts:55-62`) |
| `breaker_trial` | diagrams/circuit_breaker_state_machine.mmd:7 "HalfOpen --> Open: trial failure" | a late success resets the count (`:88`), so one failed trial may leave the circuit HALF_OPEN |
| `sessions_reuse` | README.md:1154 "Prevents token reuse after logout" | a Redis error counts as "not revoked" (`auth.service.ts:254-257`) |
| `sessions_profile` | diagrams/auth_jwt_flow.mmd:20 "Auth->>Redis: check revoked" | the guard consults no store (`jwt-auth.guard.ts:14-26`) |
| `scheduler_jobs` | `scheduler.manager.ts:299` "Daily at 2 AM" | a job added without `startNow`, as this one is, never ticks (`:79`) |
| `message_routing` | `src/common/microservice/README.md:138` "Send message via transport" | the payload is used as the transport's name (`microservice.controller.ts:95`) |
| `large_uploads` | README.md:417 "Streaming usage (large files)" | the pipeline is awaited before anybody reads its end (`memory.adapter.ts:56`); so it is for any caller that hands over a stream, while the `curl` of README.md may not come so far, if the framework parses the body first |

What holds instead is stated and proved for two of them: at most
`failureThreshold - 1` failures are absorbed by a trial (`TrialIsBounded`), and a revoked
token is granted only if Redis failed during the check (`GrantsAreJustified`).

Met on the way, without a run of their own, because one step shows them:

- `DATABASE_TYPE=mongodb` cannot start: `MongoUserRepo` is constructed, and calls
  `getDb()`, before `MongoDbService` connects (`mongo-user.repo.ts:22-24`). The
  README offers mariadb, which the schema refuses; `STORAGE_PROVIDER` accepts `s3` and
  `gcs`, which then mean memory, and refuses the documented `aws` and `gcp`.
- The cache's "Enforce max entries limit" (`cache.manager.ts:64`) holds but for the two cases of
  `NoGrowthPastBound`. With the empty string for the oldest key (`:253`, `:263`)
  every new key makes the map grow, until that entry is deleted, set again or expires.
- The workflow ends with SUCCESS after a time-out without any signal
  (`workflows.ts:62-63`).
- `ENABLE_<transport>_MICROSERVICE=false` enables the transport.
- `bootstrap()` starts `AppModule` twice: two schedulers, two mail workers, the
  first of which is never closed.
- `POST /users` with a taken address answers 500, not 409; an account that it makes cannot
  log in, because its password is stored as given; passwords of 6 or 7
  characters pass the DTO and fail in the entity.
- Routes with `PoliciesGuard` alone (`GET /auth/users`, mail, storage) answer
  403 to everybody.
- No class handles the events of the event bus.
- `isReady()` stays true after `destroy()`; `addJob()` with a bad pattern has
  removed the old job by then; jobs that BullMQ has skipped and Kafka messages
  that failed are answered with success.
- A seed before the migrations, or a stop between `up()` and its record, blocks
  migration 001 for good.

## Proofs

`tlapm` checks all theorems; no step is left without a proof. Each component has
the same argument: an invariant that is inductive (an `...InvInit` lemma, one lemma
for each action or group of actions, `...InvNext`), from which the properties
follow.

| Module | Theorems | Assumed of the constants |
|---|---|---|
| `CircuitBreakerProofs` | types, `ClosedMeansFewFailures`, `TrialIsBounded`, `TripsOnConsecutiveFailures`, refinement of `CircuitStates`; what `OpenIsRetried` rests on | a positive threshold, `CountCap >= FailureThreshold` |
| `HttpClientProofs` | `HttpSpec => Spec` of the breaker, and with it the breaker's invariants for its only user; `TimersCoverCalls` | the same |
| `SessionsProofs` | types, `GrantsAreJustified`, `SignedRoleIsFresh`, `TokensPinTheirUser`, refinement of `Approvals`, and of the temporal properties `LogoutIsFinal` | legacy tokens are tokens; `None` is no user, token or role |
| `RegistrationProofs` | types, `EmailsAreUnique`, `OnlyAccountsAreWelcomed`, `RefusalCostsAnAttempt`, refinement of `Registry`; what `EveryRequestIsAnswered` rests on | an attempt, `None` no request |
| `TransportsProofs` | types, `FlaggedMeansRoutable`, `ClosedAfterDestroy`, also with the handlers running (`HandlersKeepTransports`); `OrderProcessedOnce` | `Named` are four known names, none of them `Unknown` |
| `HybridWorkflowProofs` | types, `OutcomeMatchesEffects` | `MaxAttempts` positive |
| `AccountsProofs` | types, `CompletedMailWasSent`, `MailIsSentOnce`, `EventsMatchChanges`, `DeletedOnce`, refinement of `Directory`; what `QueuedMailEnds` rests on; `AccountsAreTheirParts`, and with it all of this and of registration for the sum | as in `Users` and `Mail`: bounds are numbers, the first user has an id |
| `ServicesProofs` | the types of every part, `NoOrphanedTimers`, `RunsAreCountedOnce`, `NoGrowthPastBound`, `WholeBodies`, `AppliedMeansBuilt`, `StatusCatchesUp`, `HealthyMeansBothAnswered`; what `RunsEnd` and `StaleValuesGo` rest on; `ServicesAreTheirParts` and all safety properties for the sum (`ServicesAreCorrect`) | as in the parts: bounds are numbers, runs have finitely many slots, "unset" is a setting of databases and of storage |

Why the invariants are what they are:

- **CircuitBreaker.** The stated invariants are not inductive: `IInv` adds that
  the counter equals the streak (a success resets both, a failure increments
  both), that a CLOSED circuit's count is below the threshold, and that in
  HALF_OPEN the failures of the trial are at most the counter and below the
  threshold. `CircuitStatesImplemented` maps every step
  to a step of the abstract machine or a stutter.
- **Sessions.** `IInv` says, for each program counter, what the request's
  locals have to do with its history and with the tables: the subject of a
  request is the owner of its token; the role it carries is among those seen; past the check
  its token was not revoked when it came in, unless Redis failed; a row's owner exists.
  The stores only grow in the relevant direction (`Grows`), so what holds of
  one request survives the steps of others.
  `ApprovalsImplemented` maps the question to Redis to the decision, so that what
  the request reads afterwards is the carrying out of it, and an expiry in between its withdrawal.
  `LogoutIsFinal` is a temporal property with a safety argument: after a logout
  that was answered, a request is *barred* from the token unless it is already past
  the check (`OnePasses`); being barred is stable while Redis does not fail
  (`BarredStays`), and a grant bars the request that got it (`GrantsOnce`). So one
  grant at most is left, and no fairness is needed.
- **Registration.** `IInv` locates requests: where attempts are still complete,
  where a request that has inserted can be, and where one that has published can be.
  `RegistryImplemented` needs uniqueness of addresses to identify the `CHOOSE`n row of
  an address with the row that a step adds or removes.
- **Transports.** `Starting`: while the start-up is on, the switched transports are
  those registered and those pending, and nothing is unregistered before the
  shutdown is over. During the shutdown, an open link belongs to a client that
  is still to be closed, was used meanwhile, or refused.
  `OneOrder`, of the handlers: no transport named "grpc" is ever registered, and an
  order that was sent over TCP is past its fallback.
- **HybridWorkflow.** `Reached`: an action that was passed is in effect until the
  catch block runs; a compensation that was passed leaves its action in effect only
  if it is excused.
- **Mail.** `CopiesArePaid`: copies made, copies that the workers may still
  make, and attempts left are together at most the attempts asked for and the one
  time the job is taken back. `MailIsSentOnce` alone is not inductive: a worker that lost
  its lock sends all the same. `SentWasSent` carries `CompletedMailWasSent` from the
  worker's send to its report.
- **Users.** `WritesAreDone` (a request has written one change at most, and only
  past its write) and `DeletedStayAway` (ids are not used again, so of two deletes
  of one user only one has written). `UsersRest` has the addresses: the index
  keeps them apart, whatever is written. For `Directory`, `AdminsWrite` says that what
  the guards have let through to a write came with an admin's token. The
  table of `Directory` is that of the code at every moment, so each write maps to
  its own change, each event to the success of it, and every lookup to nothing.
- **Scheduler.** `TimersInv`: the map's index points at a `CronJob` that exists, and
  only that one ticks. `CountsInv`: what the statistics of a job have counted and
  the runs in flight that will be counted there are together the runs started and those
  inherited; a step of one run changes a set of runs by that run alone, which is
  what the lemmas on cardinalities say.
- **CacheManager.** `CacheInv` has the types. Eviction removes exactly one entry
  (`EvictedOnes`), unless all are of the present millisecond or the empty key is an
  oldest one; with a new key added, the number of entries stays the same.
- **Storage.** A body under way belongs to one client (`OneCall`), and what a
  stored body says of its client stays true because a request that is done does not move.
- **MongoMigrations.** `OneBuilder`: of the scripts that run a migration which no
  rollback touched, at most one is past `createCollection()`, which refuses the
  others, and nobody has recorded it; its indexes are exactly those it has
  created. `RecordsBuilt` is the property itself, and a migration that is undone drops out of both.
- **Streaming.** `StreamInv` is the property with the types of the stack of publishings:
  one more of them under way is one more message sent and not yet counted.
- **Health.** `HealthInv`: only a process that injected Prisma comes as far as serving;
  what answers now is in `seen`, and an answer that says healthy came from a server in `seen`.

Most liveness properties say that something ends, and what they rest on
beside fairness is a theorem: a measure that no step raises and that every step of
the actor in question lowers, for any values of the constants.

| Theorem | Measure or argument | Supports |
|---|---|---|
| `RequestsAreFinite` | the steps of a registration: `Attempts + 6` at most, the retries of the insert included; a crash can only end it | `EveryRequestIsAnswered` |
| `RunsAreFinite` | two steps for each attempt that a run has left; a job that is replaced keeps the old limit for its old runs (`LimitIsFixed`) | `RunsEnd` |
| `MailJobsAreFinite` | two turns for each attempt of a job, and two for the one time it is taken back | `QueuedMailEnds` |
| `OpenLetsNobodyInCorrect` | the calls in flight of an OPEN circuit: each can restart the cool-down once, and none is added | `OpenIsRetried` |
| `StaleValuesRunOut` | the time an entry has left, which only `expire()` and a new value raise; a value that is stale comes from a factory in flight that was overtaken | `StaleValuesGo` |

What remains to be assumed, and is checked by TLC on the small instances only, is
that the steps are taken (fairness), and that they can be (ENABLED).

Only model-checked: the liveness properties (`OpenIsRetried`, `Recovers`,
`EveryRequestSettles`, `EveryRequestIsAnswered`, `QueuedMailEnds`, `RunsEnd`,
`StaleValuesGo`) and `ImplementsBreaker`, which contains fairness: the prover
handles neither fairness nor ENABLED. Every other property of a passing run is
a theorem, and so are the types of the sums.

## Not modelled

- Data declarations, schemas as far as no model depends on a refusal, types,
  deployment files, Swagger: no behaviour over time.
- Wrappers around client libraries (MongoDB, Consul, Jaeger, OpenTelemetry,
  cloud storage SDKs), the WebSocket, gRPC and MQTT adapters: they forward, or echo.
- Code that nothing reaches: `MongoUserRepo` and the MongoDB token store (see
  Findings), `CacheService` (injected nowhere), `makeSecureRequest()` and
  `ConfigValidationService` (no caller), `MicroserviceConfigService`'s getters.
- `StorageController` and `EmailController`: mocks that answer constants.
- The Prisma migration: SQL that Prisma runs; its unique index and its foreign key are in
  `Registration`, `Users` and `Sessions`.
- The GraphQL resolvers: the same services behind other guards.
- The Fastify circuit breaker plugin of the gateway: third-party code.

## Plan

Done: every component whose state changes over time, with proofs of every safety
property, of the refinements without fairness and of the measures that the liveness
properties rest on. Left, in order:

1. More abstract specifications: an outbox for `Mail`, a saga for
   `HybridWorkflow`, a blob store for `Storage`.
2. The GraphQL entry points as further guards of `Users`.
3. `CacheManager` against an abstract read-through map that never returns a
   value older than the last delete, with the values that `getOrSet()` puts back as its
   stated exception.
