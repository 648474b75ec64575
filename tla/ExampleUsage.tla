---------------------------- MODULE ExampleUsage ----------------------------
(***************************************************************************)
(* ExampleMicroserviceUsageService: handlers that call MicroserviceService *)
(* one step after the other, with fallbacks, optional steps and a catch    *)
(* block around the whole.                                                 *)
(*                                                                         *)
(* A handler is the sequence of its steps.  A step names what it does and  *)
(* the transports to try in turn: SEND waits for a reply, EMIT fails only  *)
(* if the transport is not registered, JOB adds to a queue, and QUIET      *)
(* steps (Kafka, MQTT, streams) never throw.  Abstracted: payloads, logs.  *)
(***************************************************************************)
EXTENDS Transports

CONSTANT
  Queues      \* queues that BullMQService has; a job for another is skipped

VARIABLES
  flow,       \* the handler that runs and the steps it has left
  processed,  \* history: how often the order was processed by a receiver
  streamed    \* whether the handler's last message to a stream is an error

exampleVars == <<flow, processed, streamed>>

Send(what, via) == [do |-> "SEND", what |-> what, via |-> via, try |-> FALSE]
Emit(what, via) == [Send(what, via) EXCEPT !.do = "EMIT"]
Job(queue) == [Send(queue, <<>>) EXCEPT !.do = "JOB"]
Quiet(what) == [Send(what, <<>>) EXCEPT !.do = "QUIET"]
Optional(step) == [step EXCEPT !.try = TRUE]

Idle == [handler |-> "NONE", todo |-> <<>>]

\* Mutant of ProcessOrder: the send is repeated over Redis.
ProcessOrderAgain ==
  <<Send("order.process", <<"redis", "redis">>),
    Emit("inventory.reserve", <<"nats", "redis">>),
    Quiet("mqtt"), Quiet("stream")>>

\* The steps of each handler.
HandleUserRegistration ==
  <<Send("user.create", <<"redis">>), Emit("user.registered", <<"tcp">>),
    Quiet("kafka"), Job("email"), Quiet("stream")>>
ProcessOrder ==
  <<Send("order.process", <<"grpc", "redis">>),
    Emit("inventory.reserve", <<"nats", "redis">>),
    Quiet("mqtt"), Quiet("stream")>>
Ping(t) ==
  IF t \in Registered THEN <<Optional(Send("health.ping", <<t>>))>> ELSE <<>>
PerformHealthCheck ==
  Ping("tcp") \o Ping("redis") \o Ping("nats") \o Ping("rabbitmq")
       \o <<Quiet("stream")>>
SynchronizeData ==
  <<Send("user.getAll", <<"redis">>), Send("order.getAll", <<"tcp">>),
    Quiet("kafka"), Job("data-processing"), Job("data-processing"),
    Quiet("stream")>>
PerformBackup ==
  <<Emit("system.backup.start", <<"redis">>), Quiet("stream"),
    Job("backup"), Job("backup"), Quiet("kafka")>>
CollectMetrics ==
  <<Send("metrics.collect", <<"redis">>), Quiet("stream"), Quiet("kafka")>>
\* What subscribeToUserEvents() does on an event.
HandleNewUserWelcome == <<Job("notifications")>>
HandleUserActivity == <<Emit("user.activity", <<"redis">>)>>

Steps(handler) ==
  CASE handler = "register" -> HandleUserRegistration
    [] handler = "order"    -> ProcessOrder
    [] handler = "health"   -> PerformHealthCheck
    [] handler = "sync"     -> SynchronizeData
    [] handler = "backup"   -> PerformBackup
    [] handler = "metrics"  -> CollectMetrics
    [] handler = "welcome"  -> HandleNewUserWelcome
    [] handler = "activity" -> HandleUserActivity
Handlers == {"register", "order", "health", "sync", "backup", "metrics",
             "welcome", "activity"}
\* Those whose catch block streams the error.
StreamsErrors == {"register", "sync", "backup"}

ExampleInit == flow = Idle /\ processed = 0 /\ streamed = FALSE

-----------------------------------------------------------------------------
Begin(handler) ==
  /\ phase = "READY"
  /\ flow = Idle
  /\ flow' = [handler |-> handler, todo |-> Steps(handler)]
  /\ processed' = 0 /\ streamed' = FALSE
  /\ UNCHANGED transportVars

Step == Head(flow.todo)
Rest == Tail(flow.todo)
Target == Head(Step.via)

Continue == flow' = [flow EXCEPT !.todo = Rest] /\ UNCHANGED streamed

\* A step throws: its fallback, the next step if it has its own catch block,
\* or the end of the handler.
Throw ==
  IF Len(Step.via) > 1
    THEN /\ flow' = [flow EXCEPT !.todo = <<[Step EXCEPT !.via = Tail(@)]>> \o Rest]
         /\ UNCHANGED streamed
    ELSE IF Step.try THEN Continue
    ELSE /\ flow' = Idle
         /\ streamed' = (flow.handler \in StreamsErrors)

\* send() and emit() to a transport that is not registered throw at once.
NotAvailable ==
  /\ Step.do \in {"SEND", "EMIT"}
  /\ Target \notin Registered
  /\ Throw
  /\ UNCHANGED <<transportVars, processed>>

\* A message that is sent may be processed or not, and its reply be lost.
Sent ==
  /\ Step.do = "SEND"
  /\ Target \in Registered
  /\ Use(Target)
  /\ \E arrives, answered \in BOOLEAN :
       /\ answered => arrives
       /\ processed' = IF arrives /\ Step.what = "order.process"
                         THEN processed + 1 ELSE processed
       /\ IF answered THEN Continue ELSE Throw
  /\ UNCHANGED <<phase, switches, pending, clients, shown, closing, stuck, answer>>

Emitted ==
  /\ Step.do = "EMIT"
  /\ Target \in Registered
  /\ Use(Target)
  /\ Continue
  /\ UNCHANGED <<phase, switches, pending, clients, shown, closing, stuck, answer,
                 processed>>

\* addQueueJob() rethrows what Redis answers; without the queue it does nothing.
Queued ==
  /\ Step.do = "JOB"
  /\ Continue \/ (Step.what \in Queues /\ Throw)
  /\ UNCHANGED <<transportVars, processed>>

Quietly ==
  /\ Step.do = "QUIET"
  /\ Continue
  /\ UNCHANGED <<transportVars, processed>>

HandlerReturns ==
  /\ flow # Idle /\ flow.todo = <<>>
  /\ flow' = Idle
  /\ UNCHANGED <<transportVars, processed, streamed>>

ExampleNext ==
  \/ ServiceLife /\ UNCHANGED exampleVars
  \/ \E handler \in Handlers : Begin(handler)
  \/ Up /\ flow.todo # <<>> /\ (NotAvailable \/ Sent \/ Emitted \/ Queued \/ Quietly)
  \/ HandlerReturns

ExampleSpec == TransportsInit /\ ExampleInit /\ [][ExampleNext]_<<transportVars, exampleVars>>

-----------------------------------------------------------------------------
(* Properties.                                                             *)

Topics ==
  {"user.create", "user.registered", "order.process", "inventory.reserve",
   "health.ping", "user.getAll", "order.getAll", "system.backup.start",
   "metrics.collect", "user.activity", "email", "notifications",
   "data-processing", "backup", "kafka", "mqtt", "stream"}
Carriers == {"tcp", "redis", "nats", "rabbitmq", "grpc"}
MessageSteps == [do : {"SEND", "EMIT", "JOB", "QUIET"}, what : Topics,
                 via : Seq(Carriers), try : BOOLEAN]

\* Every variable keeps its type.
ExampleTypeOK ==
  /\ flow \in [handler : Handlers \cup {"NONE"}, todo : Seq(MessageSteps)]
  /\ processed \in Nat
  /\ streamed \in BOOLEAN

\* An order is processed at most once although processOrder() sends it again
\* over Redis when its first attempt throws: no client is ever registered for
\* gRPC, so that the first attempt throws before anything is sent.
OrderProcessedOnce == processed <= 1
=============================================================================
