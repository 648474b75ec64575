-------------------------- MODULE TransportsProofs --------------------------
(***************************************************************************)
(* Transports for any subset of the transports, and any unknown names: its *)
(* types, what is registered when the service says ready, and what is      *)
(* connected after the shutdown; then the same under the handlers of       *)
(* ExampleUsage, which send an order once.                                 *)
(***************************************************************************)
EXTENDS ExampleUsage, SequenceTheorems, TLAPS

-----------------------------------------------------------------------------
(* What the steps of a request do to the connections.                      *)

\* What a registered client is used for may connect it, or not.
LEMMA UseConnects ==
  ASSUME TransportsTypeOK, NEW t, Use(t)
  PROVE  /\ Up /\ t \in Registered /\ t \in Named
         /\ links' \subseteq links \cup {t}
         /\ reopened' \subseteq reopened \cup {t} /\ reopened \subseteq reopened'
         /\ phase = "CLOSING" => t \in reopened'
BY DEF TransportsTypeOK, Use

\* A request leaves everything but the connections, and only while it is up.
Asks ==
  /\ Up
  /\ UNCHANGED <<phase, switches, pending, clients, shown, closing, stuck>>
  /\ answer' \in [asked : Named \cup Unknown \cup {"NONE"}, via : Named \cup {"NONE"}]
  /\ \/ UNCHANGED <<links, reopened>>
     \/ \E t \in Registered : Use(t)

LEMMA RequestsAsk ==
  ASSUME TransportsTypeOK, NEW asked \in Named \cup Unknown,
         TestTransport(asked)
           \/ \E payload \in Named \cup {"NONE", "OBJECT"} : PostMessage(asked, payload)
  PROVE  Asks
<1>1. CASE TestTransport(asked)
  BY <1>1, UseConnects DEF TestTransport, Asks, Routed, TransportsTypeOK
<1>2. ASSUME NEW payload \in Named \cup {"NONE", "OBJECT"}, PostMessage(asked, payload)
      PROVE  Asks
  <2> DEFINE via == Routed(IF payload = "NONE" THEN "tcp" ELSE payload)
  <2>1. via \in Registered \/ (via = "NONE")
    BY DEF Routed
  <2>2. via \in Named \cup {"NONE"}
    BY <2>1 DEF TransportsTypeOK
  <2> HIDE DEF via
  <2>3. /\ Up
        /\ answer' = [asked |-> asked, via |-> via]
        /\ IF via = "NONE" THEN UNCHANGED <<links, reopened>> ELSE Use(via)
        /\ UNCHANGED <<phase, switches, pending, clients, shown, closing, stuck>>
    BY <1>2 DEF PostMessage, via
  <2> QED
    BY <2>1, <2>2, <2>3 DEF Asks
<1> QED
  BY <1>1, <1>2

\* The service alone, or with whoever sends through it.
Moves == ServiceLife \/ Asks

LEMMA RequestsMove ==
  ASSUME TransportsTypeOK, [TransportsNext]_transportVars
  PROVE  [Moves]_transportVars
BY RequestsAsk DEF TransportsNext, Moves

LEMMA HandlersMove ==
  ASSUME TransportsTypeOK, [ExampleNext]_<<transportVars, exampleVars>>
  PROVE  [Moves]_transportVars
<1>1. CASE ServiceLife
  BY <1>1 DEF Moves
<1>2. CASE Up /\ (Sent \/ Emitted)
  BY <1>2 DEF Sent, Emitted, Moves, Asks, TransportsTypeOK
<1>3. CASE UNCHANGED transportVars
  BY <1>3
<1> QED
  BY <1>1, <1>2, <1>3
  DEF ExampleNext, Begin, NotAvailable, Queued, Quietly, HandlerReturns

LEMMA MoveSteps ==
  ASSUME Moves
  PROVE  \/ \E e \in [Named -> Texts], testing \in BOOLEAN : StartUp(e, testing)
         \/ \E connected \in BOOLEAN : ConnectClient(connected)
         \/ BecomeReady \/ DestroyServices \/ AllClosed
         \/ \E t \in Named : LinkDrops(t) \/ EmitBreaks(t)
         \/ \E t \in Named : Closed(t) \/ CloseFails(t)
         \/ Asks
BY DEF Moves, ServiceLife

-----------------------------------------------------------------------------
(* Type correctness.                                                       *)

LEMMA TransportsTypeNext == TransportsTypeOK /\ [Moves]_transportVars => TransportsTypeOK'
<1> SUFFICES ASSUME TransportsTypeOK, [Moves]_transportVars
             PROVE  TransportsTypeOK'
  OBVIOUS
<1> USE DEF Registered
<1>1. ASSUME NEW e \in [Named -> Texts], NEW testing \in BOOLEAN, StartUp(e, testing)
      PROVE  TransportsTypeOK'
  BY <1>1 DEF StartUp, TransportsTypeOK, Phases, Switched
<1>2. ASSUME NEW connected \in BOOLEAN, ConnectClient(connected) PROVE TransportsTypeOK'
  <2>1. PICK t \in pending : /\ clients' = With(t, connected)
                             /\ links' \subseteq links \cup {t}
                             /\ pending' = pending \ {t}
    BY <1>2 DEF ConnectClient
  <2>2. /\ DOMAIN clients' = Registered \cup {t}
        /\ \A x \in DOMAIN clients' : clients'[x] \in BOOLEAN
    BY <2>1 DEF With, TransportsTypeOK
  <2> QED
    BY <1>2, <2>1, <2>2 DEF ConnectClient, TransportsTypeOK
<1>3. CASE BecomeReady
  BY <1>3 DEF BecomeReady, TransportsTypeOK, Phases
<1>4. CASE DestroyServices
  BY <1>4 DEF DestroyServices, TransportsTypeOK, Phases
<1>5. CASE AllClosed
  <2>1. DOMAIN clients' = {}
    BY <1>5 DEF AllClosed
  <2> QED
    BY <1>5, <2>1 DEF AllClosed, TransportsTypeOK, Phases
<1>6. ASSUME NEW t \in Named, LinkDrops(t) \/ EmitBreaks(t) PROVE TransportsTypeOK'
  BY <1>6 DEF LinkDrops, EmitBreaks, TransportsTypeOK, Phases
<1>7. ASSUME NEW t \in Named, Closed(t) \/ CloseFails(t) PROVE TransportsTypeOK'
  BY <1>7 DEF Closed, CloseFails, TransportsTypeOK
<1>8. CASE Asks
  BY <1>8, UseConnects DEF Asks, TransportsTypeOK
<1>9. CASE UNCHANGED transportVars
  BY <1>9 DEF transportVars, TransportsTypeOK
<1> QED
  BY <1>1, <1>2, <1>3, <1>4, <1>5, <1>6, <1>7, <1>8, <1>9, MoveSteps

\* The variables of Transports keep their types.
THEOREM TransportsTypeCorrect == TransportsSpec => []TransportsTypeOK
<1>1. TransportsInit => TransportsTypeOK
  BY DEF TransportsInit, TransportsTypeOK, Registered, Phases, Texts, NoAnswer
<1> QED
  BY <1>1, RequestsMove, TransportsTypeNext, PTL DEF TransportsSpec

-----------------------------------------------------------------------------
(* The start-up: what is switched on is registered or still to come, until *)
(* the service says ready.  A client stays registered until the shutdown   *)
(* is over.                                                                *)

Starting ==
  /\ phase = "NEW" => Registered = {}
  /\ phase \in {"NEW", "CONNECTING"} => shown = "initializing"
  /\ phase = "CONNECTING" => Switched(switches) = Registered \cup pending
  /\ phase = "READY" /\ shown = "ready" => Switched(switches) \subseteq Registered

LEMMA StartingNext ==
  TransportsTypeOK /\ Starting /\ [Moves]_transportVars => Starting'
<1> SUFFICES ASSUME TransportsTypeOK, Starting, [Moves]_transportVars
             PROVE  Starting'
  OBVIOUS
<1> USE DEF Switched, Registered
<1>1. ASSUME NEW e \in [Named -> Texts], NEW testing \in BOOLEAN, StartUp(e, testing)
      PROVE  Starting'
  BY <1>1 DEF StartUp, Starting, TransportsTypeOK
<1>2. ASSUME NEW connected \in BOOLEAN, ConnectClient(connected) PROVE Starting'
  <2>1. PICK t \in pending : clients' = With(t, connected) /\ pending' = pending \ {t}
    BY <1>2 DEF ConnectClient
  <2>2. Registered' = Registered \cup {t}
    BY <2>1 DEF With
  <2> QED
    BY <1>2, <2>1, <2>2 DEF ConnectClient, Starting
<1>3. CASE BecomeReady
  BY <1>3 DEF BecomeReady, Starting
<1>4. CASE DestroyServices \/ AllClosed
  BY <1>4 DEF DestroyServices, AllClosed, Starting
<1>5. ASSUME NEW t \in Named, LinkDrops(t) \/ EmitBreaks(t) \/ Closed(t) \/ CloseFails(t)
      PROVE  Starting'
  BY <1>5 DEF LinkDrops, EmitBreaks, Closed, CloseFails, Starting
<1>6. CASE Asks
  BY <1>6 DEF Asks, Starting
<1>7. CASE UNCHANGED transportVars
  BY <1>7 DEF transportVars, Starting
<1> QED
  BY <1>1, <1>2, <1>3, <1>4, <1>5, <1>6, <1>7, MoveSteps

\* A service that says ready knows every transport that the flags report.
THEOREM FlaggedMeansRoutableCorrect == TransportsSpec => []FlaggedMeansRoutable
<1>1. TransportsInit => Starting
  BY DEF TransportsInit, Starting, Registered
<1>2. TransportsTypeOK /\ Starting => FlaggedMeansRoutable
  BY DEF TransportsTypeOK, Starting, FlaggedMeansRoutable, Flagged, Switched
<1> QED
  BY <1>1, <1>2, RequestsMove, StartingNext, TransportsTypeCorrect, PTL DEF TransportsSpec

-----------------------------------------------------------------------------
(* The shutdown: what is connected is still to be closed, was used in the  *)
(* meantime, or has refused to close.                                      *)

Stopping ==
  /\ phase \in {"NEW", "CONNECTING", "READY"} => links \subseteq Registered
  /\ phase = "CLOSING" => links \subseteq closing \cup reopened \cup stuck
  /\ phase = "DESTROYED" => Registered = {} /\ ClosedAfterDestroy

LEMMA StoppingNext ==
  TransportsTypeOK /\ Stopping /\ [Moves]_transportVars => Stopping'
<1> SUFFICES ASSUME TransportsTypeOK, Stopping, [Moves]_transportVars
             PROVE  Stopping'
  OBVIOUS
<1> USE DEF ClosedAfterDestroy, Registered
<1>1. ASSUME NEW e \in [Named -> Texts], NEW testing \in BOOLEAN, StartUp(e, testing)
      PROVE  Stopping'
  BY <1>1 DEF StartUp, Stopping
<1>2. ASSUME NEW connected \in BOOLEAN, ConnectClient(connected) PROVE Stopping'
  <2>1. PICK t \in pending : /\ clients' = With(t, connected)
                             /\ links' \subseteq links \cup {t}
    BY <1>2 DEF ConnectClient
  <2>2. Registered' = Registered \cup {t}
    BY <2>1 DEF With
  <2> QED
    BY <1>2, <2>1, <2>2 DEF ConnectClient, Stopping
<1>3. CASE BecomeReady \/ DestroyServices
  BY <1>3 DEF BecomeReady, DestroyServices, Stopping
<1>4. CASE AllClosed
  BY <1>4 DEF AllClosed, Stopping
<1>5. ASSUME NEW t \in Named, LinkDrops(t) \/ EmitBreaks(t) \/ Closed(t) \/ CloseFails(t)
      PROVE  Stopping'
  BY <1>5 DEF LinkDrops, EmitBreaks, Closed, CloseFails, Stopping, Up
<1>6. CASE Asks
  BY <1>6, UseConnects DEF Asks, Stopping, Up
<1>7. CASE UNCHANGED transportVars
  BY <1>7 DEF transportVars, Stopping
<1> QED
  BY <1>1, <1>2, <1>3, <1>4, <1>5, <1>6, <1>7, MoveSteps

\* After the shutdown only late users and failed closes leave a connection.
THEOREM ClosedAfterDestroyCorrect == TransportsSpec => []ClosedAfterDestroy
<1>1. TransportsInit => Stopping
  BY DEF TransportsInit, Stopping
<1>2. Stopping => ClosedAfterDestroy
  BY DEF Stopping, ClosedAfterDestroy
<1> QED
  BY <1>1, <1>2, RequestsMove, StoppingNext, TransportsTypeCorrect, PTL DEF TransportsSpec

-----------------------------------------------------------------------------
(* The handlers of ExampleUsage.  Only an order is sent with a fallback    *)
(* that could repeat it; while it can still be sent it was not processed,  *)
(* and the steps that are left beside it concern other things.             *)

OtherSteps == {step \in MessageSteps : step.what # "order.process"}
OrderSteps == {step \in MessageSteps : /\ step.what = "order.process"
                                       /\ step.via \in {<<"grpc", "redis">>, <<"redis">>}}

Fresh == processed = 0 /\ flow.todo # <<>>
           /\ Head(flow.todo) \in OrderSteps /\ Tail(flow.todo) \in Seq(OtherSteps)

OneOrder ==
  /\ flow \in [handler : Handlers \cup {"NONE"}, todo : Seq(MessageSteps)]
  /\ processed \in 0..1 /\ streamed \in BOOLEAN
  /\ flow.todo \in Seq(OtherSteps) \/ Fresh

\* The records and lists that the handlers are made of.
LEMMA StepsAreRecords ==
  ASSUME NEW what \in Topics, NEW via \in Seq(Carriers)
  PROVE  /\ Send(what, via) \in MessageSteps /\ Send(what, via).what = what
         /\ Send(what, via).via = via
         /\ Emit(what, via) \in MessageSteps /\ Emit(what, via).what = what
         /\ Optional(Send(what, via)) \in MessageSteps
         /\ Optional(Send(what, via)).what = what
BY DEF Send, Emit, Optional, MessageSteps

LEMMA JobsAreRecords ==
  ASSUME NEW what \in Topics
  PROVE  /\ Job(what) \in MessageSteps /\ Job(what).what = what
         /\ Quiet(what) \in MessageSteps /\ Quiet(what).what = what
BY EmptySeq DEF Send, Job, Quiet, MessageSteps

LEMMA CarrierLists ==
  /\ "tcp" \in Carriers /\ "redis" \in Carriers /\ "nats" \in Carriers
  /\ "rabbitmq" \in Carriers /\ "grpc" \in Carriers
  /\ \A t \in Carriers : <<t>> \in Seq(Carriers)
  /\ \A t, u \in Carriers : <<t, u>> \in Seq(Carriers)
BY DEF Carriers

Elsewhere == Topics \ {"order.process"}

LEMMA OneCarrier ==
  ASSUME NEW what \in Elsewhere, NEW t \in Carriers
  PROVE  /\ Send(what, <<t>>) \in OtherSteps /\ Emit(what, <<t>>) \in OtherSteps
         /\ Optional(Send(what, <<t>>)) \in OtherSteps
<1>1. <<t>> \in Seq(Carriers)
  BY CarrierLists
<1>2. what \in Topics /\ what # "order.process"
  BY DEF Elsewhere
<1>3. /\ Send(what, <<t>>) \in MessageSteps /\ Send(what, <<t>>).what = what
      /\ Emit(what, <<t>>) \in MessageSteps /\ Emit(what, <<t>>).what = what
      /\ Optional(Send(what, <<t>>)) \in MessageSteps
      /\ Optional(Send(what, <<t>>)).what = what
  BY <1>1, <1>2, StepsAreRecords
<1> QED
  BY <1>2, <1>3 DEF OtherSteps

LEMMA NoCarrier ==
  ASSUME NEW what \in Elsewhere
  PROVE  Job(what) \in OtherSteps /\ Quiet(what) \in OtherSteps
BY JobsAreRecords DEF OtherSteps, Elsewhere

LEMMA HealthSteps == PerformHealthCheck \in Seq(OtherSteps)
<1>1. {"health.ping", "stream"} \subseteq Elsewhere
  BY DEF Topics, Elsewhere
<1>2. ASSUME NEW t \in Carriers PROVE Ping(t) \in Seq(OtherSteps)
  BY <1>1, OneCarrier, EmptySeq DEF Ping
<1>3. <<Quiet("stream")>> \in Seq(OtherSteps)
  BY <1>1, NoCarrier
<1>4. /\ Ping("tcp") \in Seq(OtherSteps) /\ Ping("redis") \in Seq(OtherSteps)
      /\ Ping("nats") \in Seq(OtherSteps) /\ Ping("rabbitmq") \in Seq(OtherSteps)
  BY <1>2, CarrierLists
<1> QED
  BY <1>3, <1>4, ConcatProperties DEF PerformHealthCheck

LEMMA OrderIsSentFirst ==
  /\ ProcessOrder # <<>> /\ ProcessOrder \in Seq(MessageSteps)
  /\ Head(ProcessOrder) \in OrderSteps /\ Tail(ProcessOrder) \in Seq(OtherSteps)
<1> DEFINE first == Send("order.process", <<"grpc", "redis">>)
           second == Emit("inventory.reserve", <<"nats", "redis">>)
<1>1. /\ "order.process" \in Topics
      /\ {"inventory.reserve", "mqtt", "stream"} \subseteq Elsewhere
  BY DEF Topics, Elsewhere
<1>2. <<"grpc", "redis">> \in Seq(Carriers) /\ <<"nats", "redis">> \in Seq(Carriers)
  BY CarrierLists
<1>3. first \in MessageSteps /\ first \in OrderSteps
  BY <1>1, <1>2, StepsAreRecords DEF OrderSteps
<1>4. second \in OtherSteps
  BY <1>1, <1>2, StepsAreRecords DEF OtherSteps, Elsewhere
<1>5. Quiet("mqtt") \in OtherSteps /\ Quiet("stream") \in OtherSteps
  BY <1>1, NoCarrier
<1>6. ProcessOrder = <<first, second, Quiet("mqtt"), Quiet("stream")>>
  BY DEF ProcessOrder
<1>7. OtherSteps \subseteq MessageSteps
  BY DEF OtherSteps
<1> HIDE DEF first, second
<1> QED
  BY <1>3, <1>4, <1>5, <1>6, <1>7

\* What each handler does, other than to process an order.
LEMMA HandlerSteps ==
  ASSUME NEW handler \in Handlers
  PROVE  IF handler = "order" THEN Steps(handler) = ProcessOrder
                              ELSE Steps(handler) \in Seq(OtherSteps)
<1>1. {"user.create", "user.registered", "kafka", "email", "stream"} \subseteq Elsewhere
  BY DEF Topics, Elsewhere
<1>2. {"user.getAll", "order.getAll", "data-processing"} \subseteq Elsewhere
  BY DEF Topics, Elsewhere
<1>3. {"system.backup.start", "backup", "metrics.collect", "notifications", "user.activity"}
        \subseteq Elsewhere
  BY DEF Topics, Elsewhere
<1>4. HandleUserRegistration \in Seq(OtherSteps)
  BY <1>1, OneCarrier, NoCarrier, CarrierLists DEF HandleUserRegistration
<1>5. SynchronizeData \in Seq(OtherSteps)
  BY <1>1, <1>2, OneCarrier, NoCarrier, CarrierLists DEF SynchronizeData
<1>6. PerformBackup \in Seq(OtherSteps)
  BY <1>1, <1>3, OneCarrier, NoCarrier, CarrierLists DEF PerformBackup
<1>7. CollectMetrics \in Seq(OtherSteps)
  BY <1>1, <1>3, OneCarrier, NoCarrier, CarrierLists DEF CollectMetrics
<1>8. HandleNewUserWelcome \in Seq(OtherSteps)
  BY <1>3, NoCarrier DEF HandleNewUserWelcome
<1>9. HandleUserActivity \in Seq(OtherSteps)
  BY <1>3, OneCarrier, CarrierLists DEF HandleUserActivity
<1> QED
  BY <1>4, <1>5, <1>6, <1>7, <1>8, <1>9, HealthSteps DEF Steps, Handlers

-----------------------------------------------------------------------------
(* The steps of a handler, of whichever kind.                              *)

LEMMA OnTheWay ==
  ASSUME OneOrder, flow.todo # <<>>
  PROVE  /\ Step \in MessageSteps /\ Rest \in Seq(OtherSteps)
         /\ Step \in OtherSteps \/ (processed = 0 /\ Step \in OrderSteps)
<1>1. CASE flow.todo \in Seq(OtherSteps)
  BY <1>1, HeadTailProperties DEF Step, Rest, OtherSteps
<1>2. CASE Fresh
  <2>1. flow.todo \in Seq(MessageSteps)
    BY DEF OneOrder
  <2>2. Head(flow.todo) \in MessageSteps
    BY <2>1, HeadTailProperties
  <2> QED
    BY <1>2, <2>2 DEF Step, Rest, Fresh
<1> QED
  BY <1>1, <1>2 DEF OneOrder

LEMMA ListsOfOthers ==
  /\ \A s \in Seq(OtherSteps) : s \in Seq(MessageSteps)
  /\ \A x \in OtherSteps, s \in Seq(OtherSteps) : <<x>> \o s \in Seq(OtherSteps)
  /\ \A x \in MessageSteps, s \in Seq(MessageSteps) :
       /\ <<x>> \o s \in Seq(MessageSteps) /\ <<x>> \o s # <<>>
       /\ Head(<<x>> \o s) = x /\ Tail(<<x>> \o s) = s
<1>1. OtherSteps \subseteq MessageSteps
  BY DEF OtherSteps
<1>2. \A s \in Seq(OtherSteps) : s \in Seq(MessageSteps)
  BY <1>1, SeqMonotonic
<1>3. \A x \in OtherSteps, s \in Seq(OtherSteps) : <<x>> \o s \in Seq(OtherSteps)
  OBVIOUS
<1>4. ASSUME NEW x \in MessageSteps, NEW s \in Seq(MessageSteps)
      PROVE  /\ <<x>> \o s \in Seq(MessageSteps) /\ <<x>> \o s # <<>>
             /\ Head(<<x>> \o s) = x /\ Tail(<<x>> \o s) = s
  OBVIOUS
<1> QED
  BY <1>2, <1>3, <1>4

LEMMA ContinueKeeps ==
  ASSUME OneOrder, flow.todo # <<>>, Continue, processed' \in 0..1
  PROVE  OneOrder'
<1>1. flow' = [flow EXCEPT !.todo = Rest] /\ streamed' = streamed
  BY DEF Continue
<1>2. flow'.todo = Rest /\ flow' \in [handler : Handlers \cup {"NONE"}, todo : Seq(MessageSteps)]
  BY <1>1, OnTheWay, ListsOfOthers DEF OneOrder
<1> QED
  BY <1>1, <1>2, OnTheWay DEF OneOrder

LEMMA ThrowKeeps ==
  ASSUME OneOrder, flow.todo # <<>>, Throw, processed' \in 0..1,
         Step \in OtherSteps \/ processed' = 0 \/ Len(Step.via) <= 1
  PROVE  OneOrder'
<1> DEFINE next == [Step EXCEPT !.via = Tail(@)]
<1>1. CASE Len(Step.via) > 1
  <2>1. flow' = [flow EXCEPT !.todo = <<next>> \o Rest] /\ streamed' = streamed
    BY <1>1 DEF Throw
  <2>2. Step.via \in Seq(Carriers) /\ Step.via # <<>>
    BY <1>1, OnTheWay DEF MessageSteps
  <2>3. Tail(Step.via) \in Seq(Carriers)
    BY <2>2, HeadTailProperties
  <2>4. next \in MessageSteps /\ next.what = Step.what
    BY <2>3, OnTheWay DEF MessageSteps
  <2>5. Step \in OtherSteps => next \in OtherSteps
    BY <2>4 DEF OtherSteps
  <2>6. ASSUME Step \in OrderSteps PROVE next \in OrderSteps
    <3>1. Len(<<"redis">>) = 1 /\ Tail(<<"grpc", "redis">>) = <<"redis">>
      OBVIOUS
    <3>2. Step.via = <<"grpc", "redis">>
      BY <1>1, <2>6, <3>1 DEF OrderSteps
    <3>3. next.via = <<"redis">>
      BY <3>1, <3>2, OnTheWay DEF MessageSteps
    <3> QED
      BY <2>4, <2>6, <3>3 DEF OrderSteps
  <2>7. <<next>> \o Rest \in Seq(MessageSteps)
    BY <2>4, OnTheWay, ListsOfOthers
  <2> HIDE DEF next
  <2>8. /\ flow'.todo = <<next>> \o Rest
        /\ flow' \in [handler : Handlers \cup {"NONE"}, todo : Seq(MessageSteps)]
    BY <2>1, <2>7 DEF OneOrder
  <2>9. CASE Step \in OtherSteps
    <3>1. flow'.todo \in Seq(OtherSteps)
      BY <2>5, <2>8, <2>9, OnTheWay, ListsOfOthers
    <3> QED
      BY <2>1, <2>8, <3>1 DEF OneOrder
  <2>10. CASE Step \notin OtherSteps
    <3>1. processed' = 0 /\ next \in OrderSteps
      BY <1>1, <2>2, <2>6, <2>10, OnTheWay
    <3>2. /\ flow'.todo # <<>> /\ Head(flow'.todo) = next /\ Tail(flow'.todo) = Rest
      BY <2>4, <2>8, OnTheWay, ListsOfOthers
    <3>3. Fresh'
      BY <3>1, <3>2, OnTheWay DEF Fresh
    <3> QED
      BY <2>1, <2>8, <3>3 DEF OneOrder
  <2> QED
    BY <2>9, <2>10
<1>2. CASE ~(Len(Step.via) > 1) /\ Step.try
  BY <1>2, ContinueKeeps DEF Throw
<1>3. CASE ~(Len(Step.via) > 1) /\ ~Step.try
  <2>1. flow' = Idle /\ streamed' = (flow.handler \in StreamsErrors)
    BY <1>3 DEF Throw
  <2>2. Idle \in [handler : Handlers \cup {"NONE"}, todo : Seq(MessageSteps)]
    BY EmptySeq DEF Idle
  <2>3. Idle.todo \in Seq(OtherSteps)
    BY EmptySeq DEF Idle
  <2> QED
    BY <2>1, <2>2, <2>3 DEF OneOrder
<1> QED
  BY <1>1, <1>2, <1>3

\* A client that an order is sent by is not the one that gRPC would have.
LEMMA SentKeeps ==
  ASSUME TransportsTypeOK, OneOrder, flow.todo # <<>>, Sent
  PROVE  OneOrder'
<1>1. PICK arrives \in BOOLEAN, answered \in BOOLEAN :
        /\ processed' = IF arrives /\ Step.what = "order.process"
                          THEN processed + 1 ELSE processed
        /\ IF answered THEN Continue ELSE Throw
  BY DEF Sent
<1>2. Target # "grpc"
  BY TransportsAssumption DEF Sent, TransportsTypeOK
<1>3. Step \in OtherSteps \/ Len(Step.via) = 1
  BY <1>2, OnTheWay DEF OrderSteps, Target
<1>4. processed' \in 0..1
  BY <1>1, OnTheWay DEF OneOrder, OtherSteps
<1>5. CASE answered
  BY <1>1, <1>4, <1>5, ContinueKeeps
<1>6. CASE ~answered
  <2>1. Len(Step.via) = 1 => Len(Step.via) <= 1
    OBVIOUS
  <2> QED
    BY <1>1, <1>3, <1>4, <1>6, <2>1, ThrowKeeps
<1> QED
  BY <1>5, <1>6

LEMMA OneOrderNext ==
  TransportsTypeOK /\ OneOrder /\ [ExampleNext]_<<transportVars, exampleVars>> => OneOrder'
<1> SUFFICES ASSUME TransportsTypeOK, OneOrder,
                    [ExampleNext]_<<transportVars, exampleVars>>
             PROVE  OneOrder'
  OBVIOUS
<1>1. CASE UNCHANGED exampleVars
  BY <1>1 DEF exampleVars, OneOrder, Fresh
<1>2. ASSUME NEW handler \in Handlers, Begin(handler) PROVE OneOrder'
  <2>1. /\ flow' = [handler |-> handler, todo |-> Steps(handler)]
        /\ processed' = 0 /\ streamed' = FALSE
    BY <1>2 DEF Begin
  <2>2. flow'.todo \in Seq(MessageSteps)
    BY <2>1, HandlerSteps, OrderIsSentFirst, ListsOfOthers
  <2>3. flow'.todo \in Seq(OtherSteps) \/ Fresh'
    BY <2>1, HandlerSteps, OrderIsSentFirst DEF Fresh
  <2>4. processed' \in 0..1
    BY <2>1
  <2>5. streamed' \in BOOLEAN
    BY <2>1, Zenon
  <2>6. flow' \in [handler : Handlers \cup {"NONE"}, todo : Seq(MessageSteps)]
    BY <2>1, <2>2
  <2> QED
    BY <2>3, <2>4, <2>5, <2>6 DEF OneOrder
<1>3. ASSUME flow.todo # <<>>, NotAvailable PROVE OneOrder'
  <2>1. processed' = processed /\ Throw
    BY <1>3 DEF NotAvailable
  <2> QED
    BY <1>3, <2>1, OnTheWay, ThrowKeeps DEF OneOrder
<1>4. ASSUME flow.todo # <<>>, Sent PROVE OneOrder'
  BY <1>4, SentKeeps
<1>5. ASSUME flow.todo # <<>>, Emitted \/ Quietly PROVE OneOrder'
  <2>1. processed' = processed /\ Continue
    BY <1>5 DEF Emitted, Quietly
  <2> QED
    BY <1>5, <2>1, ContinueKeeps DEF OneOrder
<1>6. ASSUME flow.todo # <<>>, Queued PROVE OneOrder'
  <2>1. processed' = processed /\ (Continue \/ Throw)
    BY <1>6 DEF Queued
  <2> QED
    BY <1>6, <2>1, OnTheWay, ContinueKeeps, ThrowKeeps DEF OneOrder
<1>7. CASE HandlerReturns
  <2>1. flow' = Idle /\ UNCHANGED <<processed, streamed>>
    BY <1>7 DEF HandlerReturns
  <2>2. /\ Idle \in [handler : Handlers \cup {"NONE"}, todo : Seq(MessageSteps)]
        /\ Idle.todo \in Seq(OtherSteps)
    BY EmptySeq DEF Idle
  <2> QED
    BY <2>1, <2>2 DEF OneOrder
<1> QED
  BY <1>1, <1>2, <1>3, <1>4, <1>5, <1>6, <1>7 DEF ExampleNext

LEMMA HandlersInit ==
  TransportsInit /\ ExampleInit => TransportsTypeOK /\ Starting /\ Stopping /\ OneOrder
<1>1. TransportsInit => TransportsTypeOK /\ Starting /\ Stopping
  BY DEF TransportsInit, TransportsTypeOK, Starting, Stopping, Registered, Phases, Texts,
         NoAnswer
<1>2. /\ Idle \in [handler : Handlers \cup {"NONE"}, todo : Seq(MessageSteps)]
      /\ Idle.todo \in Seq(OtherSteps)
  BY EmptySeq DEF Idle
<1>3. ExampleInit => flow = Idle /\ processed \in 0..1
  BY DEF ExampleInit
<1>4. ExampleInit => streamed \in BOOLEAN
  BY Zenon DEF ExampleInit
<1>5. ExampleInit => OneOrder
  BY <1>2, <1>3, <1>4 DEF OneOrder
<1> QED
  BY <1>1, <1>5

\* The handlers keep their types, and those of the transports.
THEOREM ExampleTypeCorrect == ExampleSpec => [](TransportsTypeOK /\ ExampleTypeOK)
<1>1. OneOrder => ExampleTypeOK
  BY DEF OneOrder, ExampleTypeOK
<1> QED
  BY <1>1, HandlersInit, HandlersMove, TransportsTypeNext, OneOrderNext, PTL DEF ExampleSpec

\* An order is processed at most once, whatever is registered, fails and is tried
\* again.
THEOREM OrderProcessedOnceCorrect == ExampleSpec => []OrderProcessedOnce
<1>1. OneOrder => OrderProcessedOnce
  BY DEF OneOrder, OrderProcessedOnce
<1> QED
  BY <1>1, HandlersInit, HandlersMove, TransportsTypeNext, OneOrderNext, PTL DEF ExampleSpec

\* The handlers use the transports in every phase, and leave them as they were.
THEOREM HandlersKeepTransports ==
  ExampleSpec => [](FlaggedMeansRoutable /\ ClosedAfterDestroy)
<1>1. TransportsTypeOK /\ Starting => FlaggedMeansRoutable
  BY DEF TransportsTypeOK, Starting, FlaggedMeansRoutable, Flagged, Switched
<1>2. Stopping => ClosedAfterDestroy
  BY DEF Stopping, ClosedAfterDestroy
<1> QED
  BY <1>1, <1>2, HandlersInit, HandlersMove, TransportsTypeNext, StartingNext,
     StoppingNext, PTL DEF ExampleSpec
=============================================================================
