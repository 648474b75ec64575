----------------------------- MODULE Transports -----------------------------
(***************************************************************************)
(* MicroserviceService and its TransportManager: which transports are      *)
(* started, how a request is routed to one, and the shutdown.              *)
(*                                                                         *)
(* A registered client connects when it is first used (ClientProxy.send),  *)
(* whatever came of the attempt at start-up; its isConnected flag is never *)
(* written again.  The modules are destroyed before the HTTP server stops, *)
(* so requests still arrive during and after the shutdown.                 *)
(*                                                                         *)
(* Abstracted: connection options, payloads.  The other managers, which    *)
(* MicroserviceService starts before this one and destroys before it, in   *)
(* one synchronous step each, are modules of their own.                    *)
(***************************************************************************)
EXTENDS Naturals, Sequences

CONSTANTS
  Named,      \* the transports of getEnabledTransports() that are looked at
  Unknown     \* names of transports it does not know

ASSUME TransportsAssumption ==
  /\ Named \subseteq {"tcp", "redis", "nats", "rabbitmq"}
  /\ Named \cap Unknown = {}

VARIABLES
  phase,     \* of the service's life
  switches,       \* ENABLE_<transport>_MICROSERVICE
  pending,   \* enabled transports not yet initialized
  clients,   \* the map of registered clients; its values are isConnected
  links,     \* clients that have a connection
  shown,     \* the status of statusSubject
  closing,   \* clients whose close() is awaited
  reopened,  \* history: clients used while the shutdown was under way
  stuck,     \* history: clients whose close() failed
  answer     \* the last request over HTTP: asked for, routed to

transportVars ==
  <<phase, switches, pending, clients, links, shown, closing, reopened, stuck, answer>>

\* The order in which getEnabledTransports() lists them.
Order == <<"tcp", "redis", "nats", "rabbitmq">>
Place(t) == CHOOSE i \in DOMAIN Order : Order[i] = t
Texts == {"unset", "true", "false"}
Phases == {"NEW", "CONNECTING", "READY", "CLOSING", "DESTROYED", "CRASHED"}
NoAnswer == [asked |-> "NONE", via |-> "NONE"]

Up == phase \in {"READY", "CLOSING", "DESTROYED"}
Registered == DOMAIN clients

\* configService.get<boolean>(): the text itself, and any text is truthy.
Switched(e) == {t \in Named : e[t] # "unset"}
\* FeatureFlagsService: only "true" is.
Flagged(e) == {t \in Named : e[t] = "true"}

TransportsInit ==
  /\ phase = "NEW"
  /\ switches = [t \in Named |-> "unset"]
  /\ pending = {}
  /\ clients = [t \in {} |-> FALSE]
  /\ links = {} /\ closing = {} /\ reopened = {} /\ stuck = {}
  /\ shown = "initializing"
  /\ answer = NoAnswer

-----------------------------------------------------------------------------
(* Start-up.                                                               *)

\* onModuleInit(); initializeForTesting() leaves the transports out.
StartUp(e, testing) ==
  /\ phase = "NEW"
  /\ switches' = e
  /\ IF testing
       THEN phase' = "READY" /\ shown' = "test-mode" /\ UNCHANGED pending
       ELSE /\ phase' = "CONNECTING"
            /\ pending' = Switched(e)
            /\ UNCHANGED shown
  /\ UNCHANGED <<clients, links, closing, reopened, stuck, answer>>

\* clients.set(t, ...)
With(t, isConnected) ==
  [x \in Registered \cup {t} |-> IF x = t THEN isConnected ELSE clients[x]]

\* Mutant of ConnectClient: a client that does not connect is not kept.
ConnectClientOrNot(connected) ==
  /\ phase = "CONNECTING"
  /\ \E t \in pending :
       /\ \A other \in pending : Place(t) <= Place(other)
       /\ clients' = IF connected THEN With(t, TRUE) ELSE clients
       /\ links' = IF connected THEN links \cup {t} ELSE links
       /\ pending' = pending \ {t}
  /\ UNCHANGED <<phase, switches, shown, closing, reopened, stuck, answer>>

\* initializeTransport() and connectClient(): one after the other, and
\* registered in either case.
ConnectClient(connected) ==
  /\ phase = "CONNECTING"
  /\ \E t \in pending :
       /\ \A other \in pending : Place(t) <= Place(other)
       /\ clients' = With(t, connected)
       /\ links' = IF connected THEN links \cup {t} ELSE links
       /\ pending' = pending \ {t}
  /\ UNCHANGED <<phase, switches, shown, closing, reopened, stuck, answer>>

BecomeReady ==
  /\ phase = "CONNECTING" /\ pending = {}
  /\ phase' = "READY"
  /\ shown' = "ready"
  /\ UNCHANGED <<switches, pending, clients, links, closing, reopened, stuck, answer>>

-----------------------------------------------------------------------------
(* Requests.                                                               *)

\* send() or emit() by a client: it connects if it has to, and may fail to.
Use(t) ==
  /\ Up
  /\ t \in Registered
  /\ links' \in {links, links \cup {t}}
  /\ reopened' = IF phase = "CLOSING" THEN reopened \cup {t} ELSE reopened

\* getClient(name), or the error "Transport not available".
Routed(name) == IF name \in Registered THEN name ELSE "NONE"

\* POST /microservice/message and /event: the controller passes (transport,
\* pattern, data) where (pattern, data, transport = 'tcp') is expected, so
\* that the payload names the transport; none stands for 'tcp'.
PostMessage(asked, payload) ==
  LET via == Routed(IF payload = "NONE" THEN "tcp" ELSE payload) IN
  /\ Up
  /\ answer' = [asked |-> asked, via |-> via]
  /\ IF via = "NONE" THEN UNCHANGED <<links, reopened>> ELSE Use(via)
  /\ UNCHANGED <<phase, switches, pending, clients, shown, closing, stuck>>

\* POST /microservice/test/:transport, with the arguments in their order.
TestTransport(asked) ==
  /\ Up
  /\ answer' = [asked |-> asked, via |-> Routed(asked)]
  /\ IF asked \in Registered THEN Use(asked) ELSE UNCHANGED <<links, reopened>>
  /\ UNCHANGED <<phase, switches, pending, clients, shown, closing, stuck>>

LinkDrops(t) ==
  /\ t \in links
  /\ links' = links \ {t}
  /\ UNCHANGED <<phase, switches, pending, clients, shown, closing, reopened, stuck,
                 answer>>

\* emitEvent() subscribes without an error handler: rxjs throws what goes wrong
\* with the event from a timer, where it ends the process.
EmitBreaks(t) ==
  /\ Up
  /\ t \in Registered \ links
  /\ phase' = "CRASHED"
  /\ links' = {}
  /\ UNCHANGED <<switches, pending, clients, shown, closing, reopened, stuck, answer>>

-----------------------------------------------------------------------------
(* Shutdown.                                                               *)

\* Mutant of DestroyServices: only what getConnectedTransports() returns is
\* closed.
DestroyConnected ==
  /\ phase = "READY"
  /\ phase' = "CLOSING"
  /\ closing' = {t \in Registered : clients[t]}
  /\ UNCHANGED <<switches, pending, clients, links, shown, reopened, stuck, answer>>

\* destroyServices() up to the await of the clients.  isReady() and the status
\* keep saying ready.
DestroyServices ==
  /\ phase = "READY"
  /\ phase' = "CLOSING"
  /\ closing' = Registered
  /\ UNCHANGED <<switches, pending, clients, links, shown, reopened, stuck, answer>>

Closed(t) ==
  /\ t \in closing
  /\ closing' = closing \ {t}
  /\ links' = links \ {t}
  /\ UNCHANGED <<phase, switches, pending, clients, shown, reopened, stuck, answer>>

CloseFails(t) ==
  /\ t \in closing
  /\ closing' = closing \ {t}
  /\ stuck' = stuck \cup {t}
  /\ UNCHANGED <<phase, switches, pending, clients, links, shown, reopened, answer>>

\* Promise.all() resolves: clients.clear().
AllClosed ==
  /\ phase = "CLOSING" /\ closing = {}
  /\ phase' = "DESTROYED"
  /\ clients' = [t \in {} |-> FALSE]
  /\ UNCHANGED <<switches, pending, links, shown, closing, reopened, stuck, answer>>

ServiceLife ==
  \/ \E e \in [Named -> Texts], testing \in BOOLEAN : StartUp(e, testing)
  \/ \E connected \in BOOLEAN : ConnectClient(connected)
  \/ BecomeReady \/ DestroyServices \/ AllClosed
  \/ \E t \in Named :
       LinkDrops(t) \/ EmitBreaks(t) \/ Closed(t) \/ CloseFails(t)

TransportsNext ==
  \/ ServiceLife
  \/ \E asked \in Named \cup Unknown :
       \/ TestTransport(asked)
       \/ \E payload \in Named \cup {"NONE", "OBJECT"} :
            PostMessage(asked, payload)

TransportsSpec == TransportsInit /\ [][TransportsNext]_transportVars

-----------------------------------------------------------------------------
(* Properties.                                                             *)

\* Every variable keeps its type.
TransportsTypeOK ==
  /\ phase \in Phases
  /\ switches \in [Named -> Texts]
  /\ pending \subseteq Named
  /\ Registered \subseteq Named
  /\ \A t \in Registered : clients[t] \in BOOLEAN
  /\ links \subseteq Named
  /\ shown \in {"initializing", "ready", "test-mode"}
  /\ closing \subseteq Registered
  /\ reopened \subseteq Named /\ stuck \subseteq Named
  /\ answer \in [asked : Named \cup Unknown \cup {"NONE"},
                 via : Named \cup {"NONE"}]

\* Until the shutdown a service that says ready can be asked to send by every
\* transport that FeatureFlagsService reports, also by one that could not
\* connect at start-up.  (The reverse does not hold: the text "false" starts a
\* transport that the flags report as off.)
FlaggedMeansRoutable ==
  shown = "ready" /\ phase = "READY" => Flagged(switches) \subseteq Registered

\* After the shutdown nothing is connected but what was used while it was under
\* way, or refused to close: clients that connected on first use are closed too,
\* although their isConnected says FALSE.
ClosedAfterDestroy == phase = "DESTROYED" => links \subseteq reopened \cup stuck

-----------------------------------------------------------------------------
(* A statement of the documentation that the code does not meet.           *)

\* A message goes to the transport it was posted for, if it goes anywhere.
MessageReachesItsTransport == answer.via \in {answer.asked, "NONE"}
=============================================================================
