----------------------------- MODULE HttpClient -----------------------------
(***************************************************************************)
(* HttpClientService.fetch(): the only production caller of execute().     *)
(* The operation it passes (exec) arms an abort timer, awaits the          *)
(* response, awaits its body, and disarms the timer in a finally block, so *)
(* the timer covers the body as well as the headers.  That is what makes   *)
(* every admitted call settle, which CircuitBreaker only assumes.          *)
(*                                                                         *)
(* Without a breaker, or with ENABLE_CIRCUIT_BREAKER other than "true",    *)
(* exec runs on its own: the Bypass of CircuitBreaker.                     *)
(***************************************************************************)
EXTENDS CircuitBreaker

VARIABLES
  http,    \* what exec awaits: nothing, the response or its body
  timers   \* the calls whose abort timer is armed

httpVars == <<isEnabled, circuit, calls, streak, trial, http, timers>>

Phases == {"NONE", "RESPONSE", "BODY", "ERROR_BODY"}

HttpInit ==
  /\ Init
  /\ http = [c \in Calls |-> "NONE"]
  /\ timers = {}

\* fetch() up to the await of the response; a rejected call runs no exec.
Fetch(c) ==
  /\ Execute(c)
  /\ IF calls'[c] = "REJECTED"
       THEN UNCHANGED <<http, timers>>
       ELSE /\ http' = [http EXCEPT ![c] = "RESPONSE"]
            /\ timers' = timers \cup {c}

\* Mutant of Headers: the timer only guards the response.
HeadersDisarm(c) ==
  /\ http[c] = "RESPONSE"
  /\ \E phase \in {"BODY", "ERROR_BODY"} :
       http' = [http EXCEPT ![c] = phase]
  /\ timers' = timers \ {c}
  /\ UNCHANGED vars

\* The response is there: ok, or an error status whose text is read first.
Headers(c) ==
  /\ http[c] = "RESPONSE"
  /\ \E phase \in {"BODY", "ERROR_BODY"} :
       http' = [http EXCEPT ![c] = phase]
  /\ UNCHANGED <<isEnabled, circuit, calls, streak, trial, timers>>

\* Mutant of Finally: clearTimeout is forgotten.
FinallyKeepsTimer(c) ==
  /\ http' = [http EXCEPT ![c] = "NONE"]
  /\ UNCHANGED timers

\* The finally block.
Finally(c) ==
  /\ http' = [http EXCEPT ![c] = "NONE"]
  /\ timers' = timers \ {c}

\* The body was read, and parsed if it is JSON.
Complete(c) ==
  /\ http[c] = "BODY"
  /\ Finally(c)
  /\ Succeed(c)

\* An error status, a lost connection, a body that is not JSON.
Broken(c) ==
  /\ http[c] # "NONE"
  /\ Finally(c)
  /\ Fail(c)

\* The timer fires: whatever exec awaits rejects with an AbortError.
Abort(c) ==
  /\ c \in timers
  /\ Finally(c)
  /\ Fail(c)

HttpTick == Tick /\ UNCHANGED <<http, timers>>

HttpNext ==
  \/ HttpTick
  \/ \E c \in Calls :
       Fetch(c) \/ Headers(c) \/ Complete(c) \/ Broken(c) \/ Abort(c)

\* Time passes, traffic keeps coming and timers fire.  Nothing is assumed of
\* the server or the network.
HttpSpec ==
  /\ HttpInit /\ [][HttpNext]_httpVars
  /\ WF_httpVars(HttpTick)
  /\ \A c \in Calls : WF_httpVars(Fetch(c)) /\ WF_httpVars(Abort(c))

-----------------------------------------------------------------------------
\* Exactly the calls in flight have their timer armed: exec never awaits
\* without one, and leaves none behind on any of its exits.
TimersCoverCalls ==
  /\ timers = {c \in Calls : http[c] # "NONE"}
  /\ timers = {c \in Calls : calls[c] \in InFlight}

\* A server that accepts a request and then falls silent, before the headers
\* or in the middle of the body, cannot keep a caller waiting for ever.
EveryRequestSettles ==
  \A c \in Calls : (http[c] # "NONE") ~> (http[c] = "NONE")

\* fetch() uses the breaker as CircuitBreaker supposes, its fairness
\* included: whatever is shown there of FairSpec holds for HTTP traffic.
ImplementsBreaker == FairSpec
=============================================================================
