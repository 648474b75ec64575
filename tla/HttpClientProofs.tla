-------------------------- MODULE HttpClientProofs --------------------------
(***************************************************************************)
(* HttpClient for any set of callers: fetch() drives the breaker by steps  *)
(* that CircuitBreaker allows, so that what is proved there holds of it,   *)
(* and the abort timer covers every await of exec.                         *)
(***************************************************************************)
EXTENDS HttpClient, CircuitBreakerProofs

-----------------------------------------------------------------------------
\* Every step of fetch() is a step of the breaker, or none that it sees.
LEMMA StepOfBreaker == [HttpNext]_httpVars => [Next]_vars
<1> SUFFICES ASSUME [HttpNext]_httpVars PROVE [Next]_vars
  OBVIOUS
<1>1. CASE HttpTick
  BY <1>1 DEF HttpTick, Next
<1>2. ASSUME NEW c \in Calls, Fetch(c) PROVE Next
  BY <1>2 DEF Fetch, Next
<1>3. ASSUME NEW c \in Calls, Headers(c) PROVE UNCHANGED vars
  BY <1>3 DEF Headers, vars
<1>4. ASSUME NEW c \in Calls, Complete(c) \/ Broken(c) \/ Abort(c) PROVE Next
  BY <1>4 DEF Complete, Broken, Abort, Next, Settle
<1>5. CASE UNCHANGED httpVars
  BY <1>5 DEF httpVars, vars
<1> QED
  BY <1>1, <1>2, <1>3, <1>4, <1>5 DEF HttpNext

\* fetch() keeps to the safety part of the breaker's specification.
THEOREM BreakerUsed == HttpSpec => Spec
<1>1. HttpInit => Init
  BY DEF HttpInit
<1> QED
  BY <1>1, StepOfBreaker, PTL DEF HttpSpec, Spec

\* HTTP traffic trips the circuit on consecutive failures only.
THEOREM HttpFailureCounts ==
  HttpSpec => [](ClosedMeansFewFailures /\ TrialIsBounded)
BY BreakerUsed, ClosedMeansFewFailuresCorrect, TrialIsBoundedCorrect, PTL

-----------------------------------------------------------------------------
\* The inductive form of TimersCoverCalls, call by call.
Covered ==
  /\ http \in [Calls -> Phases]
  /\ timers \subseteq Calls
  /\ \A c \in Calls : c \in timers <=> http[c] # "NONE"
  /\ \A c \in Calls : c \in timers <=> calls[c] \in InFlight

\* A call that execute() admits is in flight; one that it rejects is not.
LEMMA ExecuteCalls ==
  ASSUME TypeOK, NEW c \in Calls, Execute(c)
  PROVE  \E s \in InFlight \cup {"REJECTED"} :
           calls' = [calls EXCEPT ![c] = s]
<1>1. CASE Bypass(c)
  BY <1>1 DEF Bypass, InFlight
<1>2. CASE Admit(c)
  <2>1. circuit.state \in InFlight
    BY <1>2 DEF Admit, TypeOK, States, InFlight
  <2> QED
    BY <1>2, <2>1 DEF Admit
<1>3. CASE Probe(c)
  BY <1>3 DEF Probe, InFlight
<1>4. CASE Reject(c)
  BY <1>4 DEF Reject
<1> QED
  BY <1>1, <1>2, <1>3, <1>4, Zenon DEF Execute

\* The ways out of exec, all through the finally block.
LEMMA LeavingCovered ==
  ASSUME TypeOK, Covered, NEW c \in Calls, Finally(c), Settle(c)
  PROVE  Covered'
<1>1. calls' = [calls EXCEPT ![c] = "IDLE"]
  BY DEF Settle, Succeed, Fail
<1> QED
  BY <1>1 DEF Covered, TypeOK, Finally, Phases, InFlight

LEMMA CoveredNext == TypeOK /\ Covered /\ [HttpNext]_httpVars => Covered'
<1> SUFFICES ASSUME TypeOK, Covered, [HttpNext]_httpVars PROVE Covered'
  OBVIOUS
<1>1. CASE HttpTick
  BY <1>1 DEF HttpTick, Tick, Covered
<1>2. ASSUME NEW c \in Calls, Fetch(c) PROVE Covered'
  <2>1. PICK s \in InFlight \cup {"REJECTED"} : calls' = [calls EXCEPT ![c] = s]
    BY <1>2, ExecuteCalls DEF Fetch
  <2>2. c \notin timers
    BY <1>2 DEF Fetch, Execute, Bypass, Admit, Probe, Reject, Resting, Covered
  <2>3. calls'[c] = s
    BY <2>1 DEF TypeOK
  <2>4. CASE s = "REJECTED"
    BY <1>2, <2>1, <2>2, <2>3, <2>4 DEF Fetch, Covered, TypeOK, InFlight
  <2>5. CASE s \in InFlight
    BY <1>2, <2>1, <2>2, <2>3, <2>5 DEF Fetch, Covered, TypeOK, InFlight, Phases
  <2> QED
    BY <2>4, <2>5
<1>3. ASSUME NEW c \in Calls, Headers(c) PROVE Covered'
  BY <1>3 DEF Headers, Covered, Phases
<1>4. ASSUME NEW c \in Calls, Complete(c) \/ Broken(c) \/ Abort(c) PROVE Covered'
  BY <1>4, LeavingCovered DEF Complete, Broken, Abort, Settle
<1>5. CASE UNCHANGED httpVars
  BY <1>5 DEF httpVars, Covered
<1> QED
  BY <1>1, <1>2, <1>3, <1>4, <1>5 DEF HttpNext

\* Whatever exec awaits, its abort timer is armed, and none is left behind, for
\* any number of overlapping requests.
THEOREM TimersCoverCallsCorrect == HttpSpec => []TimersCoverCalls
<1>1. HttpInit => Covered
  BY DEF HttpInit, Init, Covered, Phases, InFlight
<1>2. Covered => TimersCoverCalls
  BY DEF Covered, TimersCoverCalls
<1> QED
  BY <1>1, <1>2, CoveredNext, BreakerUsed, TypeCorrect, PTL DEF HttpSpec
=============================================================================
