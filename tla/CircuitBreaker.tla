--------------------------- MODULE CircuitBreaker ---------------------------
(***************************************************************************)
(* CircuitBreakerService: one circuit of its map (no operation on one      *)
(* entry reads or writes another) and the calls that execute() wraps.      *)
(*                                                                         *)
(* execute() runs without interruption up to "await operation()"; the      *)
(* settling of that promise runs onSuccess or onFailure.  Between the two, *)
(* any number of other calls may start and settle, which is where the      *)
(* circuit is hard to get right: a call admitted in one state settles in   *)
(* another.                                                                *)
(*                                                                         *)
(* Date.now() - lastFailureTime is kept as `sinceFailure`, in ticks, and   *)
(* stops at Cooled: execute() only asks whether it exceeds resetTimeout.   *)
(* Likewise `failures` is only compared with failureThreshold, so counting *)
(* stops at CountCap.                                                      *)
(***************************************************************************)
EXTENDS Naturals, FiniteSets

CONSTANTS
  Calls,              \* callers; each has at most one call in flight
  FailureThreshold,   \* options.failureThreshold
  ResetTimeout,       \* options.resetTimeout, in ticks
  CountCap            \* bound: the failure counts stop here

ASSUME BreakerAssumption ==
  /\ FailureThreshold \in Nat \ {0}
  /\ ResetTimeout \in Nat
  /\ CountCap \in Nat
  /\ CountCap >= FailureThreshold

VARIABLES
  isEnabled,   \* the feature flag, read once by the constructor
  circuit,     \* the map's entry: state, failures, sinceFailure
  calls,       \* what each caller's call is doing
  streak,      \* history: failures settled since the last success
  trial        \* history: failures settled since HALF_OPEN was entered

vars == <<isEnabled, circuit, calls, streak, trial>>

States == {"CLOSED", "OPEN", "HALF_OPEN"}
Cooled == ResetTimeout + 1

\* A call in flight is labelled with the state that admitted it, or with
\* DIRECT when the breaker is disabled.
InFlight == {"CLOSED", "HALF_OPEN", "DIRECT"}

Min2(a, b) == IF a < b THEN a ELSE b
Count(n) == Min2(n + 1, CountCap)

\* A fresh entry; until its first call a circuit is absent from the map,
\* which no execute() can tell from this.
NewCircuit == [state |-> "CLOSED", failures |-> 0, sinceFailure |-> Cooled]

Init ==
  /\ isEnabled \in BOOLEAN
  /\ circuit = NewCircuit
  /\ calls = [c \in Calls |-> "IDLE"]
  /\ streak = 0
  /\ trial = 0

-----------------------------------------------------------------------------
(* execute(), up to the await.                                             *)

Resting(c) == calls[c] \notin InFlight

\* Disabled: the operation runs, the circuit is not consulted.
Bypass(c) ==
  /\ Resting(c)
  /\ ~isEnabled
  /\ calls' = [calls EXCEPT ![c] = "DIRECT"]
  /\ UNCHANGED <<isEnabled, circuit, streak, trial>>

\* CLOSED and HALF_OPEN let every call through.
Admit(c) ==
  /\ Resting(c)
  /\ isEnabled
  /\ circuit.state # "OPEN"
  /\ calls' = [calls EXCEPT ![c] = circuit.state]
  /\ UNCHANGED <<isEnabled, circuit, streak, trial>>

\* OPEN, and the last failure is more than resetTimeout ago.
Probe(c) ==
  /\ Resting(c)
  /\ isEnabled
  /\ circuit.state = "OPEN"
  /\ circuit.sinceFailure > ResetTimeout
  /\ circuit' = [circuit EXCEPT !.state = "HALF_OPEN"]
  /\ calls' = [calls EXCEPT ![c] = "HALF_OPEN"]
  /\ trial' = 0
  /\ UNCHANGED <<isEnabled, streak>>

\* Mutant of Reject: a rejected call is dated like a failed one.
RejectCounts(c) ==
  /\ Resting(c)
  /\ isEnabled
  /\ circuit.state = "OPEN"
  /\ circuit.sinceFailure <= ResetTimeout
  /\ circuit' = [circuit EXCEPT !.sinceFailure = 0]
  /\ calls' = [calls EXCEPT ![c] = "REJECTED"]
  /\ UNCHANGED <<isEnabled, streak, trial>>

\* OPEN and not yet cooled down: "Circuit ... is OPEN".
Reject(c) ==
  /\ Resting(c)
  /\ isEnabled
  /\ circuit.state = "OPEN"
  /\ circuit.sinceFailure <= ResetTimeout
  /\ calls' = [calls EXCEPT ![c] = "REJECTED"]
  /\ UNCHANGED <<isEnabled, circuit, streak, trial>>

Execute(c) == Bypass(c) \/ Admit(c) \/ Probe(c) \/ Reject(c)

-----------------------------------------------------------------------------
(* The promise of operation() settles.                                     *)

\* Mutants of OnSuccess: a count that leaks instead of being reset, one that
\* is not reset, a success that closes from any state, one that never closes.
OnSuccessLeaks ==
  /\ circuit' = [circuit EXCEPT
       !.failures = @ - 1,
       !.state = IF @ = "HALF_OPEN" THEN "CLOSED" ELSE @]
  /\ streak' = 0
  /\ UNCHANGED trial

OnSuccessKeepsCount ==
  /\ circuit' = [circuit EXCEPT
       !.state = IF @ = "HALF_OPEN" THEN "CLOSED" ELSE @]
  /\ streak' = 0
  /\ UNCHANGED trial

OnSuccessClosesAlways ==
  /\ circuit' = [circuit EXCEPT !.failures = 0, !.state = "CLOSED"]
  /\ streak' = 0
  /\ UNCHANGED trial

OnSuccessNeverCloses ==
  /\ circuit' = [circuit EXCEPT !.failures = 0]
  /\ streak' = 0
  /\ UNCHANGED trial

\* onSuccess(): the count is reset in every state, the state changes only
\* in HALF_OPEN.
OnSuccess ==
  /\ circuit' = [circuit EXCEPT
       !.failures = 0,
       !.state = IF @ = "HALF_OPEN" THEN "CLOSED" ELSE @]
  /\ streak' = 0
  /\ UNCHANGED trial

\* Mutants of OnFailure: off by one, and a threshold that is only looked at
\* when the circuit is CLOSED.
OnFailureOffByOne ==
  LET failures == Count(circuit.failures) IN
  /\ circuit' = [circuit EXCEPT
       !.failures = failures,
       !.sinceFailure = 0,
       !.state = IF failures > FailureThreshold THEN "OPEN" ELSE @]
  /\ streak' = Count(streak)
  /\ trial' = IF circuit.state = "HALF_OPEN" THEN Count(trial) ELSE trial

OnFailureOnlyClosed ==
  LET failures == Count(circuit.failures) IN
  /\ circuit' = [circuit EXCEPT
       !.failures = failures,
       !.sinceFailure = 0,
       !.state = IF @ = "CLOSED" /\ failures >= FailureThreshold
                 THEN "OPEN" ELSE @]
  /\ streak' = Count(streak)
  /\ trial' = IF circuit.state = "HALF_OPEN" THEN Count(trial) ELSE trial

\* onFailure(): counted and dated in every state, OPEN from the threshold on.
OnFailure ==
  LET failures == Count(circuit.failures) IN
  /\ circuit' = [circuit EXCEPT
       !.failures = failures,
       !.sinceFailure = 0,
       !.state = IF failures >= FailureThreshold THEN "OPEN" ELSE @]
  /\ streak' = Count(streak)
  /\ trial' = IF circuit.state = "HALF_OPEN" THEN Count(trial) ELSE trial

Succeed(c) ==
  /\ calls[c] \in InFlight
  /\ calls' = [calls EXCEPT ![c] = "IDLE"]
  /\ IF isEnabled THEN OnSuccess ELSE UNCHANGED <<circuit, streak, trial>>
  /\ UNCHANGED isEnabled

Fail(c) ==
  /\ calls[c] \in InFlight
  /\ calls' = [calls EXCEPT ![c] = "IDLE"]
  /\ IF isEnabled THEN OnFailure ELSE UNCHANGED <<circuit, streak, trial>>
  /\ UNCHANGED isEnabled

Settle(c) == Succeed(c) \/ Fail(c)

\* Date.now() advances.
Tick ==
  /\ circuit.sinceFailure < Cooled
  /\ circuit' = [circuit EXCEPT !.sinceFailure = @ + 1]
  /\ UNCHANGED <<isEnabled, calls, streak, trial>>

Next == Tick \/ \E c \in Calls : Execute(c) \/ Settle(c)

Spec == Init /\ [][Next]_vars

\* Time passes, traffic keeps coming, and an operation settles in the end
\* (HttpClient shows that its timer provides the last).
Fairness ==
  /\ WF_vars(Tick)
  /\ \A c \in Calls : WF_vars(Execute(c)) /\ WF_vars(Settle(c))

FairSpec == Spec /\ Fairness

-----------------------------------------------------------------------------
(* Properties.                                                             *)

\* Every variable keeps its type.
TypeOK ==
  /\ isEnabled \in BOOLEAN
  /\ circuit \in [state : States, failures : 0..CountCap,
                  sinceFailure : 0..Cooled]
  /\ calls \in [Calls -> InFlight \cup {"IDLE", "REJECTED"}]
  /\ streak \in 0..CountCap
  /\ trial \in 0..CountCap

\* A circuit never stays CLOSED through FailureThreshold failures in a row,
\* however the calls that failed were interleaved with others: the counter
\* of onSuccess/onFailure never loses one.
ClosedMeansFewFailures ==
  circuit.state = "CLOSED" => streak < FailureThreshold

\* A HALF_OPEN circuit, which admits every caller, still absorbs fewer than
\* FailureThreshold failures before onFailure reopens it, even when a late
\* success has reset the count while it was OPEN.
TrialIsBounded == circuit.state = "HALF_OPEN" => trial < FailureThreshold

\* onFailure only trips a CLOSED circuit on FailureThreshold failures with no
\* success between them.
TripsOnConsecutiveFailures ==
  [][circuit.state = "CLOSED" /\ circuit'.state = "OPEN"
       => streak' >= FailureThreshold]_vars

\* The circuit a caller can observe follows the state machine of
\* CircuitStates: in particular no late success closes an OPEN circuit, and
\* no trial starts within the cool-down of a late failure.
States3 == INSTANCE CircuitStates WITH
             state <- circuit.state, sinceFailure <- circuit.sinceFailure
ImplementsCircuitStates == States3!Spec

\* An OPEN circuit is tried again: failures that arrive late push the
\* cool-down out, but only calls admitted before it opened can do that.
OpenIsRetried == (circuit.state = "OPEN") ~> (circuit.state = "HALF_OPEN")

\* If operations stop failing, the circuit closes and stays closed.
Recovers ==
  <>[][~ \E c \in Calls : Fail(c)]_vars => <>[](circuit.state = "CLOSED")

-----------------------------------------------------------------------------
(* Statements about HALF_OPEN that hold for one call at a time.            *)

\* diagrams/circuit_breaker_state_machine.mmd: "HalfOpen --> Open: trial
\* failure".  A failure that settles in HALF_OPEN reopens the circuit.
TrialFailureReopens ==
  [][circuit.state = "HALF_OPEN" /\ (\E c \in Calls : Fail(c))
       => circuit'.state = "OPEN"]_vars

\* README: "one request is allowed in half-open state to probe recovery".
SingleProbe ==
  circuit.state = "HALF_OPEN" =>
    Cardinality({c \in Calls : calls[c] = "HALF_OPEN"}) <= 1
=============================================================================
