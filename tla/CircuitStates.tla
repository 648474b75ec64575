--------------------------- MODULE CircuitStates ---------------------------
(***************************************************************************)
(* What a circuit promises its observers (GET /health/circuit/:name): the  *)
(* three states, the edges between them, and the cool-down that separates  *)
(* the last recorded failure from the first trial.  It says nothing of     *)
(* calls, counters or thresholds; CircuitBreaker implements it.            *)
(***************************************************************************)
EXTENDS Naturals

CONSTANT ResetTimeout    \* cool-down, in clock ticks

VARIABLES state,         \* CLOSED, OPEN or HALF_OPEN
          sinceFailure   \* ticks since the last failure, stuck at Cooled

vars == <<state, sinceFailure>>

Cooled == ResetTimeout + 1

Init == state = "CLOSED" /\ sinceFailure = Cooled

\* Enough failures were recorded.
Trip ==
  /\ state = "CLOSED"
  /\ state' = "OPEN"
  /\ sinceFailure' = 0

\* A failure that leaves the state alone: below the threshold, or late.
Failure ==
  /\ sinceFailure' = 0
  /\ UNCHANGED state

\* The cool-down is over and a call comes in.
Retry ==
  /\ state = "OPEN"
  /\ sinceFailure = Cooled
  /\ state' = "HALF_OPEN"
  /\ UNCHANGED sinceFailure

\* A call succeeds during the trial.
Recover ==
  /\ state = "HALF_OPEN"
  /\ state' = "CLOSED"
  /\ UNCHANGED sinceFailure

\* A call fails during the trial.
Reopen ==
  /\ state = "HALF_OPEN"
  /\ state' = "OPEN"
  /\ sinceFailure' = 0

Tick ==
  /\ sinceFailure < Cooled
  /\ sinceFailure' = sinceFailure + 1
  /\ UNCHANGED state

Next == Trip \/ Failure \/ Retry \/ Recover \/ Reopen \/ Tick

Spec == Init /\ [][Next]_vars
=============================================================================
