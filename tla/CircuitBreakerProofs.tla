------------------------ MODULE CircuitBreakerProofs ------------------------
(***************************************************************************)
(* CircuitBreaker for any set of callers, threshold and cool-down: its     *)
(* types, the invariants of its counters, and the refinement of            *)
(* CircuitStates.                                                          *)
(***************************************************************************)
EXTENDS CircuitBreaker, TLAPS

\* Counting stays within the cap, and reaches the threshold whatever the cap.
LEMMA CountType ==
  ASSUME NEW n \in 0..CountCap
  PROVE  /\ Count(n) \in 0..CountCap
         /\ n < FailureThreshold => Count(n) = n + 1
BY BreakerAssumption DEF Count, Min2

\* Counting keeps the order of two counters.
LEMMA CountMonotone ==
  ASSUME NEW m \in 0..CountCap, NEW n \in 0..CountCap, m <= n
  PROVE  Count(m) <= Count(n)
BY BreakerAssumption DEF Count, Min2

Circuits == [state : States, failures : 0..CountCap, sinceFailure : 0..Cooled]

\* The update of onFailure (and, with t the old value, of onSuccess).
LEMMA UpdateType ==
  ASSUME NEW k \in Circuits, NEW s \in States, NEW n \in 0..CountCap,
         NEW t \in 0..Cooled
  PROVE  /\ [k EXCEPT !.failures = n, !.sinceFailure = t, !.state = s]
              \in Circuits
         /\ [k EXCEPT !.failures = n, !.state = s] \in Circuits
<1>1. [k EXCEPT !.failures = n] \in Circuits
  BY DEF Circuits
<1>2. ASSUME NEW m \in Circuits PROVE [m EXCEPT !.sinceFailure = t] \in Circuits
  BY DEF Circuits
<1>3. ASSUME NEW m \in Circuits PROVE [m EXCEPT !.state = s] \in Circuits
  BY DEF Circuits
<1> QED
  BY <1>1, <1>2, <1>3

-----------------------------------------------------------------------------
\* The variables of CircuitBreaker keep their types, for any number of
\* overlapping calls.
THEOREM TypeCorrect == Spec => []TypeOK
<1>1. Init => TypeOK
  BY BreakerAssumption
  DEF Init, TypeOK, NewCircuit, States, Cooled, InFlight
<1>2. TypeOK /\ [Next]_vars => TypeOK'
  <2> SUFFICES ASSUME TypeOK, [Next]_vars PROVE TypeOK'
    OBVIOUS
  <2> USE BreakerAssumption
  <2>1. CASE Tick
    BY <2>1 DEF Tick, TypeOK, Cooled
  <2>2. ASSUME NEW c \in Calls, Execute(c) PROVE TypeOK'
    <3>1. CASE Bypass(c)
      BY <3>1 DEF Bypass, TypeOK, InFlight
    <3>2. CASE Admit(c)
      BY <3>2 DEF Admit, TypeOK, InFlight, States
    <3>3. CASE Probe(c)
      BY <3>3 DEF Probe, TypeOK, InFlight, States
    <3>4. CASE Reject(c)
      BY <3>4 DEF Reject, TypeOK, InFlight
    <3> QED
      BY <2>2, <3>1, <3>2, <3>3, <3>4 DEF Execute
  <2>3. ASSUME NEW c \in Calls, Succeed(c) PROVE TypeOK'
    <3>1. calls' \in [Calls -> InFlight \cup {"IDLE", "REJECTED"}]
      BY <2>3 DEF Succeed, TypeOK
    <3>2. CASE isEnabled
      <4>1. /\ OnSuccess
            /\ isEnabled' = isEnabled
        BY <2>3, <3>2 DEF Succeed
      <4>2. circuit' \in Circuits
        <5> DEFINE s == IF circuit.state = "HALF_OPEN" THEN "CLOSED"
                        ELSE circuit.state
        <5>1. circuit \in Circuits /\ s \in States /\ 0 \in 0..CountCap
              /\ 0 \in 0..Cooled
          BY DEF TypeOK, Circuits, States, Cooled
        <5>2. circuit' = [circuit EXCEPT !.failures = 0, !.state = s]
          BY <4>1 DEF OnSuccess
        <5> HIDE DEF s
        <5> QED
          BY <5>1, <5>2, UpdateType
      <4>3. streak' \in 0..CountCap /\ trial' \in 0..CountCap
        BY <4>1 DEF OnSuccess, TypeOK
      <4>4. isEnabled' \in BOOLEAN
        BY <4>1, Zenon DEF TypeOK
      <4> QED
        BY <3>1, <4>2, <4>3, <4>4, Zenon DEF TypeOK, Circuits
    <3>3. CASE ~isEnabled
      BY <2>3, <3>1, <3>3 DEF Succeed, TypeOK
    <3> QED
      BY <3>2, <3>3
  <2>4. ASSUME NEW c \in Calls, Fail(c) PROVE TypeOK'
    <3>1. calls' \in [Calls -> InFlight \cup {"IDLE", "REJECTED"}]
      BY <2>4 DEF Fail, TypeOK
    <3>2. CASE isEnabled
      <4>1. /\ Count(circuit.failures) \in 0..CountCap
            /\ Count(streak) \in 0..CountCap
            /\ Count(trial) \in 0..CountCap
        BY CountType DEF TypeOK
      <4>2. /\ OnFailure
            /\ isEnabled' = isEnabled
        BY <2>4, <3>2 DEF Fail
      <4>3. circuit' \in Circuits
        <5> DEFINE n == Count(circuit.failures)
                   s == IF n >= FailureThreshold THEN "OPEN"
                        ELSE circuit.state
        <5>1. circuit \in Circuits /\ s \in States /\ 0 \in 0..Cooled
          BY DEF TypeOK, Circuits, States, Cooled
        <5>2. circuit' = [circuit EXCEPT !.failures = n, !.sinceFailure = 0,
                                         !.state = s]
          BY <4>2 DEF OnFailure
        <5> HIDE DEF n, s
        <5>3. n \in 0..CountCap
          BY <4>1 DEF n
        <5> QED
          BY <5>1, <5>2, <5>3, UpdateType
      <4>4. streak' \in 0..CountCap /\ trial' \in 0..CountCap
        BY <4>1, <4>2 DEF OnFailure, TypeOK
      <4>5. isEnabled' \in BOOLEAN
        BY <4>2, Zenon DEF TypeOK
      <4> QED
        BY <3>1, <4>3, <4>4, <4>5, Zenon DEF TypeOK, Circuits
    <3>3. CASE ~isEnabled
      BY <2>4, <3>1, <3>3 DEF Fail, TypeOK
    <3> QED
      BY <3>2, <3>3
  <2>5. CASE UNCHANGED vars
    BY <2>5 DEF vars, TypeOK
  <2> QED
    BY <2>1, <2>2, <2>3, <2>4, <2>5 DEF Next, Settle
<1> QED
  BY <1>1, <1>2, PTL DEF Spec

-----------------------------------------------------------------------------
(* The inductive invariant.  The failure counter is the streak, although a *)
(* call may settle in another state than the one that admitted it: that is *)
(* what makes the threshold mean "in a row".  In HALF_OPEN the counter may *)
(* have been reset by a late success, so a trial is bounded only through   *)
(* trial <= failures.                                                      *)

CountsTheStreak == circuit.failures = streak

ClosedIsBelow ==
  circuit.state = "CLOSED" => circuit.failures < FailureThreshold

TrialIsCounted ==
  circuit.state = "HALF_OPEN" =>
    /\ trial <= circuit.failures
    /\ trial < FailureThreshold

IInv == TypeOK /\ CountsTheStreak /\ ClosedIsBelow /\ TrialIsCounted

LEMMA InvInit == Init => CountsTheStreak /\ ClosedIsBelow /\ TrialIsCounted
BY BreakerAssumption
DEF Init, NewCircuit, CountsTheStreak, ClosedIsBelow, TrialIsCounted

\* Each step keeps the three counters in step.
LEMMA InvNext ==
  IInv /\ [Next]_vars => (CountsTheStreak /\ ClosedIsBelow /\ TrialIsCounted)'
<1> SUFFICES ASSUME IInv, [Next]_vars
             PROVE  (CountsTheStreak /\ ClosedIsBelow /\ TrialIsCounted)'
  OBVIOUS
<1> USE BreakerAssumption
<1>1. CASE Tick
  BY <1>1
  DEF Tick, IInv, TypeOK, CountsTheStreak, ClosedIsBelow, TrialIsCounted
<1>2. ASSUME NEW c \in Calls, Execute(c)
      PROVE  (CountsTheStreak /\ ClosedIsBelow /\ TrialIsCounted)'
  <2>1. CASE Bypass(c) \/ Admit(c) \/ Reject(c)
    BY <2>1 DEF Bypass, Admit, Reject, IInv, TypeOK,
                CountsTheStreak, ClosedIsBelow, TrialIsCounted
  <2>2. CASE Probe(c)
    BY <2>2 DEF Probe, IInv, TypeOK,
                CountsTheStreak, ClosedIsBelow, TrialIsCounted
  <2> QED
    BY <1>2, <2>1, <2>2 DEF Execute
<1>3. ASSUME NEW c \in Calls, Succeed(c)
      PROVE  (CountsTheStreak /\ ClosedIsBelow /\ TrialIsCounted)'
  <2>1. CASE ~isEnabled
    BY <1>3, <2>1 DEF Succeed, IInv, TypeOK,
                      CountsTheStreak, ClosedIsBelow, TrialIsCounted
  <2>2. CASE isEnabled
    <3>1. /\ circuit'.failures = 0
          /\ circuit'.state # "HALF_OPEN"
          /\ streak' = 0
      BY <1>3, <2>2 DEF Succeed, OnSuccess, IInv, TypeOK
    <3> QED
      BY <3>1 DEF CountsTheStreak, ClosedIsBelow, TrialIsCounted
  <2> QED
    BY <2>1, <2>2
<1>4. ASSUME NEW c \in Calls, Fail(c)
      PROVE  (CountsTheStreak /\ ClosedIsBelow /\ TrialIsCounted)'
  <2>1. CASE ~isEnabled
    BY <1>4, <2>1 DEF Fail, IInv, TypeOK,
                      CountsTheStreak, ClosedIsBelow, TrialIsCounted
  <2>2. CASE isEnabled
    <3> DEFINE n == Count(circuit.failures)
    <3>1. /\ circuit'.failures = n
          /\ circuit'.state = IF n >= FailureThreshold THEN "OPEN"
                              ELSE circuit.state
          /\ streak' = Count(streak)
          /\ trial' = IF circuit.state = "HALF_OPEN"
                        THEN Count(trial) ELSE trial
      BY <1>4, <2>2 DEF Fail, OnFailure, IInv, TypeOK
    <3>2. n \in 0..CountCap
      BY CountType DEF IInv, TypeOK
    <3>3. CountsTheStreak'
      BY <3>1 DEF IInv, CountsTheStreak
    <3>4. ClosedIsBelow'
      BY <3>1, <3>2 DEF ClosedIsBelow
    <3>5. TrialIsCounted'
      <4>1. SUFFICES ASSUME circuit.state = "HALF_OPEN", n < FailureThreshold
                     PROVE  TrialIsCounted'
        BY <3>1, <3>2 DEF TrialIsCounted
      <4>2. Count(trial) <= n
        BY <4>1, CountMonotone DEF IInv, TypeOK, TrialIsCounted
      <4>3. Count(trial) \in 0..CountCap
        BY CountType DEF IInv, TypeOK
      <4> HIDE DEF n
      <4> QED
        BY <3>1, <3>2, <4>1, <4>2, <4>3 DEF TrialIsCounted
    <3> QED
      BY <3>3, <3>4, <3>5
  <2> QED
    BY <2>1, <2>2
<1>5. CASE UNCHANGED vars
  BY <1>5 DEF vars, IInv, CountsTheStreak, ClosedIsBelow, TrialIsCounted
<1> QED
  BY <1>1, <1>2, <1>3, <1>4, <1>5 DEF Next, Settle

THEOREM Invariance == Spec => []IInv
<1>1. IInv /\ [Next]_vars /\ TypeOK' => IInv'
  BY InvNext DEF IInv
<1>2. Init /\ TypeOK => IInv
  BY InvInit DEF IInv
<1> QED
  BY <1>1, <1>2, TypeCorrect, PTL DEF Spec

-----------------------------------------------------------------------------
\* No interleaving of calls lets a circuit stay CLOSED through
\* FailureThreshold failures in a row.
THEOREM ClosedMeansFewFailuresCorrect == Spec => []ClosedMeansFewFailures
<1>1. IInv => ClosedMeansFewFailures
  BY DEF IInv, CountsTheStreak, ClosedIsBelow, ClosedMeansFewFailures
<1> QED
  BY <1>1, Invariance, PTL

\* A trial absorbs fewer than FailureThreshold failures.
THEOREM TrialIsBoundedCorrect == Spec => []TrialIsBounded
<1>1. IInv => TrialIsBounded
  BY DEF IInv, TrialIsCounted, TrialIsBounded
<1> QED
  BY <1>1, Invariance, PTL

\* A CLOSED circuit is tripped only by FailureThreshold failures in a row.
THEOREM TripsOnConsecutiveFailuresCorrect == Spec => TripsOnConsecutiveFailures
<1> DEFINE Trips == circuit.state = "CLOSED" /\ circuit'.state = "OPEN"
                      => streak' >= FailureThreshold
<1>1. IInv /\ [Next]_vars => Trips \/ UNCHANGED vars
  <2> SUFFICES ASSUME IInv, Next,
                      circuit.state = "CLOSED", circuit'.state = "OPEN"
               PROVE  streak' >= FailureThreshold
    OBVIOUS
  <2> USE DEF IInv, TypeOK
  <2>1. ~Tick
    BY DEF Tick
  <2>2. ASSUME NEW c \in Calls PROVE ~Execute(c)
    BY DEF Execute, Bypass, Admit, Probe, Reject
  <2>3. ASSUME NEW c \in Calls PROVE ~Succeed(c)
    BY DEF Succeed, OnSuccess
  <2>4. ASSUME NEW c \in Calls, Fail(c) PROVE streak' >= FailureThreshold
    <3>1. /\ Count(circuit.failures) >= FailureThreshold
          /\ streak' = Count(streak)
      BY <2>4 DEF Fail, OnFailure
    <3> QED
      BY <3>1 DEF CountsTheStreak
  <2> QED
    BY <2>1, <2>2, <2>3, <2>4 DEF Next, Settle
<1> QED
  BY <1>1, Invariance, PTL DEF Spec, TripsOnConsecutiveFailures

\* Every step of the breaker is a step of the three-state machine or leaves
\* the observable circuit alone.
THEOREM CircuitStatesImplemented == Spec => ImplementsCircuitStates
<1>1. Init => States3!Init
  BY DEF Init, NewCircuit, Cooled, States3!Init, States3!Cooled
<1>2. IInv /\ [Next]_vars => [States3!Next]_(States3!vars)
  <2> SUFFICES ASSUME IInv, [Next]_vars
               PROVE  States3!Next \/ UNCHANGED States3!vars
    OBVIOUS
  <2> USE BreakerAssumption DEF IInv, TypeOK, States3!vars
  <2>1. CASE Tick
    BY <2>1 DEF Tick, Cooled, States3!Next, States3!Tick, States3!Cooled
  <2>2. ASSUME NEW c \in Calls, Execute(c)
        PROVE  States3!Next \/ UNCHANGED States3!vars
    <3>1. CASE Bypass(c) \/ Admit(c) \/ Reject(c)
      BY <3>1 DEF Bypass, Admit, Reject
    <3>2. CASE Probe(c)
      BY <3>2
      DEF Probe, Cooled, States3!Next, States3!Retry, States3!Cooled
    <3> QED
      BY <2>2, <3>1, <3>2 DEF Execute
  <2>3. ASSUME NEW c \in Calls, Succeed(c)
        PROVE  States3!Next \/ UNCHANGED States3!vars
    BY <2>3 DEF Succeed, OnSuccess, States3!Next, States3!Recover
  <2>4. ASSUME NEW c \in Calls, Fail(c)
        PROVE  States3!Next \/ UNCHANGED States3!vars
    BY <2>4 DEF Fail, OnFailure, States, States3!Next, States3!Trip,
                States3!Failure, States3!Reopen
  <2>5. CASE UNCHANGED vars
    BY <2>5 DEF vars
  <2> QED
    BY <2>1, <2>2, <2>3, <2>4, <2>5 DEF Next, Settle
<1> QED
  BY <1>1, <1>2, Invariance, PTL
  DEF Spec, ImplementsCircuitStates, States3!Spec

-----------------------------------------------------------------------------
(* What OpenIsRetried rests on: an OPEN circuit lets nobody in, so that    *)
(* the failures which put its trial off run out.                           *)

Admitted == {c \in Calls : calls[c] \in InFlight}

\* A breaker that is switched off opens no circuit.
DisabledIsClosed == ~isEnabled => circuit.state = "CLOSED"

\* While execute() finds the circuit OPEN and not cooled down, nobody is admitted, and
\* lastFailureTime only moves when an admitted call settles.
OpenLetsNobodyIn ==
  circuit.state = "OPEN" /\ circuit'.state = "OPEN" =>
    /\ Admitted' \subseteq Admitted
    /\ circuit'.sinceFailure < circuit.sinceFailure => Admitted' # Admitted

LEMMA DisabledStaysClosed ==
  IInv /\ DisabledIsClosed /\ [Next]_vars => DisabledIsClosed'
<1> SUFFICES ASSUME IInv, DisabledIsClosed, [Next]_vars, ~isEnabled'
             PROVE  circuit'.state = "CLOSED"
  BY DEF DisabledIsClosed
<1>1. isEnabled' = isEnabled
  BY DEF Next, Tick, Execute, Bypass, Admit, Probe, Reject, Settle, Succeed, Fail, vars
<1>2. ~isEnabled /\ circuit.state = "CLOSED"
  BY <1>1 DEF DisabledIsClosed
<1>3. CASE Tick
  BY <1>2, <1>3 DEF Tick, IInv, TypeOK
<1>4. CASE UNCHANGED circuit
  BY <1>2, <1>4
<1>5. ASSUME NEW c \in Calls, Execute(c) \/ Settle(c) PROVE UNCHANGED circuit
  BY <1>2, <1>5 DEF Execute, Bypass, Admit, Probe, Reject, Settle, Succeed, Fail
<1> QED
  BY <1>3, <1>4, <1>5 DEF Next, vars

\* While a circuit is OPEN only calls that were admitted before can fail and put
\* the trial off, each once: whoever comes, the cool-down starts again as often
\* as there are calls in flight, and then a caller is let through.
THEOREM OpenLetsNobodyInCorrect ==
  Spec => []DisabledIsClosed /\ [][OpenLetsNobodyIn]_vars
<1>1. Init => DisabledIsClosed
  BY DEF Init, NewCircuit, DisabledIsClosed
<1>2. IInv /\ DisabledIsClosed /\ [Next]_vars => [OpenLetsNobodyIn]_vars
  <2> SUFFICES ASSUME IInv, DisabledIsClosed, Next,
                      circuit.state = "OPEN", circuit'.state = "OPEN"
               PROVE  /\ Admitted' \subseteq Admitted
                      /\ circuit'.sinceFailure < circuit.sinceFailure => Admitted' # Admitted
    BY DEF OpenLetsNobodyIn
  <2>1. isEnabled
    BY DEF DisabledIsClosed
  <2>2. PICK since \in Nat : since = circuit.sinceFailure
    BY BreakerAssumption DEF IInv, TypeOK, Cooled
  <2>3. CASE Tick
    <3>1. circuit'.sinceFailure = since + 1 /\ Admitted' = Admitted
      BY <2>2, <2>3 DEF Tick, IInv, TypeOK, Admitted
    <3> QED
      BY <2>2, <3>1
  <2>4. ASSUME NEW c \in Calls, Execute(c)
        PROVE  UNCHANGED circuit /\ Admitted' \subseteq Admitted
    <3>1. ~Probe(c)
      BY DEF Probe, IInv, TypeOK
    <3>2. Reject(c)
      BY <2>1, <2>4, <3>1 DEF Execute, Bypass, Admit
    <3> QED
      BY <3>2 DEF Reject, Admitted, InFlight, IInv, TypeOK
  <2>5. ASSUME NEW c \in Calls, Settle(c)
        PROVE  Admitted' \subseteq Admitted /\ Admitted' # Admitted
    <3>1. calls[c] \in InFlight /\ calls' = [calls EXCEPT ![c] = "IDLE"]
      BY <2>5 DEF Settle, Succeed, Fail
    <3>2. c \in Admitted /\ c \notin Admitted'
      BY <3>1 DEF Admitted, InFlight, IInv, TypeOK
    <3>3. Admitted' \subseteq Admitted
      BY <3>1 DEF Admitted, InFlight, IInv, TypeOK
    <3> QED
      BY <3>2, <3>3
  <2>6. CASE \E c \in Calls : Execute(c)
    <3>1. circuit'.sinceFailure = since
      BY <2>2, <2>4, <2>6
    <3> QED
      BY <2>2, <2>4, <2>6, <3>1
  <2> QED
    BY <2>3, <2>5, <2>6 DEF Next
<1> QED
  BY <1>1, <1>2, DisabledStaysClosed, Invariance, PTL DEF Spec
=============================================================================
