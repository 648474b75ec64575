SPECIFICATION HttpSpec
CONSTANTS
  c1 = c1
  c2 = c2
  c3 = c3
  Calls <- ThreeCalls
  FailureThreshold = 2
  ResetTimeout = 2
  CountCap = 3
INVARIANTS
  TypeOK
  ClosedMeansFewFailures
  TrialIsBounded
  TimersCoverCalls
PROPERTIES
  TripsOnConsecutiveFailures
  ImplementsCircuitStates
  OpenIsRetried
  Recovers
  EveryRequestSettles
  ImplementsBreaker
