SPECIFICATION Spec
CONSTANTS
  c1 = c1
  c2 = c2
  c3 = c3
  Calls <- TwoCalls
  FailureThreshold = 2
  ResetTimeout = 2
  CountCap = 3
PROPERTIES
  TrialFailureReopens
