SPECIFICATION Spec
CONSTANTS
  Requests = {r1}
  Workers = {w1}
  NoRequest = NoRequest
  MaxStays = 2
  MaxIterations = 1
  MaxCalls = 1
  MaxRetries = 0
  MaxFaults = 0
INVARIANT
  ResetErasesStay
CHECK_DEADLOCK FALSE
