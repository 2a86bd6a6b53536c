SPECIFICATION FairSpec
CONSTANTS
  Requests = {r1, r2}
  Workers = {w1}
  NoRequest = NoRequest
  MaxStays = 2
  MaxIterations = 2
  MaxCalls = 2
  MaxRetries = 1
  MaxFaults = 1
PROPERTIES
  NeverBusyForever
  EveryRequestSettles
CHECK_DEADLOCK FALSE
