SPECIFICATION Spec
CONSTANTS
  Requests = {r1, r2}
  Workers = {w1, w2}
  NoRequest = NoRequest
  MaxStays = 2
  MaxIterations = 2
  MaxCalls = 1
  MaxRetries = 1
  MaxFaults = 1
SYMMETRY Symmetry
INVARIANTS
  AtMostOneActive
  RunOnce
  CompleteMeansAnswered
  AnnouncedIsStored
  ConciergeInv
PROPERTIES
  AnsweredNeverTimedOut
  DeskRefinement
CHECK_DEADLOCK FALSE
