SPECIFICATION FairSpec
CONSTANTS
  Staff = {r1, r2}
  Workers = {w1, w2}
  MaxRetries = 1
  MaxFaults = 2
INVARIANTS
  DeliveredWasTaken
  RowIsRight
  StaffInv
PROPERTIES
  EveryRequestForwarded
  ForwardingEnds
CHECK_DEADLOCK FALSE
