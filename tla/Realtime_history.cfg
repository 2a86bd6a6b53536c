SPECIFICATION Spec
CONSTANTS
  Sessions = {s1}
  Handlers = {h1}
  RequestIds = {q1}
  CallIds = {c1}
  Events = {e1}
  ToolLimit = 1
  MaxStays = 2
  MaxFailures = 0
INVARIANT
  HistoryIsOwnStay
CHECK_DEADLOCK FALSE
