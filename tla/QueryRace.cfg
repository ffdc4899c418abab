SPECIFICATION Spec
CONSTANTS
  c1 = c1
  c2 = c2
  c3 = c3
  Clients = {c1, c2}
  Ops <- AllOps
  Pages = 2
  CreatePages = 1
  PollPages = 1
  MaxSent = 2
  MaxKept = 4
  MaxCrashes = 1
INVARIANTS
  ActiveRunCanMove
PROPERTIES
  DirectRunsSubmitOnce
CHECK_DEADLOCK FALSE
