SPECIFICATION FairSpec
CONSTANTS
  c1 = c1
  c2 = c2
  poller = poller
  Clients = {c1}
  Tries = 1
  Hooks = {poller}
  MaxCrashes = 1
INVARIANTS
  RunsOnce
PROPERTIES
  HoldEnds
  RouteCatchesUp
CHECK_DEADLOCK FALSE
