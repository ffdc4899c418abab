SPECIFICATION FairSpec
CONSTANTS
  c1 = c1
  c2 = c2
  c3 = c3
  Clients = {c1}
  Ops <- SoloOps
  Pages = 3
  CreatePages = 1
  PollPages = 2
  MaxSent = 2
  MaxKept = 4
  MaxCrashes = 0
INVARIANTS
  SubmittedOnce
  ResultsInOrder
PROPERTIES
  PendingEnds
CHECK_DEADLOCK FALSE
