SPECIFICATION FairSpec
CONSTANTS
  c1 = c1
  c2 = c2
  c3 = c3
  Callers = {c1, c2, c3}
  Ops <- StartsOps
  MaxStarts = 3
  MaxCrashes = 1
INVARIANTS
  OneProvisioner
  StartingCanBoot
  TransientHasOwner
PROPERTIES
  StartingEnds
CHECK_DEADLOCK FALSE
