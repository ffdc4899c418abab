SPECIFICATION Spec
CONSTANTS
  c1 = c1
  c2 = c2
  c3 = c3
  Callers = {c1}
  Ops <- AllOps
  MaxStarts = 2
  MaxCrashes = 0
INVARIANTS
  LiveIsTracked
PROPERTIES
  ImplementsService
CHECK_DEADLOCK FALSE
