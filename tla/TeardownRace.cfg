SPECIFICATION Spec
CONSTANTS
  c1 = c1
  c2 = c2
  c3 = c3
  Callers = {c1, c2}
  Ops <- TeardownOps
  MaxStarts = 1
  MaxCrashes = 1
SYMMETRY Symmetry
INVARIANTS
  OffMeansNoNodes
  DeletedLeavesNothing
CHECK_DEADLOCK FALSE
