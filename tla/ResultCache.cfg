SPECIFICATION Spec
CONSTANTS
  u1 = u1
  t1 = t1
  t2 = t2
  q1 = q1
  Users = {u1}
  Threads = {t1, t2}
  Texts = {q1}
  Ttls = {0, 1}
  Long = 2
  MaxRuns = 3
  MaxRules = 1
SYMMETRY Symmetry
INVARIANTS
  OwnWritesSeen
  ServedWithinTtl
  RulesNotOutlived
