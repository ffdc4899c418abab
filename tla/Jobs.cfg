SPECIFICATION FairSpec
CONSTANTS
  j1 = j1
  j2 = j2
  r1 = r1
  r2 = r2
  o1 = o1
  NoJob = NoJob
  Jobs = {j1}
  Recipients = {r1}
  Schedules = {"every", "leap"}
  NextRun <- Timetable
  Operators = {o1}
  MaxTime = 1
  MaxCalls = 1
  MaxMishaps = 2
INVARIANTS
  RetriedOnce
  OneDigest
PROPERTIES
  FiresOnce
  DueJobsFire
