SPECIFICATION FairSpec
CONSTANTS
  Rows <- SomeRows
  QueuedIntervals = 2
  CpuIntervals = 2
  UpCooldown = 2
  DownCooldown = 2
  IdleLow = 1
  Long = 2
  MaxCalls = 2
  MaxMishaps = 1
PROPERTIES
  CooldownKept
  SuspendsOnlyIdle
  IdleIsSuspended
  QueuedScalesUp
CHECK_DEADLOCK FALSE
