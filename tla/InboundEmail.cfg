SPECIFICATION FairSpec
CONSTANTS
  s1 = s1
  Senders = {s1}
  Limit = 1
  Hour = 1
  BatchSize = 2
  MaxTurns = 2
  MaxCalls = 2
  MaxMails = 2
  MaxMishaps = 1
INVARIANTS
  AskedOnce
  HourlyLimit
  RowsTellTheTruth
PROPERTY
  QueueDrains
