SPECIFICATION Spec
CONSTANTS
  ActiveUsers = {u1, u2}
  PolicyRoles = {r1, r2}
  Catalogs = {cat}
  Names = {t1, t2}
  CatalogNames = {t1, t2}
  Passwords = {r1, r2}
  Operators = {u1, u2}
  MaxBegun = 5
  MaxFailed = 1
  Columns = {"c1", "c2"}
  Policy <- Tried
  Piis = {"c2"}
  MaxPolicies = 2
  MaxStored = 3
  Minutes = 2
  Hours = 2
  WeekDays = 3
  MonthLengths <- Months
  YearMonths = 2
  SearchDays = 5
  CronFields <- Expressions
  Sizes = {1, 2, 4}
  Pages = {0, 1, 2}
  MaxGiven = 5
  ShownRows = 3
  ShownBytes = 9
  DownloadRows = 4
  DownloadBytes = 14
  Alphabet <- Characters
  MaxText = 6
SYMMETRY Symmetry
INVARIANTS
  LimitedToPolicies
  OneRuleIsKept
  PasswordsAreTheirOwn
  NextRunIsFirst
  KeptForGood
  TokensAreKept
CHECK_DEADLOCK FALSE
