SPECIFICATION Spec
CONSTANTS
  u1 = u1
  u2 = u2
  admin = admin
  user = user
  analyst = analyst
  t1 = t1
  t2 = t2
  s1 = s1
  s2 = s2
  NoAccount = NoAccount
  Typed = {u1}
  Users = {u1, u2}
  SystemRoles = {admin, user}
  Admin = admin
  CustomRoles = {analyst}
  Grants <- SingleRoles
  Threads = {t1, t2}
  Ops <- DividedOps
  States = {s1}
  LoginMaxFailures = 1
  MaxPassword = 2
INVARIANTS
  HolderRemains
  SignsInOnce
  LoginLimit
CHECK_DEADLOCK FALSE
