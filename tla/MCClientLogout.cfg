CONSTANTS
  u1 = u1
  t1 = t1
  t2 = t2
  c1 = c1
  c2 = c2
  None = None
  User = {u1}
  Tab = {t1}
  Call = {c1, c2}
  MaxPages = 1
  MaxForms = 1
  MaxFaults = 1
SPECIFICATION Spec
INVARIANTS
  LogoutClears
