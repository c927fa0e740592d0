SPECIFICATION Spec
CONSTANTS
  t1 = t1  t2 = t2  u1 = u1  u2 = u2
  Tabs = {t1}
  Users = {u1, u2}
  MaxLogins = 2
  MaxCalls = 1
  None = None
INVARIANTS ProfileIsOwner
