SPECIFICATION FairSpec
CONSTANTS
  t1 = t1  t2 = t2  u1 = u1  u2 = u2
  Tabs = {t1, t2}
  Users = {u1, u2}
  MaxLogins = 2
  MaxCalls = 2
  None = None
INVARIANTS OwnProfile ActsAsShown
PROPERTIES SessionKept DeadSessionLeaves
