SPECIFICATION Spec
CONSTANTS
  cron = cron  secret_key = secret_key  host = host  version = version
  v1 = v1  v2 = v2  s1 = s1  s2 = s2  c1 = c1
  Keys = {cron, secret_key}
  SENSITIVE_KEYS = {secret_key}
  Ids = {c1}
  Cols = {host}
  Version = version
  Values = {v1, v2}
  Sessions = {s1, s2}
  None = None  NoRow = NoRow  Gone = Gone
SYMMETRY Symmetry
INVARIANTS Sealed Whole
PROPERTIES OnlySentChanges
