SPECIFICATION Spec
CONSTANTS
  Keys <- WebKeys
  NoKey <- MCNoKey
  MaxVMs <- VMBounds
  MaxHosts = 5
INVARIANTS RuleSizes Accounted Covered NamesDistinct
\* The analysis of a cluster ends.
CHECK_DEADLOCK FALSE
