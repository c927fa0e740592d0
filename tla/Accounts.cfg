SPECIFICATION Spec
CONSTANTS
  n1 = n1  n2 = n2  s1 = s1  s2 = s2
  Names = {n1, n2}
  Roles = {"admin", "viewer"}
  Sessions = {s1, s2}
  Root = n1
  LdapEnabled = TRUE
  None = None
SYMMETRY Symmetry
INVARIANTS LateBounded AdminLeft LocalHavePassword
