SPECIFICATION ScanSpec
CONSTANTS
  a = a  b = b  c = c  h1 = h1  h2 = h2  h3 = h3  d1 = d1  d2 = d2  p1 = p1  p2 = p2  p3 = p3  None = None
  Datastores = {d1, d2}
  Pods = {p1, p2, p3}
  Names = {a, b}
  GroupOf <- OneGroup
  VMs = {a, b, c}
  NameOf <- NamesOf
  Layout <- ThreeClusters
  RuleGroupOf <- OneGroup
  MountedIso <- SharedIso
  Starts <- TwoOrThree
  MaxLoad = 4
SYMMETRY Symmetry
INVARIANTS ListedOnce SharedWasShared SteadyReported PairsOnce ScatteredTrue AdviceSeparates
\* The collection ends.
CHECK_DEADLOCK FALSE
