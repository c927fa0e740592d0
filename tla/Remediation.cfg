SPECIFICATION Spec
CONSTANTS
  d1 = d1  d2 = d2  c1 = c1  a = a  b = b  t1 = t1  t2 = t2  r1 = r1  r2 = r2  s1 = s1  None = None
  Runs = {r1}
  DrsProps = {d1, d2}
  StorageProps = {s1}
  Clusters = {c1}
  ClusterOf <- OneCluster
  VMs = {a, b}
  MembersOf <- SameVMs
  Threads = {t1, t2}
  MaxLosses = 1
  MaxUnanswered = 1
  MaxApprovals = 1
SYMMETRY Symmetry
INVARIANTS TakenRecorded RecordedSubmitted DuplicatesBounded
