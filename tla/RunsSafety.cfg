SPECIFICATION Spec
CONSTANTS
  v1 = v1  v2 = v2  r1 = r1  r2 = r2
  api = api  worker = worker  t1 = t1  t2 = t2  None = None
  VCenters = {v1}
  Runs = {r1, r2}
  Procs = {api, worker}
  Threads = {t1, t2}
  Host <- OneHost
  Kinds = {"drs", "full"}
SYMMETRY Symmetry
INVARIANTS TypeOK Ownership AtomicPublication Attribution AnsweredReportIsWhole
PROPERTIES TerminalStable RefinesLifecycle
