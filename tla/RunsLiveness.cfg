SPECIFICATION LiveSpec
CONSTANTS
  v1 = v1  v2 = v2  r1 = r1  r2 = r2
  api = api  worker = worker  t1 = t1  t2 = t2  None = None
  VCenters = {v1, v2}
  Runs = {r1, r2}
  Procs = {api}
  Threads = {t1}
  Host <- SingleHost
  Kinds = {"full"}
INVARIANTS SweepExclusive
PROPERTIES FailureIsolated RunsSettleOrLost SweepsEnd
