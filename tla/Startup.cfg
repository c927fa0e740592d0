SPECIFICATION Spec
CONSTANTS
  a1 = a1  a2 = a2  w = w  s = s
  Api = {a1, a2}
  Workers = {w}
  Scripts = {s}
  Types = {"userrole", "analysistype"}
  Patterns = {"Web Servers"}
  Keys = {"analysis_cron", "app_title"}
  Cron = "analysis_cron"
SYMMETRY Symmetry
INVARIANTS CopiesBounded RacesBounded
PROPERTIES RefinesProvisioning
