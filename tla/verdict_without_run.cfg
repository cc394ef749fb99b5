CONSTANTS
  r1 = r1
  r2 = r2
  Runs <- OneRun
  Isolations = {TRUE}
  ReportInProject = TRUE
  Preexisting = {"checkout"}
  Failures = {"setup"}
  MaxCrashes = 0
SPECIFICATION Spec
INVARIANT StatusMatchesRun
CHECK_DEADLOCK FALSE
