CONSTANTS
  r1 = r1
  r2 = r2
  Runs <- OneRun
  Isolations = {TRUE, FALSE}
  ReportInProject = TRUE
  Preexisting = {"checkout", "install"}
  Failures <- Leaking
  MaxCrashes = 1
SPECIFICATION FairSpec
INVARIANT StatusMatchesRun
 
CHECK_DEADLOCK FALSE
