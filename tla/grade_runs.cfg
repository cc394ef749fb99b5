CONSTANTS
  r1 = r1
  r2 = r2
  Runs <- TwoRuns
  Isolations = {TRUE}
  ReportInProject = FALSE
  Preexisting = {"checkout", "install"}
  Failures <- Unreported
  MaxCrashes = 1
SPECIFICATION Spec
INVARIANTS TypeOK TornDown SandboxSees 
            LeftoversCleared
CHECK_DEADLOCK FALSE
