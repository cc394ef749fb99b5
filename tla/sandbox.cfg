CONSTANTS
  Modes = {TRUE, FALSE}
  Container = TRUE
  Failures = {"delegate", "cgroup", "prep", "setup", "exec", "wait", "events"}
SPECIFICATION FairSpec
INVARIANTS TypeOK StageTornDown SuccessIsReal OomReported
PROPERTIES  ImplementsPipeline
CHECK_DEADLOCK FALSE
