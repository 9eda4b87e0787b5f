SPECIFICATION MCSpec
CONSTANTS
  Environments = {staging, production}
  Production = {production}
  Unpinned = {staging}
  Repos = {a}
  Versions = {1, 2}
  Oci = {}
  Local = {}
  Grouped = TRUE
  FailOnError = FALSE
  AutoInactive = TRUE
  Offset = 1
  Rollbacks = TRUE
  Slow = FALSE
  FaultKinds = {"list", "missing", "create", "status", "kill"}
  PageSize = 1
  MaxDeployments = 3
  Any = Any
  MaxFaults = 1
  MaxTime = 1
  MaxChanges = 3
  Nil = Nil
  Releasers = {1, 2}
  Charts <- MCCharts
  Setups <- Configured
  Overwrites = TRUE
  MaxFailures = 2
INVARIANTS DeployedOnce LatestShown ReleasedIsPublished
PROPERTIES EventuallyShown EventuallyReleased
CHECK_DEADLOCK FALSE
