SPECIFICATION Spec
CONSTANTS
  Environments = {staging, production}
  Production = {production}
  Unpinned = {}
  Repos = {a}
  Versions = {1, 2}
  Oci = {}
  Local = {}
  Grouped = TRUE
  FailOnError = FALSE
  AutoInactive = TRUE
  Offset = 1
  Rollbacks = TRUE
  Slow = FALSE
  FaultKinds = {}
  PageSize = 2
  MaxDeployments = 4
  Any = Any
  MaxFaults = 0
  MaxTime = 1
  MaxChanges = 3
  Nil = Nil
INVARIANT ReportedShown
CHECK_DEADLOCK FALSE
