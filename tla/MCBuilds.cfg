SPECIFICATION MCSpec
CONSTANTS
  b1 = b1
  b2 = b2
  b3 = b3
  b4 = b4
  slash = slash
  dash = dash
  main = main
  c1 = c1
  c2 = c2
  Nil = Nil
  Builds = {b1, b2, b3, b4}
  Branches = {slash, dash}
  BranchOf <- MCBranchOf
  ValidName <- MCValidName
  MaxBuild = 3
  MaxParallel = 2
  LogsBucket = TRUE
  MaxReruns = 2
  ABuilds = {b1, b2, b3}
  ABranches = {main}
  AMaxBuild = 3
  AMaxReruns = 1
  PullRequestOrBatch = {}
  ReleaseAgeLimit = 1
  PullRequestAgeLimit = 1
  ReleaseHistoryLimit = 1
  PullRequestHistoryLimit = 1
  Collectors = {c1, c2}
  MaxTime = 3
  MaxFaults = 0
INVARIANTS LaterBuildGreaterNumber RunningBuildFound
PROPERTY KeepsBuildSequence
SYMMETRY Symmetric
CHECK_DEADLOCK FALSE
