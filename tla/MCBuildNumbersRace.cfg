SPECIFICATION Spec
CONSTANTS
  b1 = b1
  b2 = b2
  b3 = b3
  b4 = b4
  slash = slash
  dash = dash
  Nil = Nil
  Builds = {b1, b2, b3, b4}
  Branches = {slash, dash}
  BranchOf <- MCBranchOf
  ValidName <- MCValidName
  MaxBuild = 3
  MaxParallel = 2
  LogsBucket = TRUE
  MaxReruns = 0
INVARIANT NumberIsNew
CHECK_DEADLOCK FALSE
