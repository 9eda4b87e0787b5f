SPECIFICATION FairSpec
CONSTANTS
  Changes = {x, y}
  Secrets = {x}
  PullRequests = {p, q}
  MergeMethods = {"merge"}
  Window = 0
  Failing = TRUE
  MaxCommits = 7
  MaxTime = 1
INVARIANT OnlyStaleMissed
PROPERTY EventuallyGenerated
CHECK_DEADLOCK FALSE
