SPECIFICATION Spec
CONSTANTS
  Changes = {x, y}
  Secrets = {}
  PullRequests = {p}
  MergeMethods = {"merge", "squash"}
  Window = 9
  Failing = FALSE
  MaxCommits = 7
  MaxTime = 0
INVARIANT AllChangesRegenerated
CHECK_DEADLOCK FALSE
