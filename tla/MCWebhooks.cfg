SPECIFICATION MCSpec
CONSTANTS
  github = github
  broken = broken
  bitbucket = bitbucket
  previous = previous
  foreign = foreign
  other = other
  u1 = u1
  u2 = u2
  Repos = {github, broken, bitbucket}
  RepoOrder <- MCRepoOrder
  Selected = {github, broken, bitbucket}
  Broken = {broken}
  BitbucketCloud = {bitbucket}
  Targets = {endpoint, previous, foreign}
  Endpoint = endpoint
  Matching = {endpoint, previous}
  HookIds = {1, 2, 3, 4}
  PageSize = 4
  Updaters = {u1}
  WarnOnFail = TRUE
  FaultKinds = {"list", "git", "kill"}
  MaxFaults = 2
  OSelected = {github}
  OTargets = {endpoint, previous, foreign, other}
  OPageSize = 2
  OUpdaters = {u1, u2}
  OWarnOnFail = FALSE
  OFaultKinds = {"git", "api", "kill"}
INVARIANTS MarkedTrueHasHook NoSurplus
PROPERTIES ComeBack MatchingGo
CHECK_DEADLOCK FALSE
