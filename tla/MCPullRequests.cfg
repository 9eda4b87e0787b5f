SPECIFICATION MCSpec
CONSTANTS
  PullRequests = {p, q}
  Base = base
  Filtered = {2}
  MaxCommits = 3
  MaxReruns = 2
  None = None
  Bot = "bot"
  PageSize = 2
  People <- MCPeople
  Sanitized <- MCSanitized
  MatchesLabel <- MCMatchesLabel
  Pipelines <- MCPipelines
  MaxEvents = 2
  MaxFailures = 2
  Lower <- MCLower
  ValidName <- MCValidName
  Dashed <- MCDashed
  PrBranches = {"PR-1"}
  Worlds <- MCWorlds
  Local <- MCLocal
  Extra = {"EXTRA"}
  MaxSteps = 3
INVARIANTS ExactlyTriggered AcceptedMerged Commented Coherent
PROPERTIES PushKeepsUnseen CommentsRead ValuesStay
CHECK_DEADLOCK FALSE
