SPECIFICATION MCSpec
CONSTANTS
  n1 = n1
  n2 = n2
  n3 = n3
  pr = pr
  main = main
  Jobs = {x, y, z}
  Suspended = {}
  JobAge = 0
  Keep = 1
  JobTime = 2
  JobFaults = 0
  FewJobs = {y, z}
  MaySuspend = {z}
  Pods = {a}
  Containers = {1, 2}
  Recreated = {a}
  PodAge = 0
  PodTime = 1
  MaxPods = 2
  MaxFailed = 1
  Nil = Nil
  Names = {n1, n2, n3}
  Pipelines = {pr, main}
  PipelineOf <- MCPipelineOf
  PullRequestOrBatch = {pr}
  ReleaseAgeLimit = 1
  PullRequestAgeLimit = 1
  ReleaseHistoryLimit = 1
  PullRequestHistoryLimit = 1
  DryRun = FALSE
  JobsOf <- MCJobsOf
  MaxRuns <- MCMaxRuns
  Unstamped = {n2}
  Uncompleted = {n2}
  Collectors = {c1, c2}
  MaxTime = 2
  MaxFaults = 1
INVARIANTS TypeOK LatestJobsKept
PROPERTIES NoOrphans RecentHistoryKept OnlyTerminatedDeleted OldActivitiesCollected OldJobsCollected OldPodsDeleted
CHECK_DEADLOCK FALSE
