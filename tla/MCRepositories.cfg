SPECIFICATION Spec
CONSTANT Nil = Nil
INVARIANTS Consolidated OwnScheduler OwnSettings NearestWins Created
PROPERTIES NoDuplicates SchedulerKept
CHECK_DEADLOCK FALSE
