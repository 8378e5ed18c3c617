SPECIFICATION FairSpec
CONSTANTS
  Tasks = {t1, t2, t3}
  MaxConcurrent = 1
  QueueSize = 0
  NoTask = NoTask
PROPERTY QueuedTaskRuns
CHECK_DEADLOCK FALSE
