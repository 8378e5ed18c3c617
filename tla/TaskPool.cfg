SPECIFICATION FairSpec
CONSTANTS
  Tasks = {t1, t2, t3, t4}
  MaxConcurrent = 2
  QueueSize = 1
  NoTask = NoTask
INVARIANTS SlotAccounting WorkersBounded
PROPERTIES NoForkAfterStop StopUnblocks ExecutorSpec
CHECK_DEADLOCK FALSE
