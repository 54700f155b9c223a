CONSTANTS
  TaskCapacity = 3
  QueueSize = 2
  TaskTimeout = 1
  Takers = {t1, t2}
  MaxTaskIds = 5
SPECIFICATION TaskFairSpec
INVARIANT PendingInTransit
PROPERTY EveryTaskEnds
