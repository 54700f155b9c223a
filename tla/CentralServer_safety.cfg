CONSTANTS
  TaskCapacity = 1
  QueueSize = 1
  TaskTimeout = 0
  MaxTaskIds = 1
  Takers = {t1, t2}
  RegistryCapacity = 2
  Fds = {f1, f2}
  NoFd = NoFd
  WorkerTimeout = 0
SPECIFICATION Spec
SYMMETRY Symmetry
INVARIANT EntriesMatchHandlers
INVARIANT StalePointerReadable
INVARIANT TaskSentOnce
INVARIANT ConnectionsAccountedFor
INVARIANT OwnWorkerUntilRemoval
