SPECIFICATION Spec
CONSTANTS
  MAX_RECONNECT_ATTEMPTS = 2
  MaxBeats = 2
  MaxExtra = 2
INVARIANTS
  OnlyThirdResponseLost
  WorkerServerInv
  StreamInStep
  OnlyServerAwaited
PROPERTIES
  ShutdownReachesClose
CHECK_DEADLOCK FALSE
