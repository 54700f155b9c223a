CONSTANTS
  MaxJobs = 1
  JobTimeout = 0
  MAX_JOB_RETRIES = 1
  Handlers = {h1, h2}
  Sockets = {h1, h2}
  NoSocket = NoSocket
  MaxSendFailures = 1
  MaxWorkers = 2
  InactiveTimeout = 0
  MaxWorkerIds = 2
SPECIFICATION Spec
SYMMETRY Symmetry
INVARIANT LiveGaugeNeverHigh
PROPERTY UsesJobHandler
PROPERTY OrphansComeFromErrors
