CONSTANTS
  MaxJobs = 2
  JobTimeout = 1
  MAX_JOB_RETRIES = 2
  Handlers = {h1, h2}
  MaxSendFailures = 2
SPECIFICATION JobFairSpec
INVARIANT SlotOrder
INVARIANT GaugeDrift
INVARIANT AttemptsBounded
INVARIANT VerdictMatchesStatus
PROPERTY EveryJobEnds
