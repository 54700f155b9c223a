CONSTANTS
  Strangers = {c2}
  Workers = 1
  Clients = {c1, c2}
  MaxFDs = 2
  MaxJobs = 1
  MaxCalls = 2
  MaxRevivals = 1
  Buffer = 1
  NoClient = NoClient
SPECIFICATION Spec
CHECK_DEADLOCK FALSE
INVARIANT AnswersInStep
INVARIANT AnnouncedToSubmitter
INVARIANT InternalErrorExplained
INVARIANT NobodyStuck
