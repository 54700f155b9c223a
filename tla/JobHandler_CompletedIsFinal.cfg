CONSTANTS
  MaxJobs = 1
  JobTimeout = 1
  MAX_JOB_RETRIES = 2
  Handlers = {h1, h2}
  MaxSendFailures = 1
SPECIFICATION JobSpec
PROPERTY CompletedIsFinal
