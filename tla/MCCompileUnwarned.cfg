CONSTANTS
  None = None
  Jobs <- MCJobs
  Listeners <- MCListeners
  job_id <- MCjob_id
  Slots = 1
  RateRetries = 2
  Retries = 1
  MaxKills = 1
SPECIFICATION MCSpec
INVARIANT EmptyExtractionSurfaced
CHECK_DEADLOCK FALSE
