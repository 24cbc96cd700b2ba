SPECIFICATION DocumentsSpec
CONSTANTS
  Uploads = {d1}
  MaxBatches = 1
CHECK_DEADLOCK FALSE
INVARIANT FailedJobsAreReturned
