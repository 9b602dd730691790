CONSTANTS
  Jobs = {j1, j2}
  Workers = {w1, w2}
  NoJob = NoJob
  NoWorker = NoWorker
  MaxAttempts = 2
  LeaseSeconds = 2
  RetryDelay = 1
  BusyTimeout = 1
  MaxCrashes = 1
SPECIFICATION FairSpec
INVARIANTS
  SoleHandler
  FailWriteIsOwned
  PendingIsClaimable
PROPERTIES
  NoEarlySteal
  JobsSettle
