CONSTANTS
  Messages = {m1, m2}
  Content <- DistinctContent
  Facts = {f1, f2}
  Workers = {w1}
  NoJob = NoJob
  BatchSize = 1
  ExtractLimit = 1
  IndexLimit = 3
  ListLimit = 5
  MaxAttempts = 2
  MaxCrashes = 1
  MaxRaises = 0
SPECIFICATION FairSpec
PROPERTIES
  AtomsFollow
  MessagesAreFolded
  CapsulesFollow
CHECK_DEADLOCK FALSE
