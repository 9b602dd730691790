CONSTANTS
  Messages = {m1, m2}
  Content <- DistinctContent
  Facts = {f1}
  Workers = {w1, w2}
  NoJob = NoJob
  BatchSize = 2
  ExtractLimit = 1
  IndexLimit = 1
  ListLimit = 2
  MaxAttempts = 2
  MaxCrashes = 1
  MaxRaises = 1
SPECIFICATION Spec
SYMMETRY Symmetry
INVARIANTS
  NothingSkipped
  CompletedIsCovered
  AtomsHaveEvidence
CHECK_DEADLOCK FALSE
