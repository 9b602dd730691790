CONSTANTS
  Texts = {t1}
  Reply = a1
  NoText = NoText
  NoReason = NoReason
  Attempts = 2
  MaxSteps = 2
  MaxReloads = 1
SPECIFICATION FairSpec
INVARIANTS EndMatchesTurn NothingLeftPrepared
PROPERTIES DisposalEnds
CHECK_DEADLOCK FALSE
