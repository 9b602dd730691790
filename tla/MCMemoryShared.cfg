SPECIFICATION Spec
CONSTANTS
  w1 = w1
  u1 = u1
  Workers = {w1}
  Users = {u1}
  Modes = {}
  AgeDue <- NoAge
  MinUp = 1
  MinDown = 1
  MinUseful = 1
  MaxSignals = 1
  MaxCrashes = 0
CONSTRAINT TwoTiers
VIEW SharedView
INVARIANT FeedbackIsKept
INVARIANT CompressionIsReversible
