SPECIFICATION Spec
CONSTANTS
  w1 = w1
  u1 = u1
  Workers = {w1}
  Users = {}
  Modes = {"tombstone"}
  AgeDue <- DueAges
  MinUp = 2
  MinDown = 2
  MinUseful = 1
  MaxSignals = 1
  MaxCrashes = 0
INVARIANT TombstoneIsFinal
