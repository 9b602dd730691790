SPECIFICATION FairSpec
CONSTANTS
  w1 = w1
  u1 = u1
  Workers = {w1}
  Users = {}
  Modes = {"tombstone","physical"}
  AgeDue <- DueAges
  MinUp = 2
  MinDown = 2
  MinUseful = 1
  MaxSignals = 2
  MaxCrashes = 1
PROPERTY TransitionsAreEarned
PROPERTY UsefulIsNotDropped
PROPERTY ForgottenFades
CHECK_DEADLOCK FALSE
