CONSTANTS
  Callers = {c1, c2}
  MaxCalls = 5
  MaxCrashes = 1
SYMMETRY Symmetry
SPECIFICATION Spec
INVARIANTS LogMatchesWrites ActiveIsVouchedFor VerdictHolds RollbackHolds
CHECK_DEADLOCK FALSE
