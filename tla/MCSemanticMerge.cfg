SPECIFICATION Spec
CONSTANTS
  g1 = g1
  g2 = g2
  u1 = u1
  N = 3
  Similar <- Chain
  Strong <- Chain
  Compatible <- AnyTwo
  Governors = {g1, g2}
  Users = {u1}
  Reviews = {"approved"}
  Modes = {"autonomous"}
  MaxRuns = 2
  MaxRequests = 2
SYMMETRY Sym
INVARIANT MergedIsRepresented
INVARIANT MergeIsReversible
PROPERTY UndoIsExact
PROPERTY VerdictStands
CHECK_DEADLOCK FALSE
