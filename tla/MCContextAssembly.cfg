SPECIFICATION AssemblySpec
CONSTANTS
  Memories = {1, 2, 3}
  Foreign = {2, 3}
  Semantic = {1, 2}
  Personas = {2}
  LongTerm = {2}
  Texts = {t1, t2}
  Channels <- mcChannels
  RecallLimit = 2
  Scale = 3782
  ActiveLimit = 1
  Budgets = {1, 2}
  MaxLength = 4
  CharsPerToken = 2
  TokenCounts <- mcCounts
  MaxWrites = 1
SYMMETRY TextSymmetry
INVARIANT OnlyVisibleIsRecalled
INVARIANT MarkersStand
INVARIANT PackedInOrder
INVARIANT ClipIsLongest
