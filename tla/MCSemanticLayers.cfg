CONSTANTS
  s1 = s1 p1 = p1 p2 = p2 k1 = k1 e1 = e1 e2 = e2 e3 = e3 None = None w1 = w1 w2 = w2

  Scenes = {s1}
  Personas = {p1, p2}
  KeyOf <- MCKeyOf
  Evidence = {e1, e2, e3}
  Sessions <- MCSessions
  Agents <- MCAgents
  Supports <- MCSupports
  Workers = {w1, w2}
  SceneCycles = 1 PersonaCycles = 2 SceneUses = 1 PersonaUses = 1
  MaxAnswers = 3 MaxGoverned = 1 MaxDeletions = 1
SYMMETRY Symmetry
SPECIFICATION Spec
INVARIANTS ActiveIsEarned OneCurrentVersion SupersededIsHidden
CHECK_DEADLOCK FALSE
