SPECIFICATION Spec
CONSTANTS
  d1 = d1
  d2 = d2
  m1 = m1
  k1 = k1
  s1 = s1
  s2 = s2
  None = None
  Deployments = {d1, d2}
  Models = {m1}
  Keys = {k1}
  Sessions = {s1, s2}
  InitialWeights = {30}
  MaxRetries = 1
  MaxVersion = 4
SYMMETRY Symmetry
INVARIANTS Inv FreshSnapshot UniqueRows
PROPERTIES Serializable TerminalRowsFrozen StageByStage
CHECK_DEADLOCK FALSE
