SPECIFICATION SpecDB
CONSTANTS
  d1 = d1
  d2 = d2
  d3 = d3
  m1 = m1
  None = None
  Deployments = {d1, d2, d3}
  Models = {m1}
  Keys = {}
  InitialWeights = {10}
  MaxRetries = 1
  MaxVersion = 5
SYMMETRY Symmetry
INVARIANTS LedgerInv AuthoritativeIsNewest AlwaysAuthoritative
PROPERTIES RevisionsOnlyGrow RoutesForward
CHECK_DEADLOCK FALSE
