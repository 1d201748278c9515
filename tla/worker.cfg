SPECIFICATION FairSpec
CONSTANTS
  d1 = d1
  d2 = d2
  m1 = m1
  None = None
  Deployments = {d1, d2}
  Models = {m1}
  Keys = {}
  InitialWeights = {50}
  MaxRetries = 1
  MaxVersion = 8
  MaxManual = 1
  MaxFaults = 1
INVARIANTS TypeOK HoldHonoured RetriesEarned
PROPERTIES PromotesAtFullTraffic RolloutsEnd
CHECK_DEADLOCK FALSE
