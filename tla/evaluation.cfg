SPECIFICATION FairSpec
CONSTANTS
  d1 = d1
  m1 = m1
  None = None
  Deployments = {d1}
  Models = {m1}
  Keys = {}
  InitialWeights = {75}
  MaxRetries = 2
  MaxVersion = 8
  Rollout = d1
  Window = 1
  Maturity = 1
  Config <- Policy
  Traffic <- Ticks
  Normal = 2
  HealthChecks = TRUE
INVARIANTS TypeOK PercentilesOrdered
PROPERTIES VerdictJustified RollbackEarned AdvanceEarned HealthyIsPromoted
CHECK_DEADLOCK FALSE
