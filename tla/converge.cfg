SPECIFICATION FairSpec
CONSTANTS
  d1 = d1
  d2 = d2
  d3 = d3
  m1 = m1
  m2 = m2
  c1 = c1
  c2 = c2
  None = None
  Models = {m1, m2}
  Deployments = {d1, d2, d3}
  Weights = {10, 100}
  Calls = {c1, c2}
  BootModel = m1
  BootWeight = 10
  Unroutable = {d2}
  RouterThreads = 2
  MaxCommits = 2
  MaxFaults = 2
INVARIANTS TypeOK RouterServesCommitted NoDriftMissed
PROPERTIES Converges OutageVisible RecoveryVisible
CHECK_DEADLOCK FALSE
