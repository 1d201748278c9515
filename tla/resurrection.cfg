SPECIFICATION Spec
CONSTANTS
  d1 = d1
  d2 = d2
  m1 = m1
  c1 = c1
  c2 = c2
  None = None
  Models = {m1}
  Deployments = {d1, d2}
  Weights = {10, 100}
  Calls = {c1, c2}
  BootModel = m1
  BootWeight = 10
  Unroutable = {}
  RouterThreads = 1
  MaxCommits = 3
  MaxFaults = 2
PROPERTY NoResurrection
CHECK_DEADLOCK FALSE
