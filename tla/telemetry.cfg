SPECIFICATION FairSpec
CONSTANTS
  d1 = d1
  d2 = d2
  v1 = v1
  v2 = v2
  v3 = v3
  p1 = p1
  p2 = p2
  f1 = f1
  f2 = f2
  NoDeployment = NoDeployment
  Requests = {p1, p2}
  Deployments = {d1, d2}
  Versions = {v1, v2, v3}
  Hosts = {v1, v2}
  VersionsOf <- VersionsMC
  Configs <- ConfigsMC
  Answers <- AnswersMC
  Labelled = {p1}
  Feeders = {f1, f2}
INVARIANTS TypeOK Attributed CountedOnce
PROPERTIES TruthDecidedOnce LabelsMeetMetrics
CHECK_DEADLOCK FALSE
