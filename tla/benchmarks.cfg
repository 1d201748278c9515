SPECIFICATION FairSpec
CONSTANTS
  r1 = r1
  r2 = r2
  h1 = h1
  t1 = t1
  t2 = t2
  fault = fault
  refused = refused
  plain = plain
  None = None
  Runs = {r1, r2, h1}
  ByHand = {h1}
  Scenarios = {fault, refused, plain}
  Targets = {t1, t2}
  Target <- TargetMC
  Production = {t2}
INVARIANTS TypeOK ResultIsOwn FaultsConfined
PROPERTIES OneAtATime RunsEnd
CHECK_DEADLOCK FALSE
