SPECIFICATION Spec
CONSTANTS
  r1 = r1
  t1 = t1
  t2 = t2
  fault = fault
  refused = refused
  plain = plain
  None = None
  Runs = {r1}
  ByHand = {}
  Scenarios = {fault, refused, plain}
  Targets = {t1, t2}
  Target <- TargetMC
  Production = {t2}
INVARIANT NoFaultLeftByAnException
CHECK_DEADLOCK FALSE
