SPECIFICATION FairSpec
CONSTANTS
  r1 = r1
  r2 = r2
  NoData = NoData
  Runs = {r1, r2}
  Ends = {"COMPLETED"}
  MaxStarts = 2
  MaxPolls = 2
  MaxTroubles = 1
PROPERTIES NeverBackwards PageCatchesUp
CHECK_DEADLOCK FALSE
