SPECIFICATION FairSpec
CONSTANTS
  c0 = c0  c1 = c1  x = x  y = y  nobody = nobody
  Rank = {0, 1}
  Watched = c0
  Calculator = {c0}
  CalcOf <- One
  System = {x, y}
  Workloads <- BatchWork
  InitialCaches <- Any
  Refusals <- NoRefusal
  Owners <- Agreed
  MaxFaults = 0
PROPERTIES NoRankWaitsAlone
CHECK_DEADLOCK FALSE
