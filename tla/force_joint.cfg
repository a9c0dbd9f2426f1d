SPECIFICATION FairSpec
CONSTANTS
  c0 = c0  c1 = c1  x = x  y = y  nobody = nobody
  Rank = {0, 1, 2}
  Watched = c0
  Calculator = {c0, c1}
  CalcOf <- Two
  System = {x, y}
  Workloads <- AnyWork
  InitialCaches <- Sound
  Refusals <- SomeRefusal
  Owners <- Disagreed
  MaxFaults = 1
INVARIANTS JointDecision CollectivesMatch FailureNeverReturns AbortHasCause NobodyStuck
PROPERTIES RunEnds ImplementsJointCalls
