SPECIFICATION Spec
CONSTANTS
  None = None
  System <- MCSystem
  Batch <- MCBatch
  Param = {"neutral", "charged", "bad"}
  BadParam = "bad"
  UmaPackage <- MCUmaPackage
  Model <- MCModel
  OrbitalKey = {1, 2}
  MaxCalls = 5
  MaxFaults = 0
  MaxRequests = 2
  Host = {"potserv"}
  Client = {c1, c2}
  Peer = {c1}
  LengthUnit <- MCLengthUnit
  EnergyUnit <- MCEnergyUnit
  Variable <- MCVariable
  Thread = {h1, h2}
  Place = {"x", "y"}
  Setting = {"s", "t"}
  MaxSteps = 5
  Expression <- MCExpression
CHECK_DEADLOCK FALSE
INVARIANTS ForcesInCallerUnits
