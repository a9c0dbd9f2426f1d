SPECIFICATION FairSpec
CONSTANTS
  p0 = p0  p1 = p1  p2 = p2  lib = lib  otherlib = otherlib  water = water
  Size = 2
  Params = {p0, p1, p2}
  Default = p0
  PathOf <- MCPathOf
  Kinds = {"CPMD", "NWChem", "force host"}
  Geometries = {water}
  MaxRequests = 3
  MaxFaults = 1
INVARIANTS CollectivesMatch SuccessIsJoint NobodyStuck
PROPERTIES EveryRequestAnswered WorkersReleased
CHECK_DEADLOCK FALSE
