SPECIFICATION Spec
CONSTANTS
  libA = libA  libB = libB
  Calc = {c1, c2}
  Lib = {libA, libB}
  Default = libA
  Disks <- AnyDisk
  MaxCalls = 6
CHECK_DEADLOCK FALSE
INVARIANTS PointersMapped HandlesBalance
PROPERTIES RuntimesStay
