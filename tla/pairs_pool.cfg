SPECIFICATION Spec
CONSTANTS
  t1 = t1  t2 = t2
  Thread = {t1, t2}
  Offers <- Hosts
  Skin = 3
  MaxSlots = 2
  MinCells = 3
INVARIANTS ResultIsFresh LeastRecentlyUsedEvicted
