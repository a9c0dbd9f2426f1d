SPECIFICATION FairSpec
CONSTANTS
  Thread = {t1, t2}
  Pot = {w1, w2}
  Name <- Names
  Library = {1, 2, 3, 4}
  NameOf <- NamesOf
  Broken = {4}
  Safe = {1}
  Unitless = {3}
  PluginPath <- SomePath
  MaxCalls = 5
INVARIANTS CodeStaysMapped SerialCodeAlone OwnResult OnePluginPerName NothingLost HolderProceeds
PROPERTIES CallsReturn
