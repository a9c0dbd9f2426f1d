SPECIFICATION FairSpec
CONSTANTS
  WorldSize = 2
  hook = hook  eng1 = eng1  eng2 = eng2
  Hooks <- MCHooks
  Adopters <- MCAdopters
  Blocking <- MCBlocking
  Programs <- MCPrograms
  Verdicts <- MCVerdicts
PROPERTIES NoEngineStranded
CHECK_DEADLOCK FALSE
