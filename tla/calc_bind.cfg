SPECIFICATION FairSpec
CONSTANTS
  WorldSize = 4
  hook = hook  eng1 = eng1  eng2 = eng2
  Hooks <- MCHooks
  Adopters <- MCAdopters
  Blocking <- MCBlocking
  Programs <- MCPrograms
  Verdicts <- MCVerdicts
INVARIANTS AcceptedMeansAdopted AdoptedOnce CalculatorsPartitionWorld
PROPERTIES RefusalAndSplitAreFinal EveryBindReturns EveryRegistrationReturns
CHECK_DEADLOCK FALSE
