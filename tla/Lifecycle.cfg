CONSTANTS
  Entries = {e1, e2}
  Voices = {v1, v2}
  MaxWords = 2
  Listings <- ListingsOfAllSizes
  MaxInits = 3
SPECIFICATION FairSpec
CHECK_DEADLOCK FALSE
INVARIANT RunningUnitsHaveMemory
INVARIANT HandlersHaveMemory
INVARIANT NothingLeaks
INVARIANT NothingOfAnEarlierSession
INVARIANT ProgramLoaded
PROPERTY CallReturns
