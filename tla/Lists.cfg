CONSTANTS
  NumHw = 4
  Max3D = 1
  End = End
SPECIFICATION FairSpec
INVARIANT LinksSound
PROPERTY TurnsKept
PROPERTY ImplementsList
PROPERTY TrapReturns
