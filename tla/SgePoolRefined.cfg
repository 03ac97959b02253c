CONSTANTS
  v1 = v1
  v2 = v2
  NoOwner = NoOwner
  Owners <- TwoOwners
  Words = 3
  Width = 3
  MaxCount = 7
SPECIFICATION FairSpec
INVARIANT PoolInv
INVARIANT EntriesAccounted
PROPERTY ImplementsPool
PROPERTY CallReturns
