CONSTANTS
  Blocks <- ThreeBlocks
  Sizes <- SomeSizes
  Offsets <- SomeOffsets
SPECIFICATION FairSpec
INVARIANT OffsetInBuffer
PROPERTY SetOffsetReturns
