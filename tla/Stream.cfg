CONSTANTS
  Chunks <- MCChunks
  KeepsTurn = FALSE
  NoBuffer = NoBuffer
SPECIFICATION FairSpec
INVARIANT NoOverwritePlaying
INVARIANT EveryFreeSideCounted
PROPERTY KeepsPlaying
PROPERTY PlaysInOrder
