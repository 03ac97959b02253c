CONSTANTS
  v1 = v1
  v2 = v2
  b1 = b1
  b2 = b2
  NoVoice = NoVoice
  NoBuffer = NoBuffer
  Voices <- TwoVoices
  Buffers <- TwoBuffers
  Tiny <- OneBuffer
  NumHw = 3
  Max3D = 1
  IdleQueueSize = 3
  StreamVoices = {}
  StaticVoices <- TwoVoices
  Calls <- ClassCalls
  MaxLocks = 2
  SlowHardware = FALSE
SPECIFICATION Spec
SYMMETRY SymVoices
INVARIANT IInv
INVARIANT TrackedSound
INVARIANT IndexOwnership
INVARIANT IdleEntryAvailable
INVARIANT IdleVoicesGetDrained
