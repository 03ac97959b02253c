CONSTANTS
  v1 = v1
  v2 = v2
  b1 = b1
  b2 = b2
  NoVoice = NoVoice
  NoBuffer = NoBuffer
  Voices <- OneVoice
  Buffers <- TwoBuffers
  Tiny = {}
  NumHw = 1
  Max3D = 0
  IdleQueueSize = 1
  StreamVoices <- OneVoice
  StaticVoices = {}
  Calls <- AllCalls
  MaxLocks = 3
  SlowHardware = FALSE
SPECIFICATION FairSpec
INVARIANT CompletionPending
INVARIANT PageLocksBalanced
PROPERTY OffVoiceIsRetired
PROPERTY CompletedIsReturned
