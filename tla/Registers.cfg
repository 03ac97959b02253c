CONSTANTS
  v1 = v1
  v2 = v2
  Voices = {v1, v2}
  Applications <- FiveApplications
  NumHw = 3
  Max3D = 1
  FifoSize = 32
  Pitches = {1, 2}
  Gains = {0, 1}
  Targets = {5}
  Params = {1}
  Unknown = Unknown
SPECIFICATION Spec
CHECK_DEADLOCK FALSE
INVARIANT RegistersSound
INVARIANT RoomForEveryWrite
INVARIANT PlaysItsOwnBuffer
