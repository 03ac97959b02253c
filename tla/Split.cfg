CONSTANTS
  NumVoices = 2
  NumSge = 6
  PageSize = 4
  MaxSsl = 2
  SegSize = 3
  FieldSize = 8
  AdpcmBytes = 3
  AdpcmSamples = 2
  Formats <- SomeFormats
  Buffers <- SomeBuffers
  MaxCalls = 2
SPECIFICATION Spec
CHECK_DEADLOCK FALSE
INVARIANT TablesSound
INVARIANT RefusedOnlyWhenNeeded
INVARIANT NothingDropped
