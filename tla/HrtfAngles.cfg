CONSTANTS
  Entries = {127, 128}
  Azimuths <- BothSidesAz
  Elevations <- BothSidesEl
  MaxCalls = 1
SPECIFICATION HrtfSpec
CHECK_DEADLOCK FALSE
INVARIANT NearestFilters
INVARIANT MirrorImages
