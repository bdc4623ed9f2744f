SPECIFICATION Spec
CONSTANTS
  Settle = 1
  Slack = 1
  Lease = 1
  DeferAudible = TRUE
  Capacity = 2
  Rates = {1, 2}
  Sizes = {1}
  MaxFrames = 2
  MaxTime = 2
  MaxGets = 2
  MaxTracks = 2
  MaxHolds = 1
INVARIANTS Inv HandedIsDelivered NotAheadOfSpeaker ReportsAreHeard WaitsForWork
CHECK_DEADLOCK FALSE
