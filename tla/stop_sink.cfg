SPECIFICATION FairSpec
CONSTANTS
  Settle = 1
  Slack = 1
  Lease = 1
  DeferAudible = TRUE
  Capacity = 1
  Rates = {1}
  Sizes = {1}
  MaxFrames = 1
  MaxTime = 0
  MaxGets = 1
  MaxTracks = 1
  MaxHolds = 1
PROPERTIES StopCompletes
CHECK_DEADLOCK FALSE
