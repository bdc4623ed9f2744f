CONSTANTS
  Workers = {}
  Foreign = Foreign
  Commands = {"u"}
  StopMode = TRUE
  StatusRefresh = FALSE
  MaxStreams = 1
  MaxCommands = 1
  MaxFailures = 4
  MaxDeviceActions = 0
SPECIFICATION FairStartSpec
CHECK_DEADLOCK FALSE
INVARIANTS Inv AttemptsBounded
PROPERTY IntentIsServed
