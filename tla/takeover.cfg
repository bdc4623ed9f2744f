CONSTANTS
  Workers = {}
  Foreign = Foreign
  Commands = {"u"}
  StopMode = TRUE
  StatusRefresh = TRUE
  MaxStreams = 1
  MaxCommands = 2
  MaxFailures = 0
  MaxDeviceActions = 1
SPECIFICATION PlayingSpec
CHECK_DEADLOCK FALSE
PROPERTY NoInstallAfterTakeover
