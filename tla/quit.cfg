CONSTANTS
  Workers = {}
  Foreign = Foreign
  Commands = {"q","s"}
  StopMode = TRUE
  StatusRefresh = FALSE
  MaxStreams = 2
  MaxCommands = 3
  MaxFailures = 0
  MaxDeviceActions = 0
SPECIFICATION FairPlayingSpec
CHECK_DEADLOCK FALSE
PROPERTY QuitConverges
