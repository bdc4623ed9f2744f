CONSTANTS
  Workers = {w1}
  Foreign = Foreign
  w1 = w1
  Commands = {"p","u","s","q"}
  StopMode = TRUE
  StatusRefresh = TRUE
  MaxStreams = 2
  MaxCommands = 4
  MaxFailures = 1
  MaxDeviceActions = 1
SPECIFICATION PlayingInstancesSpec
ACTION_CONSTRAINT StaysInInstance
CHECK_DEADLOCK FALSE
INVARIANTS CompletedIsInstalled StopSparesNewStream LeavesSpeakerAlone
PROPERTY RelayOnlyDevicePause
