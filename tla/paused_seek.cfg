CONSTANT MaxStreams = 2
SPECIFICATION Spec
INVARIANT PausedSeekWaits
CHECK_DEADLOCK FALSE
