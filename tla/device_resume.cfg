CONSTANT MaxStreams = 2
SPECIFICATION Spec
INVARIANTS Inv NewStreamOnlyAfterPausedSeek
PROPERTIES ResumeIsJustified RelayIsJustified PairOnlyAfterQuitStop
CHECK_DEADLOCK FALSE
