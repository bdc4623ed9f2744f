SPECIFICATION Spec
CONSTANTS
  MaxGets = 3
  MaxStreams = 2
  MaxBlocks = 2
  MaxControls = 1
INVARIANTS Inv OldEncodersClosed FormatKnown
PROPERTIES PauseEndsStandbys RangeKeepsEncoder HandoverSpec
CHECK_DEADLOCK FALSE
