SPECIFICATION Spec
CONSTANTS
  Slots = 2
  Capacity = 3
  MaxOffset = 63
  PacketSizes = {2, 4}
  ChunkSizes = {1, 4}
  Lead = 3
  MaxBatches = 4
  MaxTicks = 1
  MaxRanges = 1
  MaxStops = 1
  OffsetDigits <- Offsets
INVARIANTS Inv ReceivedInOrder HistoryIsWindow RangeIsExact HistoryFinishes ServedAsAsked
PROPERTIES NothingAfterFinish RingIsQueue
CHECK_DEADLOCK FALSE
