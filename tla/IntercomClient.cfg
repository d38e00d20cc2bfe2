CONSTANTS
  BufferMs = 2
  ChunkMs = 1
  ColdStartMs = 1
  RetryMs = 1
  IntMax = 1000
  MaxTime = 2
  MaxChanges = 1
  MaxPackets = 4
SPECIFICATION FairSpec
INVARIANTS MissingInv NotMissingWhenBuffered LossIsRequested
PROPERTIES RoomForEveryChunk MissingIsSettled
CHECK_DEADLOCK FALSE
