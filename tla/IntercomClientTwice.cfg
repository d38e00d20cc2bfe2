CONSTANTS
  BufferMs = 2
  ChunkMs = 1
  ColdStartMs = 1
  RetryMs = 1
  IntMax = 1000
  MaxTime = 4
  MaxChanges = 0
  MaxPackets = 5
SPECIFICATION Spec
INVARIANT BufferedOnce
CHECK_DEADLOCK FALSE
