CONSTANTS
  BufferMs = 7
  ChunkMs = 2
  ColdStartMs = 3
  LatencyMs = 0
  NearMs = 1
  FarMs = 4
  EmptyMs = 3
  BytesPerMs = 2
  SizeLimit = 10
  MaxEmpty = 1
  SecondMs = 7
  SecondCounts = 1
  DeviceMs = 4
  PeriodMs = 2
  MaxComing = 2
  MaxReopens = 1
  MaxLateMs = 1
  None = None
SPECIFICATION FairSpec
PROPERTIES AdjustsTowards StartsInTime ClosesIdle InSync DeviceCloses Starts
