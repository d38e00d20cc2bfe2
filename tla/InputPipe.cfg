CONSTANTS
  BufferMs = 20
  ChunkMs = 3
  ColdStartMs = 5
  ChunkSize = 3
  TaskIds = {t1, t2}
  MaxClients = 2
SPECIFICATION FairSpec
INVARIANTS PipeInv TimelineInv NoFault NoStall
PROPERTIES SendsOnTimeline KeepsSending
