CONSTANTS
  BufferMs = 3
  MinLead = 1
  MaxLead = 3
  MaxLate = 1
  NonceMax = 100
  Clients = {c1}
  MaxTime = 12
  MaxPackets = 4
SPECIFICATION Spec
INVARIANTS PairingInv RetainedUntilTimeout
PROPERTIES BacklogNeverGrows FlushComplete PendingIsAnswered
CHECK_DEADLOCK FALSE
