CONSTANTS
  Capacity = 7
  MaxPlayAt = 8
  AnyOrderSize = 5
SPECIFICATION Spec
PROPERTY IsPriorityQueue
