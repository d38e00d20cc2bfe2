CONSTANTS
  Capacity = 7
  MaxPlayAt = 6
  AnyOrderSize = 6
SPECIFICATION Spec
PROPERTY IsPriorityQueue
