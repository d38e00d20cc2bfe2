CONSTANTS
  Tasks = {t1, t2, t3, t4, t5}
  Root = root
  None = none
  MaxDelay = 3
  MaxTime = 4
SYMMETRY Symmetry
SPECIFICATION Spec
INVARIANTS HeapInv RunningIsAllocated TimerArmed
PROPERTY IsTaskSet
CHECK_DEADLOCK FALSE
