SPECIFICATION Spec
CONSTANTS
  Count = 2
  MaxWindow = 2
  MaxQueues = 1
  RxBurst = 2
  MaxFaults = 0
  MaxOthers = 0
INVARIANT
  CountedAnswersArrive
CHECK_DEADLOCK FALSE
