CONSTANTS
  Count = 3
  MaxQueues = 2
  Windows = {1, 2, 4}
  BatchCap = 2
  RxBurst = 2
  MaxFaults = 2
  MaxOthers = 1
SPECIFICATION FairSpec
CHECK_DEADLOCK FALSE
INVARIANTS
  NoThreadOutlivesDevice
  EachFrameOnce
  OkMeansDone
  AggregateWindow
  FailsOnlyIfSteered
PROPERTIES
  RunEnds
