SPECIFICATION FairSpec
CONSTANTS
  Count = 4
  MaxWindow = 3
  MaxQueues = 2
  RxBurst = 2
  MaxFaults = 1
  MaxOthers = 1
INVARIANTS
  BenchAccounting
  EachReplyOnce
  FailsOnlyIfUnpolled
PROPERTY
  EndsOrStalls
CHECK_DEADLOCK FALSE
