CONSTANTS
  MaxQueues = 2
  MaxFaults <- FaultBudget
  PageDemands <- Demands
SPECIFICATION Spec
VIEW DeviceView
INVARIANTS
  DeviceTypeOK
  CallsReachLiveQueues
  HeldBuffersMapped
  DmaOutlivesObject
  ClosedLeavesNothing
PROPERTIES
  LeftOnlyIfLost
  StopReportsFailure
  StartFailsOnlyOnFault
