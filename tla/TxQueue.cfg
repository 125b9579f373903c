SPECIFICATION FairSpec
CONSTANTS
  CqSize = 2
  IdxMod = 16
  SqSize = 4
  CtrMod = 8
  MaxBurst = 3
  MaxProd = 24
  BadFrames = TRUE
  TxErrors = TRUE
INVARIANTS
  TxInv
  RingBounds
  WqeIntact
  OverrunNeedsSmallCq
PROPERTIES
  FlushMeansExecuted
  CallsReturn
