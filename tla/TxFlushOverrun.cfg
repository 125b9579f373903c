SPECIFICATION FairSpec
CONSTANTS
  CqSize = 2
  IdxMod = 16
  SqSize = 8
  CtrMod = 16
  MaxBurst = 2
  MaxProd = 16
  BadFrames = FALSE
  TxErrors = FALSE
PROPERTY
  FlushFailsOnlyIfUnfinished
