SPECIFICATION FairSpec
CONSTANTS
  CqSize = 2
  IdxMod = 16
  SqSize = 4
  CtrMod = 8
  MaxBurst = 3
  MaxProd = 12
  BadFrames = TRUE
  TxErrors = FALSE
INVARIANT
  ReturnCountsPosted
