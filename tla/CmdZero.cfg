SPECIFICATION FairSpec
CONSTANTS
  TokMod = 4
  MaxCmds = 3
  Timeouts = TRUE
  DeliveryErrors = TRUE
PROPERTY
  ZeroMeansExecuted
CHECK_DEADLOCK FALSE
