CONSTANTS
  Timeout = 30
  Pause = 1
  Late = 1
  MaxTry = 3
  MayHang = TRUE
  MayFail = TRUE
  MayCancel = TRUE
  Horizon = 36
SPECIFICATION FairSpec
INVARIANTS
  LoopInv
  BoundedWait
  NoFalseTimeout
PROPERTIES
  Ends
  CancelEnds
  ImplementsAwait
