SPECIFICATION Spec
CONSTANTS
  NSub = 2
  Late = {1}
  MaxData = 3
  Window = 2
  MaxClose = 2
  ChanCap = 1
  MaxLoss = 3
  CnRetries = 2
INVARIANTS
  TypeOK
  NoAbort
  FinMeansAllReceived
  GracefulClose
  TimerCoversClose
  CloseNeverResets
  ResetNeedsLoss
PROPERTY ClosingImplementsStream
