SPECIFICATION Spec
CONSTANTS
  NSub = 2
  Late = {}
  MaxData = 2
  Window = 2
  MaxClose = 2
  ChanCap = 2
  MaxLoss = 2
  CnRetries = 2
INVARIANT NormalCloseIsGraceful
