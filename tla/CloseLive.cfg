SPECIFICATION FairSpec
CONSTANTS
  NSub = 2
  Late = {}
  MaxData = 3
  Window = 1
  MaxClose = 2
  ChanCap = 2
  MaxLoss = 1
  CnRetries = 2
INVARIANTS
  NoReset
PROPERTIES
  EventuallyClosed
