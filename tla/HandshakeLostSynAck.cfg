SPECIFICATION Spec
CONSTANTS
  NSub = 2
  MaxAddrs = 2
  CnRetries = 6
  MaxLoss = 1
INVARIANTS
  ResentSynAckHelps
CHECK_DEADLOCK FALSE
