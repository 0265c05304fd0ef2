CONSTANTS
  NSub = 2
  MaxData = 3
  BufSize = 2
  SendSize = 2
  RecvWnd = 4
  InitSsthresh = 3
  DupThresh = 2
  HalfFlight = TRUE
  Wrap = 16
  ChanCap = 2
  MaxLoss = 2
  Reorder = FALSE
  JoinLoss = FALSE
SPECIFICATION FairSpec
PROPERTIES
  AllDelivered
  ImplementsFairStream
  TimeoutRecoveryEnds
