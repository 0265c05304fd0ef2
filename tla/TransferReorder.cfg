CONSTANTS
  NSub = 2
  MaxData = 3
  BufSize = 2
  SendSize = 2
  RecvWnd = 4
  InitSsthresh = 3
  DupThresh = 2
  HalfFlight = FALSE
  Wrap = 16
  ChanCap = 2
  MaxLoss = 1
  Reorder = TRUE
  JoinLoss = TRUE
SPECIFICATION Spec
INVARIANTS
  ReceiverNeverAborts
  SenderNeverAborts
  TransferInv
