CONSTANTS
  NSub = 1
  MaxData = 6
  BufSize = 6
  SendSize = 2
  RecvWnd = 6
  InitSsthresh = 4
  DupThresh = 3
  HalfFlight = TRUE
  Wrap = 16
  ChanCap = 4
  MaxLoss = 2
  Reorder = FALSE
  JoinLoss = FALSE
SPECIFICATION Spec
INVARIANTS
  SenderNeverAborts
  TimerCoversFlight
  RecoveryPointOutstanding
  StopsOnlyWhenDone
