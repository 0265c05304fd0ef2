CONSTANTS
  NSub = 2
  MaxData = 4
  BufSize = 2
  SendSize = 2
  RecvWnd = 4
  InitSsthresh = 3
  DupThresh = 2
  HalfFlight = TRUE
  Wrap = 16
  ChanCap = 2
  MaxLoss = 1
  Reorder = FALSE
  JoinLoss = FALSE
SPECIFICATION Spec
INVARIANTS
  TypeOK
  NothingForgotten
  TimerCoversFlight
  AcksAreSound
  NoIdleSubflow
  StopsOnlyWhenDone
PROPERTY ImplementsStream
