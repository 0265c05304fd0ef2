SPECIFICATION FairSpec
CONSTANTS
  NSub = 3
  MaxAddrs = 3
  CnRetries = 2
  MaxLoss = 3
INVARIANTS
  TypeOK
  TimerCoversHandshake
  NoPhantom
  AckedIsEstablished
  LossFreeSetup
PROPERTIES
  HandshakeSettles
  JoinsComplete
CHECK_DEADLOCK FALSE
