SPECIFICATION FairSpec
CONSTANTS
  None = None
  WS = 4
  MaxPdu = 9
  MaxExtended = 2
  Lag = 1
  AckEvery = 1
  N3101Max = 1
  N3103Max = 1
  Persistence = {FALSE, TRUE}
INVARIANTS AckedIsHeld
PROPERTIES KeepsTransfer EndsBetweenBursts EveryTbfEnds
CHECK_DEADLOCK FALSE
