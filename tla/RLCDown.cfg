SPECIFICATION FairSpec
CONSTANTS
  None = None
  WS = 4
  MaxPdu = 9
  MaxQueue = 2
  Slip = 1
  PollEvery = 2
  N3105Max = 1
  NStuck = 2
  ReleaseMax = 0
  Persistence = {FALSE, TRUE}
INVARIANTS WindowOpen AckedIsReceived MissingIsKept
PROPERTIES KeepsTransfer NoOvertaking EveryTbfEnds
CHECK_DEADLOCK FALSE
