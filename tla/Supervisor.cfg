SPECIFICATION FairSpec
CONSTANTS
  None = None
  Sig = Sig
  w1 = w1
  w2 = w2
  Tickers <- OneWorker
  Commanders <- OtherWorker
  MaxRestart = 2
  MaxPid = 2
  MaxCmd = 1
  MaxFail = 1
INVARIANTS TypeOK IdleOwnsNothing NoOrphan LossIsNoticed ExitIsFinal
PROPERTY Recovers
CHECK_DEADLOCK FALSE
