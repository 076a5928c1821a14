SPECIFICATION Spec
CONSTANTS
  None = None
  p1 = p1
  p2 = p2
  s1 = s1
  s2 = s2
  t1 = t1
  Phone <- MCPhone
  Sdcch <- OneSdcch
  Tch <- OneTch
  Chan <- AllChan
  Access <- OnSdcch
  HoRefs <- NoHandover
  Size = 2
  MaxAccess = 3
  MaxBurst = 1
  MaxTalk = 1
  MaxFail = 0
  MaxLate = 1
INVARIANTS TypeOK OneHolder NextMessageIsOwn
CHECK_DEADLOCK FALSE
SYMMETRY Alike
