SPECIFICATION Spec
CONSTANTS
  None = None
  p1 = p1
  p2 = p2
  s1 = s1
  s2 = s2
  t1 = t1
  Phone <- MCPhone
  Sdcch <- TwoSdcch
  Tch <- OneTch
  Chan <- AllChan
  Access <- OnSdcch
  HoRefs <- NoHandover
  Size = 5
  MaxAccess = 2
  MaxBurst = 1
  MaxTalk = 2
  MaxFail = 0
  MaxLate = 0
INVARIANTS OneHolder
CHECK_DEADLOCK FALSE
SYMMETRY Alike
