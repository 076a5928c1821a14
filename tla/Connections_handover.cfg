SPECIFICATION Spec
CONSTANTS
  None = None
  p1 = p1
  p2 = p2
  s1 = s1
  s2 = s2
  t1 = t1
  Phone <- MCPhone
  Sdcch <- OneSdcch
  Tch <- OneTch
  Chan <- AllChan
  Access <- OnSdcch
  HoRefs <- ThreeHandovers
  Size = 5
  MaxAccess = 0
  MaxBurst = 2
  MaxTalk = 0
  MaxFail = 0
  MaxLate = 0
INVARIANTS Agreement PromisedHandoverIsFound LinkIsHeld
CHECK_DEADLOCK FALSE
SYMMETRY PhonesAlike
