SPECIFICATION Spec
CONSTANTS
  None = None
  p1 = p1
  p2 = p2
  s1 = s1
  s2 = s2
  t1 = t1
  Phone <- MCPhone
  Sdcch <- OneSdcch
  Tch <- OneTch
  Chan <- AllChan
  Access <- OnEither
  HoRefs <- NoHandover
  Size = 5
  MaxAccess = 2
  MaxBurst = 1
  MaxTalk = 1
  MaxFail = 1
  MaxLate = 0
INVARIANTS ReleaseHitsOwn LostIsLost Agreement ServesItsOwner LinkIsHeld
CHECK_DEADLOCK FALSE
SYMMETRY Alike
