SPECIFICATION Spec
CONSTANTS
  Modulus = 8
  N200 = 1
  Msg <- MCPhones
  Ones <- Different
  MaxSabm = 3
INVARIANTS OneOwner
CHECK_DEADLOCK FALSE
