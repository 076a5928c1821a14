SPECIFICATION Spec
CONSTANTS
  None = None
  s1 = s1
  s2 = s2
  Sms = {s1, s2}
  MaxConn = 2
  MaxUpdate = 2
  Tids = 7
INVARIANTS SuccessIsOwn NotForgotten PagedOnlyIfWanted UsageCoversHolders NoDeadConnection
SYMMETRY Messages
CHECK_DEADLOCK FALSE
