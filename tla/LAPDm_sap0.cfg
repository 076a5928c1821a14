SPECIFICATION Spec
CONSTANTS
  Modulus = 8
  N200 = 1
  Msg <- MCMsg
  Ones <- MCOnes
  Sapi = 0
  Writer <- MCWriter
  Ops <- Sap0Ops
  SabmPayload <- PhonePayload
  MaxMsg = 1
  MaxSeg = 2
  MaxCtl = 3
  MaxOpen = 1
  MaxAir = 2
INVARIANTS TypeOK L3Informed WaitingIsTimed SentFrameIsUnacked FreshUntilResolved
PROPERTY LinkSpec
CHECK_DEADLOCK FALSE
