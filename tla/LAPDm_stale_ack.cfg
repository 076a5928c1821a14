SPECIFICATION FairSpec
CONSTANTS
  Modulus = 8
  N200 = 1
  Msg <- MCMsg
  Ones <- MCOnes
  Sapi = 0
  Writer <- MCWriter
  Ops <- TransferOps
  SabmPayload <- NoPayload
  MaxMsg = 2
  MaxSeg = 1
  MaxCtl = 1
  MaxOpen = 0
  MaxAir = 2
PROPERTY RequestsReturn
CHECK_DEADLOCK FALSE
