SPECIFICATION FairSpec
CONSTANTS
  Modulus = 8
  N200 = 1
  Msg <- MCMsg
  Ones <- MCOnes
  Sapi = 3
  Writer <- MCWriter
  Ops <- Sap3Ops
  SabmPayload <- NoPayload
  MaxMsg = 1
  MaxSeg = 2
  MaxCtl = 2
  MaxOpen = 1
  MaxAir = 1
PROPERTIES RequestsReturn EstablishmentSettles
CHECK_DEADLOCK FALSE
