SPECIFICATION UdpFairSpec
CONSTANTS
  DstPorts = {8800, 8801, 8802, 8803}
  DatLens = {12}
  TxCounts = {20}
  Hosts <- MCHosts
  Senders <- MCSenders
  Targets <- MCTargets
  MaxDgms = 3
  cDepth_SHELL = 1
  cDepth_UAF = 1
  cDepth_RXp_Data <- MCDepth_Data
  cDepth_RXp_Meta <- MCDepth_Meta
  cDepth_ESfToTXp_Data = 1
  cDepth_ESfToTXp_Meta = 1
INVARIANTS
  TypeOK
  DatagramsExact
  RightAddressee
  TestPattern
PROPERTIES
  EchoesInOrder
  AllAnswered
