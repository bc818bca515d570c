SPECIFICATION FairSpec
CONSTANTS
  odd = odd
  even = even
  SessIds <- MCSessIds
  Lsb <- MCLsb
  DatLens = {1, 2}
  SegMod = 3
  cDepth_TSIF = 1
  cDepth_RXpToTXp_Data = 2
  cDepth_RXpToTXp_Meta = 1
  cDepth_RXpToESf_Data = 1
  cDepth_ESfToTXp_Data = 1
  cDepth_ESf_Meta = 1
INVARIANTS
  TypeOK
  EchoAligned
PROPERTIES
  EchoesInOrder
  RxpCompletes
