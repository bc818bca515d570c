SPECIFICATION TsifFairSpec
CONSTANTS
  echo = echo
  sink = sink
  cmd = cmd
  act = act
  nosock = nosock
  SessIds <- MCSessIds
  DstPort <- MCDstPort
  SegLens = {12}
  Socks = {"sock"}
  TxCounts = {0, 3}
  MaxNotifs = 2
  MaxSplits = 2
  cDepth_IRbToRDp_Data = 2
  cDepth_IRbToRDp_Meta = 2
  cDepth_RNhToRRh_Notif = 3
  cDepth_RRhToRDp_FwdCmd = 2
  cDepth_RDpToRRh_Dequeue = 1
  cDepth_RDpToCOn = 1
  cDepth_Shell = 1
  cDepth_TAF = 1
  cMinDataReqLen = 8
  TxSessIds <- MCTxSessIds
  NoSock = nosock
  OpnStates = {"ESTABLISHED", "CLOSED"}
  SndErrors = {"NO_ERROR", "NO_SPACE"}
  RetryCnt = 0
  cDepth_COnToWRp = 1
INVARIANTS
  NeverShort
  PassedOnWhole
PROPERTY
  AllServed
