SPECIFICATION Spec
CONSTANTS
  echo = echo
  sink = sink
  cmd = cmd
  SessIds <- EchoAndCmd
  DstPort <- MCDstPort
  SegLens = {12, 40}
  Socks = {"sock"}
  TxCounts = {0}
  MaxNotifs = 3
  cDepth_IRbToRDp_Data = 4
  cDepth_IRbToRDp_Meta = 2
  cDepth_RNhToRRh_Notif = 3
  cDepth_RRhToRDp_FwdCmd = 2
  cDepth_RDpToRRh_Dequeue = 1
  cDepth_RDpToCOn = 1
  cDepth_Shell = 1
  cDepth_TAF = 1
  cMinDataReqLen = 16
INVARIANT
  SettlesBack
