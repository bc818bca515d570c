SPECIFICATION Spec
CONSTANTS
  taf = taf
  act1 = act1
  act2 = act2
  host1 = host1
  host2 = host2
  nosock = nosock
  SessIds <- MCSessIds
  TafSessIds <- MCTafSessIds
  Socks <- TwoHosts
  NoSock = nosock
  TxCounts = {0, 3}
  DatLens = {12}
  OpnStates = {"ESTABLISHED", "CLOSED"}
  SndErrors = {"NO_ERROR", "NO_SPACE"}
  RetryCnt = 1
  Residues <- Nothing
  PendingOpens <- Nothing
  MaxCmds = 3
  MaxSegs = 0
  cDepth_RDpToCOn = 1
  cDepth_COnToWRp = 1
  cDepth_Shell = 1
  cDepth_TAF = 1
INVARIANT
  SendsToLastOpened
