SPECIFICATION Spec
CONSTANTS
  taf = taf
  act1 = act1
  act2 = act2
  host1 = host1
  host2 = host2
  nosock = nosock
  SessIds <- TwoSessIds
  TafSessIds <- MCTafSessIds
  Socks <- TwoHosts
  NoSock = nosock
  TxCounts = {0, 24}
  DatLens = {12}
  OpnStates = {"ESTABLISHED"}
  SndErrors = {"NO_ERROR", "NO_SPACE"}
  RetryCnt = 1
  Residues <- Nothing
  PendingOpens <- OpenToAHost
  MaxCmds = 3
  MaxSegs = 2
  cDepth_RDpToCOn = 1
  cDepth_COnToWRp = 1
  cDepth_Shell = 1
  cDepth_TAF = 1
SYMMETRY HostSymmetry
INVARIANTS
  TypeOK
  GrantsFilled
  TestPattern
  TafAligned
  SendsToLastOpened
PROPERTIES
  NothingLeftBehind
  GivesUpLate
