SPECIFICATION RoleFairSpec
CONSTANTS
  LSN_PORT_TABLE <- MCPortTable
  WatchDog = 2
  MaxDelay = 1
  UoeMaxDelay = 2
  cDepth_Shell = 1
INVARIANTS
  RoleTypeOK
  AckedPortsOpen
  OpenAtStartup
  UsifPortsOpen
PROPERTY
  RoleComesUp
