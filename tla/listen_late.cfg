SPECIFICATION Spec
CONSTANTS
  LSN_PORT_TABLE <- MCPortTable
  WatchDog = 10
  MaxDelay = 10
  cDepth_Shell = 2
INVARIANT
  OpenAtStartup
