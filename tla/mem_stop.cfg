SPECIFICATION Spec
CONSTANTS
  NumChunks = 3
  TRANSFERS_PER_CHUNK = 2
  CYCLES_UNTIL_TIMEOUT = 2
  CtrlValues = {0, 1}
  MemStatuses <- OkayOnly
  Garbage <- AnyGarbage
  Memories <- FaultAtEnd
  MaxDelay = 1
  cDepth_Mem = 1
PROPERTY
  StopsOnError
