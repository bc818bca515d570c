SPECIFICATION FairSpec
CONSTANTS
  NumChunks = 3
  TRANSFERS_PER_CHUNK = 2
  CYCLES_UNTIL_TIMEOUT = 2
  CtrlValues = {0, 1, 2}
  MemStatuses <- OkayOnly
  Garbage <- AnyGarbage
  Memories <- SoundAndFaulty
  MaxDelay = 1
  cDepth_Mem = 1
INVARIANTS
  TypeOK
  PassMeansGood
  NoFalseAlarm
  CommandsInBounds
  WrittenBeforeRead
PROPERTY
  VerdictReached
