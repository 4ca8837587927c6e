SPECIFICATION FairSpec
CONSTANTS
  p1 = p1
  p2 = p2
  l1 = l1
  l2 = l2
  m = m
  MSG = MSG
  INFO = INFO
  NoLine = NoLine
  Missing = Missing
  Callers <- MCCallers
  Lines <- MCLines
  LengthOf <- MCLengthOf
  LevelOf <- MCLevelOf
  Configs <- MCConfigs
  DefaultFileSize = 2
  DefaultBatchSize = 2
  DefaultFlushSize = 3
  RingSize = 3
  StreamBuffer = 2
  Kilo = 2
  SizeLimit = 8
  MaxEdits = 1
  MaxDay = 1
INVARIANTS
  TypeOK
  FilesContinueInRing
  ConsoleOrder
  EndsFlushed
PROPERTIES
  StoredLineIsWritten
  DestructorReturns
