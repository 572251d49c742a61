CONSTANTS
  NumServers = 2
  Kind <- MCKind
  Results <- MCResults
  IntMax = 15
  SizeMax = 127
  MayFail = TRUE
  All = All
  TestCount = 2
  Denominator = 12

SPECIFICATION TestsSpec

INVARIANTS
  TypesMakeUpTotal
  StatIsMean
  QueueSizeIsMean
  AveragesAreMeans
