CONSTANTS
  NStandard = 1
  NRobotic = 1
  SimulationTime = 8
  NumClients = 4
  ArrivalTimes <- MCArrivalTimes
  DisabilityType <- MCDisabilityType
  Destination <- MCDestination
  ServiceTime <- MCServiceTime
  BoostNum = 5
  BoostDen = 2
  IntMax = 127
  FullSizes <- MCFullSizes
  Junk <- MCJunk

SPECIFICATION TestSpec

INVARIANTS
  AllFreed
  NoClientTwice
  ServiceTimesAddUp

PROPERTIES
  NoDoubleFree
  TestEnds
