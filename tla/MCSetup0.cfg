CONSTANTS
  NStandard = 2
  NRobotic = 0
  SimulationTime = 22
  NumClients = 3
  ArrivalTimes <- MCArrivalTimes
  DisabilityType <- MCDisabilityType
  Destination <- MCDestination
  ServiceTime <- InitTable
  BoostNum = 1
  BoostDen = 1
  IntMax = 127
  FullSizes <- MCFullSizes
  Junk <- MCJunk

SPECIFICATION Spec

INVARIANTS
  ServiceTimesAddUp
  NeverAborts

PROPERTIES
  ImplementsServiceDesk
