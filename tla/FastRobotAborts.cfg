CONSTANTS
  NStandard = 1
  NRobotic = 1
  SimulationTime = 9
  NumClients = 4
  ArrivalTimes <- MCArrivalTimes
  DisabilityType <- MCDisabilityType
  Destination <- MCDestination
  ServiceTime <- MCServiceTime
  BoostNum = 3
  BoostDen = 1
  IntMax = 127
  FullSizes <- MCFullSizes
  Junk <- MCJunk

SPECIFICATION Spec

INVARIANTS
  NeverAborts
