CONSTANTS
  NStandard = 2
  NRobotic = 2
  SimulationTime = 10
  NumClients = 5
  ArrivalTimes <- MCArrivalTimes
  DisabilityType <- MCDisabilityType
  Destination <- MCDestination
  ServiceTime <- MCServiceTime
  BoostNum = 2
  BoostDen = 1
  IntMax = 127
  FullSizes <- MCFullSizes
  Junk <- MCJunk

SPECIFICATION Spec

PROPERTIES
  ImplementsServiceDesk
