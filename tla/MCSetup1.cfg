CONSTANTS
  NStandard = 1
  NRobotic = 1
  SimulationTime = 11
  NumClients = 5
  ArrivalTimes <- MCArrivalTimes
  DisabilityType <- MCDisabilityType
  Destination <- MCDestination
  ServiceTime <- MCServiceTime
  BoostNum = 2
  BoostDen = 1
  IntMax = 127
  FullSizes <- MCFullSizes
  Junk <- MCJunk

SPECIFICATION Spec

INVARIANTS
  TypeOK
  NoArrivalMissed
  NoClientLost
  NoClientTwice
  ServiceTimesAddUp
  ServerStatsAddUp
  LittlesLaw
  NeverAborts

PROPERTIES
  ImplementsServiceDesk
  Terminates
