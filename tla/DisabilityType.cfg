CONSTANTS
  RandMax <- MCRandMax
  Rand <- MCAnyRand
  Log <- MCLog
  IntMax = 7
  DisabilityNum = 1
  DisabilityDen = 2
  DestinationNum = 1
  DestinationDen = 3
  FinishTime = 5
  FullSizes <- MCFullSizes
  Unset = Unset

SPECIFICATION Spec

INVARIANTS
  DisabilityDetermined

