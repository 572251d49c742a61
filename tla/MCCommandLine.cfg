CONSTANTS
  Options <- MCOptions
  Argument <- MCArgument
  CommandLines <- MCCommandLines
  IntMax = 127
  LongMax = 16383
  None = None
  Junk = Junk

SPECIFICATION Spec

INVARIANTS
  TypeOK
  InStep
  LastOneWins
  UnknownStops
  RefusedForCause
