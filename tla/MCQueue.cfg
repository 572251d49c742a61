CONSTANTS
  Item = {a, b, c}
  Null = Null
  Junk = Junk
  BaseCapacity <- MCBaseCapacity
  MaxSize <- MCMaxSize

SPECIFICATION Spec

INVARIANTS
  TypeOK
  InBounds

PROPERTIES
  ImplementsFifo
  ReturnReportsEffect
  PushCompletes
