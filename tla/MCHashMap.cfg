CONSTANTS
  a = a
  b = b
  c = c
  d = d
  Key = {a, b, c, d}
  Value = {v, w}
  Null = Null
  Hash <- MCHash
  MinCap <- MCMinCap
  NaN = NaN
  BaseCap <- MCBaseCap
  Factors <- MCFactors
  Powers <- MCPowers

SPECIFICATION Spec

INVARIANTS
  TypeOK
  RobinHood
  EachKeyOnce

PROPERTIES
  ImplementsDictionary
  CallsReturn
