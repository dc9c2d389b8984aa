SPECIFICATION Spec
CONSTANTS
  k1 = k1  k2 = k2  k3 = k3
  v1 = v1  v2 = v2  v3 = v3
  Keys <- MCKeys
  Values <- MCValues
  NotFound = NotFound
  VocabCap = 2
  ShardCapacity = 2
  MaxShards = 3
INVARIANTS
  TypeOK
  BooksAgree
  NoResidual
  ShardLoadBounded
PROPERTIES
  StableRowsAndPlaces
  ImplementsFactBank
