SPECIFICATION Spec
CONSTANTS
  p1 = p1  P1 = P1  p2 = p2  a1 = a1
  v1 = v1  V1 = V1  v2 = v2  store = store
  Keys <- MCKeys
  Values <- MCValues
  AuditKeys <- MCAuditKeys
  Fold <- MCFold
  FoldValue <- MCFoldValue
  AuditKind = store
  UserValues <- MCUserValues
  NotFound = NotFound
  VocabCap = 2
  ShardCapacity = 2
  MaxFacts = 2
  MaxShards = 2
INVARIANTS
  TotalErasure
