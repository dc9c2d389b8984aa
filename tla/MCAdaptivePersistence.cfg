SPECIFICATION PersistSpec
CONSTANTS
  k1 = k1  k2 = k2  k3 = k3
  v1 = v1  v2 = v2
  Keys <- MCKeys
  Values <- MCValues
  NotFound = NotFound
  VocabCap = 2
  ShardCapacity = 2
  Seeds <- MCSeeds
  DefaultSeed <- MCDefaultSeed
  NoFile = NoFile
  Torn = Torn
  Backends = {"plain", "sealed", "redb"}
  Secrets = {"s1", "s2"}
  NoSecret = "none"
  MaxCalls = 5
INVARIANTS
  PersistTypeOK
  ReloadIsStable
PROPERTIES
  LoadRestoresSaved
CHECK_DEADLOCK FALSE
