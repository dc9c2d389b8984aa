SPECIFICATION AuditSpec
CONSTANTS
  store = store  forget = forget
  Kinds <- MCKinds
  Capacity = 2
  VocabCap = 1
  NoTrail = NoTrail
  CutShort = CutShort
  MaxClock = 2
  MaxEvents = 3
INVARIANTS
  HoldsMostRecent
  CounterCoversLog
  LayersAgree
  IdsUnique
CHECK_DEADLOCK FALSE
