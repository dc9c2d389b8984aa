SPECIFICATION Spec
CONSTANTS
  alice = alice  bob = bob  p1 = p1  p2 = p2  v1 = v1  dirA = dirA  dirB = dirB
  Uids <- MCUids
  Predicates <- MCPredicates
  Values <- MCValues
  SafeId <- MCSafeId
  NotFound = NotFound
  NoFile = NoFile
  Torn = Torn
  MaxCalls = 3
INVARIANTS
  TypeOK
PROPERTIES
  LoadRestoresSaved
  LoadsWholeUsers
CHECK_DEADLOCK FALSE
