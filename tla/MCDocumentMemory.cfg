SPECIFICATION Spec
CONSTANTS
  d1 = d1  d2 = d2  t1 = t1  t2 = t2  m1 = m1  m2 = m2
  e1 = e1  e2 = e2  q1 = q1  q2 = q2  w1 = w1
  DocIds <- MCDocIds
  Pieces <- MCPieces
  MetadataValues <- MCMetadata
  Queries <- MCQueries
  Filters <- MCFilters
  Dim <- MCDim
  Cosine <- MCCosine
  Preview <- MCPreview
  WordsOf <- MCContains
  NonFinite <- MCNonFinite
  Unset = Unset
  NoIndex = NoIndex
  NoFile = NoFile
  Torn = Torn
  MaxPieces = 2
  MaxHits = 2
  MaxCalls = 3
INVARIANTS
  HoldsWhatWasAdded
  SearchFindsBest
PROPERTIES
  LoadRestoresDocuments
CHECK_DEADLOCK FALSE
