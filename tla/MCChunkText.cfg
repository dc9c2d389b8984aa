SPECIFICATION ChunkSpec
CONSTANTS
  MaxParagraphs = 2
  MaxWords = 7
  MaxSize = 5
  MaxOverlap = 6
INVARIANTS
  NoWordLost
  OverlapAsAsked
PROPERTIES
  Terminates
CHECK_DEADLOCK FALSE
