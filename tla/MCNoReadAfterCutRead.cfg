SPECIFICATION Spec
CONSTANTS
  MaxPieces = 3
  MaxAudio = 3
  ChunkSizes <- OneOrTwo
PROPERTIES NoReadAfterCutRead
CHECK_DEADLOCK FALSE
