SPECIFICATION ModuleSpec
CONSTANTS
  MaxCalls = 6
  MaxPieces = 1
  Prompt = FALSE
  MaxLines = 4
  PiecesPerChunk = 1
INVARIANTS SpeaksItsOwnText
CHECK_DEADLOCK FALSE
