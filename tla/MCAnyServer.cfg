SPECIFICATION Spec
CONSTANTS
  MaxPieces = 3
  MaxAudio = 3
  ChunkSizes <- OneOrTwo
INVARIANTS TypeOK RepliesAreComplete
PROPERTIES NothingAfterTornWrite ModelIsReleased
CHECK_DEADLOCK FALSE
