SPECIFICATION Spec
CONSTANTS
  MaxPieces = 3
  MaxAudio = 3
  ChunkSizes <- OneOrTwo
INVARIANT StoppedFollowsError
CHECK_DEADLOCK FALSE
