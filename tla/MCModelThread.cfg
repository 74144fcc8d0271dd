SPECIFICATION MCSpec
CONSTANTS
  r1 = r1
  r2 = r2
  t1 = t1
  NoRequest = NoRequest
  Requests <- TwoRequests
  Streamed <- OnlyFirst
  ChunkCap = 2
  MaxChunks = 4
  FinalMarked = FALSE
  CacheOn = TRUE
  Texts <- OneText
  TextOf <- TextOfRequest
INVARIANTS
  TypeOK PendingCountExact ChannelInOrder EndedIsWhole LittleLateWork
  InvOfEither
PROPERTIES
  ImplementsService OnlySuccessCached QueueMoves CallerIsAnswered
