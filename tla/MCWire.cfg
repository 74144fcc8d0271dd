SPECIFICATION Spec
CONSTANTS
  Nothing = Nothing
  Null = Null
  Misfit = Misfit
  EmptyList = EmptyList
  Events <- MCEvents
  Foreign <- MCForeign
  MaxMessages = 2
  Followers <- MCFollowers
  Size <- MCSize
  PipeSize = 2
  ChunkSize = 2
  MaxHeader = 3
  MaxData = 2
  MaxPayload = 2
INVARIANT TypeOK
PROPERTIES ImplementsChannel WholeIsRead
CHECK_DEADLOCK FALSE
