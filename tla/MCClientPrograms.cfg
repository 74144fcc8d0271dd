SPECIFICATION ProgramsSpec
CONSTANTS
  MaxCalls = 5
  MaxPieces = 2
  Prompt = TRUE
  MaxLines = 3
  PiecesPerChunk = 1
  MaxLibraryCalls = 2
  Absent = Absent
  Talks <- MCTalks
  Words <- MCWords
INVARIANTS
  ProgramsTypeOK
  OwnWholeReply
  MessageIsAnswered
  SpeaksItsOwnText
  InterruptsAreAnswered
  SaysTheReply
  FileIsWhole
  InStep
  SpeechIsCarried
PROPERTIES
  CallReturns
  SayEnds
CHECK_DEADLOCK FALSE
