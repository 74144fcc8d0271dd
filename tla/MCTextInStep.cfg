SPECIFICATION DialogueSpec
CONSTANTS
  Absent = Absent
  Talks <- DottedTalks
  Words <- MCWords
INVARIANT InStep
CHECK_DEADLOCK FALSE
