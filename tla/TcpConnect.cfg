SPECIFICATION FairSpec
CONSTANTS
  Buffer = 2
  MaxRoom = 2
  MaxSent = 6
  MemoryFails = TRUE
INVARIANTS AnswersIntact InputIntact AnswersAwaitWrite DeletedOnce
PROPERTIES AnswersLeave EofDeletes
CHECK_DEADLOCK FALSE
