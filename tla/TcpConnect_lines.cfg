SPECIFICATION FairSpec
CONSTANTS
  Buffer = 5
  MaxRoom = 4
  MaxSent = 4
  MemoryFails = FALSE
PROPERTIES PingsAnswered
CHECK_DEADLOCK FALSE
