SPECIFICATION FairSpec
CONSTANTS
  a1 = a1  None = None
  Apps <- OneApp
  Intervals <- ZeroAndTwo
  FdMin = 1
  RemovesSaved = FALSE
  MaxTimers = 3
  MaxSlow = 2
INVARIANTS TypeOK Sorted GoneStaysGone ForeverStaysListed SavedNodesListed Punctual
PROPERTIES NothingDueIsSkipped TimersFire PassesEnd
CHECK_DEADLOCK FALSE
