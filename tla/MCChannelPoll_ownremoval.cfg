SPECIFICATION Spec
CONSTANTS
  c1 = c1  c2 = c2  c3 = c3  a1 = a1  L = L  None = None
  Channels <- TwoChannels
  FdOf <- TwoFds
  Apps <- OneApp
  Masks <- AllMasks
  RemovesOwn = TRUE
  SharesChannels = FALSE
INVARIANTS WalkIsSafe
CHECK_DEADLOCK FALSE
