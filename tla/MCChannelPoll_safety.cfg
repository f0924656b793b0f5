SPECIFICATION Spec
CONSTANTS
  c1 = c1  c2 = c2  c3 = c3  a1 = a1  L = L  None = None
  Channels <- ThreeChannels
  FdOf <- FdsReused
  Apps <- OneApp
  Masks <- AllMasks
  RemovesOwn = FALSE
  SharesChannels = FALSE
INVARIANTS SetsMatchMasks MaxFdCovers WalkIsSafe EventsServed
PROPERTIES OthersStay MarksTakeEffect
CHECK_DEADLOCK FALSE
