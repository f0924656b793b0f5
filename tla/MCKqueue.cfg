SPECIFICATION Spec
CONSTANTS
  listener = listener  c1 = c1  other = other
  Channels = {listener, c1, other}
  Conns = {c1}
  FdOf <- Fd
  NSlots = 5
  MaxEvents = 2
  None = None
  Masks = {{"error"}, {"read", "error"}}
INVARIANTS FrontIsWatched AskedIsWatched SlotsMatchMasks EventsReachOwners
CHECK_DEADLOCK FALSE
