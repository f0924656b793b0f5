SPECIFICATION Spec
CONSTANTS
  listener = listener  c1 = c1  other = other
  Channels = {listener, c1, other}
  Conns = {c1, other}
  FdOf <- Fd
  NSlots = 6
  MaxEvents = 2
  None = None
  Masks = {}
INVARIANTS PongsCanLeave
CHECK_DEADLOCK FALSE
