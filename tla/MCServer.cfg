SPECIFICATION FairSpec
CONSTANTS
  None = None  Main = Main  app = app
  Number = 2
  MaxLoop = 2
  Users <- Threads
  Apps = {app}
  MaxAppTurns = 1
  Clients = {k1, k2, k3}
INVARIANTS InTurn ReadyWhenListed
PROPERTIES ClientsServed
CHECK_DEADLOCK FALSE
