SPECIFICATION Spec
CONSTANTS
  Server = server
  Clients = {e1, p1}
  Pollers = {p1}
  NoProc = nobody
  MaxStarts = 2
  MaxFrames = 2
  MaxCrashes = 1
  MaxDrift = 1
  ConnectDuringCreate = TRUE
  LockTimeouts = TRUE
INVARIANTS TypeOK DataAccessExclusive WholeFrames
PROPERTY ImplementsCounter
CHECK_DEADLOCK FALSE
