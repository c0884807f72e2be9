SPECIFICATION Spec
CONSTANTS
  Server = server
  Clients = {p1}
  Pollers = {p1}
  NoProc = nobody
  MaxStarts = 1
  MaxFrames = 2
  MaxCrashes = 1
  MaxDrift = 0
  ConnectDuringCreate = FALSE
  LockTimeouts = TRUE
INVARIANT MutexOnlyInside
CHECK_DEADLOCK FALSE
