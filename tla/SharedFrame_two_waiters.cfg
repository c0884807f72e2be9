SPECIFICATION Spec
CONSTANTS
  Server = server
  Clients = {e1, e2}
  Pollers = {}
  NoProc = nobody
  MaxStarts = 1
  MaxFrames = 1
  MaxCrashes = 0
  MaxDrift = 0
  ConnectDuringCreate = FALSE
  LockTimeouts = TRUE
PROPERTY EveryWaiterWoken
SYMMETRY WaiterSymmetry
CHECK_DEADLOCK FALSE
