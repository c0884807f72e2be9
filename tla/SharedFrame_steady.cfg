SPECIFICATION FairSpec
CONSTANTS
  Server = server
  Clients = {e1, p1}
  Pollers = {p1}
  NoProc = nobody
  MaxStarts = 1
  MaxFrames = 3
  MaxCrashes = 0
  MaxDrift = 1
  ConnectDuringCreate = FALSE
  LockTimeouts = FALSE
INVARIANT CountCovers
PROPERTIES FreshDelivery ImplementsChannel FramesArrive
CHECK_DEADLOCK FALSE
