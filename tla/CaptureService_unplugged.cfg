SPECIFICATION FairSpec
CONSTANTS
  Clients = {c1}
  MaxIdle = 1
  MaxFaults = 1
  MaxLeaks = 0
  MaxRestarts = 0
PROPERTY KeepsCapturing
CHECK_DEADLOCK FALSE
