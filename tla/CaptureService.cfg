SPECIFICATION FairSpec
CONSTANTS
  Clients = {c1, c2}
  MaxIdle = 2
  MaxFaults = 1
  MaxLeaks = 1
  MaxRestarts = 1
INVARIANTS TypeOK StopsOnlyWhenUnused StoppedReported
PROPERTIES OnDemandStart OnDemandStop StopHonoured ImplementsCounter
CHECK_DEADLOCK FALSE
