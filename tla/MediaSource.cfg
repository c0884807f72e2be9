SPECIFICATION FairSpec
CONSTANTS
  Callers = {p1, p2}
  Nobody = nobody
  Capture = capture
INVARIANTS TypeOK ClientNotShared StreamOutlivesThread ThreadNotOverwritten StateMatchesParts
PROPERTIES SamplesOnlyWhileStarted CallsReturn
