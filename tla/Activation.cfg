SPECIFICATION Spec
CONSTANTS
  Sources = {s1, s2, s3}
  MaxReferences = 2
INVARIANTS TypeOK CountedUnlessStopped HandedOutUsable
