SPECIFICATION Spec
CONSTANTS
  Buffers = {b1, b2}
  Thread = worker
INVARIANT NoThreadBeforeCreate
