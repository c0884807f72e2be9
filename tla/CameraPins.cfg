SPECIFICATION FairPinSpec
CONSTANTS
  Buffers = {b1, b2}
  Thread = worker
  MaxAttempts = 2
  MaxFrames = 2
INVARIANTS TypeOK CommandsObeyed CameraFollowsFilter NoLostWakeup SamplesOutlivePin NoStepBack
PROPERTIES CallsReturn FramesShown ImplementsAllocator
