SPECIFICATION Spec
CONSTANT Jobs <- MCJobs
INVARIANTS
  EncoderInv
  DecoderInv
  Restored
  ShortestStream
CHECK_DEADLOCK FALSE
