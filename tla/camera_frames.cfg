SPECIFICATION Spec
CONSTANTS
  Streams <- MCStreams
  Limit = 16
  MaxOpens = 2
INVARIANTS
  WholeFrames
  EndsExplained
PROPERTIES
  NoneSkipped
CHECK_DEADLOCK FALSE
