SPECIFICATION Spec
CONSTANTS
  Files <- MCFiles
  Settings <- MCSettings
INVARIANTS ShownComplete InStep
PROPERTY CallsReturn
CHECK_DEADLOCK FALSE
