SPECIFICATION Spec
CONSTANTS
  d1 = d1
  d2 = d2
  d3 = d3
  Activities = {a1}
  Devices = {d1, d2, d3}
  Base = Base
  Tag <- OwnTags
  Unsupported = {}
  NoSpec = NoSpec
  NoFragment = NoFragment
  Restored = Restored
  Background = TRUE
  Recreation = FALSE
  MaxPlugs = 4
INVARIANTS
  TypeOK
  ShownIsCurrent
PROPERTIES
  CrashesUnseen
  DirectorySpec
CHECK_DEADLOCK FALSE
