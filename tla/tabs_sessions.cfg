SPECIFICATION Spec
CONSTANTS
  d1 = d1
  d2 = d2
  d3 = d3
  Activities = {a1, a2}
  Devices = {d1, d2}
  Base = Base
  Tag <- OwnTags
  Unsupported = {d2}
  NoSpec = NoSpec
  NoFragment = NoFragment
  Restored = Restored
  Background = TRUE
  Recreation = TRUE
  MaxPlugs = 2
INVARIANTS
  TabPerDevice
PROPERTIES
  DeparturesInBackground
  TabAppears
CHECK_DEADLOCK FALSE
