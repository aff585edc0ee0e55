SPECIFICATION Spec
CONSTANTS
  Arrays <- MCArrays
  Shape <- MCShape
  Data = {1}
  Zero = 0
  Junk = 9
  Systems <- MCSystems
  Smalls = {3}
  Larges = {5}
  ALIGN = 2
  HEADER = 2
  POINTER = 1
  CONTROL = 5
  MAX_ALLOC_CHUNK = 14
  MIN_SLOP = 2
  first_pool_slop <- MCFirstSlop
  extra_pool_slop <- MCExtraSlop
INVARIANTS MemoryInv Accounted Parcelled
PROPERTY FlatSpec
