SPECIFICATION Spec
CONSTANTS
  BusSize = 4
  Sizes <- MCSizes
  Limit = 32
  Wraps = TRUE
  Declarations <- MCDeclarations
  Lengths <- MCLengths
  Offsets <- MCOffsets
  MaxCount = 3
INVARIANTS InBounds
