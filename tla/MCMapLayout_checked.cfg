SPECIFICATION Spec
CONSTANTS
  BusSize = 4
  Sizes <- MCSizes
  Limit = 32
  Wraps = FALSE
  Declarations <- MCDeclarations
  Lengths <- MCLengths
  Offsets <- MCOffsets
  MaxCount = 3
INVARIANTS TypeOK InBounds ListedIsServed ServedIsListed
