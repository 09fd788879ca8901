SPECIFICATION Spec
CONSTANTS
  Handlers = {h1, h2}
  Aliases <- Nothing
  Name <- PairName
  Lookup <- PairLookup
  Numbers <- Nothing
  RustTasks = FALSE
  Word <- PairWord
  TypeBits <- PairWord
  RegAccess = "rw"
  Fields <- PairFields
  FieldValues <- MCFieldValues
  RegValues <- MCRegValues
  Closures <- MCClosures
  Apply <- MCApply
  Flags <- Nothing
  Commands <- Nothing
  Status <- Nothing
PROPERTIES NeighboursKept
