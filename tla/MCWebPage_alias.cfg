SPECIFICATION Spec
CONSTANTS
  Handlers = {h1}
  Aliases <- CommandAlias
  Name <- StatusName
  Lookup <- StatusLookup
  Numbers <- MCRegValues
  RustTasks = FALSE
  Word <- StatusWord
  TypeBits <- StatusWord
  RegAccess = "ro"
  Fields <- StatusFields
  FieldValues <- MCFieldValues
  RegValues <- MCRegValues
  Closures <- MCClosures
  Apply <- MCApply
  Flags <- Nothing
  Commands <- Nothing
  Status <- StatusBits
INVARIANTS EveryClickCounts
