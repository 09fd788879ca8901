SPECIFICATION Spec
CONSTANTS
  Handlers = {h1, h2}
  Aliases <- PageAlias
  Name <- PageName
  Lookup <- PageLookup
  Numbers <- PageNumbers
  RustTasks = TRUE
  Word <- PageWord
  TypeBits <- PageType
  RegAccess = "rw"
  Fields <- PageFields
  FieldValues <- MCFieldValues
  RegValues <- MCRegValues
  Closures <- MCClosures
  Apply <- MCApply
  Flags <- PageFlags
  Commands <- PageCommands
  Status <- PageStatus
INVARIANTS TypeOK
PROPERTIES NoFlagLost NoCommandRetriggered UndisturbedIsAtomic
