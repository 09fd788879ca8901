SPECIFICATION FairPageSpec
CONSTANTS
  Handlers = {h1}
  Timers = {r1, r2}
  Selected <- MCSelected
  Variants <- MCVariants
  Aliases <- Nothing
  Name <- MCName
  Lookup <- MCLookup
  Numbers <- MCRegValues
  RustTasks = TRUE
  Word <- MCWord
  TypeBits <- MCWord
  RegAccess = "rw"
  Fields <- MCFields
  FieldValues <- MCValues
  RegValues <- MCRegValues
  Closures <- MCClosures
  Apply <- MCApply
  Flags <- Nothing
  Commands <- Nothing
  Status <- Nothing
INVARIANTS DisplayTypeOK NothingInvented
PROPERTIES EventuallyLive
