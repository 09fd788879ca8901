SPECIFICATION Spec
CONSTANTS
  Threads = {t1, t2}
  NoThread = NoThread
  Word <- WoWord
  TypeBits <- WoWord
  RegAccess = "wo"
  Fields <- WoFields
  FieldValues <- MCFieldValues
  RegValues <- MCRegValues
  Closures <- MCClosures
  Apply <- MCApply
  Flags <- WoFlags
  Commands <- WoCommands
  Status <- NoBits
INVARIANTS IInv WriterBits
PROPERTIES NoCommandRetriggered
