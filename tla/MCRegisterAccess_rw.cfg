SPECIFICATION Spec
CONSTANTS
  Threads = {t1, t2}
  NoThread = NoThread
  Word <- RwWord
  TypeBits <- RwTypeBits
  RegAccess = "rw"
  Fields <- RwFields
  FieldValues <- MCFieldValues
  RegValues <- MCRegValues
  Closures <- MCClosures
  Apply <- MCApply
  Flags <- RwFlags
  Commands <- RwCommands
  Status <- RwStatus
INVARIANTS TypeOK SeenIsCurrent
PROPERTIES NoFlagLost NoCommandRetriggered NeighboursKept AtomicSpec
