SPECIFICATION Spec
CONSTANTS
  Len = 4
  Byte <- MCByte
  Calls <- MCCalls
  F <- Increment
  Threads = {t1, t2}
  Volatile <- MCVolatile
  NoCall = NoCall
INVARIANTS TypeOK
PROPERTIES UndisturbedIsAtomic ElementSpec
