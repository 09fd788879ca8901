SPECIFICATION Spec
CONSTANTS
  Width <- MCWidth
  PosLimit = 8
  Declarations <- MCDeclarations
  Precision = 3
  Number <- MCNumber
  Digits <- MCNumber
INVARIANTS TypeOK CompiledIsSound GetterIsExact SetIsRead PageAgrees WordsAgree LegalAccepted
PROPERTIES OnlyItsBits
CHECK_DEADLOCK FALSE
