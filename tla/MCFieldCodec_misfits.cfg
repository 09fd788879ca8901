SPECIFICATION Spec
CONSTANTS
  Width <- MCWidth
  PosLimit = 8
  Declarations <- MCDeclarations
  Precision = 3
  Number <- MCNumber
  Digits <- MCNumber
INVARIANTS MisfitsRefused
CHECK_DEADLOCK FALSE
