CONSTANTS
  Characters = {65, 162, 233, 290, 8226}
  MaxLength = 3
SPECIFICATION Spec
INVARIANTS
  TypeOK
  SessionReadsAscii
  BytesGoThrough
  EchoReturnsText
CHECK_DEADLOCK FALSE
