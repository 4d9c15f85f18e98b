SPECIFICATION Spec
CONSTANTS
  Inputs <- MCInputs
  NameLen = 64
  TypesMax = 15
  EncodeSize = 98
  InitialSize = 8
  AllocLimit = 120
  InflateSize = 64
  PrintMax = 8
  PrintLengths <- MCPrintLengths
  WordRange = 2000
INVARIANTS
  TypeOK
  InsideTuple
  LineFits
  CallbacksFit
  SameTupleSameReport
  WrongLengthRefused
  SmallTuplesNeverEnd
PROPERTIES
  RowSpec
