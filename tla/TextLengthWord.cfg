SPECIFICATION Spec
CONSTANTS
  Inputs <- LengthInputs
  NameLen = 64
  TypesMax = 15
  EncodeSize = 98
  InitialSize = 8
  AllocLimit = 120
  InflateSize = 64
  PrintMax = 8
  PrintLengths <- MCPrintLengths
  WordRange = 2000
INVARIANTS
  LongTextRestored
