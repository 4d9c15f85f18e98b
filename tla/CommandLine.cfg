SPECIFICATION Spec
CONSTANTS
  HeapArgs = 4
  AppendOnlyArgs = 5
  ArgLists <- MCArgLists
  Compressions <- MCCompressions
  ControlFileSize = 1
  AppendOnlySize = 8
  BlockZeroSize = 4
INVARIANTS
  TypeOK
  DumpReady
  AcceptsGrammar
  ReadAsGiven
