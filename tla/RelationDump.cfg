SPECIFICATION Spec
CONSTANTS
  NoFile = NoFile
  MainFiles <- MCMains
  ToastFiles <- JustNone
  OptionSets <- PlainOptions
  MainPages <- AllPages
  MaxPages = 2
  Cuts = {0, 1, 3, 5}
  BlockSize = 6
  HeaderSize = 2
  WordRange = 1000
INVARIANTS
  TypeOK
  NoFalseAlarm
PROPERTIES
  RangeSpec
