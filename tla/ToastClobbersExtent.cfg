SPECIFICATION Spec
CONSTANTS
  NoFile = NoFile
  MainFiles <- MCMains
  ToastFiles <- JustPart
  OptionSets <- Fetching
  MainPages <- ClobberPages
  MaxPages = 2
  Cuts = {0}
  BlockSize = 6
  HeaderSize = 2
  WordRange = 1000
INVARIANT
  ItemsJudgedFairly
