SPECIFICATION FairSpec
CONSTANTS
  NoFile = NoFile
  MainFiles <- MCMains
  ToastFiles <- MCToasts
  OptionSets <- ToastOptions
  MainPages <- FetchPages
  MaxPages = 2
  Cuts = {0, 1, 3}
  BlockSize = 6
  HeaderSize = 2
  WordRange = 1000
INVARIANTS
  BlockNumberTrue
  
  ValueRestored
  NoFalseAlarmWhenFound
PROPERTIES
  Terminates
