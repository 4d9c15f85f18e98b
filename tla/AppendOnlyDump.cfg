SPECIFICATION FairSpec
CONSTANTS
  MaxBlocks = 3
  Templates <- AllTemplates
  Cuts = {0, 1, 3}
  Images <- MCImages
  OptionSets <- MCOptions
  StaleHeaders <- MCStale
  InitialBuffer = 3
INVARIANTS
  TypeOK
  InSync
  PositionReported
  CompressedBlockHeld
  LargeContentFollowed
  SuccessMeansWholeFile
  FailureHasCause
  HealthyQuietWhenItFits
PROPERTIES
  ScanSpec
  Terminates
