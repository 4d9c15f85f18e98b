SPECIFICATION Spec
CONSTANTS
  MaxBlocks = 3
  Templates <- BigTemplates
  Cuts = {0}
  Images <- MCImages
  OptionSets <- VerifyAll
  StaleHeaders <- MCStale
  InitialBuffer = 3
INVARIANT
  HealthyQuiet
