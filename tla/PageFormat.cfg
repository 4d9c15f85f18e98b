SPECIFICATION Spec
CONSTANTS
  Pages <- MCPages
  OptionSets <- MCOptions
  BytesRead <- MCBytesRead
  BlockSize = 128
  StructSize = 28
  MetaSize = 24
INVARIANTS
  TakenForWhatItIs
  NoFalseAlarm
  AllInterpreted
  DumpsWhatWasRead
  SilenceMeansSound
  NodesWhileSane
