SPECIFICATION Spec
CONSTANTS
  Configs <- MCConfigs
  Received <- MCReceived
  Types <- MCTypes
  Unknown <- MCUnknown
  MaxUnknowns = 2
INVARIANTS WithinBuffer WalkInside BuiltIsAccepted FoundIsWritten
CHECK_DEADLOCK FALSE
