SPECIFICATION Spec
CONSTANTS
  N = 2
  Modes <- MCModes
  MaxIds = 3
  MaxRetransmits = 1
  MaxPackets = 2
  MaxKeepalives = 2
  MaxCalls = 4
INVARIANTS TimersFollowSockets NothingStranded KeepalivesRemembered
PROPERTIES FailsForCause
CHECK_DEADLOCK FALSE
