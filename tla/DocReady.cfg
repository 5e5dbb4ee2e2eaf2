SPECIFICATION FairSpec
CONSTANTS
  Streams <- MCStreams
  CompsOf <- MCComps
  NameOf <- MCNames
  PrioBase = 100
  PrflxPriority = 7
  MaxConnChecks = 10
  MaxRetransmissions = 1
  MaxPending = 2
  Agents <- MCAgents
  Tie <- MCTie
  Foreign <- MCForeign
  Scenarios <- ReadyScenarios
PROPERTY BothReady
CHECK_DEADLOCK FALSE
