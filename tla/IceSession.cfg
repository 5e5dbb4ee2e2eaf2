SPECIFICATION FairSpec
CONSTANTS
  Streams <- MCStreams
  CompsOf <- MCComps
  NameOf <- MCNames
  PrioBase = 100
  PrflxPriority = 7
  MaxConnChecks = 10
  MaxRetransmissions = 1
  MaxPending = 2
  Agents <- MCAgents
  Tie <- MCTie
  Foreign <- MCForeign
  Scenarios <- MCScenarios
INVARIANTS Agree
PROPERTIES RolesSettle Connects
CHECK_DEADLOCK FALSE
