SPECIFICATION FairSpec
CONSTANTS
  Streams <- OneStream
  CompsOf <- OneComp
  PrioBase = 100
  PrflxPriority = 7
  MaxConnChecks = 2
  MaxRetransmissions = 1
  MaxPending = 2
  Offers <- LiveOffers
  Peers <- LivePeers
  Mapped <- OneMapped
  PeerPriority = 7
  Roles = {TRUE, FALSE}
  Starts <- LiveStarts
PROPERTIES TimerStops Concludes
CHECK_DEADLOCK FALSE
