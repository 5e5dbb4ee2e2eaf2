SPECIFICATION Spec
CONSTANTS
  Streams <- TwoStreams
  CompsOf <- TwoStreamComps
  PrioBase = 100
  PrflxPriority = 7
  MaxConnChecks = 10
  MaxRetransmissions = 0
  MaxPending = 2
  Offers <- TwoOffers
  Peers <- TwoPeers
  Mapped <- TwoMapped
  PeerPriority = 7
  Roles = {TRUE, FALSE}
  Starts <- TwoStarts
INVARIANTS Consistent StateFitsPairs SelectedIsBest
CHECK_DEADLOCK FALSE
