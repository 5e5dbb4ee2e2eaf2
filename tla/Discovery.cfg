SPECIFICATION FairSpec
CONSTANTS
  s1 = s1
  s2 = s2
  Streams <- TwoStreams
  Servers <- TwoServers
  Addrs = {a1}
  HostAddr = h
  MaxGathers = 2
INVARIANTS Consistent NoRedundantCandidates RefreshIsScheduled
PROPERTIES NoLateCandidate DiscoveryEnds
CHECK_DEADLOCK FALSE
