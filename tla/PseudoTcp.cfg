SPECIFICATION Spec
CONSTANTS
  a = a
  b = b
  Ends = {a, b}
  RcvBufSize = 3
  SndBufSize = 4
  MaxXmit = 2
  MaxXmitConnecting = 2
  DupAckWrap = 5
  Scenarios <- AllScenarios
INVARIANTS Consistent Reassembly SegmentsCoverBuffer WindowHonoured Progresses
CHECK_DEADLOCK FALSE
