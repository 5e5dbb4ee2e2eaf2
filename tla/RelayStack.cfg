SPECIFICATION Spec
CONSTANTS
  MaxQueue = 2
  MsgLen = 2
  ReplyLen = 10
  ReplySkip = 6
  ServerHello = 2
  ClientHello = 1
  Kinds <- AllKinds
  HeaderLen = 2
  BodyLen = 1
  PadLen = 1
  Garbage <- MCGarbage
  MaxSends = 3
  MaxFrames = 2
INVARIANTS Consistent SentWhole FramesRead
CHECK_DEADLOCK FALSE
