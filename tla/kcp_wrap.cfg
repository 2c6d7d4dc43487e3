CONSTANTS
  client = client
  server = server
  Endpoints <- BothEnds
  SeqMod = 6
  SndWnd <- Wnd1
  RcvWnd = 2
  FastResend = 1
  FastLimit = 1
  DeadLink = 1
  SegsPerDatagram = 6
  RecvSegs = 6
  MsgBuf = 2
  MaxFrags = 1
  MaxSegs <- SevenOneWay
  MaxQueue = 3
  MaxNet = 1
  MaxAcks = 1
  XmitCap = 2
  Dup = FALSE
SPECIFICATION FairSpec
INVARIANTS OrderedDelivery
PROPERTIES EventuallyDelivered
