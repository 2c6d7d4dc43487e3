CONSTANTS
  client = client
  server = server
  Endpoints <- BothEnds
  SeqMod = 16
  SndWnd <- Wnd2
  RcvWnd = 2
  FastResend = 1
  FastLimit = 1
  DeadLink = 1
  SegsPerDatagram = 1
  RecvSegs = 1
  MsgBuf = 2
  MaxFrags = 1
  MaxSegs <- OneEach
  MaxQueue = 3
  MaxNet = 2
  MaxAcks = 1
  XmitCap = 2
  Dup = TRUE
SPECIFICATION Spec
INVARIANTS TypeOK NothingLost
PROPERTIES NeverBack
SYMMETRY EndsSwapped
