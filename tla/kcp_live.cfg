CONSTANTS
  client = client
  server = server
  Endpoints <- BothEnds
  SeqMod = 16
  SndWnd <- Wnd2
  RcvWnd = 2
  FastResend = 1
  FastLimit = 1
  DeadLink = 1
  SegsPerDatagram = 6
  RecvSegs = 6
  MsgBuf = 2
  MaxFrags = 1
  MaxSegs <- TwoOneWay
  MaxQueue = 3
  MaxNet = 1
  MaxAcks = 1
  XmitCap = 2
  Dup = FALSE
SPECIFICATION FairSpec
PROPERTIES EventuallyAcked WindowReopens
