CONSTANTS
  client = client
  server = server
  Endpoints <- BothEnds
  SeqMod = 16
  SndWnd <- Wnd2
  RcvWnd = 3
  FastResend = 1
  FastLimit = 1
  DeadLink = 1
  SegsPerDatagram = 2
  RecvSegs = 2
  MsgBuf = 2
  MaxFrags = 4
  MaxSegs <- FourOneWay
  MaxQueue = 4
  MaxNet = 1
  MaxAcks = 1
  XmitCap = 2
  Dup = FALSE
SPECIFICATION Spec
INVARIANTS OrderedDelivery WindowKept QueueNeverStuck
PROPERTIES ReliableStream
