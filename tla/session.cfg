SPECIFICATION FairSession
CONSTANTS
  MaxConnect = 2
  a1 = a1
  a2 = a2
  Addrs <- TwoAddrs
  NoAddr = NoAddr
  Key <- TwoKeys
  HeartTimeMax = 0
  MaxSessions = 2
  Disconnects = FALSE
INVARIANTS
  AnswersSender
  OneSession
  SessionReady
PROPERTIES LateGivesBack GetsConnected
\* The program stops at the first fault.
CHECK_DEADLOCK FALSE
