SPECIFICATION FairSpec
CONSTANTS
  MaxConnect = 1
  a1 = a1
  a2 = a2
  a3 = a3
  Addrs <- TwoAddrs
  NoAddr = NoAddr
  Key <- TwoKeys
  HeartTimeMax = 0
  MaxSessions = 2
  Disconnects = FALSE
PROPERTIES
  RefusedIfConnected
\* The program stops at the first fault.
CHECK_DEADLOCK FALSE
