SPECIFICATION Spec
CONSTANTS
  MaxConnect = 2
  a1 = a1
  a2 = a2
  a3 = a3
  Addrs <- ThreeAddrs
  NoAddr = NoAddr
  Key <- ThreeKeys
  HeartTimeMax = 0
  MaxSessions = 3
  Disconnects = TRUE
INVARIANTS
  TypeOK
  OneSlotPerAddress
  OwnSession
  NoLeak
\* The program stops at the first fault.
CHECK_DEADLOCK FALSE
