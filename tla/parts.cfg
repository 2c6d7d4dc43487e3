CONSTANTS
  ClockMod = 32
  Boots = {26}
  Interval = 2
  JumpLimit = 2
  MinRto = 1
  DefRto = 2
  MaxRto = 4
  NoDelay = 1
  FastLimit = 1
  ProbeInit = 1
  ProbeLimit = 3
  MaxGap = 3
  Horizon = 11
  BeatAfter = 2
  HeartTimeMax = 20
  StartDelay = 2
  Lag = 0
  MaxLosses = 4
  MaxDelay = 3
  BeatHorizon = 40
  Heads = {snd_queue, snd_buf, rcv_buf}
  Nodes = {s1, s2, s3, s4}
  Null = Null
  Pieces <- TextPieces
  MaxPieces = 3
SPECIFICATION PartsSpec
INVARIANTS
  ResentInTime RttMeasured ProbesKeepComing CheckNotLate
  AliveKept DeadGivenUp
  TextReadBack
PROPERTIES NotResentEarly IsSequence
CHECK_DEADLOCK FALSE
