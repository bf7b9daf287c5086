SPECIFICATION ChannelFairSpec
CONSTANTS
  NULL = NULL
  Thread = {t1, t2, t3}
  Putters = {t2, t3}
  Getters = {t1}
  Item = {a, b}
  Capacity = 1
  Calls = {"yield", "run_until"}
  MayTry = FALSE
  MayReturn = FALSE
  Delays = {1}
  EndTimes = {2}
  AutoFree = {}
  SeqModulus = 16
  MaxTime = 2
  MaxSeq = 2
  MaxDepth = 2
PROPERTIES
  WaitersAreWoken
  SoleGetterIsServed
