SPECIFICATION ChannelSpec
CONSTANTS
  NULL = NULL
  Thread = {t1, t2, t3}
  Putters = {t2, t3}
  Getters = {t1, t2, t3}
  Item = {a, b}
  Capacity = 2
  Calls = {"yield", "wait", "run_until"}
  MayTry = TRUE
  MayReturn = TRUE
  Delays = {1}
  EndTimes = {2}
  AutoFree = {}
  SeqModulus = 16
  MaxTime = 2
  MaxSeq = 1
  MaxDepth = 2
INVARIANTS
  ListsAreDisjoint
  NoLostWakeup
PROPERTIES
  ImplementsFifo
