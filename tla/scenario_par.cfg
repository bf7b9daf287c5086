SPECIFICATION BridgeFairSpec
CONSTANTS
  NULL = NULL
  r = r
  x = x
  y = y
  z = z
  t1 = t1
  t2 = t2
  t3 = t3
  t4 = t4
  t5 = t5
  t6 = t6
  t7 = t7
  Thread <- Threads7
  Programs <- AllBodies
  MaxReq = 3
  fn1 = fn1
  fn2 = fn2
  Roots <- TwoRoots
  MayFail <- FailsInvoked
  Calls <- CallsRun
  Delays <- NoDelay
  EndTimes <- LongEnough
  AutoFree <- Nobody
  SeqModulus = 32
  MaxTime = 0
  MaxSeq = 0
  MaxDepth = 0
INVARIANTS
  BranchesAreJoined
  BlockedHasWaker
  WaitsAreNotCutShort
  ScenarioCompletes
  RequestsMatchCoroutines
  ActionReturnsWhenDone
PROPERTIES
  ActionReturns
