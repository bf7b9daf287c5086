SPECIFICATION Spec
CONSTANTS
  NULL = NULL
  t1 = t1
  t2 = t2
  t3 = t3
  Thread <- Threads3
  SeqModulus = 16
  Calls <- CallsAll
  Delays <- ZeroOrTwo
  EndTimes <- TwoOrThree
  AutoFree <- OneAutoFree
  MaxTime = 3
  MaxSeq = 3
  MaxDepth = 2
INVARIANTS
  TypeOK
  ReadyListIsRunnable
  BlockedIsAccounted
  ActiveIsPending
