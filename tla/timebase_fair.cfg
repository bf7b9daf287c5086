SPECIFICATION FairSpec
CONSTANTS
  NULL = NULL
  t1 = t1
  t2 = t2
  t3 = t3
  Thread <- Threads3
  SeqModulus = 16
  Calls <- CallsNoStop
  Delays <- OneOrTwo
  EndTimes <- TwoOrThree
  AutoFree <- NoThread
  MaxTime = 3
  MaxSeq = 3
  MaxDepth = 1
PROPERTIES
  ImplementsScheduler
  ReadyRuns
  DelayEnds
