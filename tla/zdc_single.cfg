SPECIFICATION FairSpec
CONSTANTS
  NULL = NULL
  producer = producer
  consumer = consumer
  third = third
  q1 = q1
  q2 = q2
  k1 = k1
  h1 = h1
  Coros <- Coros3
  Queues <- TwoQueues
  Completions <- OneCompletion
  Handles <- OneHandle
  Depth = 2
  MaxWaiters = 2
  Programs <- SinglePrograms
INVARIANTS
  ResumedFindsWhatItAwaited
  ScheduledIffReady
PROPERTIES
  ImplementsFifo
  CompletionKeepsResult
  WaitEnds
CHECK_DEADLOCK FALSE
