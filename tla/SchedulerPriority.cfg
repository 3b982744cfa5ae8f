SPECIFICATION FairSpec
CONSTANTS
  r1 = r1
  r2 = r2
  r3 = r3
  NoRequest = NoRequest
  Requests <- Trio
  PromptLen <- Prompts
  MaxTokens <- Outputs
  Rank <- Ranks
  Resumable <- None
  Structured <- Third
  EarlyStop <- Second
  Abortable <- First
  ChunkLens <- None
  MaxChunks = 0
  MaxResets = 1
  Policy = "priority"
  SplitPD = TRUE
  PipelineSize = 1
  PPBalance = FALSE
  Async = FALSE
  PipelineDepth = 1
  MaxNumSeqs = 2
  MaxBatched = 4
  LongPrefill = 2
  ChunkedPrefill = TRUE
  MaxModelLen = 6
  BlockSize = 2
  NumBlocks = 4
  NumSpecTokens = 1
  NumLookahead = 0
  CacheHits <- MaybeHit
INVARIANTS
  ScheduleAssertions
  ScheduledAreRunning
  LoopIndex
PROPERTIES
  EveryRequestFinishes
CHECK_DEADLOCK FALSE
