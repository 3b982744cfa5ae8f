SPECIFICATION Spec
CONSTANTS
  r1 = r1
  r2 = r2
  r3 = r3
  NoRequest = NoRequest
  Requests <- Trio
  PromptLen <- Prompts
  MaxTokens <- Outputs
  Rank <- Ranks
  Resumable <- Second
  Structured <- None
  EarlyStop <- Second
  Abortable <- Second
  ChunkLens <- OneToken
  MaxChunks = 1
  MaxResets = 1
  Policy = "fcfs"
  SplitPD = FALSE
  PipelineSize = 1
  PPBalance = FALSE
  Async = FALSE
  PipelineDepth = 1
  MaxNumSeqs = 2
  MaxBatched = 4
  LongPrefill = 2
  ChunkedPrefill = TRUE
  MaxModelLen = 9
  BlockSize = 2
  NumBlocks = 3
  NumSpecTokens = 1
  NumLookahead = 0
  CacheHits <- MaybeHit
INVARIANTS
  ListsAgree
  StreamingCounter
  TokensArePromptAndOutputs
CHECK_DEADLOCK FALSE
