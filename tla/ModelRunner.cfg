SPECIFICATION Spec
CONSTANTS
  r1 = r1
  r2 = r2
  r3 = r3
  NoRequest = NoRequest
  Requests <- AllRequests
  PromptLen <- Prompts
  MaxTokens <- Outputs
  MaxNumReqs = 4
  MaxNumTokens = 8
  MaxModelLen = 8
  BlockSize = 2
  NumBlocks = 7
  CaptureSizes <- Sizes
  Configs <- PassingConfigs
INVARIANTS
  OwnTokens
  FollowsScheduler
  DraftContextComplete
  PaddedRowsInert
  GraphsFitBuffer
CHECK_DEADLOCK FALSE
