SPECIFICATION FairSpec
CONSTANTS
  r1 = r1
  r2 = r2
  NoRequest = NoRequest
  Requests <- TwoRequests
  PromptLen <- Prompts
  MaxTokens <- OneOutput
  BlockSize = 2
  Chunk = 9
  MaxFailures = 1
  Configs <- PassingConfigs
INVARIANTS
  NoWrongAnswer
  LoadsWriteOwnBlocks
  EntriesAreThere
  WaitingHasWork
PROPERTIES
  RemoteRequestReturns
  BlocksReturn
CHECK_DEADLOCK FALSE
