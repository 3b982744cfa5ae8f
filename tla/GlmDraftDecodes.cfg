CONSTANTS
    A = A
    B = B
    C = C
    Order <- MCOrder
    MaxLen <- MCMaxLen
    Prompt <- MCPrompt
    ChunkSizes <- MCChunkSizes
    MaxBatched = 13
    Drafts = 2
    NumBlocks = 6
    KVBlock = 8
    TopK = 32
    NumLayers = 3
    TopkFreq = 2
    SkipOffset = 1
    StageStarts <- MCStageStarts
    Modes <- MCDraftModes
    IndexBuffer = 37
    PrefillBuffer = 37
    LogitsCapacity = 250
    Align = 4
    BlockQ = 4
    BlockN = 8
    Score <- MCScore
    MaxScore = 99
    CuCount = 72
    BlockI = 1
SPECIFICATION Spec
INVARIANTS NothingFails
CHECK_DEADLOCK FALSE
