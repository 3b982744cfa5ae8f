\* MiniMax sparse attention: every path selects and reads the same tokens.
SPECIFICATION Spec
CONSTANTS
  r1 = r1
  r2 = r2
  Requests <- TwoRequests
  Rejected = 3
  Configs <- PassingConfigs
INVARIANTS
  AttendsExactly
  ChoiceIsTopk
  StoresInBounds
  RejectedKeysGone
CHECK_DEADLOCK FALSE
