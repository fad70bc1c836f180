SPECIFICATION Spec
CONSTANTS
  MAX_INT64 = 31
  Node = {1, 2}
  Addr = {1, 2}
  BLOCK_LIMIT = 2
  MIN_REWARD = 1
  RawReward <- Falling
  fTest = FALSE
  MaxHeight = 4
  MaxClaims = 2
  MaxRestarts = 1
INVARIANTS PaidPerClaim AgreeUntilSplit
CHECK_DEADLOCK FALSE
