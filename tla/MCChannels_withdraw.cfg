SPECIFICATION FairSpec
CONSTANTS
  a1 = a1  a2 = a2  a3 = a3   c1 = c1  c2 = c2  h1 = h1  h2 = h2
  MAX_INT64 = 7
  Addr <- ThreeTraders
  Chan = {c1}
  Prop = {4, 5}
  TxId = {h1, h2}
  None = None
  CHANNEL_PENDING = CHANNEL_PENDING
  KycOk <- ThreeEveryone
  Divisible = {4}
  BASISPOINT = 1
  WithdrawalDelay = 2
  InitialBalance <- StakesOfThree
  WireAmount = {1}
  MaxOversized = 0
  MaxLTC = 1
  MaxFees = 1
  MaxPending = 2
INVARIANTS WithdrawalsHaveChannel
PROPERTIES SupplyExplained WithdrawalHonoured WithdrawalEnds
CHECK_DEADLOCK FALSE
