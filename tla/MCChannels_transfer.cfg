SPECIFICATION Spec
CONSTANTS
  a1 = a1  a2 = a2  a3 = a3   c1 = c1  c2 = c2  h1 = h1  h2 = h2
  MAX_INT64 = 1
  Addr <- TwoTraders
  Chan = {c1, c2}
  Prop = {4, 5}
  TxId = {h1}
  None = None
  CHANNEL_PENDING = CHANNEL_PENDING
  KycOk <- TwoEveryone
  Divisible = {}
  BASISPOINT = 1
  WithdrawalDelay = 1
  InitialBalance <- OneStake
  WireAmount = {0, 1, 3}
  MaxOversized = 1
  MaxLTC = 1
  MaxFees = 1
  MaxPending = 2
SYMMETRY ChannelSymmetry
INVARIANTS TypeOK PartiesSound
PROPERTIES SupplyExplained
CHECK_DEADLOCK FALSE
