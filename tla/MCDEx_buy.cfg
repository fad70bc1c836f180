SPECIFICATION FairSpec
CONSTANTS
  a1 = a1  a2 = a2  a3 = a3  h1 = h1  h2 = h2  h3 = h3  h4 = h4
  MAX_INT64 = 2
  Addr <- TwoParties
  Prop = {1}
  TxId = {h1, h2}
  None = None
  TL_PROPERTY_VESTING = 3
  COIN = 2
  InitialBalance <- OneToken
  DexBuyActive = TRUE
  msc_debug_dex = TRUE
  MaxAmount = 1
  MaxLTC = 1
  MaxFee = 0
  MaxWindow = 2
  MaxOuts = 2
  MaxVolume = 2
CHECK_DEADLOCK FALSE
PROPERTIES NullOnlyIfOrphaned AcceptsEnd
