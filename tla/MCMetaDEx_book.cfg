SPECIFICATION Spec
CONSTANTS
  a1 = a1  a2 = a2
  MAX_INT64 = 63
  Addr <- Traders
  Prop = {4, 5}
  None = None
  ALL = 1
  TL_PROPERTY_VESTING = 3
  KycOk <- Everyone
  BASISPOINT = 100
  InitialBalance <- Stakes
  MaxAmount = 4
  MaxOrders = 3
INVARIANTS TypeOK ReserveBacksOrders TakerCovered NoAssertFails TradelistExplainsBook CrossedBelowUnit
PROPERTIES SupplyByFeesOnly
CHECK_DEADLOCK FALSE
