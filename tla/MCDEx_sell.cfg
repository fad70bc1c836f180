SPECIFICATION Spec
CONSTANTS
  a1 = a1  a2 = a2  a3 = a3  h1 = h1  h2 = h2  h3 = h3  h4 = h4
  MAX_INT64 = 7
  Addr <- ThreeParties
  Prop = {1}
  TxId = {h1, h2, h3}
  None = None
  TL_PROPERTY_VESTING = 3
  COIN = 2
  InitialBalance <- OneSellerOfThree
  DexBuyActive = FALSE
  msc_debug_dex = FALSE
  MaxAmount = 2
  MaxLTC = 2
  MaxFee = 0
  MaxWindow = 1
  MaxOuts = 1
  MaxVolume = 3
INVARIANTS TypeOK AcceptReserveBacked SellReserveHasOffer OfferNotOversold SupplyConserved NoAssertFails AcceptWithinWindow
PROPERTIES AcceptTermsFixed ImplementsLedger
CHECK_DEADLOCK FALSE
SYMMETRY HashesAndBuyers
