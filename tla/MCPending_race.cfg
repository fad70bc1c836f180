SPECIFICATION FairSpec
CONSTANTS
  a1 = a1  h1 = h1  h2 = h2
  MAX_INT64 = 15
  Addr = {a1}
  TxId = {h1, h2}
  None = None
  InitialBalance <- TwoTokens
  MaxAmount = 2
  MaxRestarts = 1
INVARIANTS TypeOK PendingExplained
PROPERTIES NoEarlyRelease StaleEntryEnds OverdraftEnds
CHECK_DEADLOCK FALSE
