SPECIFICATION FairSpec
CONSTANTS
  g = g  a1 = a1  a2 = a2  b1 = b1  b2 = b2  b3 = b3  b4 = b4  c3 = c3
  t1 = t1  t2 = t2  t3 = t3  t4 = t4  t5 = t5  t6 = t6  t7 = t7
  alice = alice  bob = bob
  None = None  Torn = Torn  Garbled = Garbled
  Block <- Tree
  Tx = {t1, t2, t3, t4, t5, t6, t7}
  Issuer = {alice, bob}
  Genesis = g
  Parent <- TreeParent
  Height <- TreeHeight
  Branch <- TreeBranch
  Txs <- TreeTxs
  MAX_STATE_HISTORY = 1
  STORE_EVERY_N_BLOCK = 2
  MaxId = 6
  MSC_VESTING_CREATION_BLOCK = 1
  MSC_VESTING_BLOCK = 1
  VestingAdmin = alice
  Failures = {}
  MaxFailures = 0
INVARIANTS
  TypeOK
  SPMatchesChain
PROPERTIES
  RegistryJudgesAlike
