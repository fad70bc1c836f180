----------------------------- MODULE NodeReward -----------------------------
(***************************************************************************)
(* Rewards of nodes: the class nodeReward, transactions 121 and 122, the   *)
(* calls of the block handlers, and what the state file keeps of it.  The  *)
(* same chain is processed by several nodes at once, one of which may have *)
(* been started again between two blocks, because the file does not bring  *)
(* back all of the registry.                                               *)
(***************************************************************************)
EXTENDS Tally, FiniteSets

CONSTANTS
  Node,                \* the nodes that process the chain
  Addr,                \* addresses, as numbers: the order of the std::map
  BLOCK_LIMIT,         \* 10 in the code: every tenth height pays
  MIN_REWARD,
  RawReward,           \* BASE_REWARD * pow(factor, ..) for each height
  fTest,               \* RegTest()
  \* bounds
  MaxHeight,
  MaxClaims,           \* claims of one address
  MaxRestarts

VARIABLES
  nodeRewardsAddrs,    \* of each node: "none", "false" or "true" for an address
  winners,             \* of each node: the prizes, by address
  p_Reward,            \* of each node
  tally,               \* of each node: BALANCE of ALL
  height,              \* of the block being connected, or of the last one
  hash,                \* the addresses the previous block's hash ends like
  phase,               \* "idle" between two blocks, or "txs"
  claims,              \* how often each address has claimed
  payments,            \* how often each node has paid each address
  split,               \* whether the nodes have judged a claim differently
  won,                 \* of each node: who has won since the last paying height
  restarts

vars == <<nodeRewardsAddrs, winners, p_Reward, tally, height, hash, phase,
          claims, payments, split, won, restarts>>

ASSUME NodeRewardAssumption ==
  /\ IsFiniteSet(Addr) /\ Addr \subseteq Nat
  /\ BLOCK_LIMIT \in Nat \ {0} /\ MIN_REWARD \in Nat
  /\ RawReward \in [1 .. MaxHeight -> Nat]
  /\ fTest \in BOOLEAN
  /\ {MaxHeight, MaxClaims, MaxRestarts} \subseteq Nat

Each(x) == [n \in Node |-> [a \in Addr |-> x]]
NoWinners == [n \in Node |-> <<>>]
NobodyWon == [n \in Node |-> {}]

Init ==
  /\ nodeRewardsAddrs = Each("none")
  /\ winners = NoWinners
  /\ p_Reward = [n \in Node |-> 0]
  /\ tally = Each(0)
  /\ height = 0
  /\ hash = {}
  /\ phase = "idle"
  /\ claims = [a \in Addr |-> 0]
  /\ payments = Each(0)
  /\ split = FALSE
  /\ won = NobodyWon
  /\ restarts = 0

-----------------------------------------------------------------------------
\* The heights at which sendNodeReward pays.
Pays(h) == h % BLOCK_LIMIT = 0

\* mastercore_handler_block_begin clears the winners at every height.  W: the
\* addresses that end like the hash of the block before (isWinnerAddress).
block_begin(W) ==
  /\ phase = "idle" /\ height < MaxHeight
  /\ height' = height + 1
  /\ hash' = W
  /\ winners' = NoWinners
  /\ won' = IF Pays(height) THEN NobodyWon ELSE won
  /\ phase' = "txs"
  /\ UNCHANGED <<nodeRewardsAddrs, p_Reward, tally, claims, payments, split,
                 restarts>>

\* Tx 121.  Any sender may register any address, which ends its claim.
SubmitNodeAddr(receiver) ==
  /\ phase = "txs"
  /\ nodeRewardsAddrs' = [n \in Node |-> [nodeRewardsAddrs[n] EXCEPT ![receiver] = "false"]]
  /\ UNCHANGED <<winners, p_Reward, tally, height, hash, phase, claims, payments,
                 split, won, restarts>>

isAddressIncluded(n, a) == nodeRewardsAddrs[n][a] # "none"

\* Tx 122.  Each node rejects it for an address it does not know.
ClaimNodeReward(sender) ==
  /\ phase = "txs"
  /\ claims[sender] < MaxClaims
  /\ claims' = [claims EXCEPT ![sender] = @ + 1]
  /\ nodeRewardsAddrs' = [n \in Node |->
       IF isAddressIncluded(n, sender)
         THEN [nodeRewardsAddrs[n] EXCEPT ![sender] = "true"] ELSE nodeRewardsAddrs[n]]
  /\ split' = (split \/ \E m, n \in Node :
                 isAddressIncluded(m, sender) # isAddressIncluded(n, sender))
  /\ UNCHANGED <<winners, p_Reward, tally, height, hash, phase, payments, won, restarts>>

nextReward(h) == IF RawReward[h] < MIN_REWARD THEN MIN_REWARD ELSE RawReward[h]

\* The addresses of a node that win at the end of the block, in the order of
\* the map.
Claiming(n) == {a \in Addr : nodeRewardsAddrs[n][a] = "true"}
Winning(n) == hash \cap Claiming(n)
Rank(n, a) == Cardinality({b \in Winning(n) : b <= a})

\* The first one gets the whole reward, the second one half of it, and so on.
Prize(n, a) == p_Reward[n] \div Rank(n, a)

Winners(n) ==
  [a \in DOMAIN winners[n] \cup Winning(n) |->
     IF a \in Winning(n) THEN Prize(n, a) ELSE winners[n][a]]

\* Mutant: the claim stays after the payment.
StatusKept(n, paid) == nodeRewardsAddrs[n]

\* A payment ends the claim, except in the regression test.
StatusAfter(n, paid) ==
  [a \in Addr |-> IF a \in paid /\ ~fTest THEN "false" ELSE nodeRewardsAddrs[n][a]]

\* mastercore_handler_block_end calls sendNodeReward: the winners are noted,
\* at every BLOCK_LIMIT-th height those that still claim are paid and all are
\* cleared, and the next reward is computed.  Then the state is saved.
sendNodeReward ==
  LET paid(n) == IF Pays(height) THEN Claiming(n) \cap DOMAIN Winners(n) ELSE {}
  IN  /\ phase = "txs"
      /\ tally' = [n \in Node |-> [a \in Addr |->
           IF a \in paid(n) THEN updateMoney(tally[n][a], Winners(n)[a], "BALANCE")
           ELSE tally[n][a]]]
      /\ payments' = [n \in Node |-> [a \in Addr |->
           payments[n][a] + (IF a \in paid(n) THEN 1 ELSE 0)]]
      /\ nodeRewardsAddrs' = [n \in Node |-> StatusAfter(n, paid(n))]
      /\ winners' = IF Pays(height) THEN NoWinners ELSE [n \in Node |-> Winners(n)]
      /\ won' = [n \in Node |-> won[n] \cup Winning(n)]
      /\ p_Reward' = [n \in Node |-> nextReward(height)]
      /\ phase' = "idle"
      /\ UNCHANGED <<height, hash, claims, split, restarts>>

\* Mutant: every line of the file is read as that of a claim.
input_node_rewardAll(n) ==
  [a \in Addr |-> IF isAddressIncluded(n, a) THEN "true" ELSE "none"]

\* Reading the state file back: a line "address:false" is passed over.
input_node_reward(n) ==
  [a \in Addr |-> IF nodeRewardsAddrs[n][a] = "true" THEN "true" ELSE "none"]

\* A node is started again between two blocks and reads the file that it wrote
\* at the end of the last one: reward, registry and winners.
Restart(n) ==
  /\ phase = "idle" /\ restarts < MaxRestarts
  /\ restarts' = restarts + 1
  /\ nodeRewardsAddrs' = [nodeRewardsAddrs EXCEPT ![n] = input_node_reward(n)]
  /\ UNCHANGED <<winners, p_Reward, tally, height, hash, phase, claims, payments, split,
                 won>>

Next ==
  \/ \E W \in SUBSET Addr : block_begin(W)
  \/ \E a \in Addr : SubmitNodeAddr(a) \/ ClaimNodeReward(a)
  \/ sendNodeReward
  \/ \E n \in Node : Restart(n)

Spec == Init /\ [][Next]_vars

-----------------------------------------------------------------------------
(* Properties *)

TypeOK ==
  /\ nodeRewardsAddrs \in [Node -> [Addr -> {"none", "false", "true"}]]
  /\ DOMAIN winners = Node
  /\ \A n \in Node : \E S \in SUBSET Addr : winners[n] \in [S -> Nat]
  /\ p_Reward \in [Node -> Nat]
  /\ tally \in [Node -> [Addr -> Nat]]
  /\ height \in 0 .. MaxHeight
  /\ hash \subseteq Addr
  /\ phase \in {"idle", "txs"}
  /\ claims \in [Addr -> 0 .. MaxClaims]
  /\ payments \in [Node -> [Addr -> Nat]]
  /\ split \in BOOLEAN
  /\ won \in [Node -> SUBSET Addr]
  /\ restarts \in 0 .. MaxRestarts

\* Outside the regression test no node ever pays an address more often than it
\* has claimed, over any sequence of blocks, registrations and restarts: what
\* was paid and the claim that is open are together at most the claims made.
PaidPerClaim ==
  ~fTest => \A n \in Node, a \in Addr :
    payments[n][a] + (IF a \in Claiming(n) THEN 1 ELSE 0) <= claims[a]

\* What the code does: an address is paid only for winning in the paying block
\* itself, since block_begin clears those that have won in a block before, also
\* when the node was restarted and has read them back.
PaidForThisBlock ==
  [][\A n \in Node, a \in Addr :
       payments'[n][a] # payments[n][a] => a \in hash /\ Pays(height)]_vars

\* What the comments in sendNodeReward say: the winners are saved, and after
\* BLOCK_LIMIT blocks "we share the reward with all winners".  So when a paying
\* height is done, nobody who has won since the one before still has a claim.
\* Outside the regression test, where a payment does not end the claim.
WinnersPaid ==
  ~fTest /\ phase = "idle" /\ Pays(height) =>
    \A n \in Node : won[n] \cap Claiming(n) = {}

\* Nodes that were restarted and nodes that were not have the same balances,
\* claims, winners and reward until one of them rejects a claim that another
\* accepts, because it has forgotten a registered address.  Nothing else that
\* the state file leaves out makes a difference.
AgreeUntilSplit ==
  ~split => \A m, n \in Node :
    /\ tally[m] = tally[n]
    /\ Claiming(m) = Claiming(n)
    /\ winners[m] = winners[n]
    /\ p_Reward[m] = p_Reward[n]
=============================================================================
