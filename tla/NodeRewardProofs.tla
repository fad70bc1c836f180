-------------------------- MODULE NodeRewardProofs --------------------------
(***************************************************************************)
(* The node rewards, for any nodes, addresses, rewards and number of       *)
(* restarts: types, at most one payment per claim, payments to winners of  *)
(* the paying block only, and agreement of the nodes until they judge a    *)
(* claim differently.                                                      *)
(***************************************************************************)
EXTENDS NodeReward, FiniteSetTheorems, TLAPS

\* A credit that updateMoney takes or refuses leaves an amount.
LEMMA CreditType ==
  ASSUME NEW now \in Nat, NEW amount \in Nat
  PROVE  updateMoney(now, amount, "BALANCE") \in Nat
BY DEF updateMoney, updateMoneyOk, MayBeNegative

\* The rank of a winner is at least one: the division of sendNodeReward by the
\* count of winners is by no zero.
LEMMA RankPositive ==
  ASSUME NEW n \in Node, NEW a \in Winning(n)
  PROVE  Rank(n, a) \in Nat \ {0}
<1> DEFINE S == {b \in Winning(n) : b <= a}
<1>1. a \in Addr /\ a \in Nat /\ IsFiniteSet(Addr)
  BY NodeRewardAssumption DEF Winning, Claiming
<1>2. S \subseteq Addr /\ a \in S
  BY <1>1 DEF Winning, Claiming
<1>3. IsFiniteSet(S)
  BY <1>1, <1>2, FS_Subset
<1>4. Cardinality(S) \in Nat /\ Cardinality(S) # 0
  BY <1>2, <1>3, FS_CardinalityType, FS_EmptySet
<1> QED BY <1>4 DEF Rank

\* The prizes that sendNodeReward notes are amounts.
LEMMA WinnersType ==
  ASSUME TypeOK, NEW n \in Node
  PROVE  \E S \in SUBSET Addr : Winners(n) \in [S -> Nat]
<1>1. PICK S \in SUBSET Addr : winners[n] \in [S -> Nat]
  BY DEF TypeOK
<1>2. p_Reward[n] \in Nat
  BY DEF TypeOK
<1>3. Winning(n) \subseteq Addr
  BY DEF Winning, Claiming
<1>4. ASSUME NEW a \in Winning(n) PROVE Prize(n, a) \in Nat
  <2>1. Rank(n, a) \in Nat \ {0}
    BY RankPositive
  <2> QED BY <1>2, <2>1 DEF Prize
<1> DEFINE T == S \cup Winning(n)
<1>5. T \in SUBSET Addr /\ Winners(n) \in [T -> Nat]
  BY <1>1, <1>3, <1>4 DEF Winners
<1> QED BY <1>5

\* A block that is being connected has a height from 1 on, for which there is
\* a reward.
HeightInv == phase = "txs" => height # 0
TypeInv == TypeOK /\ HeightInv

\* Nothing is registered at the start.
LEMMA InitType == Init => TypeInv
<1> SUFFICES ASSUME Init PROVE TypeInv
  OBVIOUS
<1>1. \A n \in Node : \E S \in SUBSET Addr : winners[n] \in [S -> Nat]
  <2>1. <<>> \in [{} -> Nat]
    OBVIOUS
  <2> QED BY <2>1 DEF Init, NoWinners
<1>2. height \in 0 .. MaxHeight /\ restarts \in 0 .. MaxRestarts
      /\ claims \in [Addr -> 0 .. MaxClaims]
  BY NodeRewardAssumption DEF Init
<1>3. nodeRewardsAddrs \in [Node -> [Addr -> {"none", "false", "true"}]]
  BY DEF Init, Each
<1>4. p_Reward \in [Node -> Nat] /\ tally \in [Node -> [Addr -> Nat]]
      /\ payments \in [Node -> [Addr -> Nat]]
  BY DEF Init, Each
<1>5. DOMAIN winners = Node /\ hash \subseteq Addr /\ phase \in {"idle", "txs"} /\ HeightInv
  BY DEF Init, NoWinners, HeightInv
<1>6. split \in BOOLEAN
  BY Zenon DEF Init
<1>7. won \in [Node -> SUBSET Addr]
  BY DEF Init, NobodyWon
<1> QED BY <1>1, <1>2, <1>3, <1>4, <1>5, <1>6, <1>7 DEF TypeOK, TypeInv

\* Clearing the winners keeps the type.
LEMMA NoWinnersType ==
  DOMAIN NoWinners = Node
  /\ \A n \in Node : \E S \in SUBSET Addr : NoWinners[n] \in [S -> Nat]
<1>1. <<>> \in [{} -> Nat]
  OBVIOUS
<1> QED BY <1>1 DEF NoWinners

\* sendNodeReward keeps the types.
LEMMA SendType ==
  ASSUME TypeInv, sendNodeReward
  PROVE  TypeInv'
<1> USE DEF TypeInv
<1> DEFINE pays == Pays(height)
           paid(n) == IF pays THEN Claiming(n) \cap DOMAIN Winners(n) ELSE {}
<1>1. ASSUME NEW n \in Node, NEW a \in paid(n) PROVE Winners(n)[a] \in Nat
  BY <1>1, WinnersType
<1>2. tally' \in [Node -> [Addr -> Nat]]
  <2>1. tally' = [n \in Node |-> [a \in Addr |->
           IF a \in paid(n) THEN updateMoney(tally[n][a], Winners(n)[a], "BALANCE")
           ELSE tally[n][a]]]
    BY DEF sendNodeReward
  <2>2. ASSUME NEW n \in Node, NEW a \in Addr
        PROVE  (IF a \in paid(n) THEN updateMoney(tally[n][a], Winners(n)[a], "BALANCE")
                ELSE tally[n][a]) \in Nat
    <3>1. tally[n][a] \in Nat
      BY DEF TypeOK
    <3>2. CASE a \in paid(n)
      BY <1>1, <3>1, <3>2, CreditType
    <3>3. CASE a \notin paid(n)
      BY <3>1, <3>3
    <3> QED BY <3>2, <3>3
  <2> HIDE DEF paid
  <2> QED BY <2>1, <2>2
<1>3. payments' \in [Node -> [Addr -> Nat]]
  BY DEF sendNodeReward, TypeOK
<1>4. nodeRewardsAddrs' \in [Node -> [Addr -> {"none", "false", "true"}]]
  BY DEF sendNodeReward, TypeOK, StatusAfter
<1>5. DOMAIN winners' = Node
      /\ \A n \in Node : \E S \in SUBSET Addr : winners'[n] \in [S -> Nat]
  <2>1. CASE pays
    BY <2>1, NoWinnersType DEF sendNodeReward
  <2>2. CASE ~pays
    <3>1. winners' = [n \in Node |-> Winners(n)]
      BY <2>2 DEF sendNodeReward
    <3> QED BY <3>1, WinnersType
  <2> QED BY <2>1, <2>2
<1>6. p_Reward' \in [Node -> Nat]
  <2>1. height \in 1 .. MaxHeight
    BY NodeRewardAssumption DEF sendNodeReward, TypeOK, HeightInv
  <2>2. RawReward[height] \in Nat /\ MIN_REWARD \in Nat
    BY <2>1, NodeRewardAssumption
  <2>3. nextReward(height) \in Nat
    BY <2>2 DEF nextReward
  <2> QED BY <2>3 DEF sendNodeReward
<1>7. UNCHANGED <<height, hash, claims, split, restarts>> /\ phase' = "idle"
  BY DEF sendNodeReward
<1>8. won' \in [Node -> SUBSET Addr]
  <2>1. \A n \in Node : won[n] \subseteq Addr /\ Winning(n) \subseteq Addr
    BY DEF TypeOK, Winning, Claiming
  <2>2. won' = [n \in Node |-> won[n] \cup Winning(n)]
    BY DEF sendNodeReward
  <2> QED BY <2>1, <2>2
<1>9. TypeOK'
  BY <1>2, <1>3, <1>4, <1>5, <1>6, <1>7, <1>8 DEF TypeOK
<1> QED BY <1>7, <1>9 DEF HeightInv

\* Every step keeps the types.
LEMMA StepType == TypeInv /\ [Next]_vars => TypeInv'
<1> SUFFICES ASSUME TypeInv, [Next]_vars PROVE TypeInv'
  OBVIOUS
<1>1. ASSUME NEW W \in SUBSET Addr, block_begin(W) PROVE TypeInv'
  <2>1. height' \in 0 .. MaxHeight /\ height' # 0
    BY <1>1, NodeRewardAssumption DEF block_begin, TypeInv, TypeOK
  <2>2. DOMAIN winners' = Node
        /\ \A n \in Node : \E S \in SUBSET Addr : winners'[n] \in [S -> Nat]
    BY <1>1, NoWinnersType DEF block_begin
  <2>3. won' \in [Node -> SUBSET Addr]
    BY <1>1 DEF block_begin, NobodyWon, TypeInv, TypeOK
  <2> QED BY <1>1, <2>1, <2>2, <2>3 DEF block_begin, TypeInv, TypeOK, HeightInv
<1>2. ASSUME NEW a \in Addr, SubmitNodeAddr(a) PROVE TypeInv'
  <2>1. nodeRewardsAddrs' \in [Node -> [Addr -> {"none", "false", "true"}]]
    BY <1>2 DEF SubmitNodeAddr, TypeInv, TypeOK
  <2> QED BY <1>2, <2>1 DEF SubmitNodeAddr, TypeInv, TypeOK, HeightInv
<1>3. ASSUME NEW a \in Addr, ClaimNodeReward(a) PROVE TypeInv'
  <2>1. nodeRewardsAddrs' \in [Node -> [Addr -> {"none", "false", "true"}]]
    BY <1>3 DEF ClaimNodeReward, TypeInv, TypeOK
  <2>2. claims' \in [Addr -> 0 .. MaxClaims]
    <3>1. claims \in [Addr -> 0 .. MaxClaims] /\ claims[a] < MaxClaims
          /\ claims' = [claims EXCEPT ![a] = @ + 1]
      BY <1>3 DEF ClaimNodeReward, TypeInv, TypeOK
    <3>2. claims[a] + 1 \in 0 .. MaxClaims
      BY <3>1, NodeRewardAssumption
    <3> QED BY <3>1, <3>2
  <2>3. split' \in BOOLEAN
    BY <1>3, Zenon DEF ClaimNodeReward
  <2> QED BY <1>3, <2>1, <2>2, <2>3 DEF ClaimNodeReward, TypeInv, TypeOK, HeightInv
<1>4. ASSUME NEW n \in Node, Restart(n) PROVE TypeInv'
  <2>1. nodeRewardsAddrs' \in [Node -> [Addr -> {"none", "false", "true"}]]
    BY <1>4 DEF Restart, input_node_reward, TypeInv, TypeOK
  <2>2. restarts' \in 0 .. MaxRestarts
    BY <1>4, NodeRewardAssumption DEF Restart, TypeInv, TypeOK
  <2> QED BY <1>4, <2>1, <2>2 DEF Restart, TypeInv, TypeOK, HeightInv
<1>5. CASE UNCHANGED vars
  BY <1>5 DEF vars, TypeInv, TypeOK, HeightInv
<1> QED BY <1>1, <1>2, <1>3, <1>4, <1>5, SendType DEF Next

\* The class nodeReward, its transactions and its state file keep their types,
\* for any nodes, addresses and rewards.
THEOREM RewardTypeCorrect == Spec => []TypeOK
<1>1. TypeInv => TypeOK
  BY DEF TypeInv
<1> QED BY <1>1, InitType, StepType, PTL DEF Spec

-----------------------------------------------------------------------------
(* At most one payment per claim *)

\* No step pays an address more often than it has claimed.
LEMMA StepPaid ==
  TypeInv /\ PaidPerClaim /\ [Next]_vars => PaidPerClaim'
<1> SUFFICES ASSUME TypeInv, PaidPerClaim, [Next]_vars, ~fTest,
                    NEW n \in Node, NEW a \in Addr
             PROVE  (payments[n][a] + (IF a \in Claiming(n) THEN 1 ELSE 0) <= claims[a])'
  BY DEF PaidPerClaim
<1> DEFINE Before == payments[n][a] + (IF a \in Claiming(n) THEN 1 ELSE 0) <= claims[a]
<1>1. Before
  BY DEF PaidPerClaim
<1>2. payments[n][a] \in Nat /\ claims[a] \in Nat
  BY NodeRewardAssumption DEF TypeInv, TypeOK
<1>3. nodeRewardsAddrs \in [Node -> [Addr -> {"none", "false", "true"}]]
      /\ claims \in [Addr -> 0 .. MaxClaims]
  BY DEF TypeInv, TypeOK
<1>4. ASSUME NEW W \in SUBSET Addr, block_begin(W) PROVE Before'
  BY <1>1, <1>4 DEF block_begin, Claiming
<1>5. ASSUME NEW b \in Addr, SubmitNodeAddr(b) PROVE Before'
  <2>1. a \in Claiming(n)' => a \in Claiming(n)
    BY <1>3, <1>5 DEF SubmitNodeAddr, Claiming
  <2> QED BY <1>1, <1>2, <1>5, <2>1 DEF SubmitNodeAddr
<1>6. ASSUME NEW b \in Addr, ClaimNodeReward(b) PROVE Before'
  <2>1. CASE a = b
    <3>1. claims'[a] = claims[a] + 1 /\ payments' = payments
      BY <1>3, <1>6, <2>1 DEF ClaimNodeReward
    <3> QED BY <1>1, <1>2, <3>1
  <2>2. CASE a # b
    <3>1. claims'[a] = claims[a] /\ payments' = payments
      BY <1>3, <1>6, <2>2 DEF ClaimNodeReward
    <3>2. a \in Claiming(n)' => a \in Claiming(n)
      BY <1>3, <1>6, <2>2 DEF ClaimNodeReward, Claiming
    <3> QED BY <1>1, <1>2, <3>1, <3>2
  <2> QED BY <2>1, <2>2
<1>7. CASE sendNodeReward
  <2> DEFINE paid == IF Pays(height)
                       THEN Claiming(n) \cap DOMAIN Winners(n) ELSE {}
  <2>1. claims' = claims
        /\ payments'[n][a] = payments[n][a] + (IF a \in paid THEN 1 ELSE 0)
        /\ nodeRewardsAddrs'[n] = StatusAfter(n, paid)
    BY <1>7 DEF sendNodeReward
  <2>2. paid \subseteq Claiming(n)
    OBVIOUS
  <2>3. a \in paid => a \notin Claiming(n)'
    BY <2>1 DEF Claiming, StatusAfter
  <2>4. a \in Claiming(n)' => a \in Claiming(n)
    BY <2>1 DEF Claiming, StatusAfter
  <2> HIDE DEF paid
  <2> QED BY <1>1, <1>2, <2>1, <2>2, <2>3, <2>4
<1>8. ASSUME NEW m \in Node, Restart(m) PROVE Before'
  <2>1. a \in Claiming(n)' => a \in Claiming(n)
    BY <1>3, <1>8 DEF Restart, Claiming, input_node_reward
  <2> QED BY <1>1, <1>2, <1>8, <2>1 DEF Restart
<1>9. CASE UNCHANGED vars
  BY <1>1, <1>9 DEF vars, Claiming
<1> QED BY <1>4, <1>5, <1>6, <1>7, <1>8, <1>9 DEF Next

\* Outside the regression test no node ever pays an address more often than
\* it has claimed, over any number of blocks, registrations and restarts.
THEOREM OnePaymentPerClaim == Spec => []PaidPerClaim
<1>1. Init => PaidPerClaim
  BY DEF Init, Each, PaidPerClaim, Claiming
<1> QED BY <1>1, InitType, StepType, StepPaid, PTL DEF Spec

-----------------------------------------------------------------------------
(* Who is paid *)

\* While the transactions of a block are handled nobody is noted as a winner.
WinnersCleared == phase = "txs" => winners = NoWinners

\* block_begin clears the winners, and only sendNodeReward notes new ones.
LEMMA StepCleared == WinnersCleared /\ [Next]_vars => WinnersCleared'
<1> SUFFICES ASSUME WinnersCleared, [Next]_vars PROVE WinnersCleared'
  OBVIOUS
<1> USE DEF WinnersCleared
<1>1. ASSUME NEW W \in SUBSET Addr, block_begin(W) PROVE WinnersCleared'
  BY <1>1 DEF block_begin, NoWinners
<1>2. ASSUME NEW a \in Addr, SubmitNodeAddr(a) PROVE WinnersCleared'
  BY <1>2 DEF SubmitNodeAddr, NoWinners
<1>3. ASSUME NEW a \in Addr, ClaimNodeReward(a) PROVE WinnersCleared'
  BY <1>3 DEF ClaimNodeReward, NoWinners
<1>4. CASE sendNodeReward
  BY <1>4 DEF sendNodeReward
<1>5. ASSUME NEW n \in Node, Restart(n) PROVE WinnersCleared'
  BY <1>5 DEF Restart, NoWinners
<1>6. CASE UNCHANGED vars
  BY <1>6 DEF vars, NoWinners
<1> QED BY <1>1, <1>2, <1>3, <1>4, <1>5, <1>6 DEF Next

\* What one step may pay, given that the winners were cleared.
LEMMA StepPays ==
  ASSUME TypeInv, WinnersCleared, [Next]_vars, NEW n \in Node, NEW a \in Addr,
         payments'[n][a] # payments[n][a]
  PROVE  a \in hash /\ Pays(height)
<1>1. CASE sendNodeReward
  <2> DEFINE paid == IF Pays(height)
                       THEN Claiming(n) \cap DOMAIN Winners(n) ELSE {}
  <2>1. payments'[n][a] = payments[n][a] + (IF a \in paid THEN 1 ELSE 0)
    BY <1>1 DEF sendNodeReward
  <2>2. payments[n][a] \in Nat
    BY DEF TypeInv, TypeOK
  <2>3. a \in paid
    BY <2>1, <2>2
  <2>4. winners[n] = <<>>
    BY <1>1 DEF sendNodeReward, WinnersCleared, NoWinners
  <2>5. DOMAIN Winners(n) = Winning(n)
    BY <2>4 DEF Winners
  <2> QED BY <2>3, <2>5 DEF Winning
<1>2. CASE ~sendNodeReward
  BY <1>2 DEF Next, block_begin, SubmitNodeAddr, ClaimNodeReward, Restart, vars
<1> QED BY <1>1, <1>2

\* Only an address that wins in the paying block itself is paid; those that
\* have won in one of the blocks before lose their prize.
THEOREM OnlyWinnersOfTheBlock == Spec => PaidForThisBlock
<1>1. Init => WinnersCleared
  BY DEF Init, WinnersCleared
<1>2. TypeInv /\ WinnersCleared /\ [Next]_vars
        => [\A n \in Node, a \in Addr :
              payments'[n][a] # payments[n][a]
                => a \in hash /\ Pays(height)]_vars
  BY StepPays
<1> QED BY <1>1, <1>2, InitType, StepType, StepCleared, PTL DEF Spec, PaidForThisBlock

-----------------------------------------------------------------------------
(* Agreement of the nodes *)

\* Two nodes that agree note the same winners.
LEMMA SameWinners ==
  ASSUME NEW m \in Node, NEW n \in Node, Claiming(m) = Claiming(n),
         winners[m] = winners[n], p_Reward[m] = p_Reward[n]
  PROVE  Winners(m) = Winners(n)
<1>1. Winning(m) = Winning(n)
  BY DEF Winning
<1>2. \A a : Rank(m, a) = Rank(n, a)
  BY <1>1 DEF Rank
<1>3. \A a : Prize(m, a) = Prize(n, a)
  BY <1>2 DEF Prize
<1> QED BY <1>1, <1>3 DEF Winners

\* No step ends the agreement, unless the nodes judge a claim differently.
LEMMA StepAgree == TypeInv /\ AgreeUntilSplit /\ [Next]_vars => AgreeUntilSplit'
<1> SUFFICES ASSUME TypeInv, AgreeUntilSplit, [Next]_vars, ~split',
                    NEW m \in Node, NEW n \in Node
             PROVE  (/\ tally[m] = tally[n]
                     /\ Claiming(m) = Claiming(n)
                     /\ winners[m] = winners[n]
                     /\ p_Reward[m] = p_Reward[n])'
  BY DEF AgreeUntilSplit
<1> DEFINE Agree == /\ tally[m] = tally[n]
                    /\ Claiming(m) = Claiming(n)
                    /\ winners[m] = winners[n]
                    /\ p_Reward[m] = p_Reward[n]
<1>1. nodeRewardsAddrs \in [Node -> [Addr -> {"none", "false", "true"}]]
  BY DEF TypeInv, TypeOK
<1>2. Agree
  <2>1. ~split
    BY DEF Next, block_begin, SubmitNodeAddr, ClaimNodeReward, sendNodeReward,
           Restart, vars
  <2> QED BY <2>1 DEF AgreeUntilSplit
<1>3. ASSUME NEW W \in SUBSET Addr, block_begin(W) PROVE Agree'
  BY <1>2, <1>3 DEF block_begin, Claiming, NoWinners
<1>4. ASSUME NEW b \in Addr, SubmitNodeAddr(b) PROVE Agree'
  <2>1. ASSUME NEW k \in Node PROVE Claiming(k)' = Claiming(k) \ {b}
    BY <1>1, <1>4 DEF SubmitNodeAddr, Claiming
  <2> QED BY <1>2, <1>4, <2>1 DEF SubmitNodeAddr
<1>5. ASSUME NEW b \in Addr, ClaimNodeReward(b) PROVE Agree'
  <2>1. isAddressIncluded(m, b) = isAddressIncluded(n, b)
    BY <1>5 DEF ClaimNodeReward, isAddressIncluded
  <2>2. ASSUME NEW k \in Node
        PROVE  Claiming(k)' = IF isAddressIncluded(k, b) THEN Claiming(k) \cup {b}
                              ELSE Claiming(k)
    BY <1>1, <1>5 DEF ClaimNodeReward, Claiming
  <2> QED BY <1>2, <1>5, <2>1, <2>2 DEF ClaimNodeReward
<1>6. CASE sendNodeReward
  <2> DEFINE paid(k) == IF Pays(height)
                          THEN Claiming(k) \cap DOMAIN Winners(k) ELSE {}
  <2>1. Winners(m) = Winners(n)
    BY <1>2, SameWinners
  <2>2. paid(m) = paid(n)
    BY <1>2, <2>1
  <2>3. tally'[m] = tally'[n]
    <3>1. \A k \in Node : tally'[k] = [a \in Addr |->
            IF a \in paid(k) THEN updateMoney(tally[k][a], Winners(k)[a], "BALANCE")
            ELSE tally[k][a]]
      BY <1>6 DEF sendNodeReward
    <3> DEFINE W == Winners(n)
               P == paid(n)
               after(t) == [a \in Addr |->
                 IF a \in P THEN updateMoney(t[a], W[a], "BALANCE") ELSE t[a]]
    <3>2. tally'[m] = after(tally[m])
      <4> HIDE DEF paid
      <4> QED BY <2>1, <2>2, <3>1
    <3>3. tally'[n] = after(tally[n])
      <4> HIDE DEF paid
      <4> QED BY <3>1
    <3>4. tally[m] = tally[n]
      BY <1>2
    <3> HIDE DEF W, P, after
    <3> QED BY <3>2, <3>3, <3>4
  <2>4. Claiming(m)' = Claiming(n)'
    <3>1. ASSUME NEW k \in Node
          PROVE  Claiming(k)' = IF fTest THEN Claiming(k) ELSE Claiming(k) \ paid(k)
      <4>1. nodeRewardsAddrs'[k] = StatusAfter(k, paid(k))
        BY <1>6 DEF sendNodeReward
      <4> HIDE DEF paid
      <4> QED BY <1>1, <4>1 DEF StatusAfter, Claiming
    <3> HIDE DEF paid
    <3> QED BY <1>2, <2>2, <3>1
  <2>5. winners'[m] = winners'[n] /\ p_Reward'[m] = p_Reward'[n]
    BY <1>6, <2>1 DEF sendNodeReward, NoWinners
  <2> QED BY <2>3, <2>4, <2>5
<1>7. ASSUME NEW r \in Node, Restart(r) PROVE Agree'
  <2>1. ASSUME NEW k \in Node PROVE Claiming(k)' = Claiming(k)
    BY <1>1, <1>7 DEF Restart, Claiming, input_node_reward
  <2> QED BY <1>2, <1>7, <2>1 DEF Restart
<1>8. CASE UNCHANGED vars
  BY <1>2, <1>8 DEF vars, Claiming
<1> QED BY <1>3, <1>4, <1>5, <1>6, <1>7, <1>8 DEF Next

\* Any number of nodes, restarted any number of times between blocks, have the
\* same balances, claims, winners and reward until one of them rejects a
\* claim that another accepts.
THEOREM NodesAgree == Spec => []AgreeUntilSplit
<1>1. Init => AgreeUntilSplit
  BY DEF Init, Each, NoWinners, AgreeUntilSplit, Claiming
<1> QED BY <1>1, InitType, StepType, StepAgree, PTL DEF Spec
=============================================================================
