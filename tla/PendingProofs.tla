---------------------------- MODULE PendingProofs ----------------------------
(***************************************************************************)
(* Theorems about the pending transactions of the wallet, for every set of *)
(* addresses and transactions and every number of restarts.                *)
(***************************************************************************)
EXTENDS Pending, TotalsProofs

-----------------------------------------------------------------------------
(* The inductive invariant *)

\* Only broadcast transactions are in a block, none of them is in the mempool
\* any more, and the block under way consists of them.
BlocksOK ==
  /\ block \subseteq confirmed /\ confirmed \subseteq Broadcast
  /\ mempool \cap confirmed = {}
  /\ cur # None => cur \in confirmed

\* An entry of my_pending belongs to a call that has ended.
EntriesOK ==
  \A h \in TxId : /\ my_pending[h] # None => rpc[h] = "done" /\ tx[h] # None
                  /\ tx[h] # None => tx[h].amount <= MaxAmount

ShapeInv == TypeOK /\ BlocksOK /\ EntriesOK

-----------------------------------------------------------------------------
(* Types *)

\* updateMoney answers an integer, and a natural number where the balance may
\* not be negative.
LEMMA MoneyType ==
  ASSUME NEW now \in Int, NEW n \in Int, NEW ty
  PROVE  /\ updateMoney(now, n, ty) \in Int
         /\ now \in Nat /\ ty \notin MayBeNegative => updateMoney(now, n, ty) \in Nat
<1>1. updateMoneyOk(now, n) \in BOOLEAN
  BY DEF updateMoneyOk, isOverflow
<1> HIDE DEF updateMoneyOk
<1> QED BY <1>1 DEF updateMoney

\* The PENDING tally may be negative, BALANCE may not.
LEMMA BalanceNotNegative == "BALANCE" \notin MayBeNegative
BY DEF MayBeNegative

\* What PendingDelete credits is a natural number.
LEMMA CreditType ==
  ASSUME TypeOK, NEW S \in SUBSET TxId, NEW a
  PROVE  Credit(S, a) \in Nat
<1> DEFINE K == {x \in S : my_pending[x] # None /\ tx[x].src = a}
           f == [h \in K |-> my_pending[h]]
<1>1. IsFiniteSet(K)
  BY PendingAssumption, FS_Subset
<1>2. f \in [K -> Nat]
  BY DEF TypeOK
<1> HIDE DEF K, f
<1>3. Total(f) \in Nat
  BY <1>1, <1>2, TotalType
<1> QED BY <1>3 DEF Credit, K, f

\* A tally of the types that TypeOK demands.
TallyOK(t) == t \in [Account -> Int] /\ \A a \in Addr : t[<<a, "BALANCE">>] \in Nat

\* One update of the tally keeps its types.
LEMMA UpdateType ==
  ASSUME NEW t, TallyOK(t), NEW a \in Addr, NEW ty \in {"BALANCE", "PENDING"},
         NEW n \in Int
  PROVE  TallyOK(Update(t, a, ty, n))
<1> DEFINE v == updateMoney(t[<<a, ty>>], n, ty)
<1>1. <<a, ty>> \in Account /\ t[<<a, ty>>] \in Int
  BY DEF TallyOK, Account
<1>2. v \in Int /\ (ty = "BALANCE" => v \in Nat)
  BY <1>1, MoneyType, BalanceNotNegative DEF TallyOK
<1>3. Update(t, a, ty, n) = [t EXCEPT ![<<a, ty>>] = v]
  BY DEF Update
<1> HIDE DEF v
<1>4. ASSUME NEW b \in Addr PROVE [t EXCEPT ![<<a, ty>>] = v][<<b, "BALANCE">>] \in Nat
  BY <1>1, <1>2 DEF TallyOK, Account
<1> QED BY <1>1, <1>2, <1>3, <1>4 DEF TallyOK

\* PendingDelete keeps the types, erases the entries of S and no others.
LEMMA DeleteType ==
  ASSUME TypeOK, NEW S \in SUBSET TxId, PendingDelete(S)
  PROVE  /\ TallyOK(tally')
         /\ my_pending' \in [TxId -> Nat \cup {None}]
         /\ \A h \in TxId : my_pending'[h] # None => my_pending'[h] = my_pending[h]
         /\ \A h \in TxId \ S : my_pending'[h] = my_pending[h]
<1>1. ASSUME NEW x \in Account
      PROVE  tally'[x] \in Int /\ (x[2] = "BALANCE" => tally'[x] \in Nat)
  <2>1. x[1] \in Addr /\ x = <<x[1], x[2]>> /\ tally[x] \in Int
    BY DEF Account, TypeOK
  <2>2. tally'[x] = IF x[2] = "PENDING" /\ tally[x] # 0
         THEN updateMoney(tally[x], Credit(S, x[1]), "PENDING") ELSE tally[x]
    BY DEF PendingDelete
  <2>3. Credit(S, x[1]) \in Int
    BY CreditType
  <2>4. updateMoney(tally[x], Credit(S, x[1]), "PENDING") \in Int
    BY <2>1, <2>3, MoneyType
  <2>5. x[2] = "BALANCE" => tally[x] \in Nat
    BY <2>1 DEF TypeOK
  <2> QED BY <2>1, <2>2, <2>4, <2>5
<1>2. tally' = [x \in Account |-> tally'[x]]
  BY DEF PendingDelete
<1>3. TallyOK(tally')
  <2>1. ASSUME NEW a \in Addr PROVE tally'[<<a, "BALANCE">>] \in Nat
    BY <1>1 DEF Account
  <2> QED BY <1>1, <1>2, <2>1 DEF TallyOK
<1> QED BY <1>3 DEF PendingDelete, TypeOK

\* A transaction that is in a block has a sender and an amount.
LEMMA ConfirmedTx ==
  ASSUME ShapeInv, NEW h \in TxId, h \in Broadcast
  PROVE  tx[h] \in TxRecord /\ tx[h].src \in Addr /\ tx[h].amount \in Nat
<1>1. rpc[h] # "idle" /\ tx[h] # None
  BY DEF Broadcast, ShapeInv, TypeOK
<1>2. tx[h] \in TxRecord
  BY <1>1 DEF ShapeInv, TypeOK
<1> QED BY <1>2 DEF TxRecord

-----------------------------------------------------------------------------
\* The start satisfies the invariant.
LEMMA InitShape == Init => ShapeInv
<1> SUFFICES ASSUME Init PROVE ShapeInv
  OBVIOUS
<1>1. TypeOK
  <2>1. tally \in [Account -> Int] /\ \A a \in Addr : tally[<<a, "BALANCE">>] \in Nat
    BY PendingAssumption DEF Init, Account
  <2> QED BY <2>1, PendingAssumption DEF Init, TypeOK
<1>2. BlocksOK /\ EntriesOK
  BY DEF Init, BlocksOK, EntriesOK, Broadcast
<1> QED BY <1>1, <1>2 DEF ShapeInv

\* The steps of an RPC call keep the invariant.
LEMMA RpcShape ==
  ASSUME ShapeInv, NEW h \in TxId,
         \/ \E a \in Addr, n \in 1 .. MaxAmount : SendCheck(h, a, n)
         \/ SendCommit(h) \/ PendingAddDebit(h) \/ PendingAddInsert(h)
  PROVE  ShapeInv'
<1>0. TypeOK /\ BlocksOK /\ EntriesOK /\ None \notin Nat /\ None \notin TxRecord
  BY PendingAssumption DEF ShapeInv
<1>1. CASE \E a \in Addr, n \in 1 .. MaxAmount : SendCheck(h, a, n)
  <2>1. PICK a \in Addr, n \in 1 .. MaxAmount : SendCheck(h, a, n)
    BY <1>1
  <2>2. n \in Nat /\ n <= MaxAmount /\ [src |-> a, amount |-> n] \in TxRecord
    BY PendingAssumption DEF TxRecord
  <2>3. TypeOK'
    BY <1>0, <2>1, <2>2 DEF TypeOK, SendCheck, node
  <2>4. BlocksOK'
    BY <1>0, <2>1 DEF BlocksOK, SendCheck, node, Broadcast, TypeOK
  <2>5. EntriesOK'
    BY <1>0, <2>1, <2>2 DEF EntriesOK, SendCheck, node, TypeOK
  <2> QED BY <2>3, <2>4, <2>5 DEF ShapeInv
<1>2. CASE SendCommit(h)
  <2>1. TypeOK'
    BY <1>0, <1>2 DEF TypeOK, SendCommit
  <2>2. BlocksOK'
    BY <1>0, <1>2 DEF BlocksOK, SendCommit, Broadcast, TypeOK
  <2>3. EntriesOK'
    BY <1>0, <1>2 DEF EntriesOK, SendCommit, TypeOK
  <2> QED BY <2>1, <2>2, <2>3 DEF ShapeInv
<1>3. CASE PendingAddDebit(h)
  <2>1. tx[h].src \in Addr /\ -tx[h].amount \in Int
    BY <1>3, ConfirmedTx DEF PendingAddDebit, Broadcast
  <2>2. TallyOK(tally')
    BY <1>0, <1>3, <2>1, UpdateType DEF PendingAddDebit, TallyOK, TypeOK
  <2>3. TypeOK'
    BY <1>0, <1>3, <2>2 DEF TypeOK, TallyOK, PendingAddDebit, node
  <2>4. BlocksOK'
    BY <1>0, <1>3 DEF BlocksOK, PendingAddDebit, node, Broadcast, TypeOK
  <2>5. EntriesOK'
    BY <1>0, <1>3 DEF EntriesOK, PendingAddDebit, node, TypeOK
  <2> QED BY <2>3, <2>4, <2>5 DEF ShapeInv
<1>4. CASE PendingAddInsert(h)
  <2>1. tx[h].amount \in Nat /\ tx[h] # None
    BY <1>0, <1>4, ConfirmedTx DEF PendingAddInsert, Broadcast
  <2>3. TypeOK'
    BY <1>0, <1>4, <2>1 DEF TypeOK, PendingAddInsert, node
  <2>4. BlocksOK'
    BY <1>0, <1>4 DEF BlocksOK, PendingAddInsert, node, Broadcast, TypeOK
  <2>5. EntriesOK'
    BY <1>0, <1>4, <2>1 DEF EntriesOK, PendingAddInsert, node, TypeOK
  <2> QED BY <2>3, <2>4, <2>5 DEF ShapeInv
<1> QED BY <1>1, <1>2, <1>3, <1>4

\* The steps of the base node and of the thread that connects blocks keep it.
LEMMA NodeShape ==
  ASSUME ShapeInv,
         \/ \E h \in TxId : Evict(h) \/ Rebroadcast(h) \/ handler_txPending(h)
         \/ \E S \in SUBSET (Broadcast \ confirmed) : block_begin(S)
         \/ handler_tx \/ block_end \/ save_state \/ Restart
  PROVE  ShapeInv'
<1>0. TypeOK /\ BlocksOK /\ EntriesOK /\ None \notin TxId
  BY PendingAssumption DEF ShapeInv
<1>1. ASSUME NEW h \in TxId, Evict(h) \/ Rebroadcast(h) PROVE ShapeInv'
  BY <1>0, <1>1 DEF ShapeInv, TypeOK, BlocksOK, EntriesOK, Evict, Rebroadcast, Broadcast
<1>2. ASSUME NEW h \in TxId, handler_txPending(h) PROVE ShapeInv'
  <2>1. /\ TallyOK(tally')
        /\ my_pending' \in [TxId -> Nat \cup {None}]
        /\ \A g \in TxId : my_pending'[g] # None => my_pending'[g] = my_pending[g]
    <3>1. {h} \in SUBSET TxId /\ PendingDelete({h})
      BY <1>2 DEF handler_txPending
    <3> QED BY <1>0, <3>1, DeleteType
  <2> QED BY <1>0, <1>2, <2>1
          DEF ShapeInv, TypeOK, TallyOK, BlocksOK, EntriesOK, handler_txPending, Broadcast
<1>3. ASSUME NEW S \in SUBSET (Broadcast \ confirmed), block_begin(S) PROVE ShapeInv'
  BY <1>0, <1>3 DEF ShapeInv, TypeOK, BlocksOK, EntriesOK, block_begin, Broadcast
<1>4. CASE handler_tx
  <2>1. cur \in TxId /\ cur \in Broadcast
    BY <1>0, <1>4 DEF handler_tx, TypeOK, BlocksOK
  <2>2. tx[cur].src \in Addr /\ tx[cur].amount \in Nat
    BY <2>1, ConfirmedTx
  <2>3. TallyOK(Update(tally, tx[cur].src, "BALANCE", -tx[cur].amount))
    <3>1. TallyOK(tally) /\ -tx[cur].amount \in Int
      BY <1>0, <2>2 DEF TallyOK, TypeOK
    <3> QED BY <2>2, <3>1, UpdateType
  <2>4. TallyOK(tally')
    BY <1>0, <1>4, <2>3 DEF handler_tx, TallyOK, TypeOK
  <2> QED BY <1>0, <1>4, <2>4
          DEF ShapeInv, TypeOK, TallyOK, BlocksOK, EntriesOK, handler_tx, Broadcast
<1>5. CASE block_end
  <2>1. /\ TallyOK(tally')
        /\ my_pending' \in [TxId -> Nat \cup {None}]
        /\ \A g \in TxId : my_pending'[g] # None => my_pending'[g] = my_pending[g]
    <3>1. PendingCheck \in SUBSET TxId /\ PendingDelete(PendingCheck)
      BY <1>5 DEF block_end, PendingCheck
    <3> QED BY <1>0, <3>1, DeleteType
  <2> QED BY <1>0, <1>5, <2>1
          DEF ShapeInv, TypeOK, TallyOK, BlocksOK, EntriesOK, block_end, Broadcast
<1>6. CASE save_state
  <2>1. saved' \in [Addr -> Int]
    BY <1>0, <1>6 DEF save_state, TypeOK, Account
  <2> QED BY <1>0, <1>6, <2>1
          DEF ShapeInv, TypeOK, BlocksOK, EntriesOK, save_state, Broadcast
<1>7. CASE Restart
  <2>1. TallyOK(tally')
    BY <1>0, <1>7 DEF Restart, TypeOK, TallyOK, Account
  <2>2. /\ rpc' \in [TxId -> {"idle", "checked", "sent", "debited", "done", "lost"}]
        /\ \A h \in TxId : /\ rpc'[h] # "idle" => rpc[h] # "idle"
                           /\ rpc[h] \in {"sent", "debited", "done"} => rpc'[h] = "done"
    <3>1. ASSUME NEW h \in TxId
          PROVE  /\ rpc'[h] \in {"idle", "checked", "sent", "debited", "done", "lost"}
                 /\ rpc'[h] # "idle" => rpc[h] # "idle"
                 /\ rpc[h] \in {"sent", "debited", "done"} => rpc'[h] = "done"
      BY <1>0, <1>7 DEF Restart, TypeOK
    <3>2. rpc' = [h \in TxId |-> rpc'[h]]
      BY <1>7 DEF Restart
    <3> QED BY <3>1, <3>2
  <2>3. mempool' \subseteq mempool /\ restarts' \in 0 .. MaxRestarts
    BY <1>0, <1>7, PendingAssumption DEF Restart, TypeOK
  <2>4. my_pending' = [h \in TxId |-> None] /\ loaded' = saved
        /\ UNCHANGED <<tx, block, cur, phase, confirmed, saved>>
    BY <1>7 DEF Restart
  <2>5. TypeOK'
    BY <1>0, <2>1, <2>2, <2>3, <2>4 DEF TypeOK, TallyOK
  <2>6. BlocksOK'
    BY <1>0, <2>2, <2>3, <2>4 DEF BlocksOK, Broadcast, TypeOK
  <2>7. EntriesOK'
    BY <1>0, <2>4 DEF EntriesOK
  <2> QED BY <2>5, <2>6, <2>7 DEF ShapeInv
<1> QED BY <1>1, <1>2, <1>3, <1>4, <1>5, <1>6, <1>7

\* Every step keeps it.
LEMMA StepShape == ShapeInv /\ [Next]_vars => ShapeInv'
<1> SUFFICES ASSUME ShapeInv, [Next]_vars PROVE ShapeInv'
  OBVIOUS
<1>1. CASE Next
  BY <1>1, RpcShape, NodeShape DEF Next
<1>2. CASE UNCHANGED vars
  BY <1>2 DEF vars, ShapeInv, TypeOK, BlocksOK, EntriesOK, Broadcast
<1> QED BY <1>1, <1>2

\* The variables keep their types: BALANCE never below zero, amounts in
\* my_pending positive or none, a sender and an amount for every call begun.
THEOREM PendingTypeCorrect == Spec => []TypeOK
<1>1. ShapeInv => TypeOK
  BY DEF ShapeInv
<1> QED BY <1>1, InitShape, StepShape, PTL DEF Spec

\* NoEarlyRelease of one step.
ReleaseStep ==
  \A h \in TxId : /\ my_pending[h] # None /\ my_pending'[h] = None
                  /\ restarts' = restarts
                  => h \notin mempool

\* A step that keeps my_pending, or that erases the entries of transactions
\* outside the mempool only, releases none too early.
LEMMA StepRelease == ShapeInv /\ [Next]_vars => ReleaseStep
<1> SUFFICES ASSUME ShapeInv, [Next]_vars PROVE ReleaseStep
  OBVIOUS
<1>0. TypeOK /\ BlocksOK /\ EntriesOK /\ None \notin Nat /\ None \notin TxId
  BY PendingAssumption DEF ShapeInv
<1>1. ASSUME NEW h \in TxId, NEW a \in Addr, NEW n \in 1 .. MaxAmount, SendCheck(h, a, n)
      PROVE  ReleaseStep
  BY <1>1 DEF SendCheck, ReleaseStep
<1>2. ASSUME NEW h \in TxId,
             SendCommit(h) \/ PendingAddDebit(h) \/ Evict(h) \/ Rebroadcast(h)
      PROVE  ReleaseStep
  BY <1>2 DEF SendCommit, PendingAddDebit, Evict, Rebroadcast, ReleaseStep
<1>3. ASSUME NEW h \in TxId, PendingAddInsert(h) PROVE ReleaseStep
  <2>1. tx[h].amount \in Nat
    BY <1>3, ConfirmedTx DEF PendingAddInsert, Broadcast
  <2> QED BY <1>0, <1>3, <2>1 DEF PendingAddInsert, ReleaseStep, TypeOK
<1>4. ASSUME NEW h \in TxId, handler_txPending(h) PROVE ReleaseStep
  <2>1. h \notin mempool /\ PendingDelete({h})
    BY <1>0, <1>4 DEF handler_txPending, BlocksOK
  <2>2. \A g \in TxId \ {h} : my_pending'[g] = my_pending[g]
    BY <2>1 DEF PendingDelete
  <2> QED BY <2>1, <2>2 DEF ReleaseStep
<1>5. ASSUME NEW S \in SUBSET (Broadcast \ confirmed), block_begin(S) PROVE ReleaseStep
  BY <1>5 DEF block_begin, ReleaseStep
<1>6. CASE handler_tx \/ save_state
  BY <1>6 DEF handler_tx, save_state, ReleaseStep
<1>7. CASE block_end
  <2>1. \A g \in TxId \ PendingCheck : my_pending'[g] = my_pending[g]
    BY <1>7 DEF block_end, PendingDelete
  <2> QED BY <2>1 DEF ReleaseStep, PendingCheck
<1>8. CASE Restart
  BY <1>0, <1>8 DEF Restart, ReleaseStep, TypeOK
<1>9. CASE UNCHANGED vars
  BY <1>9 DEF vars, ReleaseStep
<1> QED BY <1>1, <1>2, <1>3, <1>4, <1>5, <1>6, <1>7, <1>8, <1>9 DEF Next

\* An entry of my_pending is taken out, while the node runs, only for a
\* transaction that is not in the mempool: mastercore_handler_tx meets only
\* transactions of the block, which the base node has taken out of it, and
\* PendingCheck asks the mempool itself.
THEOREM ReleasedAfterMempool == Spec => NoEarlyRelease
<1>1. ShapeInv /\ [Next]_vars => [ReleaseStep]_vars
  BY StepRelease
<1> QED BY <1>1, InitShape, StepShape, PTL DEF Spec, NoEarlyRelease, ReleaseStep

-----------------------------------------------------------------------------
(* The PENDING tally *)

\* What the transaction h holds back of address a, over every transaction, for
\* given my_pending m, calls r and transactions t.
Claims(m, r, t, a) ==
  [h \in TxId |-> IF t[h] # None /\ t[h].src = a
                    THEN IF r[h] = "debited" THEN t[h].amount
                         ELSE IF m[h] # None THEN m[h] ELSE 0
                    ELSE 0]

\* The values that my_pending, rpc and tx take together.
Entries(m, r, t) ==
  /\ m \in [TxId -> Nat \cup {None}] /\ t \in [TxId -> TxRecord \cup {None}]
  /\ \A h \in TxId : m[h] # None => r[h] = "done" /\ t[h] # None

\* Claims are amounts.
LEMMA ClaimsType ==
  ASSUME NEW m, NEW r, NEW t, Entries(m, r, t), NEW a
  PROVE  Claims(m, r, t, a) \in [TxId -> Nat] /\ IsFiniteSet(TxId)
<1>1. ASSUME NEW h \in TxId
      PROVE  /\ t[h] # None => t[h].amount \in Nat
             /\ m[h] # None => m[h] \in Nat
  BY DEF Entries, TxRecord
<1> QED BY <1>1, PendingAssumption DEF Claims

\* Held adds up the claims: those of other addresses are 0.
LEMMA HeldTotal ==
  ASSUME NEW m, NEW r, NEW t, Entries(m, r, t), NEW a
  PROVE  Total([h \in {x \in TxId : t[x] # None /\ t[x].src = a} |->
                  IF r[h] = "debited" THEN t[h].amount
                  ELSE IF m[h] # None THEN m[h] ELSE 0])
           = Total(Claims(m, r, t, a))
<1> DEFINE A == {x \in TxId : t[x] # None /\ t[x].src = a}
           B == TxId \ A
           f == Claims(m, r, t, a)
           g == [h \in A |-> IF r[h] = "debited" THEN t[h].amount
                             ELSE IF m[h] # None THEN m[h] ELSE 0]
           z == [h \in B |-> 0]
<1>1. f \in [TxId -> Nat] /\ IsFiniteSet(TxId)
  BY ClaimsType
<1>2. A \cap B = {} /\ A \cup B = TxId /\ A \subseteq TxId /\ B \subseteq TxId
  OBVIOUS
<1>3. (\A k \in A : f[k] = g[k]) /\ (\A k \in B : f[k] = z[k])
  BY DEF Claims
<1>4. g \in [A -> Nat] /\ z \in [B -> Nat] /\ \A k \in B : z[k] = 0
  <2>1. ASSUME NEW k \in A PROVE g[k] \in Nat
    BY <1>1, <1>3
  <2>2. g = [k \in A |-> g[k]]
    OBVIOUS
  <2> HIDE DEF g, A
  <2> QED BY <2>1, <2>2
<1>5. IsFiniteSet(A) /\ IsFiniteSet(B)
  BY <1>1, <1>2, FS_Subset
<1> HIDE DEF A, B, f, g, z
<1>6. Total(f) = Total(g) + Total(z) /\ Total(g) \in Nat
  <2>1. SplitInto(f, A, g, B, z)
    BY <1>1, <1>2, <1>3, <1>4, <1>5 DEF SplitInto
  <2> QED BY <2>1, TotalSplit
<1>7. Total(z) = 0
  BY <1>4, TotalZero
<1>8. Total(g) = Total(f)
  BY <1>6, <1>7
<1> QED BY <1>8 DEF A, f, g

\* Credit(S, a), for given my_pending m and transactions t.
GivenBack(m, t, S, a) ==
  Total([h \in {x \in S : m[x] # None /\ t[x].src = a} |-> m[h]])

\* The entries that PendingDelete erases give back what they held.
LEMMA DeleteTotal ==
  ASSUME NEW m, NEW r, NEW t, Entries(m, r, t), NEW a, NEW S \in SUBSET TxId,
         NEW n, n = [h \in TxId |-> IF h \in S THEN None ELSE m[h]]
  PROVE  /\ Total(Claims(m, r, t, a)) = Total(Claims(n, r, t, a)) + GivenBack(m, t, S, a)
         /\ Total(Claims(n, r, t, a)) \in Nat
         /\ GivenBack(m, t, S, a) \in Nat
<1> DEFINE A == {x \in S : m[x] # None /\ t[x].src = a}
           B == TxId \ A
           f == Claims(m, r, t, a)
           g == Claims(n, r, t, a)
           c == [h \in A |-> m[h]]
           z == [h \in A |-> 0]
           u == [h \in B |-> f[h]]
<1>1. Entries(n, r, t)
  BY DEF Entries
<1>2. f \in [TxId -> Nat] /\ g \in [TxId -> Nat] /\ IsFiniteSet(TxId)
  BY <1>1, ClaimsType
<1>3. A \cap B = {} /\ A \cup B = TxId /\ A \subseteq TxId /\ B \subseteq TxId
  OBVIOUS
<1>4. ASSUME NEW k \in A PROVE f[k] = c[k] /\ g[k] = z[k] /\ c[k] \in Nat
  <2>1. k \in TxId /\ m[k] # None /\ r[k] = "done" /\ t[k] # None /\ t[k].src = a
    BY DEF Entries
  <2>2. m[k] \in Nat /\ n[k] = None
    BY <2>1 DEF Entries
  <2> QED BY <2>1, <2>2 DEF Claims
<1>5. ASSUME NEW k \in B PROVE f[k] = u[k] /\ g[k] = u[k] /\ u[k] \in Nat
  <2>1. k \in TxId /\ (k \notin S \/ m[k] = None \/ t[k].src # a)
    OBVIOUS
  <2>2. g[k] = f[k]
    BY <2>1 DEF Claims
  <2> QED BY <1>2, <2>1, <2>2
<1>6. c \in [A -> Nat] /\ z \in [A -> Nat] /\ u \in [B -> Nat] /\ \A k \in A : z[k] = 0
  BY <1>4, <1>5
<1>7. IsFiniteSet(A) /\ IsFiniteSet(B)
  BY <1>2, <1>3, FS_Subset
<1> HIDE DEF A, B, f, g, c, z, u
<1>8. Total(f) = Total(c) + Total(u) /\ Total(c) \in Nat /\ Total(u) \in Nat
  <2>1. SplitInto(f, A, c, B, u)
    BY <1>2, <1>3, <1>4, <1>5, <1>6, <1>7 DEF SplitInto
  <2> QED BY <2>1, TotalSplit
<1>9. Total(g) = Total(z) + Total(u) /\ Total(z) \in Nat /\ Total(u) \in Nat
  <2>1. g \in [A \cup B -> Nat] /\ (\A k \in A : g[k] = z[k]) /\ (\A k \in B : g[k] = u[k])
    BY <1>2, <1>3, <1>4, <1>5
  <2>2. SplitInto(g, A, z, B, u)
    BY <1>3, <1>6, <1>7, <2>1 DEF SplitInto
  <2> QED BY <2>2, TotalSplit
<1>10. Total(z) = 0
  BY <1>6, TotalZero
<1>11. Total(f) = Total(g) + Total(c) /\ Total(g) \in Nat /\ Total(c) \in Nat
  BY <1>8, <1>9, <1>10
<1> QED BY <1>11 DEF A, f, g, c, GivenBack

-----------------------------------------------------------------------------
\* A start never reads a positive amount.
ReadOK == \A a \in Addr : saved[a] <= 0 /\ loaded[a] <= 0

TallyInv == ShapeInv /\ ReadOK /\ PendingExplained

\* No debit of PendingAdd overflows an int64.
DebitFits ==
  \A h \in TxId : rpc[h] = "sent" =>
    tally[<<tx[h].src, "PENDING">>] - tx[h].amount >= MIN_INT64

\* Entries of the invariant, before and after a step.
LEMMA ShapeEntries ==
  /\ ShapeInv => Entries(my_pending, rpc, tx)
  /\ ShapeInv' => Entries(my_pending', rpc', tx')
BY DEF ShapeInv, TypeOK, EntriesOK, Entries

\* PendingExplained over the claims of all transactions.
LEMMA ExplainedMeans ==
  /\ ShapeInv => (PendingExplained <=>
       \A a \in Addr : tally[<<a, "PENDING">>]
                         = loaded[a] - Total(Claims(my_pending, rpc, tx, a)))
  /\ ShapeInv' => (PendingExplained' <=>
       \A a \in Addr : tally'[<<a, "PENDING">>]
                         = loaded'[a] - Total(Claims(my_pending', rpc', tx', a)))
<1>1. ASSUME ShapeInv, NEW a PROVE Held(a) = Total(Claims(my_pending, rpc, tx, a))
  <2>1. Entries(my_pending, rpc, tx)
    BY <1>1, ShapeEntries
  <2> QED BY <2>1, HeldTotal DEF Held
<1>2. ASSUME ShapeInv', NEW a PROVE Held(a)' = Total(Claims(my_pending', rpc', tx', a))
  <2>1. Entries(my_pending', rpc', tx')
    BY <1>2, ShapeEntries
  <2> QED BY <2>1, HeldTotal DEF Held
<1> QED BY <1>1, <1>2 DEF PendingExplained

\* A step that leaves the claims and the PENDING tally alone, and at most
\* writes that tally to the state file, keeps the invariant.
LEMMA QuietStep ==
  ASSUME TallyInv, ShapeInv',
         \A a \in Addr : Claims(my_pending', rpc', tx', a) = Claims(my_pending, rpc, tx, a),
         \A a \in Addr : tally'[<<a, "PENDING">>] = tally[<<a, "PENDING">>],
         loaded' = loaded,
         \A a \in Addr : saved'[a] = saved[a] \/ saved'[a] = tally[<<a, "PENDING">>]
  PROVE  ReadOK' /\ PendingExplained'
<1>1. /\ \A a \in Addr : tally[<<a, "PENDING">>]
                           = loaded[a] - Total(Claims(my_pending, rpc, tx, a))
      /\ \A a \in Addr : tally[<<a, "PENDING">>] \in Int /\ loaded[a] \in Int
      /\ \A a \in Addr : Total(Claims(my_pending, rpc, tx, a)) \in Nat
  <2>1. Entries(my_pending, rpc, tx)
    BY ShapeEntries DEF TallyInv
  <2>2. \A a \in Addr : Total(Claims(my_pending, rpc, tx, a)) \in Nat
    BY <2>1, ClaimsType, TotalType
  <2> QED BY <2>2, ExplainedMeans DEF TallyInv, ShapeInv, TypeOK, Account
<1>2. PendingExplained'
  BY <1>1, ExplainedMeans
<1>3. ASSUME NEW a \in Addr PROVE saved'[a] <= 0 /\ loaded'[a] <= 0
  <2> DEFINE T == tally[<<a, "PENDING">>]
             N == Total(Claims(my_pending, rpc, tx, a))
  <2>1. T = loaded[a] - N /\ N \in Nat /\ loaded[a] \in Int /\ loaded[a] <= 0
        /\ saved[a] <= 0
    BY <1>1 DEF TallyInv, ReadOK
  <2>2. T <= 0
    <3> HIDE DEF T, N
    <3> QED BY <2>1
  <2> QED BY <2>1, <2>2
<1> QED BY <1>2, <1>3 DEF ReadOK

\* The debit of PendingAdd, when it does not overflow, is what the call holds.
LEMMA DebitStep ==
  ASSUME DebitFits, TallyInv, ShapeInv', NEW h \in TxId, PendingAddDebit(h)
  PROVE  ReadOK' /\ PendingExplained'
<1> DEFINE b == tx[h].src
           n == tx[h].amount
<1>1. /\ b \in Addr /\ n \in Nat /\ n <= MaxAmount /\ tx[h] # None
      /\ rpc[h] = "sent" /\ my_pending[h] = None /\ MaxAmount \in Nat
  <2>1. h \in Broadcast /\ ShapeInv /\ rpc[h] = "sent"
    BY DEF TallyInv, PendingAddDebit, Broadcast
  <2>2. b \in Addr /\ n \in Nat /\ tx[h] \in TxRecord
    BY <2>1, ConfirmedTx
  <2>3. tx[h] # None
    BY <2>2, PendingAssumption
  <2> QED BY <2>1, <2>2, <2>3, PendingAssumption DEF ShapeInv, EntriesOK
<1>2. /\ tally' = Update(tally, b, "PENDING", -n)
      /\ rpc' = [rpc EXCEPT ![h] = "debited"] /\ my_pending' = my_pending /\ tx' = tx
      /\ loaded' = loaded /\ saved' = saved
  BY DEF PendingAddDebit, node
<1>3. rpc \in [TxId -> {"idle", "checked", "sent", "debited", "done", "lost"}]
      /\ tally \in [Account -> Int] /\ saved \in [Addr -> Int] /\ loaded \in [Addr -> Int]
  BY DEF TallyInv, ShapeInv, TypeOK
<1>6. ASSUME NEW a \in Addr
      PROVE  /\ saved[a] <= 0 /\ loaded[a] <= 0
             /\ tally[<<a, "PENDING">>] \in Int /\ loaded[a] \in Int
             /\ tally[<<a, "PENDING">>]
                  = loaded[a] - Total(Claims(my_pending, rpc, tx, a))
             /\ Total(Claims(my_pending, rpc, tx, a)) \in Nat
  <2>1. Entries(my_pending, rpc, tx) /\ ShapeInv
    BY ShapeEntries DEF TallyInv
  <2>2. Total(Claims(my_pending, rpc, tx, a)) \in Nat
    BY <2>1, ClaimsType, TotalType
  <2>3. tally[<<a, "PENDING">>] = loaded[a] - Total(Claims(my_pending, rpc, tx, a))
    BY <2>1, ExplainedMeans DEF TallyInv
  <2> QED BY <1>3, <2>2, <2>3 DEF TallyInv, ReadOK, Account
<1>7. ASSUME NEW a \in Addr
      PROVE  /\ tally'[<<a, "PENDING">>]
                  = tally[<<a, "PENDING">>] - (IF a = b THEN n ELSE 0)
             /\ Total(Claims(my_pending', rpc', tx', a))
                  = Total(Claims(my_pending, rpc, tx, a)) + (IF a = b THEN n ELSE 0)
  <2>1. CASE a = b
    <3>1. <<b, "PENDING">> \in Account
      BY <1>1 DEF Account
    <3>2. tally'[<<b, "PENDING">>] = updateMoney(tally[<<b, "PENDING">>], -n, "PENDING")
      BY <1>2, <1>3, <3>1 DEF Update
    <3> DEFINE T == tally[<<b, "PENDING">>]
    <3>3. T \in Int /\ T - n >= MIN_INT64
      BY <1>1, <1>6 DEF DebitFits
    <3>4. updateMoney(T, -n, "PENDING") = T - n
      <4> HIDE DEF T, n
      <4>1. ~isOverflow(T, -n)
        BY <1>1, <3>3, MaxInt64Assumption DEF isOverflow, MIN_INT64
      <4>2. CASE n = 0
        BY <4>2, <3>3 DEF updateMoney, updateMoneyOk
      <4>3. CASE n # 0
        <5>1. updateMoneyOk(T, -n)
          BY <4>1, <4>3, <1>1 DEF updateMoneyOk
        <5>2. T + (-n) = T - n
          BY <1>1, <3>3
        <5> QED BY <5>1, <5>2 DEF updateMoney, MayBeNegative
      <4> QED BY <4>2, <4>3
    <3>5. Entries(my_pending, rpc, tx)
      BY ShapeEntries DEF TallyInv
    <3> DEFINE f == Claims(my_pending, rpc, tx, b)
    <3>6. f \in [TxId -> Nat] /\ IsFiniteSet(TxId)
      BY <3>5, ClaimsType
    <3>7. f[h] = 0
      BY <1>1 DEF Claims
    <3>8. Claims(my_pending', rpc', tx', b) = [f EXCEPT ![h] = n]
      <4>1. ASSUME NEW g \in TxId
            PROVE  Claims(my_pending', rpc', tx', b)[g] = [f EXCEPT ![h] = n][g]
        <5>1. CASE g = h
          BY <1>1, <1>2, <1>3, <3>6, <5>1 DEF Claims
        <5>2. CASE g # h
          BY <1>1, <1>2, <1>3, <3>6, <5>2 DEF Claims
        <5> QED BY <5>1, <5>2
      <4>2. Claims(my_pending', rpc', tx', b)
              = [g \in TxId |-> Claims(my_pending', rpc', tx', b)[g]]
        BY DEF Claims
      <4>3. [f EXCEPT ![h] = n] = [g \in TxId |-> [f EXCEPT ![h] = n][g]]
        BY <3>6
      <4> HIDE DEF f
      <4> QED BY <4>1, <4>2, <4>3
    <3> HIDE DEF f
    <3>9. Total([f EXCEPT ![h] = n]) = Total(f) - f[h] + n /\ Total(f) \in Nat
      BY <1>1, <3>6, TotalUpdate
    <3>10. Total([f EXCEPT ![h] = n]) = Total(f) + n
      BY <1>1, <3>7, <3>9
    <3> QED BY <2>1, <3>2, <3>4, <3>8, <3>10 DEF f
  <2>2. CASE a # b
    <3>1. tally'[<<a, "PENDING">>] = tally[<<a, "PENDING">>]
      BY <1>1, <1>2, <1>3, <2>2 DEF Update, Account
    <3>2. Claims(my_pending', rpc', tx', a) = Claims(my_pending, rpc, tx, a)
      BY <1>2, <1>3, <2>2 DEF Claims
    <3> QED BY <1>6, <2>2, <3>1, <3>2
  <2> QED BY <2>1, <2>2
<1> DEFINE k(a) == IF a = b THEN n ELSE 0
<1>8. \A a \in Addr : k(a) \in Nat
  BY <1>1
<1>9. ASSUME NEW a \in Addr
      PROVE  tally'[<<a, "PENDING">>]
               = loaded'[a] - Total(Claims(my_pending', rpc', tx', a))
  <2> DEFINE T == tally[<<a, "PENDING">>]
             N == Total(Claims(my_pending, rpc, tx, a))
  <2>1. /\ k(a) \in Nat /\ T \in Int /\ N \in Nat /\ loaded[a] \in Int
        /\ T = loaded[a] - N /\ tally'[<<a, "PENDING">>] = T - k(a)
        /\ Total(Claims(my_pending', rpc', tx', a)) = N + k(a)
        /\ loaded'[a] = loaded[a]
    BY <1>2, <1>6, <1>7, <1>8
  <2> HIDE DEF T, N, k
  <2> QED BY <2>1
<1>10. ReadOK'
  BY <1>2 DEF ReadOK, TallyInv
<1> QED BY <1>9, <1>10, ExplainedMeans

\* PendingDelete credits what its entries held: it never overflows, and a tally
\* of 0, which it does not credit, has no entry with an amount.
LEMMA DeleteStep ==
  ASSUME TallyInv, ShapeInv', NEW S \in SUBSET TxId, PendingDelete(S),
         UNCHANGED <<rpc, tx, loaded, saved>>
  PROVE  ReadOK' /\ PendingExplained'
<1>1. Entries(my_pending, rpc, tx) /\ ShapeInv /\ TypeOK
  BY ShapeEntries DEF TallyInv, ShapeInv
<1>2. ASSUME NEW a \in Addr
      PROVE  tally'[<<a, "PENDING">>]
               = loaded'[a] - Total(Claims(my_pending', rpc', tx', a))
  <2> DEFINE T == tally[<<a, "PENDING">>]
             N == Total(Claims(my_pending, rpc, tx, a))
             M == Total(Claims(my_pending', rpc', tx', a))
             R == Credit(S, a)
  <2>1. N = M + R /\ M \in Nat /\ R \in Nat
    <3>1. my_pending' = [h \in TxId |-> IF h \in S THEN None ELSE my_pending[h]]
      BY DEF PendingDelete
    <3>2. /\ N = Total(Claims(my_pending', rpc, tx, a)) + R
          /\ Total(Claims(my_pending', rpc, tx, a)) \in Nat /\ R \in Nat
      <4>1. R = GivenBack(my_pending, tx, S, a)
        BY DEF Credit, GivenBack
      <4> QED BY <1>1, <3>1, <4>1, DeleteTotal
    <3>3. rpc' = rpc /\ tx' = tx
      OBVIOUS
    <3> QED BY <3>2, <3>3
  <2>2. T = loaded[a] - N /\ T \in Int /\ loaded[a] \in Int /\ loaded[a] <= 0
    BY <1>1, ExplainedMeans DEF TallyInv, ReadOK, TypeOK, Account
  <2>4. tally'[<<a, "PENDING">>] = IF T # 0 THEN updateMoney(T, R, "PENDING") ELSE T
    <3>1. <<a, "PENDING">> \in Account
      BY DEF Account
    <3> QED BY <3>1 DEF PendingDelete
  <2> HIDE DEF T, N, M, R
  <2>5. tally'[<<a, "PENDING">>] = T + R
    <3>1. CASE T = 0
      <4>1. R = 0
        BY <2>1, <2>2, <3>1
      <4> QED BY <2>4, <3>1, <4>1
    <3>2. CASE T # 0 /\ R = 0
      BY <2>2, <2>4, <3>2 DEF updateMoney, updateMoneyOk
    <3>3. CASE T # 0 /\ R # 0
      <4>1. ~isOverflow(T, R)
        BY <2>1, <2>2, MaxInt64Assumption DEF isOverflow
      <4>2. updateMoneyOk(T, R)
        BY <3>3, <4>1 DEF updateMoneyOk
      <4> QED BY <2>4, <3>3, <4>2 DEF updateMoney, MayBeNegative
    <3> QED BY <3>1, <3>2, <3>3
  <2>6. loaded'[a] = loaded[a]
    OBVIOUS
  <2>7. tally'[<<a, "PENDING">>] = loaded'[a] - M
    BY <2>1, <2>2, <2>5, <2>6
  <2> QED BY <2>7 DEF M
<1>3. PendingExplained'
  BY <1>2, ExplainedMeans
<1>4. ReadOK'
  BY DEF TallyInv, ReadOK
<1> QED BY <1>3, <1>4

\* A restart forgets all entries and reads what the state file holds back.
LEMMA RestartStep ==
  ASSUME TallyInv, ShapeInv', Restart
  PROVE  ReadOK' /\ PendingExplained'
<1>0. TypeOK /\ ReadOK
  BY DEF TallyInv, ShapeInv
<1>1. ASSUME NEW h \in TxId
      PROVE  rpc'[h] # "debited" /\ my_pending'[h] = None
  BY <1>0 DEF Restart, TypeOK
<1>2. ASSUME NEW a \in Addr PROVE Total(Claims(my_pending', rpc', tx', a)) = 0
  <2>1. Claims(my_pending', rpc', tx', a) \in [TxId -> Nat]
    BY ShapeEntries, ClaimsType
  <2>2. \A h \in TxId : Claims(my_pending', rpc', tx', a)[h] = 0
    BY <1>1 DEF Claims
  <2> QED BY <2>1, <2>2, TotalZero
<1>3. /\ \A a \in Addr : tally'[<<a, "PENDING">>] = saved[a]
      /\ loaded' = saved /\ saved' = saved /\ saved \in [Addr -> Int]
  BY <1>0 DEF Restart, Account, TypeOK
<1>4. PendingExplained'
  <2>1. ASSUME NEW a \in Addr
        PROVE  tally'[<<a, "PENDING">>]
                 = loaded'[a] - Total(Claims(my_pending', rpc', tx', a))
    BY <1>2, <1>3
  <2> QED BY <2>1, ExplainedMeans
<1>5. ReadOK'
  BY <1>0, <1>3 DEF ReadOK
<1> QED BY <1>4, <1>5

\* Every step keeps the tally explained.
LEMMA StepTally == DebitFits /\ TallyInv /\ [Next]_vars => TallyInv'
<1> SUFFICES ASSUME DebitFits, TallyInv, [Next]_vars PROVE TallyInv'
  OBVIOUS
<1>0. /\ ShapeInv' /\ TypeOK /\ BlocksOK /\ EntriesOK
      /\ None \notin Nat /\ None \notin TxRecord
  BY StepShape, PendingAssumption DEF TallyInv, ShapeInv
<1> SUFFICES ReadOK' /\ PendingExplained'
  BY <1>0 DEF TallyInv
<1>1. ASSUME NEW h \in TxId, NEW a \in Addr, NEW n \in 1 .. MaxAmount, SendCheck(h, a, n)
      PROVE  ReadOK' /\ PendingExplained'
  <2>1. rpc[h] = "idle" /\ my_pending[h] = None
    BY <1>0, <1>1 DEF SendCheck, EntriesOK
  <2>2. /\ rpc' = [rpc EXCEPT ![h] = "checked"] /\ my_pending' = my_pending
        /\ tx' = [tx EXCEPT ![h] = [src |-> a, amount |-> n]]
        /\ UNCHANGED <<tally, loaded, saved>>
    BY <1>1 DEF SendCheck, node
  <2>3. ASSUME NEW b, NEW g \in TxId
        PROVE  Claims(my_pending', rpc', tx', b)[g] = Claims(my_pending, rpc, tx, b)[g]
    <3>1. CASE g = h
      BY <1>0, <2>1, <2>2, <3>1 DEF Claims, TypeOK
    <3>2. CASE g # h
      BY <1>0, <2>2, <3>2 DEF Claims, TypeOK
    <3> QED BY <3>1, <3>2
  <2>4. \A b : Claims(my_pending', rpc', tx', b) = Claims(my_pending, rpc, tx, b)
    BY <2>3 DEF Claims
  <2> QED BY <1>0, <2>2, <2>4, QuietStep
<1>2. ASSUME NEW h \in TxId, SendCommit(h) PROVE ReadOK' /\ PendingExplained'
  <2>1. rpc[h] = "checked" /\ my_pending[h] = None
    BY <1>0, <1>2 DEF SendCommit, EntriesOK
  <2>2. /\ rpc' = [rpc EXCEPT ![h] = "sent"]
        /\ UNCHANGED <<tally, loaded, saved, my_pending, tx>>
    BY <1>2 DEF SendCommit
  <2>3. \A b : Claims(my_pending', rpc', tx', b) = Claims(my_pending, rpc, tx, b)
    BY <1>0, <2>1, <2>2 DEF Claims, TypeOK
  <2> QED BY <1>0, <2>2, <2>3, QuietStep
<1>3. ASSUME NEW h \in TxId, PendingAddDebit(h) PROVE ReadOK' /\ PendingExplained'
  BY <1>0, <1>3, DebitStep
<1>4. ASSUME NEW h \in TxId, PendingAddInsert(h) PROVE ReadOK' /\ PendingExplained'
  <2>1. /\ rpc[h] = "debited" /\ tx[h] # None /\ tx[h].amount \in Nat
        /\ rpc' = [rpc EXCEPT ![h] = "done"]
        /\ my_pending' = [my_pending EXCEPT ![h] = tx[h].amount]
        /\ UNCHANGED <<tally, loaded, saved, tx>>
    BY <1>0, <1>4, ConfirmedTx DEF PendingAddInsert, node, Broadcast, TallyInv
  <2>2. ASSUME NEW b, NEW g \in TxId
        PROVE  Claims(my_pending', rpc', tx', b)[g] = Claims(my_pending, rpc, tx, b)[g]
    <3>1. CASE g = h
      <4>1. rpc'[h] = "done" /\ my_pending'[h] = tx[h].amount /\ my_pending'[h] # None
        BY <1>0, <2>1 DEF TypeOK
      <4> QED BY <2>1, <3>1, <4>1 DEF Claims
    <3>2. CASE g # h
      BY <1>0, <2>1, <3>2 DEF Claims, TypeOK
    <3> QED BY <3>1, <3>2
  <2>3. \A b : Claims(my_pending', rpc', tx', b) = Claims(my_pending, rpc, tx, b)
    BY <2>2 DEF Claims
  <2> QED BY <1>0, <2>1, <2>3, QuietStep
<1>5. ASSUME NEW h \in TxId, Evict(h) \/ Rebroadcast(h)
      PROVE  ReadOK' /\ PendingExplained'
  <2>1. UNCHANGED <<tally, loaded, saved, my_pending, rpc, tx>>
    BY <1>5 DEF Evict, Rebroadcast
  <2> QED BY <1>0, <2>1, QuietStep
<1>6. ASSUME NEW h \in TxId, handler_txPending(h) PROVE ReadOK' /\ PendingExplained'
  <2>1. PendingDelete({h}) /\ UNCHANGED <<rpc, tx, loaded, saved>>
    BY <1>6 DEF handler_txPending
  <2> QED BY <1>0, <2>1, DeleteStep
<1>7. ASSUME NEW S \in SUBSET (Broadcast \ confirmed), block_begin(S)
      PROVE  ReadOK' /\ PendingExplained'
  <2>1. UNCHANGED <<tally, loaded, saved, my_pending, rpc, tx>>
    BY <1>7 DEF block_begin
  <2> QED BY <1>0, <2>1, QuietStep
<1>8. CASE handler_tx
  <2>1. UNCHANGED <<loaded, saved, my_pending, rpc, tx>>
    BY <1>8 DEF handler_tx
  <2>2. \A a \in Addr : tally'[<<a, "PENDING">>] = tally[<<a, "PENDING">>]
    BY <1>0, <1>8 DEF handler_tx, Update, TypeOK, Account
  <2> QED BY <1>0, <2>1, <2>2, QuietStep
<1>9. CASE block_end
  <2>1. /\ PendingCheck \in SUBSET TxId /\ PendingDelete(PendingCheck)
        /\ UNCHANGED <<rpc, tx, loaded, saved>>
    BY <1>9 DEF block_end, PendingCheck
  <2> QED BY <1>0, <2>1, DeleteStep
<1>10. CASE save_state
  <2>1. /\ UNCHANGED <<tally, loaded, my_pending, rpc, tx>>
        /\ \A a \in Addr : saved'[a] = tally[<<a, "PENDING">>]
    BY <1>10 DEF save_state
  <2> QED BY <1>0, <2>1, QuietStep
<1>11. CASE Restart
  BY <1>0, <1>11, RestartStep
<1>12. CASE UNCHANGED vars
  <2>1. UNCHANGED <<tally, loaded, saved, my_pending, rpc, tx>>
    BY <1>12 DEF vars
  <2> QED BY <1>0, <2>1, QuietStep
<1> QED BY <1>1, <1>2, <1>3, <1>4, <1>5, <1>6, <1>7, <1>8, <1>9, <1>10, <1>11, <1>12
        DEF Next

\* At the start nothing is held back.
LEMMA InitTally == Init => TallyInv
<1> SUFFICES ASSUME Init PROVE TallyInv
  OBVIOUS
<1>1. ShapeInv
  BY InitShape
<1>2. \A a \in Addr : Total(Claims(my_pending, rpc, tx, a)) = 0
  <2>1. ASSUME NEW a \in Addr
        PROVE  /\ Claims(my_pending, rpc, tx, a) \in [TxId -> Nat]
               /\ \A h \in TxId : Claims(my_pending, rpc, tx, a)[h] = 0
    BY <1>1, ShapeEntries, ClaimsType DEF Init, Claims
  <2> QED BY <2>1, TotalZero
<1>3. \A a \in Addr : tally[<<a, "PENDING">>] = 0 /\ saved[a] = 0 /\ loaded[a] = 0
  BY DEF Init, Account
<1>4. PendingExplained
  BY <1>1, <1>2, <1>3, ExplainedMeans
<1>5. ReadOK
  <2>1. ASSUME NEW a \in Addr PROVE saved[a] <= 0 /\ loaded[a] <= 0
    <3>1. saved[a] = 0 /\ loaded[a] = 0
      BY <1>3
    <3> QED BY <3>1
  <2> QED BY <2>1 DEF ReadOK
<1> QED BY <1>1, <1>4, <1>5 DEF TallyInv

\* At every interleaving of the RPC threads with the thread that connects
\* blocks, and after any number of restarts, the PENDING tally of an address is
\* what the entries of my_pending and the additions under way hold and what the
\* last start has read, as long as no debit of PendingAdd overflows (updateMoney
\* would refuse it, and PendingAdd would enter the amount all the same).
THEOREM PendingTallyExplained == Spec /\ []DebitFits => []PendingExplained
<1>1. TallyInv => PendingExplained
  BY DEF TallyInv
<1> QED BY <1>1, InitTally, StepTally, PTL DEF Spec

-----------------------------------------------------------------------------
(* When debits fit *)

\* The calls whose debit has been made or given up.
Debited(r) == {h \in TxId : r[h] \in {"debited", "done"}}

\* All that the wallet can ever hold back fits an int64.
AmountsFit == MaxAmount * Cardinality(TxId) <= MAX_INT64

\* What the tally and the state file hold back is bounded by the debits made.
Bounded ==
  \A a \in Addr :
    /\ tally[<<a, "PENDING">>] >= -(MaxAmount * Cardinality(Debited(rpc)))
    /\ saved[a] >= -(MaxAmount * Cardinality(Debited(rpc)))

\* Debits are counted up to the number of transactions.
LEMMA DebitedCount ==
  ASSUME NEW r, NEW q, \A h \in TxId : h \in Debited(r) => h \in Debited(q)
  PROVE  /\ Cardinality(Debited(r)) \in Nat /\ Cardinality(Debited(q)) \in Nat
         /\ Cardinality(TxId) \in Nat
         /\ Cardinality(Debited(r)) <= Cardinality(Debited(q))
         /\ Cardinality(Debited(q)) <= Cardinality(TxId)
         /\ MaxAmount * Cardinality(Debited(r)) <= MaxAmount * Cardinality(Debited(q))
         /\ MaxAmount * Cardinality(Debited(r)) \in Nat
         /\ MaxAmount * Cardinality(Debited(q)) \in Nat
         /\ MaxAmount * Cardinality(Debited(q)) <= MaxAmount * Cardinality(TxId)
<1>1. IsFiniteSet(TxId) /\ Debited(q) \subseteq TxId /\ Debited(r) \subseteq Debited(q)
  BY PendingAssumption DEF Debited
<1>2. IsFiniteSet(Debited(q)) /\ Cardinality(Debited(q)) <= Cardinality(TxId)
  BY <1>1, FS_Subset
<1>3. IsFiniteSet(Debited(r)) /\ Cardinality(Debited(r)) <= Cardinality(Debited(q))
  BY <1>1, <1>2, FS_Subset
<1>4. /\ Cardinality(TxId) \in Nat /\ Cardinality(Debited(q)) \in Nat
      /\ Cardinality(Debited(r)) \in Nat
  BY <1>1, <1>2, <1>3, FS_CardinalityType
<1>5. ASSUME NEW x \in Nat, NEW y \in Nat, x <= y
      PROVE  MaxAmount * x <= MaxAmount * y /\ MaxAmount * x \in Nat
  <2>1. MaxAmount \in Nat /\ y - x \in Nat
    BY <1>5, PendingAssumption
  <2>2. MaxAmount * (y - x) \in Nat
    BY <2>1
  <2>3. MaxAmount * y = MaxAmount * x + MaxAmount * (y - x)
    BY <2>1
  <2>4. MaxAmount * x \in Nat
    BY <2>1
  <2> QED BY <2>2, <2>3, <2>4
<1> QED BY <1>2, <1>3, <1>4, <1>5


\* A step that debits nothing keeps the bound.
LEMMA BoundedQuiet ==
  ASSUME ShapeInv, Bounded, ShapeInv',
         \A a \in Addr : \/ tally'[<<a, "PENDING">>] >= tally[<<a, "PENDING">>]
                         \/ tally'[<<a, "PENDING">>] = saved[a],
         \A a \in Addr : saved'[a] = saved[a] \/ saved'[a] = tally[<<a, "PENDING">>],
         \A h \in TxId : h \in Debited(rpc) => h \in Debited(rpc')
  PROVE  Bounded'
<1> SUFFICES ASSUME NEW a \in Addr
             PROVE  /\ tally'[<<a, "PENDING">>] >= -(MaxAmount * Cardinality(Debited(rpc')))
                    /\ saved'[a] >= -(MaxAmount * Cardinality(Debited(rpc')))
  BY DEF Bounded
<1> DEFINE C == MaxAmount * Cardinality(Debited(rpc))
           D == MaxAmount * Cardinality(Debited(rpc'))
           T == tally[<<a, "PENDING">>]
           U == tally'[<<a, "PENDING">>]
<1>1. C \in Nat /\ D \in Nat /\ C <= D
  BY DebitedCount
<1>2. T >= -C /\ saved[a] >= -C
  BY DEF Bounded
<1>3. T \in Int /\ U \in Int /\ saved[a] \in Int /\ saved'[a] \in Int
  BY DEF ShapeInv, TypeOK, Account
<1>4. (U >= T \/ U = saved[a]) /\ (saved'[a] = saved[a] \/ saved'[a] = T)
  OBVIOUS
<1> HIDE DEF C, D, T, U
<1>5. U >= -D /\ saved'[a] >= -D
  BY <1>1, <1>2, <1>3, <1>4
<1> QED BY <1>5 DEF U, D

\* A credit of PendingDelete takes nothing away.
LEMMA CreditGrows ==
  ASSUME NEW now \in Int, NEW n \in Nat
  PROVE  updateMoney(now, n, "PENDING") >= now
<1>1. updateMoneyOk(now, n) \in BOOLEAN
  BY DEF updateMoneyOk, isOverflow
<1> HIDE DEF updateMoneyOk
<1> QED BY <1>1 DEF updateMoney, MayBeNegative

\* A debit that is refused or made leaves at least the balance less the amount.
LEMMA DebitBound ==
  ASSUME NEW now \in Int, NEW n \in Nat
  PROVE  updateMoney(now, -n, "PENDING") >= now - n
<1>1. updateMoneyOk(now, -n) \in BOOLEAN
  BY DEF updateMoneyOk, isOverflow
<1> HIDE DEF updateMoneyOk
<1> QED BY <1>1 DEF updateMoney, MayBeNegative

\* Every step keeps the bound.
LEMMA StepBounded == ShapeInv /\ Bounded /\ [Next]_vars => Bounded'
<1> SUFFICES ASSUME ShapeInv, Bounded, [Next]_vars PROVE Bounded'
  OBVIOUS
<1>0. ShapeInv' /\ TypeOK
  BY StepShape DEF ShapeInv
<1>1. \A a \in Addr : <<a, "PENDING">> \in Account /\ tally[<<a, "PENDING">>] \in Int
                      /\ tally[<<a, "PENDING">>] >= tally[<<a, "PENDING">>]
  BY <1>0 DEF TypeOK, Account
<1>2. ASSUME UNCHANGED <<tally, saved>>,
             \A h \in TxId : h \in Debited(rpc) => h \in Debited(rpc')
      PROVE  Bounded'
  BY <1>0, <1>1, <1>2, BoundedQuiet
<1>3. ASSUME NEW h \in TxId, NEW a \in Addr, NEW n \in 1 .. MaxAmount, SendCheck(h, a, n)
      PROVE  Bounded'
  <2>1. UNCHANGED <<tally, saved>> /\ \A g \in TxId : g \in Debited(rpc) => g \in Debited(rpc')
    BY <1>0, <1>3 DEF SendCheck, node, Debited, TypeOK
  <2> QED BY <1>2, <2>1
<1>4. ASSUME NEW h \in TxId, SendCommit(h) \/ PendingAddInsert(h) PROVE Bounded'
  <2>1. UNCHANGED <<tally, saved>> /\ \A g \in TxId : g \in Debited(rpc) => g \in Debited(rpc')
    BY <1>0, <1>4 DEF SendCommit, PendingAddInsert, node, Debited, TypeOK
  <2> QED BY <1>2, <2>1
<1>5. ASSUME NEW h \in TxId, PendingAddDebit(h) PROVE Bounded'
  <2> DEFINE b == tx[h].src
             n == tx[h].amount
             C == MaxAmount * Cardinality(Debited(rpc))
             D == MaxAmount * Cardinality(Debited(rpc'))
  <2>1. b \in Addr /\ n \in Nat /\ n <= MaxAmount /\ MaxAmount \in Nat
    <3>1. h \in Broadcast
      BY <1>5 DEF PendingAddDebit, Broadcast
    <3>2. b \in Addr /\ n \in Nat /\ tx[h] \in TxRecord
      BY <3>1, ConfirmedTx
    <3>3. tx[h] # None
      BY <3>2, PendingAssumption
    <3> QED BY <3>2, <3>3, PendingAssumption DEF ShapeInv, EntriesOK
  <2>2. D = C + MaxAmount /\ C \in Nat /\ D \in Nat
    <3>1. Debited(rpc') = Debited(rpc) \cup {h} /\ h \notin Debited(rpc)
      BY <1>0, <1>5 DEF PendingAddDebit, Debited, TypeOK
    <3>2. IsFiniteSet(Debited(rpc))
      BY PendingAssumption, FS_Subset DEF Debited
    <3> DEFINE c == Cardinality(Debited(rpc))
    <3>3. c \in Nat /\ Cardinality(Debited(rpc')) = c + 1
      BY <3>1, <3>2, FS_AddElement, FS_CardinalityType
    <3> HIDE DEF c
    <3>4. MaxAmount * (c + 1) = MaxAmount * c + MaxAmount /\ MaxAmount * c \in Nat
      BY <2>1, <3>3
    <3> QED BY <2>1, <3>3, <3>4 DEF c
  <2>3. saved' = saved /\ tally' = Update(tally, b, "PENDING", -n)
    BY <1>5 DEF PendingAddDebit, node
  <2> SUFFICES ASSUME NEW a \in Addr
               PROVE  tally'[<<a, "PENDING">>] >= -D /\ saved'[a] >= -D
    BY DEF Bounded
  <2> DEFINE T == tally[<<a, "PENDING">>]
             U == tally'[<<a, "PENDING">>]
  <2>4. T >= -C /\ saved[a] >= -C /\ T \in Int /\ saved[a] \in Int
    BY <1>0, <1>1 DEF Bounded, TypeOK
  <2>5. U >= T - n /\ U \in Int
    <3>1. U = IF a = b THEN updateMoney(T, -n, "PENDING") ELSE T
      BY <1>0, <1>1, <2>1, <2>3 DEF Update, TypeOK
    <3>2. updateMoney(T, -n, "PENDING") >= T - n
      BY <2>1, <2>4, DebitBound
    <3>3. U \in Int
      BY <1>0, <1>1 DEF ShapeInv, TypeOK
    <3> HIDE DEF T, U, n
    <3> QED BY <2>1, <2>4, <3>1, <3>2, <3>3
  <2> HIDE DEF T, U, C, D, n
  <2>6. U >= -D /\ saved[a] >= -D
    BY <2>1, <2>2, <2>4, <2>5
  <2> QED BY <2>3, <2>6 DEF U
<1>6. ASSUME NEW S \in SUBSET TxId, PendingDelete(S), UNCHANGED <<rpc, saved>>
      PROVE  Bounded'
  <2>1. ASSUME NEW a \in Addr
        PROVE  tally'[<<a, "PENDING">>] >= tally[<<a, "PENDING">>]
    <3> DEFINE T == tally[<<a, "PENDING">>]
    <3>1. tally'[<<a, "PENDING">>]
            = IF T # 0 THEN updateMoney(T, Credit(S, a), "PENDING") ELSE T
      BY <1>1, <1>6 DEF PendingDelete
    <3>2. updateMoney(T, Credit(S, a), "PENDING") >= T
      BY <1>0, <1>1, <1>6, CreditType, CreditGrows
    <3> QED BY <1>1, <3>1, <3>2
  <2> QED BY <1>0, <1>6, <2>1, BoundedQuiet
<1>7. ASSUME NEW h \in TxId, Evict(h) \/ Rebroadcast(h) \/ handler_txPending(h)
      PROVE  Bounded'
  <2>1. CASE Evict(h) \/ Rebroadcast(h)
    BY <1>2, <2>1 DEF Evict, Rebroadcast
  <2>2. CASE handler_txPending(h)
    BY <1>6, <2>2 DEF handler_txPending
  <2> QED BY <1>7, <2>1, <2>2
<1>8. ASSUME NEW S \in SUBSET (Broadcast \ confirmed), block_begin(S) PROVE Bounded'
  BY <1>2, <1>8 DEF block_begin
<1>9. CASE handler_tx
  <2>1. \A a \in Addr : tally'[<<a, "PENDING">>] = tally[<<a, "PENDING">>]
    BY <1>0, <1>9 DEF handler_tx, Update, TypeOK, Account
  <2>2. UNCHANGED <<rpc, saved>>
    BY <1>9 DEF handler_tx
  <2> QED BY <1>0, <1>1, <2>1, <2>2, BoundedQuiet
<1>10. CASE block_end
  <2>1. PendingCheck \in SUBSET TxId
    BY DEF PendingCheck
  <2> QED BY <1>6, <1>10, <2>1 DEF block_end
<1>11. CASE save_state
  <2>1. \A a \in Addr : saved'[a] = tally[<<a, "PENDING">>]
    BY <1>11 DEF save_state
  <2>2. UNCHANGED <<rpc, tally>>
    BY <1>11 DEF save_state
  <2> QED BY <1>0, <1>1, <2>1, <2>2, BoundedQuiet
<1>12. CASE Restart
  <2>1. \A a \in Addr : tally'[<<a, "PENDING">>] = saved[a]
    BY <1>1, <1>12 DEF Restart
  <2>2. \A h \in TxId : h \in Debited(rpc) => h \in Debited(rpc')
    BY <1>0, <1>12 DEF Restart, Debited, TypeOK
  <2>3. saved' = saved
    BY <1>12 DEF Restart
  <2> QED BY <1>0, <2>1, <2>2, <2>3, BoundedQuiet
<1>13. CASE UNCHANGED vars
  BY <1>2, <1>13 DEF vars
<1> QED BY <1>3, <1>4, <1>5, <1>7, <1>8, <1>9, <1>10, <1>11, <1>12, <1>13 DEF Next

\* Under the bound every debit still to be made fits.
LEMMA BoundedFits ==
  ASSUME AmountsFit, ShapeInv, Bounded
  PROVE  DebitFits
<1> SUFFICES ASSUME NEW h \in TxId, rpc[h] = "sent"
             PROVE  tally[<<tx[h].src, "PENDING">>] - tx[h].amount >= MIN_INT64
  BY DEF DebitFits
<1> DEFINE b == tx[h].src
           n == tx[h].amount
           T == tally[<<b, "PENDING">>]
           c == Cardinality(Debited(rpc))
           e == Cardinality(TxId)
<1>1. b \in Addr /\ n \in Nat /\ n <= MaxAmount /\ MaxAmount \in Nat
  <2>1. h \in Broadcast
    BY DEF Broadcast
  <2>2. b \in Addr /\ n \in Nat /\ tx[h] \in TxRecord
    BY <2>1, ConfirmedTx
  <2>3. tx[h] # None
    BY <2>2, PendingAssumption
  <2> QED BY <2>2, <2>3, PendingAssumption DEF ShapeInv, EntriesOK
<1>2. c \in Nat /\ e \in Nat /\ c + 1 <= e
  <2>1. h \notin Debited(rpc) /\ Debited(rpc) \cup {h} \subseteq TxId
    BY DEF Debited
  <2>2. IsFiniteSet(TxId) /\ IsFiniteSet(Debited(rpc))
    BY PendingAssumption, FS_Subset DEF Debited
  <2>3. Cardinality(Debited(rpc) \cup {h}) = c + 1 /\ c \in Nat /\ e \in Nat
    BY <2>1, <2>2, FS_AddElement, FS_CardinalityType
  <2>4. Cardinality(Debited(rpc) \cup {h}) <= e
    BY <2>1, <2>2, FS_Subset
  <2> QED BY <2>3, <2>4
<1>3. T >= -(MaxAmount * c) /\ T \in Int
  BY <1>1 DEF Bounded, ShapeInv, TypeOK, Account
<1>4. MaxAmount * e <= MAX_INT64 /\ MAX_INT64 \in Nat
  BY MaxInt64Assumption DEF AmountsFit
<1> HIDE DEF n, T, c, e
<1>5. MaxAmount * c + MaxAmount <= MaxAmount * e
  <2>1. PICK k \in Nat : e = c + 1 + k
    <3>1. e - (c + 1) \in Nat /\ e = c + 1 + (e - (c + 1))
      BY <1>2
    <3> QED BY <3>1
  <2>2. MaxAmount * e = MaxAmount * c + MaxAmount + MaxAmount * k
    BY <1>1, <1>2, <2>1
  <2>3. MaxAmount * k \in Nat /\ MaxAmount * c \in Nat
    BY <1>1, <1>2
  <2> QED BY <1>1, <2>2, <2>3
<1>6. MaxAmount * c \in Nat /\ MaxAmount * e \in Nat
  BY <1>1, <1>2
<1>7. T - n >= -MAX_INT64 - 1
  BY <1>1, <1>3, <1>4, <1>5, <1>6
<1> QED BY <1>7 DEF MIN_INT64, T, n

\* If the wallet's transactions together are for no more than an int64 holds,
\* no debit overflows and the PENDING tally stays explained.
THEOREM PendingExplainedWhenAmountsFit ==
  ASSUME AmountsFit
  PROVE  Spec => []PendingExplained
<1>1. Init => Bounded
  <2> SUFFICES ASSUME Init, NEW a \in Addr
               PROVE  /\ tally[<<a, "PENDING">>] >= -(MaxAmount * Cardinality(Debited(rpc)))
                      /\ saved[a] >= -(MaxAmount * Cardinality(Debited(rpc)))
    BY DEF Bounded
  <2> DEFINE C == MaxAmount * Cardinality(Debited(rpc))
  <2>1. tally[<<a, "PENDING">>] = 0 /\ saved[a] = 0
    BY DEF Init, Account
  <2>2. C \in Nat
    BY DebitedCount
  <2> HIDE DEF C
  <2>3. tally[<<a, "PENDING">>] >= -C /\ saved[a] >= -C
    BY <2>1, <2>2
  <2> QED BY <2>3 DEF C
<1>2. ShapeInv /\ Bounded => DebitFits
  BY AmountsFit, BoundedFits
<1>3. Spec => []DebitFits
  BY <1>1, <1>2, InitShape, StepShape, StepBounded, PTL DEF Spec
<1> QED BY <1>3, PendingTallyExplained, PTL
=============================================================================
