------------------------------- MODULE Pending -------------------------------
(***************************************************************************)
(* Pending amounts of the wallet: what a transaction that this node sent   *)
(* but that is not in a block yet takes from the available balance.  The   *)
(* RPC threads check the balance, broadcast, debit the PENDING tally and   *)
(* only then insert into my_pending, four steps with no lock in common;    *)
(* the thread that connects blocks takes entries out for every transaction *)
(* of a block and, at its end, for those that left the mempool.  The state *)
(* file keeps the PENDING tally, but my_pending lives in memory only.      *)
(***************************************************************************)
EXTENDS Tally, Totals

CONSTANTS
  Addr,                \* addresses of the wallet; one property is enough
  TxId,                \* hashes of the transactions the wallet may send
  None,                \* "not in my_pending"
  InitialBalance,      \* BALANCE of each address at the start
  \* bounds
  MaxAmount,           \* tokens sent by one transaction
  MaxRestarts          \* restarts in a behaviour

VARIABLES
  tally,               \* mp_tally_map: BALANCE and PENDING
  my_pending,          \* the amount of each pending transaction, or None
  rpc,                 \* where the RPC call that sends a transaction is
  tx,                  \* the transactions: sender and amount
  mempool,             \* the transactions in this node's mempool
  block,               \* those of the block being connected, not handled yet
  cur,                 \* the one mastercore_handler_tx is in the middle of
  phase,               \* where the thread that connects blocks is
  confirmed,           \* the transactions in a block
  saved,               \* the PENDING tally in the last state file
  loaded,              \* the PENDING amounts the last start has read
  restarts             \* how many restarts there were

vars == <<tally, my_pending, rpc, tx, mempool, block, cur, phase, confirmed,
          saved, loaded, restarts>>
node == <<mempool, block, cur, phase, confirmed, saved, loaded, restarts>>

-----------------------------------------------------------------------------
Account == Addr \X {"BALANCE", "PENDING"}
TxRecord == [src : Addr, amount : Nat]

ASSUME PendingAssumption ==
  /\ IsFiniteSet(Addr) /\ IsFiniteSet(TxId)
  /\ None \notin Nat /\ None \notin TxRecord /\ None \notin TxId
  /\ InitialBalance \in [Addr -> Nat]
  /\ {MaxAmount, MaxRestarts} \subseteq Nat

Init ==
  /\ tally = [x \in Account |-> IF x[2] = "BALANCE" THEN InitialBalance[x[1]] ELSE 0]
  /\ my_pending = [h \in TxId |-> None]
  /\ rpc = [h \in TxId |-> "idle"]
  /\ tx = [h \in TxId |-> None]
  /\ mempool = {}
  /\ block = {}
  /\ cur = None
  /\ phase = "idle"
  /\ confirmed = {}
  /\ saved = [a \in Addr |-> 0]
  /\ loaded = [a \in Addr |-> 0]
  /\ restarts = 0

\* update_tally_map
Update(t, a, type, n) == [t EXCEPT ![<<a, type>>] = updateMoney(@, n, type)]

getUserAvailableMPbalance(a) ==
  tally[<<a, "BALANCE">>] +
  (IF tally[<<a, "PENDING">>] < 0 THEN tally[<<a, "PENDING">>] ELSE 0)

-----------------------------------------------------------------------------
(* The RPC threads: one call per transaction *)

RequireBalance(a, n) ==
  n <= tally[<<a, "BALANCE">>] /\ n <= getUserAvailableMPbalance(a)

\* tl_send up to the call of the wallet
SendCheck(h, a, n) ==
  /\ rpc[h] = "idle"
  /\ RequireBalance(a, n)
  /\ rpc' = [rpc EXCEPT ![h] = "checked"]
  /\ tx' = [tx EXCEPT ![h] = [src |-> a, amount |-> n]]
  /\ UNCHANGED <<tally, my_pending, node>>

\* WalletTxBuilder: the transaction is committed and broadcast.
SendCommit(h) ==
  /\ rpc[h] = "checked"
  /\ rpc' = [rpc EXCEPT ![h] = "sent"]
  /\ mempool' = mempool \cup {h}
  /\ UNCHANGED <<tally, my_pending, tx, block, cur, phase, confirmed, saved, loaded, restarts>>

\* Mutant: PendingAdd debits what the balance covers.
PendingAddDebitCapped(h) ==
  /\ rpc[h] = "sent"
  /\ LET a == tx[h].src
         n == IF getUserAvailableMPbalance(a) < tx[h].amount
                THEN getUserAvailableMPbalance(a) ELSE tx[h].amount
     IN  tally' = Update(tally, a, "PENDING", -n)
  /\ rpc' = [rpc EXCEPT ![h] = "debited"]
  /\ UNCHANGED <<my_pending, tx, node>>

\* PendingAdd, first the tally, under cs_tally ...
PendingAddDebit(h) ==
  /\ rpc[h] = "sent"
  /\ tally' = Update(tally, tx[h].src, "PENDING", -tx[h].amount)
  /\ rpc' = [rpc EXCEPT ![h] = "debited"]
  /\ UNCHANGED <<my_pending, tx, node>>

\* Mutant: the entry keeps the amount with the sign of the debit.
PendingAddInsertSigned(h) ==
  /\ rpc[h] = "debited"
  /\ my_pending' = [my_pending EXCEPT ![h] = -tx[h].amount]
  /\ rpc' = [rpc EXCEPT ![h] = "done"]
  /\ UNCHANGED <<tally, tx, node>>

\* ... then the map, under cs_pending.
PendingAddInsert(h) ==
  /\ rpc[h] = "debited"
  /\ my_pending' = [my_pending EXCEPT ![h] = tx[h].amount]
  /\ rpc' = [rpc EXCEPT ![h] = "done"]
  /\ UNCHANGED <<tally, tx, node>>

-----------------------------------------------------------------------------
(* The base node *)

Broadcast == {h \in TxId : rpc[h] \in {"sent", "debited", "done"}}

\* A transaction leaves the mempool without a block (expiry, a conflict, the
\* size limit) and the wallet may broadcast it again.
Evict(h) ==
  /\ h \in mempool
  /\ mempool' = mempool \ {h}
  /\ UNCHANGED <<tally, my_pending, rpc, tx, block, cur, phase, confirmed, saved,
                 loaded, restarts>>

Rebroadcast(h) ==
  /\ h \in Broadcast \ (mempool \cup confirmed)
  /\ mempool' = mempool \cup {h}
  /\ UNCHANGED <<tally, my_pending, rpc, tx, block, cur, phase, confirmed, saved,
                 loaded, restarts>>

-----------------------------------------------------------------------------
(* The thread that connects blocks *)

\* Mutant: the transactions of the block are still in the mempool.
block_beginEarly(S) ==
  /\ phase = "idle"
  /\ block' = S
  /\ confirmed' = confirmed \cup S
  /\ phase' = "txs"
  /\ UNCHANGED <<tally, my_pending, rpc, tx, cur, mempool, saved, loaded, restarts>>

\* ConnectTip up to the first transaction: the base node takes those of the
\* block out of the mempool.
block_begin(S) ==
  /\ phase = "idle"
  /\ block' = S
  /\ mempool' = mempool \ S
  /\ confirmed' = confirmed \cup S
  /\ phase' = "txs"
  /\ UNCHANGED <<tally, my_pending, rpc, tx, cur, saved, loaded, restarts>>

\* What the pending entries of S give back to an address.
Credit(S, a) ==
  Total([h \in {x \in S : my_pending[x] # None /\ tx[x].src = a} |-> my_pending[h]])

\* Mutant: the entry is erased and its amount is not credited back.
PendingDeleteOnly(S) ==
  /\ my_pending' = [h \in TxId |-> IF h \in S THEN None ELSE my_pending[h]]
  /\ UNCHANGED tally

\* PendingDelete for each transaction of S: the amount is credited to the
\* PENDING tally, unless that is 0, and the entry is erased.
PendingDelete(S) ==
  /\ tally' = [x \in Account |->
       IF x[2] = "PENDING" /\ tally[x] # 0
         THEN updateMoney(tally[x], Credit(S, x[1]), "PENDING") ELSE tally[x]]
  /\ my_pending' = [h \in TxId |-> IF h \in S THEN None ELSE my_pending[h]]

\* mastercore_handler_tx clears the pending amount under a lock of its own ...
handler_txPending(h) ==
  /\ phase = "txs" /\ cur = None /\ h \in block
  /\ PendingDelete({h})
  /\ block' = block \ {h}
  /\ cur' = h
  /\ UNCHANGED <<rpc, tx, mempool, phase, confirmed, saved, loaded, restarts>>

\* ... and carries out the transfer under another: the tokens leave the wallet
\* if the balance covers them.
handler_tx ==
  /\ phase = "txs" /\ cur # None
  /\ LET a == tx[cur].src
         n == tx[cur].amount
     IN  tally' = IF n <= tally[<<a, "BALANCE">>]
                    THEN Update(tally, a, "BALANCE", -n) ELSE tally
  /\ cur' = None
  /\ UNCHANGED <<my_pending, rpc, tx, mempool, block, phase, confirmed, saved,
                 loaded, restarts>>

\* Mutant: only transactions that were confirmed are taken out.
PendingCheckConfirmed == confirmed

\* The transactions of my_pending that are no longer in the mempool.
PendingCheck == TxId \ mempool

\* mastercore_handler_block_end up to the check of the pending transactions
block_end ==
  /\ phase = "txs" /\ cur = None /\ block = {}
  /\ PendingDelete(PendingCheck)
  /\ phase' = "save"
  /\ UNCHANGED <<rpc, tx, mempool, block, cur, confirmed, saved, loaded, restarts>>

\* mastercore_save_state: write_msc_balances writes the PENDING tally too.
save_state ==
  /\ phase = "save"
  /\ saved' = [a \in Addr |-> tally[<<a, "PENDING">>]]
  /\ phase' = "idle"
  /\ UNCHANGED <<tally, my_pending, rpc, tx, mempool, block, cur, confirmed, loaded,
                 restarts>>

\* The node stops between two blocks and starts again: RPC calls end where they
\* are, memory is lost, the tally is read back from the state file, and the
\* mempool from its own, if that is there.
Restart ==
  /\ phase = "idle"
  /\ restarts < MaxRestarts
  /\ restarts' = restarts + 1
  /\ loaded' = saved
  /\ tally' = [x \in Account |-> IF x[2] = "PENDING" THEN saved[x[1]] ELSE tally[x]]
  /\ my_pending' = [h \in TxId |-> None]
  /\ rpc' = [h \in TxId |-> CASE rpc[h] = "checked" -> "lost"
                              [] rpc[h] \in {"sent", "debited"} -> "done"
                              [] OTHER -> rpc[h]]
  /\ mempool' \in {mempool, {}}
  /\ UNCHANGED <<tx, block, cur, phase, confirmed, saved>>

Next ==
  \/ \E h \in TxId : \/ \E a \in Addr, n \in 1 .. MaxAmount : SendCheck(h, a, n)
                     \/ SendCommit(h) \/ PendingAddDebit(h) \/ PendingAddInsert(h)
                     \/ Evict(h) \/ Rebroadcast(h) \/ handler_txPending(h)
  \/ \E S \in SUBSET (Broadcast \ confirmed) : block_begin(S)
  \/ handler_tx \/ block_end \/ save_state \/ Restart

Spec == Init /\ [][Next]_vars

\* RPC calls that were begun go on, blocks keep coming and are handled.
Fairness ==
  /\ \A h \in TxId : WF_vars(PendingAddDebit(h)) /\ WF_vars(PendingAddInsert(h))
  /\ WF_vars(\E S \in SUBSET (Broadcast \ confirmed) : block_begin(S))
  /\ WF_vars(\E h \in TxId : handler_txPending(h))
  /\ WF_vars(handler_tx) /\ WF_vars(block_end) /\ WF_vars(save_state)
FairSpec == Spec /\ Fairness

-----------------------------------------------------------------------------
(* Properties *)

TypeOK ==
  /\ tally \in [Account -> Int] /\ \A a \in Addr : tally[<<a, "BALANCE">>] \in Nat
  /\ my_pending \in [TxId -> Nat \cup {None}]
  /\ rpc \in [TxId -> {"idle", "checked", "sent", "debited", "done", "lost"}]
  /\ tx \in [TxId -> TxRecord \cup {None}]
  /\ \A h \in TxId : rpc[h] # "idle" => tx[h] # None
  /\ mempool \subseteq TxId /\ block \subseteq TxId /\ confirmed \subseteq TxId
  /\ cur \in TxId \cup {None}
  /\ phase \in {"idle", "txs", "save"}
  /\ saved \in [Addr -> Int] /\ loaded \in [Addr -> Int]
  /\ restarts \in 0 .. MaxRestarts

\* What PendingAdd has debited and not yet inserted, and what is in my_pending
Held(a) ==
  Total([h \in {x \in TxId : tx[x] # None /\ tx[x].src = a} |->
           IF rpc[h] = "debited" THEN tx[h].amount
           ELSE IF my_pending[h] # None THEN my_pending[h] ELSE 0])

\* The PENDING tally of an address is exactly what its entries of my_pending
\* and the additions under way hold, and what the last start has read from the
\* state file, at every interleaving of the RPC threads with the thread that
\* connects blocks.  So PendingDelete never meets an entry with a tally of 0,
\* which it would erase without a credit, and what was read stays held back.
PendingExplained ==
  \A a \in Addr : tally[<<a, "PENDING">>] = loaded[a] - Held(a)

\* While the node runs, an entry is taken out only for a transaction that is
\* not in the mempool, so that what a waiting transaction will take stays
\* unavailable.
NoEarlyRelease ==
  [][\A h \in TxId : /\ my_pending[h] # None /\ my_pending'[h] = None
                     /\ restarts' = restarts
                     => h \notin mempool]_vars

\* Also the transaction whose entry is inserted only after it was confirmed or
\* dropped loses it in the end, unless it is back in the mempool.
StaleEntryEnds ==
  \A h \in TxId : (my_pending[h] # None /\ h \notin mempool)
                  ~> (my_pending[h] = None \/ h \in mempool)

\* A balance that looks overdrawn, because a transaction was confirmed before
\* its pending amount was debited, or two calls have checked the same tokens,
\* recovers once the transactions are confirmed or dropped, up to what the
\* last start has read.
OverdraftEnds ==
  \A a \in Addr :
    getUserAvailableMPbalance(a) < loaded[a]
      ~> \/ getUserAvailableMPbalance(a) >= loaded[a]
         \/ \E h \in mempool : tx[h].src = a

\* Violated with restarts: an address with no pending transaction, and no
\* call under way, has nothing held back.
NothingHeldBack ==
  \A a \in Addr :
    (\A h \in TxId : tx[h] # None /\ tx[h].src = a =>
                       my_pending[h] = None /\ rpc[h] # "debited")
    => getUserAvailableMPbalance(a) = tally[<<a, "BALANCE">>]
=============================================================================
