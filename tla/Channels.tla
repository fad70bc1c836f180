------------------------------ MODULE Channels ------------------------------
(***************************************************************************)
(* Trade channels: multisig addresses into which traders commit tokens, so *)
(* that they can be exchanged by one cosigned transaction.  The state is   *)
(* channels_Map, withdrawal_Map, the BALANCE of the tally and the fees     *)
(* cache; the operations are logicMath_CommitChannel,                      *)
(* logicMath_Withdrawal_FromChannel, logicMath_Instant_Trade,              *)
(* logicMath_Transfer, HandleLtcInstantTrade, logicMath_Close_Channel and  *)
(* makeWithdrawals, which mastercore_handler_block_begin calls.  All of    *)
(* them run under cs_tally.  The sweep of makeWithdrawals is modelled one  *)
(* withdrawal per step, with no other operation in between.                *)
(*                                                                         *)
(* A transaction names its amounts as uint64; the balances are int64, and  *)
(* nothing checks the conversion: an amount above MAX_INT64 is a negative  *)
(* one to the checks and the updates.  oversized records that such a       *)
(* transaction has been processed.                                         *)
(***************************************************************************)
EXTENDS Tally, Totals, Sequences

CONSTANTS
  Addr,                \* addresses of traders
  Chan,                \* multisig addresses
  Prop,                \* identifiers of the properties _my_sps knows
  TxId,                \* hashes of withdrawal transactions
  None,                \* "no such channel"
  CHANNEL_PENDING,     \* stands for the second address until there is one
  KycOk,               \* <<address, property>> that checkAttestationReg and
                       \* kycPropertyMatch accept
  Divisible,           \* the divisible properties, which pay fees
  BASISPOINT,          \* 100 in the code
  WithdrawalDelay,     \* 7 blocks in the code
  InitialBalance,      \* BALANCE of each <<address, property>> at the start
  \* bounds
  WireAmount,          \* amounts that transactions name
  MaxOversized,        \* transactions that name more than MAX_INT64 tokens
  MaxLTC,              \* litecoin price, and litecoin paid
  MaxFees,             \* fees of a property in the cache
  MaxPending           \* withdrawals waiting at one channel

VARIABLES
  tally,               \* mp_tally_map
  channels_Map,        \* a Channel or None for each multisig address
  withdrawal_Map,      \* the accepted withdrawals of each multisig address
  native_fees,         \* g_fees->native_fees
  phase,               \* "txs", or block_begin is making withdrawals
  oversized            \* history: commits, trades and transfers so far that
                       \* named more than MAX_INT64 tokens

vars == <<tally, channels_Map, withdrawal_Map, native_fees, phase, oversized>>

-----------------------------------------------------------------------------
Party == Addr \cup {CHANNEL_PENDING}
Account == Party \X Prop \X {"BALANCE"}
Bal(a, p) == <<a, p, "BALANCE">>

Int64  == MIN_INT64 .. MAX_INT64
UInt64 == 0 .. 2 * MAX_INT64 + 1
\* The conversions between uint64 and int64, and the negation of an int64.
ToInt64(n)  == IF n > MAX_INT64 THEN n - 2 * (MAX_INT64 + 1) ELSE n
ToUInt64(v) == IF v < 0 THEN v + 2 * (MAX_INT64 + 1) ELSE v
Neg64(v)    == IF v = MIN_INT64 THEN v ELSE -v

\* class Channel
Channel == [first : Party, second : Party,
            balances : [Party \X Prop -> Int64]]

\* withdrawalAccepted; left is the number of blocks to the deadline, 0 when
\* it is reached.
Withdrawal == [address : Addr, left : 0 .. WithdrawalDelay, prop : Prop,
               amount : UInt64, txid : TxId]

ASSUME ChannelsAssumption ==
  /\ IsFiniteSet(Addr) /\ IsFiniteSet(Chan) /\ IsFiniteSet(Prop)
  /\ None \notin Channel /\ CHANNEL_PENDING \notin Addr
  /\ KycOk \subseteq Addr \X Prop /\ Divisible \subseteq Prop
  /\ BASISPOINT \in Nat \ {0} /\ WithdrawalDelay \in Nat
  /\ InitialBalance \in [Addr \X Prop -> Nat]
  /\ WireAmount \subseteq UInt64
  /\ {MaxOversized, MaxLTC, MaxFees, MaxPending} \subseteq Nat

\* No more than MAX_INT64 tokens of a property are ever issued: a creation or
\* grant that would exceed it is refused (logicMath_GrantTokens).
ASSUME SupplyFits ==
  \A p \in Prop : Total([a \in Addr |-> InitialBalance[<<a, p>>]]) <= MAX_INT64

\* All the tokens of a property: the balances of traders, channels and the
\* fees cache.
Holder == ({"BALANCE"} \X Addr) \cup ({"channel"} \X (Chan \X Party))
            \cup {<<"fees", "native">>}
Holdings(t, chns, fees, p) ==
  [x \in Holder |->
     CASE x[1] = "BALANCE" -> t[Bal(x[2], p)]
       [] x[1] = "channel" -> IF chns[x[2][1]] = None THEN 0
                              ELSE chns[x[2][1]].balances[<<x[2][2], p>>]
       [] x[1] = "fees"    -> fees[p]]
Supply(t, chns, fees, p) == Total(Holdings(t, chns, fees, p))

Init ==
  /\ tally = [x \in Account |->
       IF x[1] \in Addr THEN InitialBalance[<<x[1], x[2]>>] ELSE 0]
  /\ channels_Map = [c \in Chan |-> None]
  /\ withdrawal_Map = [c \in Chan |-> <<>>]
  /\ native_fees = [p \in Prop |-> 0]
  /\ phase = "txs"
  /\ oversized = 0

Ready == phase = "txs"
checkChannelAddress(c) == channels_Map[c] # None

-----------------------------------------------------------------------------
(* The class Channel *)

getRemaining(chn, a, p) == chn.balances[<<a, p>>]
isPartOfChannel(chn, a) == a \in {chn.first, chn.second}

\* Mutant: an overflow is not refused.
updateChannelBalUnchecked(chn, a, p, n) ==
  LET rem == getRemaining(chn, a, p)
      ok  == n # 0 /\ rem + n >= 0
  IN  [ok  |-> ok,
       chn |-> IF ok THEN [chn EXCEPT !.balances[<<a, p>>] = rem + n] ELSE chn]

\* Adds n to what the channel holds for an address; a zero amount and a debit
\* beyond the balance are refused, and the channel is left alone.
updateChannelBal(chn, a, p, n) ==
  LET rem == getRemaining(chn, a, p)
      ok  == n # 0 /\ ~isOverflow(rem, n) /\ rem + n >= 0
  IN  [ok  |-> ok,
       chn |-> IF ok THEN [chn EXCEPT !.balances[<<a, p>>] = rem + n] ELSE chn]

createChannel(a, p, n) ==
  [first    |-> a,
   second   |-> CHANNEL_PENDING,
   balances |-> [x \in Party \X Prop |-> IF x = <<a, p>> THEN n ELSE 0]]

\* Mutant: an address may be both the first and the second one.
tryAddSecondAnyone(chn, a, p, n) ==
  updateChannelBal(IF chn.second = CHANNEL_PENDING
                     THEN [chn EXCEPT !.second = a] ELSE chn, a, p, n).chn

\* The address becomes the second one if that is open.  It is credited in any
\* case, whether or not it is one of the two.
tryAddSecond(chn, a, p, n) ==
  LET joins == chn.second = CHANNEL_PENDING /\ chn.first # a
  IN  updateChannelBal(IF joins THEN [chn EXCEPT !.second = a] ELSE chn,
                       a, p, n).chn

channelSanityChecks(chn, a, p, n) ==
  IF chn = None THEN createChannel(a, p, n) ELSE tryAddSecond(chn, a, p, n)

-----------------------------------------------------------------------------
(* Transactions *)

\* The bookkeeping of oversized for a transaction that names these amounts.
Names(amounts) ==
  /\ oversized' = IF \E n \in amounts : n > MAX_INT64 THEN oversized + 1
                  ELSE oversized
  /\ oversized' <= MaxOversized

\* Tx 108.  A commit of nothing passes the balance check too, and so does one
\* of more than MAX_INT64: it credits the sender.
CommitChannel(a, c, p, n) ==
  /\ Ready
  /\ ToInt64(n) <= tally[Bal(a, p)]
  /\ channels_Map' =
       [channels_Map EXCEPT ![c] = channelSanityChecks(@, a, p, ToInt64(n))]
  /\ tally' = update_tally_map(tally, Bal(a, p), Neg64(ToInt64(n))).tally
  /\ Names({n})
  /\ UNCHANGED <<withdrawal_Map, native_fees, phase>>

FreshTxid(h) ==
  \A c \in Chan : \A i \in DOMAIN withdrawal_Map[c] :
    withdrawal_Map[c][i].txid # h

\* Tx 109.  The request is checked, as a uint64, against the balance of this
\* moment and appended; nothing is set aside for it.
Withdrawal_FromChannel(a, c, p, n, h) ==
  /\ Ready
  /\ FreshTxid(h)
  /\ checkChannelAddress(c)
  /\ n <= ToUInt64(getRemaining(channels_Map[c], a, p))
  /\ Len(withdrawal_Map[c]) < MaxPending
  /\ withdrawal_Map' = [withdrawal_Map EXCEPT
       ![c] = Append(@, [address |-> a, left |-> WithdrawalDelay, prop |-> p,
                         amount |-> n, txid |-> h])]
  /\ UNCHANGED <<tally, channels_Map, native_fees, phase, oversized>>

\* Tx 110, sent by the channel for f (the special reference), who gives n of
\* p, and s (the receiver), who gives m of q.  One past its expiry block is
\* rejected and changes nothing.
Instant_Trade(c, f, s, p, n, q, m) ==
  /\ Ready
  /\ p # q
  /\ checkChannelAddress(c)
  /\ {f, s} \X {p, q} \subseteq KycOk
  /\ ToInt64(n) <= getRemaining(channels_Map[c], f, p)
  /\ ToInt64(m) <= getRemaining(channels_Map[c], s, q)
  /\ channels_Map' =
       [channels_Map EXCEPT
          ![c] = updateChannelBal(
                   updateChannelBal(@, f, p, Neg64(ToInt64(n))).chn,
                   s, q, Neg64(ToInt64(m))).chn]
  /\ tally' = update_tally_map(
                update_tally_map(tally, Bal(f, q), ToInt64(m)).tally,
                Bal(s, p), ToInt64(n)).tally
  /\ Names({n, m})
  /\ UNCHANGED <<withdrawal_Map, native_fees, phase>>

\* Mutant: the new channel is credited whether or not the old one was debited.
TransferUnchecked(c, d, option, p, n) ==
  LET a       == IF option THEN channels_Map[c].second ELSE channels_Map[c].first
      opened  == IF checkChannelAddress(d) THEN channels_Map
                 ELSE [channels_Map EXCEPT ![d] = createChannel(a, p, 0)]
      debited == [opened EXCEPT
                    ![c] = updateChannelBal(@, a, p, Neg64(ToInt64(n))).chn]
  IN  /\ Ready
      /\ checkChannelAddress(c)
      /\ channels_Map' =
           [debited EXCEPT ![d] = updateChannelBal(@, a, p, ToInt64(n)).chn]
      /\ Names({n})
      /\ UNCHANGED <<tally, withdrawal_Map, native_fees, phase>>

\* Tx 112, sent by channel c: what one of its addresses has goes to channel d,
\* which is created first if there is none, also when the transfer is refused.
\* A debit of more than MAX_INT64 is a credit, and the credit is then refused.
Transfer(c, d, option, p, n) ==
  LET a       == IF option THEN channels_Map[c].second ELSE channels_Map[c].first
      opened  == IF checkChannelAddress(d) THEN channels_Map
                 ELSE [channels_Map EXCEPT ![d] = createChannel(a, p, 0)]
      debit   == updateChannelBal(opened[c], a, p, Neg64(ToInt64(n)))
      debited == [opened EXCEPT ![c] = debit.chn]
  IN  /\ Ready
      /\ checkChannelAddress(c)
      /\ channels_Map' =
           IF debit.ok
             THEN [debited EXCEPT ![d] = updateChannelBal(@, a, p, ToInt64(n)).chn]
             ELSE opened
      /\ Names({n})
      /\ UNCHANGED <<tally, withdrawal_Map, native_fees, phase>>

DivideAndRoundUp(n, d) == IF n = 0 THEN 0 ELSE 1 + (n - 1) \div d

\* Token_LTC_Fees: 0.005 % of a divisible token, rounded up.
CacheFee(amount, p) ==
  IF p \in Divisible THEN DivideAndRoundUp(amount, 2 * BASISPOINT * BASISPOINT)
  ELSE 0

\* Instant_payment: the buyer takes the open place in the channel before it
\* is known whether the seller has the tokens.
WithBuyer(chn, buyer) ==
  IF ~isPartOfChannel(chn, buyer) /\ chn.second = CHANNEL_PENDING
    THEN [chn EXCEPT !.second = buyer] ELSE chn

\* Tx 113 and HandleLtcInstantTrade: nvalue litecoin paid to the seller for up
\* to forsale tokens at price litecoin.  The amounts are uint64 throughout, and
\* a purchase of more than MAX_INT64 ends the process (the assertion of
\* ConvertTo64).  The volume figures are left out.
HandleLtcInstantTrade(c, buyer, seller, p, forsale, price, nvalue) ==
  LET paid      == IF nvalue > price THEN price ELSE nvalue
      purchased == DivideAndRoundUp(paid * forsale, price)
      fee       == CacheFee(purchased, p)
      chn       == WithBuyer(channels_Map[c], buyer)
      covered   == getRemaining(chn, seller, p) >= purchased
  IN  /\ Ready
      /\ checkChannelAddress(c)
      /\ purchased <= MAX_INT64
      /\ native_fees[p] + fee <= MaxFees
      /\ \/ /\ ~covered
            /\ channels_Map' = [channels_Map EXCEPT ![c] = chn]
            /\ UNCHANGED <<tally, native_fees>>
         \/ /\ covered /\ purchased = fee
            /\ channels_Map' = [channels_Map EXCEPT ![c] = chn]
            /\ native_fees' = [native_fees EXCEPT ![p] = @ + fee]
            /\ UNCHANGED tally
         \/ /\ covered /\ purchased # fee
            /\ channels_Map' = [channels_Map EXCEPT
                 ![c] = updateChannelBal(chn, seller, p, -purchased).chn]
            /\ native_fees' = [native_fees EXCEPT ![p] = @ + fee]
            /\ tally' = update_tally_map(tally, Bal(buyer, p),
                                         purchased - fee).tally
      /\ UNCHANGED <<withdrawal_Map, phase, oversized>>

\* What closing a channel pays to an address for the place it has.
RefundOf(chn, place, a, p) ==
  IF a = place /\ getRemaining(chn, a, p) > 0 THEN getRemaining(chn, a, p) ELSE 0

\* The balance after the first and then the second address have been paid.
Refunded(now, chn, a, p) ==
  updateMoney(updateMoney(now, RefundOf(chn, chn.first, a, p), "BALANCE"),
              RefundOf(chn, chn.second, a, p), "BALANCE")

\* Mutant: withdrawals that wait do not keep a channel from closing.
NeverWaiting(c) == FALSE

\* Whether a withdrawal waits at the channel.
isChannelWithdraw(c) == withdrawal_Map[c] # <<>>

\* Mutant: closing checks for no withdrawals and leaves them in the list.
closeChannelOnly(a, c) ==
  /\ Ready
  /\ checkChannelAddress(c)
  /\ isPartOfChannel(channels_Map[c], a)
  /\ tally' = [x \in Account |->
       Refunded(tally[x], channels_Map[c], x[1], x[2])]
  /\ channels_Map' = [channels_Map EXCEPT ![c] = None]
  /\ UNCHANGED <<withdrawal_Map, native_fees, phase, oversized>>

\* Tx 120.  Only the two addresses of the channel get their tokens back.
closeChannel(a, c) ==
  /\ Ready
  /\ checkChannelAddress(c)
  /\ isPartOfChannel(channels_Map[c], a)
  /\ ~isChannelWithdraw(c)
  /\ tally' = [x \in Account |->
       Refunded(tally[x], channels_Map[c], x[1], x[2])]
  /\ channels_Map' = [channels_Map EXCEPT ![c] = None]
  /\ withdrawal_Map' = [withdrawal_Map EXCEPT ![c] = <<>>]
  /\ UNCHANGED <<native_fees, phase, oversized>>

-----------------------------------------------------------------------------
(* Blocks *)

\* A block is connected: every deadline is one block nearer.
block_begin ==
  /\ Ready
  /\ withdrawal_Map' = [c \in Chan |->
       [i \in DOMAIN withdrawal_Map[c] |->
          [withdrawal_Map[c][i] EXCEPT !.left = IF @ = 0 THEN 0 ELSE @ - 1]]]
  /\ phase' = "withdrawals"
  /\ UNCHANGED <<tally, channels_Map, native_fees, oversized>>

\* The withdrawals of a channel the sweep will take out of the list; those of
\* a channel that does not exist are passed over.
Due(c) ==
  {i \in DOMAIN withdrawal_Map[c] :
     withdrawal_Map[c][i].left = 0 /\ checkChannelAddress(c)}

Without(s, i) == SubSeq(s, 1, i - 1) \o SubSeq(s, i + 1, Len(s))

\* Mutant: the amount that was checked at the request is paid out unchecked.
makeWithdrawalUnchecked(c) ==
  /\ phase = "withdrawals"
  /\ \E i \in Due(c) :
       LET w   == withdrawal_Map[c][i]
           amt == ToInt64(w.amount)
       IN  /\ \A j \in Due(c) : i <= j
           /\ withdrawal_Map' = [withdrawal_Map EXCEPT ![c] = Without(@, i)]
           /\ channels_Map' = [channels_Map EXCEPT
                ![c] = updateChannelBal(@, w.address, w.prop, Neg64(amt)).chn]
           /\ tally' = update_tally_map(tally, Bal(w.address, w.prop), amt).tally
  /\ UNCHANGED <<native_fees, phase, oversized>>

\* The first withdrawal that is due is paid, or dropped if the channel no
\* longer holds the amount for the address.
makeWithdrawal(c) ==
  /\ phase = "withdrawals"
  /\ \E i \in Due(c) :
       LET w     == withdrawal_Map[c][i]
           amt   == ToInt64(w.amount)
           debit == updateChannelBal(channels_Map[c], w.address, w.prop, Neg64(amt))
       IN  /\ \A j \in Due(c) : i <= j
           /\ withdrawal_Map' = [withdrawal_Map EXCEPT ![c] = Without(@, i)]
           /\ channels_Map' = [channels_Map EXCEPT ![c] = debit.chn]
           /\ tally' = IF debit.ok
                         THEN update_tally_map(tally, Bal(w.address, w.prop),
                                               amt).tally
                         ELSE tally
  /\ UNCHANGED <<native_fees, phase, oversized>>

withdrawalsDone ==
  /\ phase = "withdrawals"
  /\ \A c \in Chan : Due(c) = {}
  /\ phase' = "txs"
  /\ UNCHANGED <<tally, channels_Map, withdrawal_Map, native_fees, oversized>>

Next ==
  \/ \E a \in Addr, c \in Chan, p \in Prop, n \in WireAmount :
       CommitChannel(a, c, p, n)
  \/ \E a \in Addr, c \in Chan, p \in Prop, n \in WireAmount, h \in TxId :
       Withdrawal_FromChannel(a, c, p, n, h)
  \/ \E c \in Chan, f, s \in Addr, p, q \in Prop, n, m \in WireAmount :
       Instant_Trade(c, f, s, p, n, q, m)
  \/ \E c, d \in Chan, option \in BOOLEAN, p \in Prop, n \in WireAmount :
       Transfer(c, d, option, p, n)
  \/ \E c \in Chan, buyer, seller \in Addr, p \in Prop,
        forsale \in WireAmount, price, nvalue \in 1 .. MaxLTC :
       HandleLtcInstantTrade(c, buyer, seller, p, forsale, price, nvalue)
  \/ \E a \in Addr, c \in Chan : closeChannel(a, c)
  \/ block_begin
  \/ \E c \in Chan : makeWithdrawal(c)
  \/ withdrawalsDone

Spec == Init /\ [][Next]_vars

\* Blocks keep coming, and a handler that has begun goes on.
Fairness ==
  /\ WF_vars(block_begin)
  /\ WF_vars(withdrawalsDone)
  /\ \A c \in Chan : WF_vars(makeWithdrawal(c))
FairSpec == Spec /\ Fairness

-----------------------------------------------------------------------------
(* Properties *)

TypeOK ==
  /\ tally \in [Account -> Nat]
  /\ channels_Map \in [Chan -> Channel \cup {None}]
  /\ withdrawal_Map \in [Chan -> Seq(Withdrawal)]
  /\ native_fees \in [Prop -> Nat]
  /\ phase \in {"txs", "withdrawals"}
  /\ oversized \in Nat

\* The two addresses of a channel differ, and the placeholder of an open
\* second place owns nothing, unless a transaction has named more than
\* MAX_INT64 tokens (Transfer credits the placeholder then).  closeChannel pays
\* the first and then the second address from balances it has read before, so
\* that it would pay one address twice, or pay to the placeholder, if this
\* failed.  Transfer can create a channel for the placeholder, in which both
\* places are open.
PartiesSound ==
  \A c \in Chan : channels_Map[c] # None =>
    LET chn == channels_Map[c]
    IN  /\ chn.first = chn.second => chn.first = CHANNEL_PENDING
        /\ oversized = 0 =>
             \A p \in Prop : getRemaining(chn, CHANNEL_PENDING, p) = 0

\* A withdrawal waits only at a channel that is open: makeWithdrawals keeps one
\* without a channel in the list for ever, and would serve it from the next
\* channel of the same address.
WithdrawalsHaveChannel ==
  \A c \in Chan : isChannelWithdraw(c) => checkChannelAddress(c)

\* What a channel holds of a property for addresses that are none of its two.
OfOutsiders(chn, p) ==
  Total([a \in Party \ {chn.first, chn.second} |-> getRemaining(chn, a, p)])

\* Until a transaction names more than MAX_INT64 tokens, balances, channels and
\* the fees cache together neither create nor destroy tokens, with two
\* exceptions: closeChannel drops what third addresses had committed, and an
\* LTC trade so small that the fee takes all of it books the fee without taking
\* it from the seller.  Withdrawals asked for twice, trades of what waits to be
\* withdrawn and transfers are all covered.
SupplyExplained ==
  [][\/ oversized' > 0
     \/ UNCHANGED <<tally, channels_Map, native_fees>>
     \/ \A p \in Prop :
          LET before == Supply(tally, channels_Map, native_fees, p)
              after  == Supply(tally', channels_Map', native_fees', p)
          IN  \/ after = before
              \/ \E c \in Chan :
                   /\ channels_Map[c] # None /\ channels_Map'[c] = None
                   /\ after = before - OfOutsiders(channels_Map[c], p)
              \/ /\ native_fees'[p] - native_fees[p] = after - before
                 /\ UNCHANGED tally]_vars

\* A withdrawal leaves the list only when its deadline is reached, and then
\* the address gets the amount, unless the channel no longer has it (it was
\* traded, sold, transferred or withdrawn meanwhile) or the address would own
\* more than MAX_INT64.  One of more than MAX_INT64 tokens, which only a channel
\* balance below zero lets through, is not meant.
WithdrawalHonoured ==
  [][\A c \in Chan : \A i \in DOMAIN withdrawal_Map[c] :
       LET w == withdrawal_Map[c][i]
       IN  (\A j \in DOMAIN withdrawal_Map'[c] :
              withdrawal_Map'[c][j].txid # w.txid)
           => /\ w.left = 0
              /\ w.amount <= MAX_INT64 =>
                   LET before == tally[Bal(w.address, w.prop)]
                   IN  \/ tally'[Bal(w.address, w.prop)] = before + w.amount
                       \/ getRemaining(channels_Map[c], w.address, w.prop) < w.amount
                       \/ isOverflow(before, w.amount)]_vars

Waiting(h) ==
  \E c \in Chan : \E i \in DOMAIN withdrawal_Map[c] : withdrawal_Map[c][i].txid = h

\* Under FairSpec every withdrawal is paid or dropped in the end: no order of
\* closing, reopening and trading leaves one in withdrawal_Map for ever.
WithdrawalEnds == \A h \in TxId : Waiting(h) ~> ~Waiting(h)
=============================================================================
