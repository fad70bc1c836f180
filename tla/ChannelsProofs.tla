--------------------------- MODULE ChannelsProofs ---------------------------
(***************************************************************************)
(* The trade channels, for any addresses, channels, properties and         *)
(* amounts: types, the addresses of a channel, that a withdrawal waits     *)
(* only at an open channel, what becomes of it, and where tokens appear    *)
(* and vanish.                                                             *)
(***************************************************************************)
EXTENDS Channels, TotalsProofs, SequenceTheorems, TLAPS

-----------------------------------------------------------------------------
(* Types *)

\* The conversions stay within int64, and an amount that fits is itself.
LEMMA Conversions ==
  ASSUME NEW n \in UInt64
  PROVE  /\ n \in Nat
         /\ ToInt64(n) \in Int64 /\ ToInt64(n) \in Int
         /\ Neg64(ToInt64(n)) \in Int64 /\ Neg64(ToInt64(n)) \in Int
         /\ n <= MAX_INT64 => ToInt64(n) = n /\ Neg64(ToInt64(n)) = -n
BY MaxInt64Assumption DEF UInt64, Int64, ToInt64, Neg64, MIN_INT64

\* Amounts come from transactions.
LEMMA WireType == \A n \in WireAmount : n \in UInt64
BY ChannelsAssumption

\* updateMoney keeps a balance a natural number, whatever the amount.
LEMMA BalanceType ==
  ASSUME NEW now \in Nat, NEW n \in Int
  PROVE  updateMoney(now, n, "BALANCE") \in Nat
BY DEF updateMoney, updateMoneyOk, MayBeNegative

\* So does update_tally_map for all balances.
LEMMA TallyType1 ==
  ASSUME NEW t \in [Account -> Nat], NEW a \in Addr, NEW p \in Prop, NEW n \in Int
  PROVE  update_tally_map(t, Bal(a, p), n).tally \in [Account -> Nat]
<1>1. Bal(a, p) \in Account /\ Bal(a, p)[3] = "BALANCE"
  BY DEF Bal, Account, Party
<1>2. updateMoney(t[Bal(a, p)], n, "BALANCE") \in Nat
  BY <1>1, BalanceType
<1> QED BY <1>1, <1>2 DEF update_tally_map

\* updateChannelBal changes one balance of the channel, to one that is not
\* below zero, or nothing; it keeps the two addresses.
LEMMA UpdateChannel ==
  ASSUME NEW chn \in Channel, NEW a \in Party, NEW p \in Prop, NEW n \in Int
  PROVE  LET r == updateChannelBal(chn, a, p, n)
         IN  /\ r.chn \in Channel
             /\ r.chn.first = chn.first /\ r.chn.second = chn.second
             /\ \A x \in Party \X Prop :
                  x # <<a, p>> => r.chn.balances[x] = chn.balances[x]
             /\ r.ok => /\ n # 0 /\ chn.balances[<<a, p>>] + n >= 0
                        /\ r.chn.balances[<<a, p>>] = chn.balances[<<a, p>>] + n
             /\ ~r.ok => r.chn = chn
<1> DEFINE rem == getRemaining(chn, a, p)
           r   == updateChannelBal(chn, a, p, n)
<1>1. /\ <<a, p>> \in Party \X Prop /\ rem \in Int64 /\ rem \in Int
      /\ rem = chn.balances[<<a, p>>]
  BY DEF Channel, getRemaining, Int64
<1>2. CASE r.ok
  <2>1. /\ r.chn = [chn EXCEPT !.balances[<<a, p>>] = rem + n]
        /\ n # 0 /\ rem + n >= 0 /\ ~isOverflow(rem, n)
    BY <1>2 DEF updateChannelBal
  <2>2. rem + n \in Int64
    <3> HIDE DEF rem
    <3> QED BY <1>1, <2>1, MaxInt64Assumption DEF isOverflow, Int64, MIN_INT64
  <2> HIDE DEF rem, r
  <2> QED BY <1>1, <1>2, <2>1, <2>2 DEF Channel, r
<1>3. CASE ~r.ok
  BY <1>3 DEF updateChannelBal
<1> QED BY <1>2, <1>3

\* A new channel holds what its first address has committed.
LEMMA CreateType ==
  ASSUME NEW a \in Party, NEW p \in Prop, NEW n \in Int64
  PROVE  createChannel(a, p, n) \in Channel
<1>1. 0 \in Int64
  BY MaxInt64Assumption DEF Int64, MIN_INT64
<1> QED BY <1>1 DEF createChannel, Channel, Party

\* Committing creates the channel, or adds to it.
LEMMA CommitType ==
  ASSUME NEW chn \in Channel \cup {None}, NEW a \in Addr, NEW p \in Prop, NEW n \in Int64
  PROVE  channelSanityChecks(chn, a, p, n) \in Channel
<1>1. CASE chn = None
  BY <1>1, CreateType DEF channelSanityChecks, Party
<1>2. CASE chn # None
  <2> DEFINE c2 == IF chn.second = CHANNEL_PENDING /\ chn.first # a
                     THEN [chn EXCEPT !.second = a] ELSE chn
  <2>1. c2 \in Channel
    BY <1>2 DEF Channel, Party
  <2>2. updateChannelBal(c2, a, p, n).chn \in Channel
    <3> HIDE DEF c2
    <3>1. a \in Party /\ n \in Int
      BY DEF Party, Int64
    <3> QED BY <2>1, <3>1, UpdateChannel
  <2> QED BY <1>2, <2>2 DEF channelSanityChecks, tryAddSecond
<1> QED BY <1>1, <1>2

\* The buyer may take the second place.
LEMMA BuyerType ==
  ASSUME NEW chn \in Channel, NEW b \in Addr
  PROVE  WithBuyer(chn, b) \in Channel
BY DEF WithBuyer, Channel, Party

\* Rounded divisions are natural numbers.
LEMMA RoundType ==
  ASSUME NEW n \in Nat, NEW d \in Nat \ {0}
  PROVE  DivideAndRoundUp(n, d) \in Nat
<1>1. CASE n = 0
  BY <1>1 DEF DivideAndRoundUp
<1>2. CASE n # 0
  <2>1. n - 1 \in Nat
    BY <1>2
  <2>2. (n - 1) \div d \in Nat
    BY <2>1
  <2> QED BY <1>2, <2>2 DEF DivideAndRoundUp
<1> QED BY <1>1, <1>2

\* So is the fee of an LTC trade.
LEMMA FeeType ==
  ASSUME NEW n \in Nat, NEW p \in Prop
  PROVE  CacheFee(n, p) \in Nat
<1> DEFINE d == 2 * BASISPOINT * BASISPOINT
<1>1. d \in Nat \ {0}
  <2>1. BASISPOINT \in Nat \ {0}
    BY ChannelsAssumption
  <2>2. BASISPOINT * BASISPOINT \in Nat \ {0}
    BY <2>1
  <2> QED BY <2>1, <2>2
<1> HIDE DEF d
<1>2. DivideAndRoundUp(n, d) \in Nat
  BY <1>1, RoundType
<1> QED BY <1>2 DEF CacheFee, d

\* Removing an element keeps the type of a list.
LEMMA WithoutType ==
  ASSUME NEW S, NEW s \in Seq(S), NEW i \in DOMAIN s
  PROVE  Without(s, i) \in Seq(S)
<1>1. i \in 1 .. Len(s) /\ Len(s) \in Nat
  OBVIOUS
<1>2. SubSeq(s, 1, i - 1) \in Seq(S) /\ SubSeq(s, i + 1, Len(s)) \in Seq(S)
  BY <1>1, SubSeqProperties
<1> QED BY <1>2, ConcatProperties DEF Without


\* The parts of the state have their types.
LEMMA Types ==
  ASSUME TypeOK
  PROVE  /\ \A c \in Chan : checkChannelAddress(c) => channels_Map[c] \in Channel
         /\ \A c \in Chan : withdrawal_Map[c] \in Seq(Withdrawal)
         /\ tally \in [Account -> Nat]
BY DEF TypeOK, checkChannelAddress

\* A change of one channel keeps the type of channels_Map.
LEMMA PutChannel ==
  ASSUME NEW M \in [Chan -> Channel \cup {None}], NEW c \in Chan,
         NEW chn \in Channel \cup {None}
  PROVE  [M EXCEPT ![c] = chn] \in [Chan -> Channel \cup {None}]
OBVIOUS

\* The history counter grows or stays.
LEMMA NamesType ==
  ASSUME TypeOK, NEW S, Names(S)
  PROVE  oversized' \in Nat /\ oversized \in Nat /\ oversized <= oversized'
         /\ (oversized' = 0 => \A n \in S : ~(n > MAX_INT64))
BY DEF Names, TypeOK

\* Tx 108
LEMMA CommitStepType ==
  ASSUME TypeOK, NEW a \in Addr, NEW c \in Chan, NEW p \in Prop, NEW n \in UInt64,
         CommitChannel(a, c, p, n)
  PROVE  TypeOK'
<1>1. ToInt64(n) \in Int64 /\ Neg64(ToInt64(n)) \in Int
  BY Conversions
<1>2. channels_Map' \in [Chan -> Channel \cup {None}]
  <2>1. channelSanityChecks(channels_Map[c], a, p, ToInt64(n)) \in Channel
    BY <1>1, CommitType DEF TypeOK
  <2> QED BY <2>1 DEF TypeOK, CommitChannel
<1>3. tally' \in [Account -> Nat]
  BY <1>1, TallyType1 DEF TypeOK, CommitChannel
<1>4. oversized' \in Nat
  BY NamesType DEF CommitChannel
<1> QED BY <1>2, <1>3, <1>4 DEF TypeOK, CommitChannel

\* Tx 109
LEMMA WithdrawalStepType ==
  ASSUME TypeOK, NEW a \in Addr, NEW c \in Chan, NEW p \in Prop, NEW n \in UInt64,
         NEW h \in TxId, Withdrawal_FromChannel(a, c, p, n, h)
  PROVE  TypeOK'
<1> DEFINE w == [address |-> a, left |-> WithdrawalDelay, prop |-> p,
                 amount |-> n, txid |-> h]
<1>1. w \in Withdrawal
  BY ChannelsAssumption DEF Withdrawal
<1>2. withdrawal_Map[c] \in Seq(Withdrawal)
  BY Types
<1> HIDE DEF w
<1>3. Append(withdrawal_Map[c], w) \in Seq(Withdrawal)
  BY <1>1, <1>2
<1>4. withdrawal_Map' = [withdrawal_Map EXCEPT ![c] = Append(withdrawal_Map[c], w)]
  BY DEF Withdrawal_FromChannel, w
<1>5. withdrawal_Map' \in [Chan -> Seq(Withdrawal)]
  BY <1>3, <1>4 DEF TypeOK
<1> QED BY <1>5 DEF TypeOK, Withdrawal_FromChannel

\* The channel after a trade: two updates.
TradedChannel(c, f, s, p, x, q, y) ==
  updateChannelBal(updateChannelBal(channels_Map[c], f, p, x).chn, s, q, y).chn

\* Tx 110
LEMMA TradeStepType ==
  ASSUME TypeOK, NEW c \in Chan, NEW f \in Addr, NEW s \in Addr, NEW p \in Prop,
         NEW q \in Prop, NEW n \in UInt64, NEW m \in UInt64,
         Instant_Trade(c, f, s, p, n, q, m)
  PROVE  TypeOK'
<1> DEFINE x == Neg64(ToInt64(n))
           y == Neg64(ToInt64(m))
<1>1. f \in Party /\ s \in Party /\ x \in Int /\ y \in Int
      /\ ToInt64(n) \in Int /\ ToInt64(m) \in Int
  BY Conversions DEF Party
<1>2. channels_Map' = [channels_Map EXCEPT ![c] = TradedChannel(c, f, s, p, x, q, y)]
  BY DEF Instant_Trade, TradedChannel
<1> HIDE DEF x, y
<1>3. TradedChannel(c, f, s, p, x, q, y) \in Channel
  <2>1. channels_Map[c] \in Channel
    BY Types DEF Instant_Trade
  <2>2. updateChannelBal(channels_Map[c], f, p, x).chn \in Channel
    BY <1>1, <2>1, UpdateChannel
  <2> QED BY <1>1, <2>2, UpdateChannel DEF TradedChannel
<1>4. channels_Map' \in [Chan -> Channel \cup {None}]
  BY <1>2, <1>3 DEF TypeOK
<1>5. tally' \in [Account -> Nat]
  <2>1. update_tally_map(tally, Bal(f, q), ToInt64(m)).tally \in [Account -> Nat]
    BY <1>1, Types, TallyType1
  <2> QED BY <1>1, <2>1, TallyType1 DEF Instant_Trade
<1>6. oversized' \in Nat
  BY NamesType DEF Instant_Trade
<1> QED BY <1>4, <1>5, <1>6 DEF TypeOK, Instant_Trade

\* The channels after Transfer has made sure that the target exists.
Opened(d, a, p) ==
  IF checkChannelAddress(d) THEN channels_Map
  ELSE [channels_Map EXCEPT ![d] = createChannel(a, p, 0)]

\* What Transfer does, for the address a whose tokens are moved, with the
\* amount x added to the old channel and y to the new one.
TransferOutcome(c, d, a, p, x, y) ==
  LET opened  == Opened(d, a, p)
      debit   == updateChannelBal(opened[c], a, p, x)
      debited == [opened EXCEPT ![c] = debit.chn]
  IN  /\ opened \in [Chan -> Channel \cup {None}]
      /\ opened[c] \in Channel /\ opened[d] \in Channel
      /\ debited \in [Chan -> Channel \cup {None}]
      /\ debited[d] \in Channel
      /\ channels_Map' = IF debit.ok
           THEN [debited EXCEPT ![d] = updateChannelBal(debited[d], a, p, y).chn]
           ELSE opened

\* Transfer moves the tokens of one of the places of the channel.
LEMMA TransferCases ==
  ASSUME TypeOK, NEW c \in Chan, NEW d \in Chan, NEW option \in BOOLEAN,
         NEW p \in Prop, NEW n \in UInt64, Transfer(c, d, option, p, n)
  PROVE  \E a \in Party : TransferOutcome(c, d, a, p, Neg64(ToInt64(n)), ToInt64(n))
<1> DEFINE a == IF option THEN channels_Map[c].second ELSE channels_Map[c].first
           x == Neg64(ToInt64(n))
           y == ToInt64(n)
           opened  == Opened(d, a, p)
           debit   == updateChannelBal(opened[c], a, p, x)
           debited == [opened EXCEPT ![c] = debit.chn]
<1>1. channels_Map[c] \in Channel
  BY Types DEF Transfer
<1>2. a \in Party
  BY <1>1 DEF Channel
<1>3. channels_Map' = IF debit.ok
        THEN [debited EXCEPT ![d] = updateChannelBal(debited[d], a, p, y).chn]
        ELSE opened
  BY DEF Transfer, Opened, TypeOK
<1> HIDE DEF a
<1>4. createChannel(a, p, 0) \in Channel
  <2>1. 0 \in Int64
    BY MaxInt64Assumption DEF Int64, MIN_INT64
  <2> QED BY <1>2, <2>1, CreateType
<1>5. opened \in [Chan -> Channel \cup {None}] /\ opened[c] \in Channel /\ opened[d] \in Channel
  BY <1>1, <1>4, Types DEF TypeOK, Opened, checkChannelAddress
<1> HIDE DEF opened
<1>6. debit.chn \in Channel
  <2>1. x \in Int
    BY Conversions
  <2> HIDE DEF x
  <2> QED BY <1>2, <1>5, <2>1, UpdateChannel
<1> HIDE DEF debit
<1>7. debited \in [Chan -> Channel \cup {None}] /\ debited[d] \in Channel
  BY <1>5, <1>6
<1> HIDE DEF x, y
<1>8. TransferOutcome(c, d, a, p, x, y)
  BY <1>3, <1>5, <1>7 DEF TransferOutcome, opened, debit
<1> QED BY <1>2, <1>8 DEF x, y

\* Tx 112
LEMMA TransferStepType ==
  ASSUME TypeOK, NEW c \in Chan, NEW d \in Chan, NEW option \in BOOLEAN,
         NEW p \in Prop, NEW n \in UInt64, Transfer(c, d, option, p, n)
  PROVE  TypeOK'
<1>1. channels_Map' \in [Chan -> Channel \cup {None}]
  <2> DEFINE x == Neg64(ToInt64(n))
             y == ToInt64(n)
  <2>1. y \in Int
    BY Conversions
  <2>2. PICK a \in Party : TransferOutcome(c, d, a, p, x, y)
    BY TransferCases
  <2> HIDE DEF x, y
  <2> DEFINE opened  == Opened(d, a, p)
             debit   == updateChannelBal(opened[c], a, p, x)
             debited == [opened EXCEPT ![c] = debit.chn]
  <2>3. updateChannelBal(debited[d], a, p, y).chn \in Channel
    <3>1. debited[d] \in Channel
      BY <2>2 DEF TransferOutcome
    <3> HIDE DEF debited
    <3> QED BY <2>1, <3>1, UpdateChannel
  <2>4. channels_Map' \in {[debited EXCEPT ![d] = updateChannelBal(debited[d], a, p, y).chn],
                           opened}
        /\ debited \in [Chan -> Channel \cup {None}]
        /\ opened \in [Chan -> Channel \cup {None}]
    BY <2>2 DEF TransferOutcome
  <2> HIDE DEF opened, debit, debited
  <2> QED BY <2>3, <2>4
<1>2. oversized' \in Nat
  BY NamesType DEF Transfer
<1> QED BY <1>1, <1>2 DEF TypeOK, Transfer

\* Tx 113 and HandleLtcInstantTrade
LEMMA LtcStepType ==
  ASSUME TypeOK, NEW c \in Chan, NEW buyer \in Addr, NEW seller \in Addr,
         NEW p \in Prop, NEW forsale \in Nat, NEW price \in Nat \ {0},
         NEW nvalue \in Nat,
         HandleLtcInstantTrade(c, buyer, seller, p, forsale, price, nvalue)
  PROVE  TypeOK'
<1> DEFINE paid      == IF nvalue > price THEN price ELSE nvalue
           purchased == DivideAndRoundUp(paid * forsale, price)
           fee       == CacheFee(purchased, p)
           chn       == WithBuyer(channels_Map[c], buyer)
<1>1. purchased \in Nat
  <2>1. paid * forsale \in Nat
    OBVIOUS
  <2> HIDE DEF paid
  <2> QED BY <2>1, RoundType
<1>2. fee \in Nat
  <2> HIDE DEF purchased
  <2> QED BY <1>1, FeeType
<1>3. chn \in Channel
  BY Types, BuyerType DEF HandleLtcInstantTrade
<1> DEFINE sold == updateChannelBal(chn, seller, p, -purchased).chn
           got  == update_tally_map(tally, Bal(buyer, p), purchased - fee).tally
<1>4. sold \in Channel
  <2>1. seller \in Party /\ -purchased \in Int
    BY <1>1 DEF Party
  <2> HIDE DEF chn, purchased
  <2> QED BY <1>3, <2>1, UpdateChannel
<1>5. got \in [Account -> Nat]
  <2>1. purchased - fee \in Int
    BY <1>1, <1>2
  <2> HIDE DEF purchased, fee
  <2> QED BY <2>1, Types, TallyType1
<1>6. /\ channels_Map' \in {[channels_Map EXCEPT ![c] = chn], [channels_Map EXCEPT ![c] = sold]}
      /\ native_fees' \in {native_fees, [native_fees EXCEPT ![p] = @ + fee]}
      /\ tally' \in {tally, got}
      /\ UNCHANGED <<withdrawal_Map, phase, oversized>>
  BY DEF HandleLtcInstantTrade
<1> HIDE DEF chn, sold, got, fee
<1>7. channels_Map' \in [Chan -> Channel \cup {None}]
  BY <1>3, <1>4, <1>6 DEF TypeOK
<1>8. native_fees' \in [Prop -> Nat]
  BY <1>2, <1>6 DEF TypeOK
<1>9. tally' \in [Account -> Nat]
  BY <1>5, <1>6 DEF TypeOK
<1> QED BY <1>6, <1>7, <1>8, <1>9 DEF TypeOK

\* Tx 120
LEMMA CloseStepType ==
  ASSUME TypeOK, NEW a \in Addr, NEW c \in Chan, closeChannel(a, c)
  PROVE  TypeOK'
<1>1. channels_Map' \in [Chan -> Channel \cup {None}]
      /\ withdrawal_Map' \in [Chan -> Seq(Withdrawal)]
  BY DEF TypeOK, closeChannel
<1>2. ASSUME NEW x \in Account
      PROVE  Refunded(tally[x], channels_Map[c], x[1], x[2]) \in Nat
  <2> DEFINE chn  == channels_Map[c]
             one  == RefundOf(chn, chn.first, x[1], x[2])
             two  == RefundOf(chn, chn.second, x[1], x[2])
  <2>1. chn \in Channel
    BY Types DEF closeChannel
  <2>2. x[1] \in Party /\ x[2] \in Prop
    BY DEF Account
  <2>3. getRemaining(chn, x[1], x[2]) \in Int
    BY <2>1, <2>2 DEF getRemaining, Channel, Int64
  <2>4. one \in Int /\ two \in Int
    BY <2>3 DEF RefundOf
  <2>5. tally[x] \in Nat
    BY DEF TypeOK
  <2> HIDE DEF one, two
  <2>6. updateMoney(tally[x], one, "BALANCE") \in Nat
    BY <2>4, <2>5, BalanceType
  <2>7. updateMoney(updateMoney(tally[x], one, "BALANCE"), two, "BALANCE") \in Nat
    BY <2>4, <2>6, BalanceType
  <2> QED BY <2>7 DEF Refunded, one, two
<1>3. tally' \in [Account -> Nat]
  BY <1>2 DEF closeChannel
<1> QED BY <1>1, <1>3 DEF TypeOK, closeChannel

\* The deadlines of a list of withdrawals come nearer.
LEMMA BlockStepType ==
  ASSUME TypeOK, block_begin
  PROVE  TypeOK'
<1> DEFINE older(c) == [i \in DOMAIN withdrawal_Map[c] |->
             [withdrawal_Map[c][i] EXCEPT !.left = IF @ = 0 THEN 0 ELSE @ - 1]]
<1>1. ASSUME NEW c \in Chan PROVE older(c) \in Seq(Withdrawal)
  <2>1. withdrawal_Map[c] \in Seq(Withdrawal)
    BY Types
  <2>2. ASSUME NEW w \in Withdrawal
        PROVE  [w EXCEPT !.left = IF @ = 0 THEN 0 ELSE @ - 1] \in Withdrawal
    BY ChannelsAssumption DEF Withdrawal
  <2>3. \A i \in 1 .. Len(withdrawal_Map[c]) : withdrawal_Map[c][i] \in Withdrawal
    BY <2>1
  <2>4. DOMAIN withdrawal_Map[c] = 1 .. Len(withdrawal_Map[c])
        /\ Len(withdrawal_Map[c]) \in Nat
    BY <2>1
  <2>5. older(c) \in [1 .. Len(withdrawal_Map[c]) -> Withdrawal]
    BY <2>2, <2>3, <2>4
  <2> QED BY <2>4, <2>5, SeqDef
<1>2. withdrawal_Map' \in [Chan -> Seq(Withdrawal)]
  <2>1. withdrawal_Map' = [c \in Chan |-> older(c)]
    BY DEF block_begin
  <2> HIDE DEF older
  <2> QED BY <1>1, <2>1
<1> QED BY <1>2 DEF TypeOK, block_begin

\* makeWithdrawals, one withdrawal
LEMMA MakeStepType ==
  ASSUME TypeOK, NEW c \in Chan, makeWithdrawal(c)
  PROVE  TypeOK'
<1>1. PICK i \in Due(c) :
       LET w     == withdrawal_Map[c][i]
           amt   == ToInt64(w.amount)
           debit == updateChannelBal(channels_Map[c], w.address, w.prop, Neg64(amt))
       IN  /\ \A j \in Due(c) : i <= j
           /\ withdrawal_Map' = [withdrawal_Map EXCEPT ![c] = Without(@, i)]
           /\ channels_Map' = [channels_Map EXCEPT ![c] = debit.chn]
           /\ tally' = IF debit.ok
                         THEN update_tally_map(tally, Bal(w.address, w.prop),
                                               amt).tally
                         ELSE tally
  BY DEF makeWithdrawal
<1> DEFINE w   == withdrawal_Map[c][i]
           amt == ToInt64(w.amount)
<1>2. i \in DOMAIN withdrawal_Map[c] /\ withdrawal_Map[c] \in Seq(Withdrawal)
      /\ channels_Map[c] \in Channel
  BY Types DEF Due
<1>3. w \in Withdrawal
  BY <1>2
<1>4. w.address \in Addr /\ w.prop \in Prop /\ amt \in Int /\ Neg64(amt) \in Int
  BY <1>3, Conversions DEF Withdrawal
<1>5. updateChannelBal(channels_Map[c], w.address, w.prop, Neg64(amt)).chn \in Channel
  <2>1. w.address \in Party
    BY <1>4 DEF Party
  <2> HIDE DEF w, amt
  <2> QED BY <1>2, <1>4, <2>1, UpdateChannel
<1>6. update_tally_map(tally, Bal(w.address, w.prop), amt).tally \in [Account -> Nat]
  <2> HIDE DEF w, amt
  <2> QED BY <1>4, Types, TallyType1
<1>7. Without(withdrawal_Map[c], i) \in Seq(Withdrawal)
  BY <1>2, WithoutType
<1>8. channels_Map' \in [Chan -> Channel \cup {None}]
  BY <1>1, <1>5 DEF TypeOK
<1>9. tally' \in [Account -> Nat]
  BY <1>1, <1>6 DEF TypeOK
<1>10. withdrawal_Map' \in [Chan -> Seq(Withdrawal)]
  BY <1>1, <1>7 DEF TypeOK
<1> QED BY <1>8, <1>9, <1>10 DEF TypeOK, makeWithdrawal

\* Every step keeps the types.
LEMMA StepType == TypeOK /\ [Next]_vars => TypeOK'
<1> SUFFICES ASSUME TypeOK, [Next]_vars PROVE TypeOK'
  OBVIOUS
<1>1. \A n \in WireAmount : n \in UInt64
  BY WireType
<1>2. \A n \in WireAmount : n \in Nat
  BY <1>1, Conversions
<1>3. \A n \in 1 .. MaxLTC : n \in Nat \ {0} /\ n \in Nat
  OBVIOUS
<1>4. CASE withdrawalsDone
  BY <1>4 DEF withdrawalsDone, TypeOK
<1>5. CASE UNCHANGED vars
  BY <1>5 DEF vars, TypeOK
<1> QED BY <1>1, <1>2, <1>3, <1>4, <1>5, CommitStepType, WithdrawalStepType,
           TradeStepType, TransferStepType, LtcStepType, CloseStepType,
           BlockStepType, MakeStepType DEF Next

\* At the start there are balances and no channels.
LEMMA InitType == Init => TypeOK
<1> SUFFICES ASSUME Init PROVE TypeOK
  OBVIOUS
<1>1. tally \in [Account -> Nat]
  BY ChannelsAssumption DEF Init, Account, Party
<1>2. withdrawal_Map \in [Chan -> Seq(Withdrawal)]
  <2>1. <<>> \in Seq(Withdrawal)
    OBVIOUS
  <2> QED BY <2>1 DEF Init
<1> QED BY <1>1, <1>2 DEF Init, TypeOK

\* The channels keep their types for any traders, channels, properties and
\* uint64 amounts: no balance of an address goes below zero, and none in a
\* channel leaves int64, whatever the conversions make of an amount.
THEOREM ChannelsTypeCorrect == Spec => []TypeOK
BY InitType, StepType, PTL DEF Spec

-----------------------------------------------------------------------------
(* The addresses of a channel *)

\* PartiesSound for one channel, and that it holds nothing below zero; plain
\* says that no transaction has named more than MAX_INT64 tokens.
Sound(chn, plain) ==
  /\ chn.first = chn.second => chn.first = CHANNEL_PENDING
  /\ plain => /\ \A p \in Prop : chn.balances[<<CHANNEL_PENDING, p>>] = 0
              /\ \A x \in Party \X Prop : chn.balances[x] >= 0

\* Every channel is sound; this is inductive and implies PartiesSound.
PartiesInv ==
  \A c \in Chan : channels_Map[c] # None => Sound(channels_Map[c], oversized = 0)

LEMMA SoundChannels == PartiesInv => PartiesSound
BY DEF PartiesInv, PartiesSound, Sound, getRemaining

\* A change of what an address other than the placeholder has keeps a channel
\* sound; of the placeholder, which has nothing, nothing can be taken.
LEMMA UpdateSound ==
  ASSUME NEW chn \in Channel, NEW plain \in BOOLEAN, Sound(chn, plain),
         NEW a \in Party, NEW p \in Prop, NEW n \in Int,
         a \in Addr \/ (plain => n <= 0)
  PROVE  Sound(updateChannelBal(chn, a, p, n).chn, plain)
<1> DEFINE r == updateChannelBal(chn, a, p, n)
<1>1. /\ r.chn.first = chn.first /\ r.chn.second = chn.second
      /\ \A x \in Party \X Prop : x # <<a, p>> => r.chn.balances[x] = chn.balances[x]
      /\ r.ok => /\ n # 0 /\ chn.balances[<<a, p>>] + n >= 0
                 /\ r.chn.balances[<<a, p>>] = chn.balances[<<a, p>>] + n
      /\ ~r.ok => r.chn = chn
  BY UpdateChannel
<1> HIDE DEF r
<1>4. CASE ~plain
  BY <1>1, <1>4 DEF Sound, r
<1>5. plain => \A x \in Party \X Prop : r.chn.balances[x] >= 0
  BY <1>1 DEF Sound
<1>2. CASE plain /\ a \in Addr
  <2>1. \A q \in Prop : <<CHANNEL_PENDING, q>> \in Party \X Prop
                        /\ <<CHANNEL_PENDING, q>> # <<a, p>>
    BY <1>2, ChannelsAssumption DEF Party
  <2> QED BY <1>1, <1>2, <1>5, <2>1 DEF Sound, r
<1>3. CASE plain /\ a = CHANNEL_PENDING /\ n <= 0
  <2>1. chn.balances[<<a, p>>] = 0
    BY <1>3 DEF Sound
  <2>2. ~r.ok
    BY <1>1, <1>3, <2>1
  <2> QED BY <1>1, <2>2 DEF r
<1> QED BY <1>2, <1>3, <1>4 DEF Party

\* A new channel of an address, or one for nothing, is sound.
LEMMA CreateSound ==
  ASSUME NEW a \in Party, NEW p \in Prop, NEW n \in Int, NEW plain \in BOOLEAN,
         a \in Addr \/ n = 0, plain => n >= 0
  PROVE  Sound(createChannel(a, p, n), plain)
<1> DEFINE chn == createChannel(a, p, n)
<1>1. chn.first = a /\ chn.second = CHANNEL_PENDING
  BY DEF createChannel
<1>2. ASSUME NEW q \in Prop PROVE chn.balances[<<CHANNEL_PENDING, q>>] = 0
  BY ChannelsAssumption DEF createChannel, Party
<1>3. plain => \A x \in Party \X Prop : chn.balances[x] >= 0
  BY DEF createChannel
<1> QED BY <1>1, <1>2, <1>3 DEF Sound

\* Committing keeps a channel sound: the second address is never the first.
LEMMA CommitSound ==
  ASSUME NEW chn \in Channel \cup {None}, NEW plain \in BOOLEAN,
         chn # None => Sound(chn, plain),
         NEW a \in Addr, NEW p \in Prop, NEW n \in Int64, plain => n >= 0
  PROVE  Sound(channelSanityChecks(chn, a, p, n), plain)
<1>1. a \in Party /\ n \in Int
  BY DEF Party, Int64
<1>2. CASE chn = None
  BY <1>1, <1>2, CreateSound DEF channelSanityChecks
<1>3. CASE chn # None
  <2> DEFINE c2 == IF chn.second = CHANNEL_PENDING /\ chn.first # a
                     THEN [chn EXCEPT !.second = a] ELSE chn
  <2>1. c2 \in Channel
    BY <1>3 DEF Channel, Party
  <2>2. Sound(c2, plain)
    BY <1>3 DEF Sound, Channel
  <2>3. Sound(updateChannelBal(c2, a, p, n).chn, plain)
    <3> HIDE DEF c2
    <3> QED BY <1>1, <2>1, <2>2, UpdateSound
  <2> QED BY <1>3, <2>3 DEF channelSanityChecks, tryAddSecond
<1> QED BY <1>2, <1>3

\* So does the buyer of an LTC trade that takes the open place.
LEMMA BuyerSound ==
  ASSUME NEW chn \in Channel, NEW plain \in BOOLEAN, Sound(chn, plain), NEW b \in Addr
  PROVE  Sound(WithBuyer(chn, b), plain)
BY DEF WithBuyer, Sound, Channel, isPartOfChannel

\* What was sound before a step is sound after it if nothing else changes.
LEMMA SoundLater ==
  ASSUME oversized \in Nat, oversized' \in Nat, oversized <= oversized', NEW chn,
         Sound(chn, oversized = 0)
  PROVE  Sound(chn, oversized' = 0)
BY DEF Sound

\* Putting a sound channel into the map keeps all of them sound.
LEMMA PutSound ==
  ASSUME TypeOK, PartiesInv, oversized' \in Nat, oversized <= oversized',
         NEW c \in Chan, NEW chn, chn # None => Sound(chn, oversized' = 0),
         channels_Map' = [channels_Map EXCEPT ![c] = chn]
  PROVE  PartiesInv'
<1>1. oversized \in Nat
  BY DEF TypeOK
<1>2. \A d \in Chan : channels_Map[d] # None => Sound(channels_Map[d], oversized' = 0)
  BY <1>1, SoundLater DEF PartiesInv
<1>3. \A d \in Chan : channels_Map'[d] # None => Sound(channels_Map'[d], oversized' = 0)
  BY <1>2 DEF TypeOK
<1> QED BY <1>3 DEF PartiesInv, Sound

\* The channel that a transaction names is sound.
LEMMA SoundAt ==
  ASSUME TypeOK, PartiesInv, NEW c \in Chan, checkChannelAddress(c),
         oversized' \in Nat, oversized <= oversized'
  PROVE  channels_Map[c] \in Channel /\ Sound(channels_Map[c], oversized' = 0)
<1>1. oversized \in Nat /\ Sound(channels_Map[c], oversized = 0)
  BY DEF TypeOK, PartiesInv, checkChannelAddress
<1> QED BY <1>1, Types, SoundLater

\* A transfer, also one for the placeholder, keeps all channels sound.
LEMMA TransferSound ==
  ASSUME TypeOK, PartiesInv, NEW c \in Chan, NEW d \in Chan, NEW option \in BOOLEAN,
         NEW p \in Prop, NEW n \in UInt64, Transfer(c, d, option, p, n)
  PROVE  PartiesInv'
<1> DEFINE x     == Neg64(ToInt64(n))
           y     == ToInt64(n)
           plain == oversized' = 0
<1>1. /\ oversized \in Nat /\ oversized' \in Nat /\ oversized <= oversized'
      /\ plain => ~(n > MAX_INT64)
  BY NamesType DEF Transfer
<1>2. x \in Int /\ y \in Int /\ (plain => x <= 0)
  <2>1. MAX_INT64 \in Nat
    BY MaxInt64Assumption
  <2>2. plain => n <= MAX_INT64
    BY <1>1, <2>1, Conversions
  <2> QED BY <2>2, Conversions
<1>3. PICK a \in Party : TransferOutcome(c, d, a, p, x, y)
  BY TransferCases
<1> HIDE DEF x, y
<1> DEFINE opened  == Opened(d, a, p)
           debit   == updateChannelBal(opened[c], a, p, x)
           debited == [opened EXCEPT ![c] = debit.chn]
           AllSound(M) == \A e \in Chan : M[e] # None => Sound(M[e], plain)
<1>4. AllSound(opened)
  <2>1. Sound(createChannel(a, p, 0), plain)
    <3>1. plain \in BOOLEAN /\ 0 \in Int /\ 0 >= 0
      OBVIOUS
    <3> HIDE DEF plain
    <3> QED BY <3>1, CreateSound
  <2>2. AllSound(channels_Map)
    BY <1>1, SoundLater DEF PartiesInv
  <2> HIDE DEF plain
  <2> QED BY <2>1, <2>2 DEF Opened, TypeOK
<1>5. /\ opened \in [Chan -> Channel \cup {None}]
      /\ opened[c] \in Channel /\ opened[d] \in Channel
      /\ debited \in [Chan -> Channel \cup {None}]
      /\ debited[d] \in Channel
      /\ channels_Map' = IF debit.ok
           THEN [debited EXCEPT ![d] = updateChannelBal(debited[d], a, p, y).chn]
           ELSE opened
  BY <1>3 DEF TransferOutcome
<1>6. None \notin Channel
  BY ChannelsAssumption
<1> HIDE DEF opened
<1>7. Sound(debit.chn, plain) /\ (debit.ok /\ plain => a \in Addr)
  <2>1. Sound(opened[c], plain) /\ plain \in BOOLEAN
    BY <1>4, <1>5, <1>6
  <2> HIDE DEF plain
  <2>2. Sound(debit.chn, plain)
    BY <1>2, <1>5, <2>1, UpdateSound
  <2>3. debit.ok => x # 0 /\ opened[c].balances[<<a, p>>] + x >= 0
    BY <1>2, <1>5, UpdateChannel
  <2>4. plain /\ a = CHANNEL_PENDING => opened[c].balances[<<a, p>>] = 0
    BY <2>1 DEF Sound
  <2> HIDE DEF debit
  <2> QED BY <1>2, <2>2, <2>3, <2>4 DEF Party
<1> HIDE DEF debit
<1>8. AllSound(debited)
  <2> HIDE DEF plain
  <2> QED BY <1>4, <1>5, <1>7
<1>9. ASSUME debit.ok PROVE Sound(updateChannelBal(debited[d], a, p, y).chn, plain)
  <2>1. Sound(debited[d], plain) /\ (a \in Addr \/ ~plain) /\ plain \in BOOLEAN
    <3>1. debited[d] # None
      BY <1>5, <1>6
    <3> QED BY <1>7, <1>8, <1>9, <3>1
  <2> HIDE DEF debited, plain
  <2>2. a \in Addr \/ (plain => y <= 0)
    BY <2>1
  <2> QED BY <1>2, <1>5, <2>1, <2>2, UpdateSound
<1> HIDE DEF debited
<1>10. AllSound(channels_Map')
  <2> HIDE DEF plain
  <2> QED BY <1>4, <1>5, <1>8, <1>9
<1> QED BY <1>10 DEF PartiesInv, Sound

\* Every step keeps the channels sound.
LEMMA StepSound == TypeOK /\ PartiesInv /\ [Next]_vars => PartiesInv'
<1> SUFFICES ASSUME TypeOK, PartiesInv, [Next]_vars PROVE PartiesInv'
  OBVIOUS
<1> DEFINE plain == oversized' = 0
<1>1. ASSUME NEW a \in Addr, NEW c \in Chan, NEW p \in Prop, NEW n \in UInt64,
             CommitChannel(a, c, p, n)
      PROVE  PartiesInv'
  <2>1. /\ oversized \in Nat /\ oversized' \in Nat /\ oversized <= oversized'
        /\ plain => ~(n > MAX_INT64)
    BY <1>1, NamesType DEF CommitChannel
  <2>2. ToInt64(n) \in Int64 /\ (plain => ToInt64(n) >= 0)
    <3>1. MAX_INT64 \in Nat
      BY MaxInt64Assumption
    <3>2. plain => n <= MAX_INT64
      BY <2>1, <3>1, Conversions
    <3> QED BY <3>2, Conversions
  <2>3. Sound(channelSanityChecks(channels_Map[c], a, p, ToInt64(n)), plain)
    <3>1. channels_Map[c] \in Channel \cup {None} /\ plain \in BOOLEAN
      BY DEF TypeOK
    <3>2. channels_Map[c] # None => Sound(channels_Map[c], plain)
      BY <2>1, SoundLater DEF PartiesInv
    <3> HIDE DEF plain
    <3> QED BY <2>2, <3>1, <3>2, CommitSound
  <2> QED BY <1>1, <2>1, <2>3, PutSound DEF CommitChannel
<1>2. ASSUME UNCHANGED <<channels_Map, oversized>> PROVE PartiesInv'
  BY <1>2 DEF PartiesInv, Sound
<1>3. ASSUME NEW c \in Chan, NEW f \in Addr, NEW s \in Addr, NEW p \in Prop,
             NEW q \in Prop, NEW n \in UInt64, NEW m \in UInt64,
             Instant_Trade(c, f, s, p, n, q, m)
      PROVE  PartiesInv'
  <2> DEFINE x     == Neg64(ToInt64(n))
             y     == Neg64(ToInt64(m))
             given == updateChannelBal(channels_Map[c], f, p, x).chn
  <2>1. f \in Party /\ s \in Party /\ x \in Int /\ y \in Int /\ plain \in BOOLEAN
    BY Conversions DEF Party
  <2>2. oversized' \in Nat /\ oversized <= oversized'
    BY <1>3, NamesType DEF Instant_Trade
  <2>3. channels_Map[c] \in Channel /\ Sound(channels_Map[c], plain)
    BY <1>3, <2>2, SoundAt DEF Instant_Trade
  <2>4. channels_Map' = [channels_Map EXCEPT ![c] = updateChannelBal(given, s, q, y).chn]
    BY <1>3 DEF Instant_Trade
  <2> HIDE DEF x, y, plain
  <2>5. given \in Channel /\ Sound(given, plain)
    BY <2>1, <2>3, UpdateChannel, UpdateSound
  <2> HIDE DEF given
  <2>6. Sound(updateChannelBal(given, s, q, y).chn, plain)
    BY <2>1, <2>5, UpdateSound
  <2> QED BY <2>2, <2>4, <2>6, PutSound DEF plain
<1>4. ASSUME NEW c \in Chan, NEW d \in Chan, NEW option \in BOOLEAN, NEW p \in Prop,
             NEW n \in UInt64, Transfer(c, d, option, p, n)
      PROVE  PartiesInv'
  BY <1>4, TransferSound
<1>5. ASSUME NEW c \in Chan, NEW buyer \in Addr, NEW seller \in Addr, NEW p \in Prop,
             NEW forsale \in Nat, NEW price \in 1 .. MaxLTC,
             NEW nvalue \in 1 .. MaxLTC,
             HandleLtcInstantTrade(c, buyer, seller, p, forsale, price, nvalue)
      PROVE  PartiesInv'
  <2> DEFINE paid      == IF nvalue > price THEN price ELSE nvalue
             purchased == DivideAndRoundUp(paid * forsale, price)
             chn       == WithBuyer(channels_Map[c], buyer)
             sold      == updateChannelBal(chn, seller, p, -purchased).chn
  <2>1. oversized' \in Nat /\ oversized <= oversized' /\ plain \in BOOLEAN
    BY <1>5 DEF HandleLtcInstantTrade, TypeOK
  <2>2. channels_Map[c] \in Channel /\ Sound(channels_Map[c], plain)
    BY <1>5, <2>1, SoundAt DEF HandleLtcInstantTrade
  <2>3. chn \in Channel /\ Sound(chn, plain)
    BY <2>1, <2>2, BuyerType, BuyerSound
  <2>4. -purchased \in Int /\ seller \in Party
    <3>1. paid * forsale \in Nat /\ price \in Nat \ {0}
      OBVIOUS
    <3> HIDE DEF paid
    <3>2. purchased \in Nat
      BY <3>1, RoundType
    <3> HIDE DEF purchased
    <3> QED BY <3>2 DEF Party
  <2>5. channels_Map' \in {[channels_Map EXCEPT ![c] = chn], [channels_Map EXCEPT ![c] = sold]}
    BY <1>5 DEF HandleLtcInstantTrade
  <2> HIDE DEF chn, purchased
  <2>6. Sound(sold, plain)
    <3> HIDE DEF plain
    <3> QED BY <2>1, <2>3, <2>4, UpdateSound
  <2> HIDE DEF sold
  <2>7. CASE channels_Map' = [channels_Map EXCEPT ![c] = chn]
    BY <2>1, <2>3, <2>7, PutSound
  <2>8. CASE channels_Map' = [channels_Map EXCEPT ![c] = sold]
    BY <2>1, <2>6, <2>8, PutSound
  <2> QED BY <2>5, <2>7, <2>8
<1>6. ASSUME NEW a \in Addr, NEW c \in Chan, closeChannel(a, c) PROVE PartiesInv'
  <2>1. oversized' \in Nat /\ oversized <= oversized'
        /\ channels_Map' = [channels_Map EXCEPT ![c] = None]
    BY <1>6 DEF closeChannel, TypeOK
  <2> QED BY <2>1, PutSound
<1>7. ASSUME NEW c \in Chan, makeWithdrawal(c) PROVE PartiesInv'
  <2>1. PICK i \in Due(c) :
          channels_Map' = [channels_Map EXCEPT ![c] =
            updateChannelBal(channels_Map[c], withdrawal_Map[c][i].address,
              withdrawal_Map[c][i].prop,
              Neg64(ToInt64(withdrawal_Map[c][i].amount))).chn]
    BY <1>7 DEF makeWithdrawal
  <2> DEFINE w == withdrawal_Map[c][i]
             x == Neg64(ToInt64(w.amount))
  <2>2. oversized' \in Nat /\ oversized <= oversized' /\ plain \in BOOLEAN
    BY <1>7 DEF makeWithdrawal, TypeOK
  <2>3. channels_Map[c] \in Channel /\ Sound(channels_Map[c], plain)
    BY <2>2, SoundAt DEF Due
  <2>4. w \in Withdrawal
    BY Types DEF Due
  <2>5. w.address \in Addr /\ w.address \in Party /\ w.prop \in Prop /\ x \in Int
    BY <2>4, Conversions DEF Withdrawal, Party
  <2> HIDE DEF w, x
  <2>6. Sound(updateChannelBal(channels_Map[c], w.address, w.prop, x).chn, plain)
    <3> HIDE DEF plain
    <3> QED BY <2>2, <2>3, <2>5, UpdateSound
  <2> QED BY <2>1, <2>2, <2>6, PutSound DEF w, x
<1>8. CASE UNCHANGED vars
  BY <1>2, <1>8 DEF vars
<1>9. \A n \in WireAmount : n \in UInt64 /\ n \in Nat
  BY WireType, Conversions
<1> HIDE DEF plain
<1> QED BY <1>1, <1>2, <1>3, <1>4, <1>5, <1>6, <1>7, <1>8, <1>9
        DEF Next, Withdrawal_FromChannel, block_begin, withdrawalsDone

\* At the start there are no channels.
LEMMA InitSound == Init => PartiesInv
BY DEF Init, PartiesInv

\* In any number of channels, over any sequence of commits, trades, transfers
\* and withdrawals, the two addresses of a channel differ; and nothing belongs
\* to the placeholder of an open place as long as no transaction has named more
\* than MAX_INT64 tokens, so that closeChannel pays nobody twice.
THEOREM AddressesSound == Spec => []PartiesSound
BY InitType, InitSound, StepType, StepSound, SoundChannels, PTL DEF Spec

-----------------------------------------------------------------------------
(* Withdrawals and their channels *)

\* No step leaves a withdrawal at a channel that does not exist.
LEMMA StepWaiting ==
  TypeOK /\ WithdrawalsHaveChannel /\ [Next]_vars => WithdrawalsHaveChannel'
<1> SUFFICES ASSUME TypeOK, WithdrawalsHaveChannel, [Next]_vars, NEW e \in Chan,
                    withdrawal_Map'[e] # <<>>
             PROVE  channels_Map'[e] # None
  BY DEF WithdrawalsHaveChannel, isChannelWithdraw, checkChannelAddress
<1>1. TypeOK'
  BY StepType
<1>2. None \notin Channel
  BY ChannelsAssumption
<1>3. withdrawal_Map[e] # <<>> => channels_Map[e] # None
  BY DEF WithdrawalsHaveChannel, isChannelWithdraw, checkChannelAddress
<1>4. \A n \in WireAmount : n \in UInt64 /\ n \in Nat
  BY WireType, Conversions
<1>5. ASSUME NEW a \in Addr, NEW c \in Chan, NEW p \in Prop, NEW n \in WireAmount,
             CommitChannel(a, c, p, n)
      PROVE  channels_Map'[e] # None
  <2>1. channelSanityChecks(channels_Map[c], a, p, ToInt64(n)) \in Channel
    BY <1>4, Conversions, CommitType DEF TypeOK
  <2> QED BY <1>2, <1>3, <1>5, <2>1 DEF CommitChannel, TypeOK
<1>6. ASSUME NEW a \in Addr, NEW c \in Chan, NEW p \in Prop, NEW n \in WireAmount,
             NEW h \in TxId, Withdrawal_FromChannel(a, c, p, n, h)
      PROVE  channels_Map'[e] # None
  <2>1. CASE e = c
    BY <1>6, <2>1 DEF Withdrawal_FromChannel, checkChannelAddress
  <2>2. CASE e # c
    BY <1>3, <1>6, <2>2 DEF Withdrawal_FromChannel, TypeOK
  <2> QED BY <2>1, <2>2
<1>7. ASSUME NEW c \in Chan, NEW f \in Addr, NEW s \in Addr, NEW p \in Prop,
             NEW q \in Prop, NEW n \in WireAmount, NEW m \in WireAmount,
             Instant_Trade(c, f, s, p, n, q, m)
      PROVE  channels_Map'[e] # None
  <2> DEFINE x == Neg64(ToInt64(n))
             y == Neg64(ToInt64(m))
  <2>1. f \in Party /\ s \in Party /\ x \in Int /\ y \in Int
    BY <1>4, Conversions DEF Party
  <2>2. channels_Map[c] \in Channel
    BY <1>7, Types DEF Instant_Trade
  <2>3. updateChannelBal(channels_Map[c], f, p, x).chn \in Channel
    BY <2>1, <2>2, UpdateChannel
  <2>4. TradedChannel(c, f, s, p, x, q, y) \in Channel
    BY <2>1, <2>3, UpdateChannel DEF TradedChannel
  <2>5. channels_Map' = [channels_Map EXCEPT ![c] = TradedChannel(c, f, s, p, x, q, y)]
    BY <1>7 DEF Instant_Trade, TradedChannel
  <2> QED BY <1>2, <1>3, <1>7, <2>4, <2>5 DEF Instant_Trade, TypeOK
<1>8. ASSUME NEW c \in Chan, NEW d \in Chan, NEW option \in BOOLEAN, NEW p \in Prop,
             NEW n \in WireAmount, Transfer(c, d, option, p, n)
      PROVE  channels_Map'[e] # None
  <2> DEFINE x == Neg64(ToInt64(n))
             y == ToInt64(n)
  <2>1. PICK a \in Party : TransferOutcome(c, d, a, p, x, y)
    BY <1>4, <1>8, TransferCases
  <2>9. x \in Int /\ y \in Int
    BY <1>4, Conversions
  <2> HIDE DEF x, y
  <2> DEFINE opened  == Opened(d, a, p)
             debit   == updateChannelBal(opened[c], a, p, x)
             debited == [opened EXCEPT ![c] = debit.chn]
  <2>2. /\ opened \in [Chan -> Channel \cup {None}]
        /\ opened[c] \in Channel
        /\ debited[d] \in Channel
        /\ channels_Map' = IF debit.ok
             THEN [debited EXCEPT ![d] = updateChannelBal(debited[d], a, p, y).chn]
             ELSE opened
    BY <2>1 DEF TransferOutcome
  <2>3. channels_Map[e] # None
    BY <1>3, <1>8 DEF Transfer
  <2>4. opened[e] # None
    <3>1. createChannel(a, p, 0) # None
      <4>1. 0 \in Int64
        BY MaxInt64Assumption DEF Int64, MIN_INT64
      <4> QED BY <1>2, <4>1, CreateType
    <3> QED BY <2>3, <3>1 DEF Opened, TypeOK
  <2> HIDE DEF opened
  <2>5. debit.chn \in Channel
    BY <2>2, <2>9, UpdateChannel
  <2> HIDE DEF debit
  <2>6. debited[e] # None
    BY <1>2, <2>2, <2>4, <2>5
  <2>7. updateChannelBal(debited[d], a, p, y).chn \in Channel
    <3> HIDE DEF debited
    <3> QED BY <2>2, <2>9, UpdateChannel
  <2>8. DOMAIN debited = Chan
    BY <2>2
  <2> HIDE DEF debited
  <2> QED BY <1>2, <2>2, <2>4, <2>6, <2>7, <2>8
<1>9. ASSUME NEW c \in Chan, NEW buyer \in Addr, NEW seller \in Addr, NEW p \in Prop,
             NEW forsale \in WireAmount, NEW price \in 1 .. MaxLTC,
             NEW nvalue \in 1 .. MaxLTC,
             HandleLtcInstantTrade(c, buyer, seller, p, forsale, price, nvalue)
      PROVE  channels_Map'[e] # None
  <2> DEFINE paid      == IF nvalue > price THEN price ELSE nvalue
             purchased == DivideAndRoundUp(paid * forsale, price)
             chn       == WithBuyer(channels_Map[c], buyer)
             sold      == updateChannelBal(chn, seller, p, -purchased).chn
  <2>1. chn \in Channel
    BY <1>9, Types, BuyerType DEF HandleLtcInstantTrade
  <2>2. -purchased \in Int /\ seller \in Party
    <3>1. paid * forsale \in Nat /\ price \in Nat \ {0}
      BY <1>4
    <3> HIDE DEF paid
    <3>2. purchased \in Nat
      BY <3>1, RoundType
    <3> HIDE DEF purchased
    <3> QED BY <3>2 DEF Party
  <2>3. channels_Map' \in {[channels_Map EXCEPT ![c] = chn], [channels_Map EXCEPT ![c] = sold]}
        /\ withdrawal_Map' = withdrawal_Map
    BY <1>9 DEF HandleLtcInstantTrade
  <2> HIDE DEF chn, purchased
  <2>4. sold \in Channel
    BY <2>1, <2>2, UpdateChannel
  <2> HIDE DEF sold
  <2> QED BY <1>2, <1>3, <2>1, <2>3, <2>4 DEF TypeOK
<1>10. ASSUME NEW a \in Addr, NEW c \in Chan, closeChannel(a, c)
       PROVE  channels_Map'[e] # None
  <2>1. e # c
    BY <1>10 DEF closeChannel, TypeOK
  <2> QED BY <1>3, <1>10, <2>1 DEF closeChannel, TypeOK
<1>11. CASE block_begin
  <2>1. withdrawal_Map[e] # <<>>
    <3>1. CASE withdrawal_Map[e] = <<>>
      <4>1. DOMAIN withdrawal_Map'[e] = DOMAIN withdrawal_Map[e]
        BY <1>11 DEF block_begin
      <4>2. withdrawal_Map'[e] \in Seq(Withdrawal) /\ withdrawal_Map[e] \in Seq(Withdrawal)
        BY <1>1 DEF TypeOK
      <4>3. Len(withdrawal_Map'[e]) = 0
        <5>1. Len(withdrawal_Map'[e]) \in Nat
              /\ DOMAIN withdrawal_Map'[e] = 1 .. Len(withdrawal_Map'[e])
          BY <4>2
        <5>2. 1 \notin DOMAIN withdrawal_Map'[e]
          BY <3>1, <4>1
        <5> QED BY <5>1, <5>2
      <4> QED BY <4>2, <4>3, EmptySeq
    <3> QED BY <3>1
  <2> QED BY <1>3, <1>11, <2>1 DEF block_begin
<1>12. ASSUME NEW c \in Chan, makeWithdrawal(c) PROVE channels_Map'[e] # None
  <2>1. PICK i \in Due(c) :
          /\ withdrawal_Map' = [withdrawal_Map EXCEPT ![c] = Without(@, i)]
          /\ channels_Map' = [channels_Map EXCEPT ![c] =
               updateChannelBal(channels_Map[c], withdrawal_Map[c][i].address,
                 withdrawal_Map[c][i].prop,
                 Neg64(ToInt64(withdrawal_Map[c][i].amount))).chn]
    BY <1>12 DEF makeWithdrawal
  <2> DEFINE w == withdrawal_Map[c][i]
             x == Neg64(ToInt64(w.amount))
  <2>2. channels_Map[c] \in Channel
    BY Types DEF Due
  <2>3. w \in Withdrawal
    BY Types DEF Due
  <2>4. w.address \in Party /\ w.prop \in Prop /\ x \in Int
    BY <2>3, Conversions DEF Withdrawal, Party
  <2> HIDE DEF w, x
  <2>5. updateChannelBal(channels_Map[c], w.address, w.prop, x).chn \in Channel
    BY <2>2, <2>4, UpdateChannel
  <2>6. e # c => withdrawal_Map'[e] = withdrawal_Map[e]
    BY <2>1 DEF TypeOK
  <2> QED BY <1>2, <1>3, <2>1, <2>5, <2>6 DEF TypeOK, w, x
<1>13. CASE withdrawalsDone
  BY <1>3, <1>13 DEF withdrawalsDone
<1>14. CASE UNCHANGED vars
  BY <1>3, <1>14 DEF vars
<1> QED BY <1>5, <1>6, <1>7, <1>8, <1>9, <1>10, <1>11, <1>12, <1>13, <1>14 DEF Next

\* A withdrawal never outlives its channel: closing is refused while one
\* waits, and nothing else removes a channel.
THEOREM WithdrawalsKeepChannel == Spec => []WithdrawalsHaveChannel
<1>1. Init => WithdrawalsHaveChannel
  BY DEF Init, WithdrawalsHaveChannel, isChannelWithdraw
<1> QED BY <1>1, InitType, StepType, StepWaiting, PTL DEF Spec

-----------------------------------------------------------------------------
(* What all owners together have *)

\* Channels in which no balance is negative.
Filled == [first : Party, second : Party,
           balances : [Party \X Prop -> 0 .. MAX_INT64]]

\* The tokens of a property outside the fees cache.
NoFees == [q \in Prop |-> 0]
Owned(t, chns, p) == Supply(t, chns, NoFees, p)

\* What a channel, which need not exist, holds for an address.
InChannel(chn, a, p) == IF chn = None THEN 0 ELSE chn.balances[<<a, p>>]

\* The holders: an address outside the channels, and one in a channel.
BalOf(a)    == <<"BALANCE", a>>
Share(c, a) == <<"channel", <<c, a>>>>
FeesCache   == <<"fees", "native">>

ChannelMaps == [Chan -> Filled \cup {None}]

\* The types as long as no transaction has named more than MAX_INT64 tokens.
PlainOK == TypeOK /\ channels_Map \in ChannelMaps

\* A channel without negative balances is a channel.
LEMMA FilledIsChannel ==
  /\ \A chn \in Filled : chn \in Channel
  /\ None \notin Filled
<1>1. \A n \in 0 .. MAX_INT64 : n \in Int64
  BY MaxInt64Assumption DEF Int64, MIN_INT64
<1>2. ASSUME NEW chn \in Filled PROVE chn \in Channel
  <2>1. chn.balances \in [Party \X Prop -> Int64]
    BY <1>1 DEF Filled
  <2> QED BY <2>1 DEF Filled, Channel
<1> QED BY <1>2, ChannelsAssumption

\* One that holds nothing below zero is such a channel.
LEMMA ChannelIsFilled ==
  ASSUME NEW chn \in Channel, \A x \in Party \X Prop : chn.balances[x] >= 0
  PROVE  chn \in Filled
<1>1. \A x \in Party \X Prop : chn.balances[x] \in 0 .. MAX_INT64
  BY MaxInt64Assumption DEF Channel, Int64, MIN_INT64
<1>2. chn.balances \in [Party \X Prop -> 0 .. MAX_INT64]
  BY <1>1 DEF Channel
<1> QED BY <1>2 DEF Filled, Channel

\* updateChannelBal keeps it one.
LEMMA UpdateFilled ==
  ASSUME NEW chn \in Filled, NEW a \in Party, NEW p \in Prop, NEW n \in Int
  PROVE  LET r == updateChannelBal(chn, a, p, n)
         IN  /\ r.chn \in Filled
             /\ r.ok => /\ n # 0 /\ chn.balances[<<a, p>>] + n >= 0
                        /\ r.chn.balances[<<a, p>>] = chn.balances[<<a, p>>] + n
             /\ ~r.ok => r.chn = chn
<1> DEFINE r == updateChannelBal(chn, a, p, n)
<1>1. /\ r.chn \in Channel
      /\ \A x \in Party \X Prop : x # <<a, p>> => r.chn.balances[x] = chn.balances[x]
      /\ r.ok => /\ n # 0 /\ chn.balances[<<a, p>>] + n >= 0
                 /\ r.chn.balances[<<a, p>>] = chn.balances[<<a, p>>] + n
      /\ ~r.ok => r.chn = chn
  BY FilledIsChannel, UpdateChannel
<1> HIDE DEF r
<1>2. \A x \in Party \X Prop : chn.balances[x] >= 0
  BY MaxInt64Assumption DEF Filled
<1>3. \A x \in Party \X Prop : r.chn.balances[x] >= 0
  BY <1>1, <1>2
<1>4. r.chn \in Filled
  BY <1>1, <1>3, ChannelIsFilled
<1> QED BY <1>1, <1>4 DEF r

\* So does a buyer who takes the open place.
LEMMA BuyerFilled ==
  ASSUME NEW chn \in Filled, NEW b \in Addr
  PROVE  WithBuyer(chn, b) \in Filled
BY DEF WithBuyer, Filled, Party

\* A channel is created one.
LEMMA CreateFilled ==
  ASSUME NEW a \in Party, NEW p \in Prop, NEW n \in 0 .. MAX_INT64
  PROVE  createChannel(a, p, n) \in Filled
<1>1. 0 \in 0 .. MAX_INT64
  BY MaxInt64Assumption
<1> QED BY <1>1 DEF createChannel, Filled, Party

\* Committing keeps it one.
LEMMA CommitFilled ==
  ASSUME NEW chn \in Filled \cup {None}, NEW a \in Addr, NEW p \in Prop,
         NEW n \in 0 .. MAX_INT64
  PROVE  channelSanityChecks(chn, a, p, n) \in Filled
<1>1. CASE chn = None
  BY <1>1, CreateFilled DEF channelSanityChecks, Party
<1>2. CASE chn # None
  <2> DEFINE c2 == IF chn.second = CHANNEL_PENDING /\ chn.first # a
                     THEN [chn EXCEPT !.second = a] ELSE chn
  <2>1. c2 \in Filled
    BY <1>2 DEF Filled, Party
  <2>2. updateChannelBal(c2, a, p, n).chn \in Filled
    <3> HIDE DEF c2
    <3>1. a \in Party /\ n \in Int
      BY MaxInt64Assumption DEF Party
    <3> QED BY <2>1, <3>1, UpdateFilled
  <2> QED BY <1>2, <2>2 DEF channelSanityChecks, tryAddSecond
<1> QED BY <1>1, <1>2

\* The parts of the state have these types.
LEMMA PlainTypes ==
  ASSUME PlainOK
  PROVE  /\ \A c \in Chan : checkChannelAddress(c) => channels_Map[c] \in Filled
         /\ \A c \in Chan : withdrawal_Map[c] \in Seq(Withdrawal)
         /\ tally \in [Account -> Nat]
BY DEF PlainOK, TypeOK, ChannelMaps, checkChannelAddress

\* The channel that a transaction names is sound.
LEMMA PlainSound ==
  ASSUME PlainOK, PartiesInv, oversized = 0, NEW c \in Chan, checkChannelAddress(c)
  PROVE  channels_Map[c] \in Filled /\ Sound(channels_Map[c], TRUE)
<1>1. Sound(channels_Map[c], oversized = 0)
  BY DEF PartiesInv, checkChannelAddress
<1> QED BY <1>1, PlainTypes DEF Sound

\* Sound channels hold nothing below zero.
LEMMA SoundIsPlain ==
  ASSUME TypeOK, PartiesInv, oversized = 0
  PROVE  PlainOK
<1>1. ASSUME NEW c \in Chan PROVE channels_Map[c] \in Filled \cup {None}
  <2>1. CASE channels_Map[c] # None
    <3>1. channels_Map[c] \in Channel /\ Sound(channels_Map[c], oversized = 0)
      BY <2>1 DEF TypeOK, PartiesInv
    <3>2. \A x \in Party \X Prop : channels_Map[c].balances[x] >= 0
      BY <3>1 DEF Sound
    <3> QED BY <3>1, <3>2, ChannelIsFilled
  <2> QED BY <2>1
<1> QED BY <1>1 DEF PlainOK, TypeOK, ChannelMaps

\* There are finitely many holders, and no two are confused.
LEMMA HolderFacts ==
  /\ IsFiniteSet(Holder)
  /\ \A a \in Addr : BalOf(a) \in Holder /\ BalOf(a) # FeesCache
  /\ \A c \in Chan, a \in Party : Share(c, a) \in Holder /\ Share(c, a) # FeesCache
  /\ FeesCache \in Holder
  /\ \A a \in Addr, c \in Chan, b \in Party : BalOf(a) # Share(c, b)
  /\ \A x \in Holder : \/ \E a \in Addr : x = BalOf(a)
                       \/ \E c \in Chan, a \in Party : x = Share(c, a)
                       \/ x = FeesCache
<1>1. IsFiniteSet(Addr) /\ IsFiniteSet(Chan) /\ IsFiniteSet(Party)
  <2>1. IsFiniteSet({CHANNEL_PENDING})
    BY FS_Singleton
  <2> QED BY <2>1, ChannelsAssumption, FS_Union DEF Party
<1>2. IsFiniteSet({"BALANCE"} \X Addr)
  BY <1>1, FS_Singleton, FS_Product
<1>3. IsFiniteSet({"channel"} \X (Chan \X Party))
  <2>1. IsFiniteSet(Chan \X Party)
    BY <1>1, FS_Product
  <2> QED BY <2>1, FS_Singleton, FS_Product
<1>4. IsFiniteSet({<<"fees", "native">>})
  BY FS_Singleton
<1>5. IsFiniteSet(Holder)
  <2>1. IsFiniteSet(({"BALANCE"} \X Addr) \cup ({"channel"} \X (Chan \X Party)))
    BY <1>2, <1>3, FS_Union
  <2> QED BY <2>1, <1>4, FS_Union DEF Holder
<1>6. \A a \in Addr : BalOf(a) \in Holder /\ BalOf(a) # FeesCache
  BY DEF BalOf, FeesCache, Holder
<1>7. \A c \in Chan, a \in Party : Share(c, a) \in Holder /\ Share(c, a) # FeesCache
  BY DEF Share, FeesCache, Holder
<1>8. FeesCache \in Holder
  BY DEF FeesCache, Holder
<1>9. \A a \in Addr, c \in Chan, b \in Party : BalOf(a) # Share(c, b)
  BY DEF BalOf, Share
<1>10. ASSUME NEW x \in Holder
       PROVE  \/ \E a \in Addr : x = BalOf(a)
              \/ \E c \in Chan, a \in Party : x = Share(c, a)
              \/ x = FeesCache
  BY DEF Holder, BalOf, Share, FeesCache
<1> QED BY <1>5, <1>6, <1>7, <1>8, <1>9, <1>10

\* What each holder has.
LEMMA HoldingsAre ==
  ASSUME NEW t \in [Account -> Nat], NEW chns \in ChannelMaps,
         NEW fees \in [Prop -> Nat], NEW p \in Prop
  PROVE  /\ Holdings(t, chns, fees, p) \in [Holder -> Nat]
         /\ \A a \in Addr : Holdings(t, chns, fees, p)[BalOf(a)] = t[Bal(a, p)]
         /\ \A c \in Chan, a \in Party :
              Holdings(t, chns, fees, p)[Share(c, a)] = InChannel(chns[c], a, p)
         /\ Holdings(t, chns, fees, p)[FeesCache] = fees[p]
<1> DEFINE H == Holdings(t, chns, fees, p)
<1>1. \A a \in Addr : H[BalOf(a)] = t[Bal(a, p)]
  BY DEF Holdings, Holder, BalOf
<1>2. \A c \in Chan, a \in Party : H[Share(c, a)] = InChannel(chns[c], a, p)
  BY DEF Holdings, Holder, Share, InChannel
<1>3. H[FeesCache] = fees[p]
  BY DEF Holdings, Holder, FeesCache
<1>4. ASSUME NEW x \in Holder PROVE H[x] \in Nat
  <2>1. ASSUME NEW a \in Addr, x = BalOf(a) PROVE H[x] \in Nat
    <3>1. Bal(a, p) \in Account
      BY DEF Bal, Account, Party
    <3> QED BY <1>1, <2>1, <3>1
  <2>2. ASSUME NEW c \in Chan, NEW a \in Party, x = Share(c, a) PROVE H[x] \in Nat
    <3>1. InChannel(chns[c], a, p) \in Nat
      BY DEF InChannel, ChannelMaps, Filled
    <3> QED BY <1>2, <2>2, <3>1
  <2> HIDE DEF H
  <2> QED BY <1>3, <2>1, <2>2, HolderFacts
<1>5. H \in [Holder -> Nat]
  BY <1>4 DEF Holdings
<1> QED BY <1>1, <1>2, <1>3, <1>5

\* The empty fees cache has its type.
LEMMA NoFeesType == NoFees \in [Prop -> Nat]
BY DEF NoFees

\* The supply is what is owned and what is in the fees cache.
LEMMA SupplyIsOwned ==
  ASSUME NEW t \in [Account -> Nat], NEW chns \in ChannelMaps,
         NEW fees \in [Prop -> Nat], NEW p \in Prop
  PROVE  /\ Supply(t, chns, fees, p) = Owned(t, chns, p) + fees[p]
         /\ Owned(t, chns, p) \in Nat /\ fees[p] \in Nat
<1> DEFINE H == Holdings(t, chns, NoFees, p)
           G == Holdings(t, chns, fees, p)
<1>1. H \in [Holder -> Nat] /\ H[FeesCache] = 0
  BY HoldingsAre, NoFeesType DEF NoFees
<1>2. G \in [Holder -> Nat] /\ G[FeesCache] = fees[p]
  BY HoldingsAre
<1>3. ASSUME NEW x \in Holder, x # FeesCache PROVE G[x] = H[x]
  BY <1>3 DEF Holdings, Holder, FeesCache
<1> HIDE DEF H, G
<1>4. G = [H EXCEPT ![FeesCache] = fees[p]]
  BY <1>1, <1>2, <1>3
<1>5. fees[p] \in Nat
  OBVIOUS
<1>6. Total(H) \in Nat /\ Total([H EXCEPT ![FeesCache] = fees[p]]) = Total(H) - H[FeesCache] + fees[p]
  BY <1>1, <1>5, HolderFacts, TotalUpdate
<1>7. Total(G) = Total(H) + fees[p]
  BY <1>1, <1>4, <1>5, <1>6
<1> QED BY <1>5, <1>6, <1>7 DEF Supply, Owned, G, H

\* Where nothing is changed, all have what they had.
LEMMA OwnedSame ==
  ASSUME NEW t \in [Account -> Nat], NEW chns \in ChannelMaps,
         NEW t2 \in [Account -> Nat], NEW chns2 \in ChannelMaps, NEW p \in Prop,
         \A a \in Addr : t2[Bal(a, p)] = t[Bal(a, p)],
         \A c \in Chan, a \in Party :
           InChannel(chns2[c], a, p) = InChannel(chns[c], a, p)
  PROVE  Owned(t2, chns2, p) = Owned(t, chns, p)
<1> DEFINE H == Holdings(t, chns, NoFees, p)
           G == Holdings(t2, chns2, NoFees, p)
<1>1. /\ H \in [Holder -> Nat]
      /\ \A a \in Addr : H[BalOf(a)] = t[Bal(a, p)]
      /\ \A c \in Chan, a \in Party : H[Share(c, a)] = InChannel(chns[c], a, p)
      /\ H[FeesCache] = NoFees[p]
  BY HoldingsAre, NoFeesType
<1>2. /\ G \in [Holder -> Nat]
      /\ \A a \in Addr : G[BalOf(a)] = t2[Bal(a, p)]
      /\ \A c \in Chan, a \in Party : G[Share(c, a)] = InChannel(chns2[c], a, p)
      /\ G[FeesCache] = NoFees[p]
  BY HoldingsAre, NoFeesType
<1> HIDE DEF H, G
<1>3. \A x \in Holder : G[x] = H[x]
  BY <1>1, <1>2, HolderFacts
<1>4. G = H
  BY <1>1, <1>2, <1>3
<1> QED BY <1>4 DEF Owned, Supply, G, H

\* A change of one balance and of one share in a channel.
LEMMA OwnedPaid ==
  ASSUME NEW t \in [Account -> Nat], NEW chns \in ChannelMaps,
         NEW t2 \in [Account -> Nat], NEW chns2 \in ChannelMaps, NEW p \in Prop,
         NEW a \in Addr, NEW c \in Chan, NEW b \in Party,
         \A e \in Addr \ {a} : t2[Bal(e, p)] = t[Bal(e, p)],
         \A d \in Chan, e \in Party : <<d, e>> # <<c, b>> =>
           InChannel(chns2[d], e, p) = InChannel(chns[d], e, p)
  PROVE  /\ t[Bal(a, p)] + InChannel(chns[c], b, p) <= Owned(t, chns, p)
         /\ Owned(t2, chns2, p)
              = Owned(t, chns, p) - t[Bal(a, p)] - InChannel(chns[c], b, p)
                  + t2[Bal(a, p)] + InChannel(chns2[c], b, p)
<1> DEFINE H == Holdings(t, chns, NoFees, p)
           G == Holdings(t2, chns2, NoFees, p)
<1>1. /\ H \in [Holder -> Nat]
      /\ \A e \in Addr : H[BalOf(e)] = t[Bal(e, p)]
      /\ \A d \in Chan, e \in Party : H[Share(d, e)] = InChannel(chns[d], e, p)
      /\ H[FeesCache] = NoFees[p]
  BY HoldingsAre, NoFeesType
<1>2. /\ G \in [Holder -> Nat]
      /\ \A e \in Addr : G[BalOf(e)] = t2[Bal(e, p)]
      /\ \A d \in Chan, e \in Party : G[Share(d, e)] = InChannel(chns2[d], e, p)
      /\ G[FeesCache] = NoFees[p]
  BY HoldingsAre, NoFeesType
<1> HIDE DEF H, G
<1>3. ASSUME NEW z \in Holder \ {BalOf(a), Share(c, b)} PROVE G[z] = H[z]
  <2>1. ASSUME NEW e \in Addr, z = BalOf(e) PROVE G[z] = H[z]
    BY <1>1, <1>2, <2>1
  <2>2. ASSUME NEW d \in Chan, NEW e \in Party, z = Share(d, e) PROVE G[z] = H[z]
    <3>1. <<d, e>> # <<c, b>>
      BY <2>2
    <3> QED BY <1>1, <1>2, <2>2, <3>1
  <2> QED BY <1>1, <1>2, <2>1, <2>2, HolderFacts
<1>4. BalOf(a) \in Holder /\ Share(c, b) \in Holder /\ BalOf(a) # Share(c, b)
      /\ IsFiniteSet(Holder)
  BY HolderFacts
<1>5. /\ H[BalOf(a)] + H[Share(c, b)] <= Total(H)
      /\ Total(G) = Total(H) - H[BalOf(a)] - H[Share(c, b)] + G[BalOf(a)] + G[Share(c, b)]
  BY <1>1, <1>2, <1>3, <1>4, TotalShift
<1>6. Owned(t, chns, p) = Total(H) /\ Owned(t2, chns2, p) = Total(G)
  BY DEF Owned, Supply, H, G
<1>7. /\ H[BalOf(a)] = t[Bal(a, p)] /\ H[Share(c, b)] = InChannel(chns[c], b, p)
      /\ G[BalOf(a)] = t2[Bal(a, p)] /\ G[Share(c, b)] = InChannel(chns2[c], b, p)
  BY <1>1, <1>2
<1> QED BY <1>5, <1>6, <1>7

\* A change of what one address has in two channels.
LEMMA OwnedPassed ==
  ASSUME NEW t \in [Account -> Nat], NEW chns \in ChannelMaps,
         NEW chns2 \in ChannelMaps, NEW p \in Prop,
         NEW c \in Chan, NEW d \in Chan, c # d, NEW b \in Party,
         \A e \in Chan, x \in Party : <<e, x>> \notin {<<c, b>>, <<d, b>>} =>
           InChannel(chns2[e], x, p) = InChannel(chns[e], x, p)
  PROVE  /\ InChannel(chns[c], b, p) + InChannel(chns[d], b, p) <= Owned(t, chns, p)
         /\ Owned(t, chns2, p)
              = Owned(t, chns, p) - InChannel(chns[c], b, p) - InChannel(chns[d], b, p)
                  + InChannel(chns2[c], b, p) + InChannel(chns2[d], b, p)
<1> DEFINE H == Holdings(t, chns, NoFees, p)
           G == Holdings(t, chns2, NoFees, p)
<1>1. /\ H \in [Holder -> Nat]
      /\ \A e \in Addr : H[BalOf(e)] = t[Bal(e, p)]
      /\ \A e \in Chan, x \in Party : H[Share(e, x)] = InChannel(chns[e], x, p)
      /\ H[FeesCache] = NoFees[p]
  BY HoldingsAre, NoFeesType
<1>2. /\ G \in [Holder -> Nat]
      /\ \A e \in Addr : G[BalOf(e)] = t[Bal(e, p)]
      /\ \A e \in Chan, x \in Party : G[Share(e, x)] = InChannel(chns2[e], x, p)
      /\ G[FeesCache] = NoFees[p]
  BY HoldingsAre, NoFeesType
<1> HIDE DEF H, G
<1>3. ASSUME NEW z \in Holder \ {Share(c, b), Share(d, b)} PROVE G[z] = H[z]
  <2>1. ASSUME NEW e \in Chan, NEW x \in Party, z = Share(e, x) PROVE G[z] = H[z]
    <3>1. <<e, x>> \notin {<<c, b>>, <<d, b>>}
      BY <2>1
    <3> QED BY <1>1, <1>2, <2>1, <3>1
  <2> QED BY <1>1, <1>2, <2>1, HolderFacts
<1>4. Share(c, b) \in Holder /\ Share(d, b) \in Holder /\ Share(c, b) # Share(d, b)
      /\ IsFiniteSet(Holder)
  BY HolderFacts DEF Share
<1>5. /\ H[Share(c, b)] + H[Share(d, b)] <= Total(H)
      /\ Total(G) = Total(H) - H[Share(c, b)] - H[Share(d, b)] + G[Share(c, b)] + G[Share(d, b)]
  BY <1>1, <1>2, <1>3, <1>4, TotalShift
<1>6. Owned(t, chns, p) = Total(H) /\ Owned(t, chns2, p) = Total(G)
  BY DEF Owned, Supply, H, G
<1>7. /\ H[Share(c, b)] = InChannel(chns[c], b, p) /\ H[Share(d, b)] = InChannel(chns[d], b, p)
      /\ G[Share(c, b)] = InChannel(chns2[c], b, p) /\ G[Share(d, b)] = InChannel(chns2[d], b, p)
  BY <1>1, <1>2
<1> QED BY <1>5, <1>6, <1>7

-----------------------------------------------------------------------------
(* What each operation does to what is owned *)

\* What is owned of a property fits into an int64, as the supply does.
OwnedFits == \A p \in Prop : Owned(tally, channels_Map, p) <= MAX_INT64

\* SupplyExplained for one property, in terms of what is owned.
OwnedExplained(p) ==
  \/ /\ Owned(tally', channels_Map', p) + native_fees'[p]
          = Owned(tally, channels_Map, p) + native_fees[p]
     /\ native_fees[p] <= native_fees'[p]
  \/ /\ Owned(tally', channels_Map', p) = Owned(tally, channels_Map, p)
     /\ UNCHANGED tally
  \/ /\ \E c \in Chan :
          /\ channels_Map[c] # None /\ channels_Map'[c] = None
          /\ Owned(tally', channels_Map', p)
               = Owned(tally, channels_Map, p) - OfOutsiders(channels_Map[c], p)
          /\ OfOutsiders(channels_Map[c], p) \in Nat
     /\ native_fees'[p] = native_fees[p]

\* A change whose result is in range is made, to the token.
LEMMA UpdateExact ==
  ASSUME NEW chn \in Filled, NEW a \in Party, NEW p \in Prop, NEW n \in Int,
         0 <= chn.balances[<<a, p>>] + n, chn.balances[<<a, p>>] + n <= MAX_INT64
  PROVE  /\ updateChannelBal(chn, a, p, n).chn.balances[<<a, p>>]
              = chn.balances[<<a, p>>] + n
         /\ updateChannelBal(chn, a, p, n).ok <=> n # 0
<1> DEFINE rem == getRemaining(chn, a, p)
           r   == updateChannelBal(chn, a, p, n)
<1>1. <<a, p>> \in Party \X Prop /\ rem \in Nat /\ rem = chn.balances[<<a, p>>]
  BY DEF Filled, getRemaining
<1>2. ~isOverflow(rem, n)
  BY <1>1, MaxInt64Assumption DEF isOverflow, MIN_INT64
<1>3. r.ok <=> n # 0
  BY <1>1, <1>2 DEF updateChannelBal
<1>4. CASE n # 0
  <2>1. r.chn = [chn EXCEPT !.balances[<<a, p>>] = rem + n]
    BY <1>3, <1>4 DEF updateChannelBal
  <2> HIDE DEF rem, r
  <2>2. r.chn.balances[<<a, p>>] = rem + n
    BY <1>1, <2>1 DEF Filled
  <2> QED BY <1>1, <1>3, <2>2 DEF r
<1>5. CASE n = 0
  <2>1. r.chn = chn
    BY <1>3, <1>5, UpdateFilled
  <2> HIDE DEF rem, r
  <2> QED BY <1>1, <1>3, <1>5, <2>1 DEF r
<1> QED BY <1>4, <1>5

\* No change of one share of a channel touches another one.
LEMMA UpdateOthers ==
  ASSUME NEW chn \in Filled, NEW a \in Party, NEW p \in Prop, NEW n \in Int
  PROVE  /\ updateChannelBal(chn, a, p, n).chn \in Filled
         /\ \A e \in Party, q \in Prop : <<e, q>> # <<a, p>> =>
              updateChannelBal(chn, a, p, n).chn.balances[<<e, q>>] = chn.balances[<<e, q>>]
<1> DEFINE rem == getRemaining(chn, a, p)
<1>1. updateChannelBal(chn, a, p, n).chn \in Filled
  BY UpdateFilled
<1>2. \/ updateChannelBal(chn, a, p, n).chn = [chn EXCEPT !.balances[<<a, p>>] = rem + n]
      \/ updateChannelBal(chn, a, p, n).chn = chn
  BY DEF updateChannelBal
<1> HIDE DEF rem
<1>3. \A e \in Party, q \in Prop : <<e, q>> # <<a, p>> =>
        updateChannelBal(chn, a, p, n).chn.balances[<<e, q>>] = chn.balances[<<e, q>>]
  BY <1>2 DEF Filled
<1> QED BY <1>1, <1>3

\* So is a change of a balance.
LEMMA TallyExact ==
  ASSUME NEW t \in [Account -> Nat], NEW a \in Addr, NEW p \in Prop, NEW n \in Int,
         0 <= t[Bal(a, p)] + n, t[Bal(a, p)] + n <= MAX_INT64
  PROVE  /\ update_tally_map(t, Bal(a, p), n).tally[Bal(a, p)] = t[Bal(a, p)] + n
         /\ \A e \in Addr, q \in Prop : <<e, q>> # <<a, p>> =>
              update_tally_map(t, Bal(a, p), n).tally[Bal(e, q)] = t[Bal(e, q)]
<1>1. Bal(a, p) \in Account /\ Bal(a, p)[3] = "BALANCE" /\ t[Bal(a, p)] \in Nat
  BY DEF Bal, Account, Party
<1>2. ~isOverflow(t[Bal(a, p)], n)
  BY <1>1, MaxInt64Assumption DEF isOverflow, MIN_INT64
<1>3. updateMoney(t[Bal(a, p)], n, "BALANCE") = t[Bal(a, p)] + n
  BY <1>1, <1>2 DEF updateMoney, updateMoneyOk
<1>4. update_tally_map(t, Bal(a, p), n).tally
        = [t EXCEPT ![Bal(a, p)] = updateMoney(t[Bal(a, p)], n, "BALANCE")]
  BY <1>1 DEF update_tally_map
<1>5. \A e \in Addr, q \in Prop : <<e, q>> # <<a, p>> =>
        Bal(e, q) # Bal(a, p) /\ Bal(e, q) \in Account
  BY DEF Bal, Account, Party
<1> QED BY <1>1, <1>3, <1>4, <1>5

\* No update of one balance touches another one.
LEMMA TallyOthers ==
  ASSUME NEW t \in [Account -> Nat], NEW a \in Addr, NEW p \in Prop, NEW n \in Int
  PROVE  \A e \in Addr, q \in Prop : <<e, q>> # <<a, p>> =>
           update_tally_map(t, Bal(a, p), n).tally[Bal(e, q)] = t[Bal(e, q)]
<1>1. \A e \in Addr, q \in Prop : <<e, q>> # <<a, p>> =>
        Bal(e, q) # Bal(a, p) /\ Bal(e, q) \in Account
  BY DEF Bal, Account, Party
<1> QED BY <1>1 DEF update_tally_map

\* The parts of the state that owners see have their types.
LEMMA OwnerTypes ==
  ASSUME PlainOK
  PROVE  /\ tally \in [Account -> Nat] /\ channels_Map \in ChannelMaps
         /\ native_fees \in [Prop -> Nat]
         /\ \A a \in Addr, p \in Prop : tally[Bal(a, p)] \in Nat
         /\ \A c \in Chan, a \in Party, p \in Prop : InChannel(channels_Map[c], a, p) \in Nat
         /\ \A p \in Prop : native_fees[p] \in Nat
<1>1. \A a \in Addr, p \in Prop : Bal(a, p) \in Account
  BY DEF Bal, Account, Party
<1>2. \A c \in Chan, a \in Party, p \in Prop : InChannel(channels_Map[c], a, p) \in Nat
  BY DEF InChannel, PlainOK, ChannelMaps, Filled
<1> QED BY <1>1, <1>2 DEF PlainOK, TypeOK, ChannelMaps

\* Committing to a channel that exists adds to it, after the address has
\* taken the second place if it can.
LEMMA CommitCases ==
  ASSUME NEW chn \in Filled \cup {None}, NEW a \in Addr, NEW p \in Prop, NEW n \in Nat
  PROVE  chn # None =>
           \E c2 \in Filled :
             /\ c2.balances = chn.balances
             /\ channelSanityChecks(chn, a, p, n) = updateChannelBal(c2, a, p, n).chn
<1>2. CASE chn # None
  <2> DEFINE c2 == IF chn.second = CHANNEL_PENDING /\ chn.first # a
                     THEN [chn EXCEPT !.second = a] ELSE chn
  <2>1. c2 \in Filled /\ c2.balances = chn.balances
    BY <1>2 DEF Filled, Party
  <2>2. channelSanityChecks(chn, a, p, n) = updateChannelBal(c2, a, p, n).chn
    BY <1>2 DEF channelSanityChecks, tryAddSecond
  <2> HIDE DEF c2
  <2> QED BY <1>2, <2>1, <2>2
<1> QED BY <1>2

\* It leaves the other shares of the channel alone.
LEMMA CommitOthers ==
  ASSUME NEW chn \in Filled \cup {None}, NEW a \in Addr, NEW p \in Prop, NEW n \in Nat,
         NEW e \in Party, NEW q \in Prop, <<e, q>> # <<a, p>>
  PROVE  channelSanityChecks(chn, a, p, n).balances[<<e, q>>] = InChannel(chn, e, q)
<1>1. a \in Party /\ n \in Int
  BY DEF Party
<1>2. CASE chn = None
  <2>1. channelSanityChecks(chn, a, p, n).balances
          = [x \in Party \X Prop |-> IF x = <<a, p>> THEN n ELSE 0]
    BY <1>2 DEF channelSanityChecks, createChannel
  <2> QED BY <1>1, <1>2, <2>1 DEF InChannel
<1>3. CASE chn # None
  <2> PICK c2 \in Filled :
        /\ c2.balances = chn.balances
        /\ channelSanityChecks(chn, a, p, n) = updateChannelBal(c2, a, p, n).chn
    BY <1>3, CommitCases
  <2>1. updateChannelBal(c2, a, p, n).chn.balances[<<e, q>>] = c2.balances[<<e, q>>]
    BY <1>1, UpdateOthers
  <2> QED BY <1>3, <2>1 DEF InChannel
<1> QED BY <1>2, <1>3

\* It credits the address with the amount.
LEMMA CommitExact ==
  ASSUME NEW chn \in Filled \cup {None}, NEW a \in Addr, NEW p \in Prop, NEW n \in Nat,
         InChannel(chn, a, p) + n <= MAX_INT64
  PROVE  channelSanityChecks(chn, a, p, n).balances[<<a, p>>] = InChannel(chn, a, p) + n
<1>1. a \in Party /\ n \in Int
  BY DEF Party
<1>2. CASE chn = None
  <2>1. channelSanityChecks(chn, a, p, n).balances
          = [x \in Party \X Prop |-> IF x = <<a, p>> THEN n ELSE 0]
    BY <1>2 DEF channelSanityChecks, createChannel
  <2> QED BY <1>1, <1>2, <2>1 DEF InChannel
<1>3. CASE chn # None
  <2> PICK c2 \in Filled :
        /\ c2.balances = chn.balances
        /\ channelSanityChecks(chn, a, p, n) = updateChannelBal(c2, a, p, n).chn
    BY <1>3, CommitCases
  <2>1. InChannel(chn, a, p) = c2.balances[<<a, p>>] /\ c2.balances[<<a, p>>] \in Nat
    BY <1>1, <1>3 DEF InChannel, Filled
  <2>2. 0 <= c2.balances[<<a, p>>] + n /\ c2.balances[<<a, p>>] + n <= MAX_INT64
    BY <2>1
  <2>3. updateChannelBal(c2, a, p, n).chn.balances[<<a, p>>] = c2.balances[<<a, p>>] + n
    BY <1>1, <2>2, UpdateExact
  <2> QED BY <1>3, <2>1, <2>3
<1> QED BY <1>2, <1>3

\* A commit moves tokens from the balance into the channel.
LEMMA CommitOwned ==
  ASSUME PlainOK, PlainOK', OwnedFits, NEW a \in Addr, NEW c \in Chan, NEW p \in Prop,
         NEW n \in UInt64, n <= MAX_INT64, CommitChannel(a, c, p, n), NEW r \in Prop
  PROVE  OwnedExplained(r)
<1>1. /\ tally \in [Account -> Nat] /\ channels_Map \in ChannelMaps
      /\ \A x \in Addr, q \in Prop : tally[Bal(x, q)] \in Nat
      /\ \A d \in Chan, x \in Party, q \in Prop : InChannel(channels_Map[d], x, q) \in Nat
      /\ \A q \in Prop : native_fees[q] \in Nat
  BY OwnerTypes
<1>2. tally' \in [Account -> Nat] /\ channels_Map' \in ChannelMaps
  BY DEF PlainOK, TypeOK
<1>3. /\ n <= tally[Bal(a, p)] /\ native_fees' = native_fees
      /\ channels_Map' = [channels_Map EXCEPT ![c] = channelSanityChecks(channels_Map[c], a, p, n)]
      /\ tally' = update_tally_map(tally, Bal(a, p), -n).tally
  <2>1. ToInt64(n) = n /\ Neg64(ToInt64(n)) = -n
    BY Conversions
  <2> QED BY <2>1 DEF CommitChannel
<1>4. /\ a \in Party /\ n \in Nat /\ n \in 0 .. MAX_INT64 /\ n \in Int /\ -n \in Int
      /\ channels_Map[c] \in Filled \cup {None}
  <2>1. n \in Nat
    BY Conversions
  <2> QED BY <2>1, MaxInt64Assumption DEF Party, PlainOK, ChannelMaps
<1>5. \A e \in Addr, q \in Prop : <<e, q>> # <<a, p>> => tally'[Bal(e, q)] = tally[Bal(e, q)]
  BY <1>1, <1>3, <1>4, TallyOthers
<1>6. channelSanityChecks(channels_Map[c], a, p, n) \in Filled /\ None \notin Filled
  BY <1>4, CommitFilled, FilledIsChannel
<1>7. \A d \in Chan, e \in Party, q \in Prop : <<d, e, q>> # <<c, a, p>> =>
        InChannel(channels_Map'[d], e, q) = InChannel(channels_Map[d], e, q)
  <2> TAKE d \in Chan, e \in Party, q \in Prop
  <2> HAVE <<d, e, q>> # <<c, a, p>>
  <2>1. CASE d # c
    BY <1>1, <1>3, <2>1 DEF ChannelMaps
  <2>2. CASE d = c
    <3>1. channels_Map'[d] = channelSanityChecks(channels_Map[c], a, p, n)
      BY <1>1, <1>3, <2>2 DEF ChannelMaps
    <3>2. <<e, q>> # <<a, p>>
      BY <2>2
    <3>3. channelSanityChecks(channels_Map[c], a, p, n).balances[<<e, q>>]
            = InChannel(channels_Map[c], e, q)
      <4> DEFINE chn == channels_Map[c]
      <4>1. chn \in Filled \cup {None}
        BY <1>4
      <4> HIDE DEF chn
      <4>2. n \in Nat
        BY <1>4
      <4>3. channelSanityChecks(chn, a, p, n).balances[<<e, q>>] = InChannel(chn, e, q)
        BY <3>2, <4>1, <4>2, CommitOthers
      <4> QED BY <4>3 DEF chn
    <3>4. channels_Map'[d] # None
      BY <1>6, <3>1
    <3>5. InChannel(channels_Map'[d], e, q) = channels_Map'[d].balances[<<e, q>>]
      BY <3>4 DEF InChannel
    <3> QED BY <2>2, <3>1, <3>3, <3>5
  <2> QED BY <2>1, <2>2
<1>8. CASE r # p
  <2>1. Owned(tally', channels_Map', r) = Owned(tally, channels_Map, r)
    BY <1>1, <1>2, <1>5, <1>7, <1>8, OwnedSame
  <2> QED BY <1>1, <1>3, <2>1 DEF OwnedExplained
<1>9. CASE r = p
  <2>1. /\ tally[Bal(a, p)] + InChannel(channels_Map[c], a, p) <= Owned(tally, channels_Map, p)
        /\ Owned(tally', channels_Map', p)
              = Owned(tally, channels_Map, p) - tally[Bal(a, p)]
                  - InChannel(channels_Map[c], a, p)
                  + tally'[Bal(a, p)] + InChannel(channels_Map'[c], a, p)
    <3>1. \A e \in Addr \ {a} : tally'[Bal(e, p)] = tally[Bal(e, p)]
      BY <1>5
    <3>2. \A d \in Chan, e \in Party : <<d, e>> # <<c, a>> =>
            InChannel(channels_Map'[d], e, p) = InChannel(channels_Map[d], e, p)
      BY <1>7
    <3> QED BY <1>1, <1>2, <1>4, <3>1, <3>2, OwnedPaid
  <2>2. Owned(tally, channels_Map, p) <= MAX_INT64 /\ Owned(tally, channels_Map, p) \in Nat
    BY <1>1, NoFeesType, SupplyIsOwned DEF OwnedFits
  <2>3. tally[Bal(a, p)] \in Nat /\ InChannel(channels_Map[c], a, p) \in Nat
    BY <1>1, <1>4
  <2>4. InChannel(channels_Map'[c], a, p) = InChannel(channels_Map[c], a, p) + n
    <3>1. channels_Map'[c] = channelSanityChecks(channels_Map[c], a, p, n)
      BY <1>1, <1>3 DEF ChannelMaps
    <3>2. InChannel(channels_Map[c], a, p) + n <= MAX_INT64
      BY <1>3, <1>4, <2>1, <2>2, <2>3, MaxInt64Assumption
    <3>3. channelSanityChecks(channels_Map[c], a, p, n).balances[<<a, p>>]
            = InChannel(channels_Map[c], a, p) + n
      BY <1>4, <3>2, CommitExact
    <3> QED BY <1>6, <3>1, <3>3 DEF InChannel
  <2>5. tally'[Bal(a, p)] = tally[Bal(a, p)] - n
    <3>1. 0 <= tally[Bal(a, p)] + (-n) /\ tally[Bal(a, p)] + (-n) <= MAX_INT64
      BY <1>3, <1>4, <2>1, <2>2, <2>3, MaxInt64Assumption
    <3>2. tally'[Bal(a, p)] = tally[Bal(a, p)] + (-n)
      BY <1>1, <1>3, <1>4, <3>1, TallyExact
    <3> QED BY <1>4, <2>3, <3>2
  <2>6. Owned(tally', channels_Map', p) = Owned(tally, channels_Map, p)
    BY <1>4, <2>1, <2>2, <2>3, <2>4, <2>5
  <2> QED BY <1>1, <1>3, <1>9, <2>6 DEF OwnedExplained
<1> QED BY <1>8, <1>9

\* A balance and a share in a channel fit into an int64 together, so that
\* the one can be paid to the other.
LEMMA Room ==
  ASSUME PlainOK, OwnedFits, NEW a \in Addr, NEW c \in Chan, NEW b \in Party, NEW p \in Prop
  PROVE  /\ tally[Bal(a, p)] + InChannel(channels_Map[c], b, p) <= MAX_INT64
         /\ tally[Bal(a, p)] \in Nat /\ InChannel(channels_Map[c], b, p) \in Nat
         /\ MAX_INT64 \in Nat
<1>1. /\ tally \in [Account -> Nat] /\ channels_Map \in ChannelMaps
      /\ tally[Bal(a, p)] \in Nat /\ InChannel(channels_Map[c], b, p) \in Nat
  BY OwnerTypes
<1>2. tally[Bal(a, p)] + InChannel(channels_Map[c], b, p) <= Owned(tally, channels_Map, p)
  BY <1>1, OwnedPaid
<1>3. Owned(tally, channels_Map, p) <= MAX_INT64 /\ Owned(tally, channels_Map, p) \in Nat
  BY <1>1, NoFeesType, SupplyIsOwned DEF OwnedFits
<1> QED BY <1>1, <1>2, <1>3, MaxInt64Assumption

\* A payment out of a share of a channel into a balance, of n tokens of which
\* m arrive.
LEMMA PaidOut ==
  ASSUME PlainOK, PlainOK', NEW a \in Addr, NEW c \in Chan, NEW b \in Party, NEW p \in Prop,
         NEW n \in Nat, NEW m \in Nat,
         \A e \in Addr \ {a} : tally'[Bal(e, p)] = tally[Bal(e, p)],
         \A d \in Chan, e \in Party : <<d, e>> # <<c, b>> =>
           InChannel(channels_Map'[d], e, p) = InChannel(channels_Map[d], e, p),
         tally'[Bal(a, p)] = tally[Bal(a, p)] + m,
         InChannel(channels_Map'[c], b, p) = InChannel(channels_Map[c], b, p) - n
  PROVE  Owned(tally', channels_Map', p) + n = Owned(tally, channels_Map, p) + m
<1>1. /\ tally \in [Account -> Nat] /\ channels_Map \in ChannelMaps
      /\ tally[Bal(a, p)] \in Nat /\ InChannel(channels_Map[c], b, p) \in Nat
  BY OwnerTypes
<1>2. tally' \in [Account -> Nat] /\ channels_Map' \in ChannelMaps
  BY DEF PlainOK, TypeOK
<1>3. Owned(tally', channels_Map', p)
        = Owned(tally, channels_Map, p) - tally[Bal(a, p)] - InChannel(channels_Map[c], b, p)
            + tally'[Bal(a, p)] + InChannel(channels_Map'[c], b, p)
  BY <1>1, <1>2, OwnedPaid
<1>4. Owned(tally, channels_Map, p) \in Nat
  BY <1>1, NoFeesType, SupplyIsOwned
<1> QED BY <1>1, <1>3, <1>4

\* Where neither balances nor shares of a property change, nor its fees.
LEMMA NothingOwnedMoves ==
  ASSUME PlainOK, PlainOK', NEW p \in Prop,
         \A e \in Addr : tally'[Bal(e, p)] = tally[Bal(e, p)],
         \A d \in Chan, e \in Party :
           InChannel(channels_Map'[d], e, p) = InChannel(channels_Map[d], e, p)
  PROVE  Owned(tally', channels_Map', p) = Owned(tally, channels_Map, p)
<1>1. tally \in [Account -> Nat] /\ channels_Map \in ChannelMaps
  BY OwnerTypes
<1>2. tally' \in [Account -> Nat] /\ channels_Map' \in ChannelMaps
  BY DEF PlainOK, TypeOK
<1> QED BY <1>1, <1>2, OwnedSame

\* A step that keeps what is owned and the fees is explained.
LEMMA MovedOnly ==
  ASSUME PlainOK, NEW p \in Prop, native_fees' = native_fees,
         Owned(tally', channels_Map', p) = Owned(tally, channels_Map, p)
  PROVE  OwnedExplained(p)
<1>1. native_fees[p] \in Nat
  BY OwnerTypes
<1> QED BY <1>1 DEF OwnedExplained

\* What the channels hold after one of them was replaced.
LEMMA OneChannel ==
  ASSUME NEW M \in ChannelMaps, NEW c \in Chan, NEW chn \in Filled
  PROVE  /\ \A a \in Party, p \in Prop :
              InChannel([M EXCEPT ![c] = chn][c], a, p) = chn.balances[<<a, p>>]
         /\ \A d \in Chan \ {c}, a \in Party, p \in Prop :
              InChannel([M EXCEPT ![c] = chn][d], a, p) = InChannel(M[d], a, p)
<1>1. chn # None
  BY FilledIsChannel
<1> QED BY <1>1 DEF InChannel, ChannelMaps

\* The channel after a trade.
Traded(chn, f, s, p, n, q, m) ==
  updateChannelBal(updateChannelBal(chn, f, p, -n).chn, s, q, -m).chn

\* The two debits of a trade in two properties.
LEMMA TradeChannel ==
  ASSUME NEW chn \in Filled, NEW f \in Party, NEW s \in Party, NEW p \in Prop,
         NEW q \in Prop, p # q, NEW n \in Nat, NEW m \in Nat,
         n <= chn.balances[<<f, p>>], m <= chn.balances[<<s, q>>],
         chn.balances[<<f, p>>] <= MAX_INT64, chn.balances[<<s, q>>] <= MAX_INT64
  PROVE  /\ Traded(chn, f, s, p, n, q, m) \in Filled
         /\ Traded(chn, f, s, p, n, q, m).balances[<<f, p>>] = chn.balances[<<f, p>>] - n
         /\ Traded(chn, f, s, p, n, q, m).balances[<<s, q>>] = chn.balances[<<s, q>>] - m
         /\ \A e \in Party, r \in Prop : <<e, r>> \notin {<<f, p>>, <<s, q>>} =>
              Traded(chn, f, s, p, n, q, m).balances[<<e, r>>] = chn.balances[<<e, r>>]
<1> DEFINE c2 == Traded(chn, f, s, p, n, q, m)
<1> DEFINE c1 == updateChannelBal(chn, f, p, -n).chn
<1>1. /\ chn.balances[<<f, p>>] \in Nat /\ chn.balances[<<s, q>>] \in Nat
      /\ MAX_INT64 \in Nat /\ -n \in Int /\ -m \in Int
  BY MaxInt64Assumption DEF Filled
<1>2. c1 \in Filled
  BY <1>1, UpdateOthers
<1>3. \A e \in Party, r \in Prop : <<e, r>> # <<f, p>> =>
        c1.balances[<<e, r>>] = chn.balances[<<e, r>>]
  BY <1>1, UpdateOthers
<1>4. c1.balances[<<f, p>>] = chn.balances[<<f, p>>] + (-n)
  <2>1. 0 <= chn.balances[<<f, p>>] + (-n) /\ chn.balances[<<f, p>>] + (-n) <= MAX_INT64
    BY <1>1
  <2> QED BY <1>1, <2>1, UpdateExact
<1>5. c2 = updateChannelBal(c1, s, q, -m).chn
  BY DEF Traded
<1> HIDE DEF c1, c2
<1>6. c1.balances[<<s, q>>] = chn.balances[<<s, q>>]
  <2>1. <<s, q>> # <<f, p>>
    OBVIOUS
  <2> QED BY <1>3, <2>1
<1>7. c2.balances[<<s, q>>] = c1.balances[<<s, q>>] + (-m)
  <2>1. 0 <= c1.balances[<<s, q>>] + (-m) /\ c1.balances[<<s, q>>] + (-m) <= MAX_INT64
    BY <1>1, <1>6
  <2> QED BY <1>1, <1>2, <1>5, <2>1, UpdateExact
<1>8. \A e \in Party, r \in Prop : <<e, r>> # <<s, q>> =>
        c2.balances[<<e, r>>] = c1.balances[<<e, r>>]
  <2>1. \A e \in Party, r \in Prop : <<e, r>> # <<s, q>> =>
          updateChannelBal(c1, s, q, -m).chn.balances[<<e, r>>] = c1.balances[<<e, r>>]
    BY <1>1, <1>2, UpdateOthers
  <2> QED BY <1>5, <2>1
<1>9. c2 \in Filled
  BY <1>1, <1>2, <1>5, UpdateOthers
<1>10. c2.balances[<<f, p>>] = c1.balances[<<f, p>>]
  <2>1. <<f, p>> # <<s, q>>
    OBVIOUS
  <2> QED BY <1>8, <2>1
<1>11. ASSUME NEW e \in Party, NEW r \in Prop, <<e, r>> \notin {<<f, p>>, <<s, q>>}
       PROVE  c2.balances[<<e, r>>] = chn.balances[<<e, r>>]
  <2>1. <<e, r>> # <<f, p>> /\ <<e, r>> # <<s, q>>
    BY <1>11
  <2> QED BY <1>3, <1>8, <2>1
<1>12. /\ c2.balances[<<f, p>>] = chn.balances[<<f, p>>] - n
       /\ c2.balances[<<s, q>>] = chn.balances[<<s, q>>] - m
  BY <1>1, <1>4, <1>6, <1>7, <1>10
<1> QED BY <1>9, <1>11, <1>12 DEF c2

\* A trade moves two amounts from the channel to the balances of the other.
LEMMA TradeOwned ==
  ASSUME PlainOK, PlainOK', OwnedFits, NEW c \in Chan, NEW f \in Addr, NEW s \in Addr,
         NEW p \in Prop, NEW q \in Prop, NEW n \in UInt64, NEW m \in UInt64,
         n <= MAX_INT64, m <= MAX_INT64,
         Instant_Trade(c, f, s, p, n, q, m), NEW r \in Prop
  PROVE  OwnedExplained(r)
<1> DEFINE chn == channels_Map[c]
           c2  == Traded(chn, f, s, p, n, q, m)
           t1  == update_tally_map(tally, Bal(f, q), m).tally
<1>0. /\ n \in Nat /\ ToInt64(n) = n /\ Neg64(ToInt64(n)) = -n
      /\ m \in Nat /\ ToInt64(m) = m /\ Neg64(ToInt64(m)) = -m
  BY Conversions
<1>1. f \in Party /\ s \in Party /\ n \in Int /\ m \in Int
  BY <1>0 DEF Party
<1>2. tally \in [Account -> Nat] /\ channels_Map \in ChannelMaps
  BY OwnerTypes
<1>3. chn \in Filled /\ None \notin Filled
  BY PlainTypes, FilledIsChannel DEF Instant_Trade
<1>4. \A e \in Party, x \in Prop : InChannel(channels_Map[c], e, x) = chn.balances[<<e, x>>]
  BY <1>3 DEF InChannel
<1>5. /\ p # q /\ n <= chn.balances[<<f, p>>] /\ m <= chn.balances[<<s, q>>]
      /\ channels_Map' = [channels_Map EXCEPT ![c] = c2]
      /\ tally' = update_tally_map(t1, Bal(s, p), n).tally
      /\ native_fees' = native_fees
  BY <1>0 DEF Instant_Trade, getRemaining, Traded
<1>6. /\ tally[Bal(s, p)] + chn.balances[<<f, p>>] <= MAX_INT64
      /\ tally[Bal(s, p)] \in Nat /\ chn.balances[<<f, p>>] \in Nat /\ MAX_INT64 \in Nat
  <2>1. /\ tally[Bal(s, p)] + InChannel(channels_Map[c], f, p) <= MAX_INT64
        /\ tally[Bal(s, p)] \in Nat /\ InChannel(channels_Map[c], f, p) \in Nat
        /\ MAX_INT64 \in Nat
    BY <1>1, Room
  <2> QED BY <1>1, <1>4, <2>1
<1>7. /\ tally[Bal(f, q)] + chn.balances[<<s, q>>] <= MAX_INT64
      /\ tally[Bal(f, q)] \in Nat /\ chn.balances[<<s, q>>] \in Nat
  <2>1. /\ tally[Bal(f, q)] + InChannel(channels_Map[c], s, q) <= MAX_INT64
        /\ tally[Bal(f, q)] \in Nat /\ InChannel(channels_Map[c], s, q) \in Nat
        /\ MAX_INT64 \in Nat
    BY <1>1, Room
  <2> QED BY <1>1, <1>4, <2>1
<1> HIDE DEF chn
<1>8. /\ c2 \in Filled
      /\ c2.balances[<<f, p>>] = chn.balances[<<f, p>>] - n
      /\ c2.balances[<<s, q>>] = chn.balances[<<s, q>>] - m
      /\ \A e \in Party, x \in Prop : <<e, x>> \notin {<<f, p>>, <<s, q>>} =>
           c2.balances[<<e, x>>] = chn.balances[<<e, x>>]
  <2>1. chn.balances[<<f, p>>] <= MAX_INT64 /\ chn.balances[<<s, q>>] <= MAX_INT64
    BY <1>6, <1>7
  <2> QED BY <1>0, <1>1, <1>3, <1>5, <2>1, TradeChannel
<1> HIDE DEF c2
<1>9. t1 \in [Account -> Nat]
  BY <1>1, <1>2, TallyType1
<1>10. \A e \in Addr, x \in Prop : <<e, x>> # <<f, q>> => t1[Bal(e, x)] = tally[Bal(e, x)]
  BY <1>1, <1>2, TallyOthers
<1>11. t1[Bal(f, q)] = tally[Bal(f, q)] + m
  <2>1. 0 <= tally[Bal(f, q)] + m /\ tally[Bal(f, q)] + m <= MAX_INT64
    BY <1>0, <1>5, <1>6, <1>7
  <2> QED BY <1>1, <1>2, <2>1, TallyExact
<1> HIDE DEF t1
<1>12. t1[Bal(s, p)] = tally[Bal(s, p)]
  <2>1. <<s, p>> # <<f, q>>
    BY <1>5
  <2> QED BY <1>10, <2>1
<1>13. tally'[Bal(s, p)] = tally[Bal(s, p)] + n
  <2>1. 0 <= t1[Bal(s, p)] + n /\ t1[Bal(s, p)] + n <= MAX_INT64
    BY <1>0, <1>5, <1>6, <1>12
  <2>2. update_tally_map(t1, Bal(s, p), n).tally[Bal(s, p)] = t1[Bal(s, p)] + n
    BY <1>1, <1>9, <2>1, TallyExact
  <2> QED BY <1>5, <1>12, <2>2
<1>14. \A e \in Addr, x \in Prop : <<e, x>> # <<s, p>> => tally'[Bal(e, x)] = t1[Bal(e, x)]
  <2>1. \A e \in Addr, x \in Prop : <<e, x>> # <<s, p>> =>
          update_tally_map(t1, Bal(s, p), n).tally[Bal(e, x)] = t1[Bal(e, x)]
    BY <1>1, <1>9, TallyOthers
  <2> QED BY <1>5, <2>1
<1>15. tally'[Bal(f, q)] = tally[Bal(f, q)] + m
  <2>1. <<f, q>> # <<s, p>>
    BY <1>5
  <2> QED BY <1>11, <1>14, <2>1
<1>16. \A e \in Party, x \in Prop : InChannel(channels_Map'[c], e, x) = c2.balances[<<e, x>>]
  <2>1. \A e \in Party, x \in Prop :
          InChannel([channels_Map EXCEPT ![c] = c2][c], e, x) = c2.balances[<<e, x>>]
    <3>1. channels_Map \in ChannelMaps /\ c \in Chan /\ c2 \in Filled
      BY <1>2, <1>8
    <3> QED BY ONLY <3>1, OneChannel
  <2> QED BY <1>5, <2>1
<1>17. \A d \in Chan \ {c}, e \in Party, x \in Prop :
         InChannel(channels_Map'[d], e, x) = InChannel(channels_Map[d], e, x)
  BY <1>2, <1>5, <1>8, OneChannel
<1>18. Owned(tally', channels_Map', r) = Owned(tally, channels_Map, r)
  <2>1. CASE r \notin {p, q}
    <3>1. \A e \in Addr : tally'[Bal(e, r)] = tally[Bal(e, r)]
      <4> TAKE e \in Addr
      <4>1. <<e, r>> # <<s, p>> /\ <<e, r>> # <<f, q>>
        BY <2>1
      <4> QED BY <1>10, <1>14, <4>1
    <3>2. \A d \in Chan, e \in Party :
            InChannel(channels_Map'[d], e, r) = InChannel(channels_Map[d], e, r)
      <4> TAKE d \in Chan, e \in Party
      <4>1. <<e, r>> \notin {<<f, p>>, <<s, q>>}
        BY <2>1
      <4>2. CASE d = c
        <5>1. c2.balances[<<e, r>>] = chn.balances[<<e, r>>]
          BY <1>8, <4>1
        <5>2. InChannel(channels_Map'[c], e, r) = c2.balances[<<e, r>>]
          BY <1>16
        <5>3. InChannel(channels_Map[c], e, r) = chn.balances[<<e, r>>]
          BY <1>4
        <5> QED BY <4>2, <5>1, <5>2, <5>3
      <4> QED BY <1>17, <4>2
    <3> QED BY <3>1, <3>2, NothingOwnedMoves
  <2>2. CASE r = p
    <3>1. \A e \in Addr \ {s} : tally'[Bal(e, p)] = tally[Bal(e, p)]
      <4> TAKE e \in Addr \ {s}
      <4>1. <<e, p>> # <<s, p>> /\ <<e, p>> # <<f, q>>
        BY <1>5
      <4> QED BY <1>10, <1>14, <4>1
    <3>2. \A d \in Chan, e \in Party : <<d, e>> # <<c, f>> =>
            InChannel(channels_Map'[d], e, p) = InChannel(channels_Map[d], e, p)
      <4> TAKE d \in Chan, e \in Party
      <4> HAVE <<d, e>> # <<c, f>>
      <4>1. CASE d = c
        <5>1. <<e, p>> \notin {<<f, p>>, <<s, q>>}
          BY <1>5, <4>1
        <5>2. c2.balances[<<e, p>>] = chn.balances[<<e, p>>]
          BY <1>8, <5>1
        <5>3. InChannel(channels_Map'[c], e, p) = c2.balances[<<e, p>>]
          BY <1>16
        <5>4. InChannel(channels_Map[c], e, p) = chn.balances[<<e, p>>]
          BY <1>4
        <5> QED BY <4>1, <5>2, <5>3, <5>4
      <4> QED BY <1>17, <4>1
    <3>3. InChannel(channels_Map'[c], f, p) = InChannel(channels_Map[c], f, p) - n
      BY <1>1, <1>4, <1>8, <1>16
    <3>4. Owned(tally', channels_Map', p) + n = Owned(tally, channels_Map, p) + n
      BY <1>0, <1>1, <1>13, <3>1, <3>2, <3>3, PaidOut
    <3>5. Owned(tally, channels_Map, p) \in Nat /\ Owned(tally', channels_Map', p) \in Nat
      <4>1. tally' \in [Account -> Nat] /\ channels_Map' \in ChannelMaps
        BY DEF PlainOK, TypeOK
      <4> QED BY <1>2, <4>1, NoFeesType, SupplyIsOwned
    <3> QED BY <1>0, <2>2, <3>4, <3>5
  <2>3. CASE r = q
    <3>1. \A e \in Addr \ {f} : tally'[Bal(e, q)] = tally[Bal(e, q)]
      <4> TAKE e \in Addr \ {f}
      <4>1. <<e, q>> # <<s, p>> /\ <<e, q>> # <<f, q>>
        BY <1>5
      <4> QED BY <1>10, <1>14, <4>1
    <3>2. \A d \in Chan, e \in Party : <<d, e>> # <<c, s>> =>
            InChannel(channels_Map'[d], e, q) = InChannel(channels_Map[d], e, q)
      <4> TAKE d \in Chan, e \in Party
      <4> HAVE <<d, e>> # <<c, s>>
      <4>1. CASE d = c
        <5>1. <<e, q>> \notin {<<f, p>>, <<s, q>>}
          BY <1>5, <4>1
        <5>2. c2.balances[<<e, q>>] = chn.balances[<<e, q>>]
          BY <1>8, <5>1
        <5>3. InChannel(channels_Map'[c], e, q) = c2.balances[<<e, q>>]
          BY <1>16
        <5>4. InChannel(channels_Map[c], e, q) = chn.balances[<<e, q>>]
          BY <1>4
        <5> QED BY <4>1, <5>2, <5>3, <5>4
      <4> QED BY <1>17, <4>1
    <3>3. InChannel(channels_Map'[c], s, q) = InChannel(channels_Map[c], s, q) - m
      BY <1>1, <1>4, <1>8, <1>16
    <3>4. Owned(tally', channels_Map', q) + m = Owned(tally, channels_Map, q) + m
      BY <1>0, <1>1, <1>15, <3>1, <3>2, <3>3, PaidOut
    <3>5. Owned(tally, channels_Map, q) \in Nat /\ Owned(tally', channels_Map', q) \in Nat
      <4>1. tally' \in [Account -> Nat] /\ channels_Map' \in ChannelMaps
        BY DEF PlainOK, TypeOK
      <4> QED BY <1>2, <4>1, NoFeesType, SupplyIsOwned
    <3> QED BY <1>0, <2>3, <3>4, <3>5
  <2> QED BY <2>1, <2>2, <2>3
<1> QED BY <1>5, <1>18, MovedOnly

\* A share is part of what is owned.
LEMMA ShareFits ==
  ASSUME NEW t \in [Account -> Nat], NEW chns \in ChannelMaps, NEW p \in Prop,
         Owned(t, chns, p) <= MAX_INT64, NEW c \in Chan, NEW b \in Party
  PROVE  InChannel(chns[c], b, p) \in Nat /\ InChannel(chns[c], b, p) <= MAX_INT64
<1> DEFINE H == Holdings(t, chns, NoFees, p)
<1>1. H \in [Holder -> Nat] /\ H[Share(c, b)] = InChannel(chns[c], b, p)
  BY HoldingsAre, NoFeesType
<1>2. Share(c, b) \in Holder /\ IsFiniteSet(Holder)
  BY HolderFacts
<1>3. Total(H) = Owned(t, chns, p)
  BY DEF Owned, Supply
<1> HIDE DEF H
<1>4. H[Share(c, b)] \in Nat
  BY <1>1, <1>2
<1>5. H[Share(c, b)] <= Total(H) /\ Total(H) \in Nat
  BY <1>1, <1>2, <1>4, TotalUpdate
<1> QED BY <1>1, <1>3, <1>4, <1>5, MaxInt64Assumption

\* Two shares of one address fit into an int64 together.
LEMMA RoomInChannels ==
  ASSUME NEW t \in [Account -> Nat], NEW chns \in ChannelMaps, NEW p \in Prop,
         Owned(t, chns, p) <= MAX_INT64,
         NEW c \in Chan, NEW d \in Chan, c # d, NEW b \in Party
  PROVE  InChannel(chns[c], b, p) + InChannel(chns[d], b, p) <= MAX_INT64
<1>1. InChannel(chns[c], b, p) + InChannel(chns[d], b, p) <= Owned(t, chns, p)
  BY OwnedPassed
<1>2. Owned(t, chns, p) \in Nat
  BY NoFeesType, SupplyIsOwned
<1>3. InChannel(chns[c], b, p) \in Nat /\ InChannel(chns[d], b, p) \in Nat
  BY DEF InChannel, ChannelMaps, Filled
<1> QED BY <1>1, <1>2, <1>3, MaxInt64Assumption

\* A new channel for nothing holds what no channel holds.
LEMMA OpenedHolds ==
  ASSUME PlainOK, NEW d \in Chan, NEW a \in Party, NEW p \in Prop
  PROVE  \A e \in Chan, x \in Party, q \in Prop :
           InChannel(Opened(d, a, p)[e], x, q) = InChannel(channels_Map[e], x, q)
<1>1. CASE checkChannelAddress(d)
  BY <1>1 DEF Opened
<1>2. CASE ~checkChannelAddress(d)
  <2>1. channels_Map[d] = None
    BY <1>2 DEF checkChannelAddress
  <2>2. \A x \in Party, q \in Prop : InChannel(createChannel(a, p, 0), x, q) = 0
    BY DEF createChannel, InChannel
  <2>3. \A x \in Party, q \in Prop : InChannel(channels_Map[d], x, q) = 0
    BY <2>1 DEF InChannel
  <2>4. Opened(d, a, p) = [channels_Map EXCEPT ![d] = createChannel(a, p, 0)]
    BY <1>2 DEF Opened
  <2> QED BY <2>2, <2>3, <2>4 DEF PlainOK, TypeOK
<1> QED BY <1>1, <1>2

\* The channels stay filled on the way of a transfer.
LEMMA OpenedFilled ==
  ASSUME PlainOK, NEW c \in Chan, checkChannelAddress(c), NEW d \in Chan,
         NEW a \in Party, NEW p \in Prop
  PROVE  /\ Opened(d, a, p) \in ChannelMaps
         /\ Opened(d, a, p)[c] \in Filled /\ Opened(d, a, p)[d] \in Filled
<1>1. 0 \in 0 .. MAX_INT64
  BY MaxInt64Assumption
<1>2. createChannel(a, p, 0) \in Filled
  BY <1>1, CreateFilled
<1>3. channels_Map[c] \in Filled
  BY PlainTypes
<1> QED BY <1>2, <1>3, PlainTypes DEF Opened, PlainOK, ChannelMaps, checkChannelAddress

\* A transfer moves what one address has from a channel to a channel, possibly
\* the same.
LEMMA TransferOwned ==
  ASSUME PlainOK, PlainOK', OwnedFits, NEW c \in Chan, NEW d \in Chan,
         NEW option \in BOOLEAN, NEW p \in Prop, NEW n \in UInt64, n <= MAX_INT64,
         Transfer(c, d, option, p, n), NEW r \in Prop
  PROVE  OwnedExplained(r)
<1>0. n \in Nat /\ ToInt64(n) = n /\ Neg64(ToInt64(n)) = -n
  BY Conversions
<1>1. PICK a \in Party : TransferOutcome(c, d, a, p, -n, n)
  <2>1. \E a \in Party : TransferOutcome(c, d, a, p, Neg64(ToInt64(n)), ToInt64(n))
    BY TransferCases DEF PlainOK
  <2> QED BY <1>0, <2>1
<1> DEFINE opened  == Opened(d, a, p)
           debit   == updateChannelBal(opened[c], a, p, -n)
           debited == [opened EXCEPT ![c] = debit.chn]
           paid    == updateChannelBal(debited[d], a, p, n)
<1>2. /\ opened \in ChannelMaps
      /\ opened[c] \in Filled /\ opened[d] \in Filled
      /\ debited \in ChannelMaps
      /\ debited[d] \in Filled
      /\ channels_Map' = IF debit.ok THEN [debited EXCEPT ![d] = paid.chn] ELSE opened
  <2>1. opened \in ChannelMaps /\ opened[c] \in Filled /\ opened[d] \in Filled
    BY OpenedFilled DEF Transfer
  <2>2. channels_Map' = IF debit.ok THEN [debited EXCEPT ![d] = paid.chn] ELSE opened
    BY <1>1 DEF TransferOutcome
  <2> HIDE DEF opened
  <2>3. debit.chn \in Filled
    <3>1. -n \in Int
      BY <1>0
    <3> QED BY <2>1, <3>1, UpdateFilled
  <2> HIDE DEF debit
  <2> QED BY <2>1, <2>2, <2>3 DEF ChannelMaps
<1>3. \A e \in Chan, x \in Party, q \in Prop :
        InChannel(opened[e], x, q) = InChannel(channels_Map[e], x, q)
  BY OpenedHolds
<1>4. tally' = tally /\ native_fees' = native_fees
  BY DEF Transfer
<1>5. tally \in [Account -> Nat] /\ channels_Map \in ChannelMaps
  BY OwnerTypes
<1> HIDE DEF opened
<1>6. \A q \in Prop : Owned(tally, opened, q) = Owned(tally, channels_Map, q)
  BY <1>2, <1>3, <1>5, OwnedSame
<1>7. None \notin Filled /\ n \in Int /\ -n \in Int /\ n \in Nat
  BY <1>0, FilledIsChannel
<1>8. debit.chn \in Filled
  BY <1>2, <1>7, UpdateOthers
<1>9. \A x \in Party, q \in Prop : <<x, q>> # <<a, p>> =>
        debit.chn.balances[<<x, q>>] = opened[c].balances[<<x, q>>]
  BY <1>2, <1>7, UpdateOthers
<1>10. opened[c].balances[<<a, p>>] \in Nat /\ opened[d].balances[<<a, p>>] \in Nat
  BY <1>2 DEF Filled
<1>11. opened[c].balances[<<a, p>>] <= MAX_INT64 /\ MAX_INT64 \in Nat
       /\ Owned(tally, opened, p) <= MAX_INT64
  <2>1. Owned(tally, opened, p) <= MAX_INT64
    BY <1>6 DEF OwnedFits
  <2>2. InChannel(opened[c], a, p) <= MAX_INT64
    BY <1>2, <1>5, <2>1, ShareFits
  <2> QED BY <1>2, <1>7, <2>1, <2>2, MaxInt64Assumption DEF InChannel
<1>12. CASE ~debit.ok
  <2>1. Owned(tally', channels_Map', r) = Owned(tally, channels_Map, r)
    BY <1>2, <1>4, <1>6, <1>12
  <2> QED BY <1>4, <2>1, MovedOnly
<1>13. CASE debit.ok
  <2>1. opened[c].balances[<<a, p>>] + (-n) >= 0
    BY <1>2, <1>7, <1>13, UpdateFilled
  <2>2. debit.chn.balances[<<a, p>>] = opened[c].balances[<<a, p>>] + (-n)
    <3>1. 0 <= opened[c].balances[<<a, p>>] + (-n)
          /\ opened[c].balances[<<a, p>>] + (-n) <= MAX_INT64
      BY <1>7, <1>10, <1>11, <2>1
    <3> QED BY <1>2, <1>7, <3>1, UpdateExact
  <2> HIDE DEF debit
  <2>3. DOMAIN opened = Chan /\ debited[c] = debit.chn
        /\ \A e \in Chan \ {c} : debited[e] = opened[e]
    BY <1>2 DEF ChannelMaps
  <2> HIDE DEF debited
  <2>4. \A x \in Party, q \in Prop : <<x, q>> # <<a, p>> =>
          paid.chn.balances[<<x, q>>] = debited[d].balances[<<x, q>>]
    BY <1>2, <1>7, UpdateOthers
  <2>5. paid.chn \in Filled
    BY <1>2, <1>7, UpdateOthers
  <2>6. paid.chn.balances[<<a, p>>] = debited[d].balances[<<a, p>>] + n
    <3>1. 0 <= debited[d].balances[<<a, p>>] + n /\ debited[d].balances[<<a, p>>] + n <= MAX_INT64
      <4>1. CASE c = d
        BY <1>7, <1>10, <1>11, <2>2, <2>3, <4>1
      <4>2. CASE c # d
        <5>1. InChannel(opened[c], a, p) + InChannel(opened[d], a, p) <= MAX_INT64
          BY <1>2, <1>5, <1>11, <4>2, RoomInChannels
        <5>2. opened[c].balances[<<a, p>>] + opened[d].balances[<<a, p>>] <= MAX_INT64
          BY <1>2, <1>7, <5>1 DEF InChannel
        <5> QED BY <1>7, <1>10, <1>11, <2>1, <2>3, <4>2, <5>2
      <4> QED BY <4>1, <4>2
    <3> QED BY <1>2, <1>7, <3>1, UpdateExact
  <2> HIDE DEF paid
  <2>7. channels_Map' = [debited EXCEPT ![d] = paid.chn]
    BY <1>2, <1>13
  <2>8. \A x \in Party, q \in Prop : InChannel(channels_Map'[d], x, q) = paid.chn.balances[<<x, q>>]
    <3>1. \A x \in Party, q \in Prop :
            InChannel([debited EXCEPT ![d] = paid.chn][d], x, q) = paid.chn.balances[<<x, q>>]
      <4> DEFINE k == paid.chn
      <4>1. debited \in ChannelMaps /\ d \in Chan /\ k \in Filled
        BY <1>2, <1>7, <2>5
      <4> HIDE DEF debited, k
      <4>2. \A x \in Party, q \in Prop :
              InChannel([debited EXCEPT ![d] = k][d], x, q) = k.balances[<<x, q>>]
        BY <4>1, OneChannel
      <4> QED BY <4>2 DEF k
    <3> QED BY <2>7, <3>1
  <2>9. \A e \in Chan \ {d}, x \in Party, q \in Prop :
          InChannel(channels_Map'[e], x, q) = InChannel(debited[e], x, q)
    <3>1. \A e \in Chan \ {d}, x \in Party, q \in Prop :
            InChannel([debited EXCEPT ![d] = paid.chn][e], x, q) = InChannel(debited[e], x, q)
      BY <1>2, <2>5, OneChannel
    <3> QED BY <2>7, <3>1
  <2>10. /\ \A x \in Party, q \in Prop : InChannel(opened[c], x, q) = opened[c].balances[<<x, q>>]
         /\ \A x \in Party, q \in Prop : InChannel(opened[d], x, q) = opened[d].balances[<<x, q>>]
         /\ \A x \in Party, q \in Prop : InChannel(debited[c], x, q) = debit.chn.balances[<<x, q>>]
    BY <1>2, <1>7, <1>8, <2>3 DEF InChannel
  <2>11. \A e \in Chan, x \in Party, q \in Prop :
           <<x, q>> # <<a, p>> \/ e \notin {c, d} =>
             InChannel(channels_Map'[e], x, q) = InChannel(opened[e], x, q)
    <3> TAKE e \in Chan, x \in Party, q \in Prop
    <3> HAVE <<x, q>> # <<a, p>> \/ e \notin {c, d}
    <3>1. CASE e \notin {c, d}
      BY <2>3, <2>9, <3>1
    <3>2. CASE <<x, q>> # <<a, p>> /\ e = d
      <4>1. InChannel(channels_Map'[d], x, q) = debited[d].balances[<<x, q>>]
        BY <2>4, <2>8, <3>2
      <4>2. CASE c = d
        <5>1. debit.chn.balances[<<x, q>>] = opened[c].balances[<<x, q>>]
          BY <1>9, <3>2
        <5> QED BY <2>3, <2>10, <3>2, <4>1, <4>2, <5>1
      <4>3. CASE c # d
        BY <2>3, <2>10, <3>2, <4>1, <4>3
      <4> QED BY <4>2, <4>3
    <3>3. CASE <<x, q>> # <<a, p>> /\ e = c /\ c # d
      <4>1. debit.chn.balances[<<x, q>>] = opened[c].balances[<<x, q>>]
        BY <1>9, <3>3
      <4>2. InChannel(channels_Map'[c], x, q) = InChannel(debited[c], x, q)
        BY <2>9, <3>3
      <4> QED BY <2>10, <3>3, <4>1, <4>2
    <3> QED BY <3>1, <3>2, <3>3
  <2>12. channels_Map' \in ChannelMaps
    BY DEF PlainOK, TypeOK
  <2>13. Owned(tally, channels_Map', r) = Owned(tally, opened, r)
    <3> DEFINE after == channels_Map'
    <3>0. after \in ChannelMaps
      BY <2>12
    <3>1. CASE r # p
      <4>1. \A e \in Chan, x \in Party :
              InChannel(channels_Map'[e], x, r) = InChannel(opened[e], x, r)
        <5> TAKE e \in Chan, x \in Party
        <5>1. <<x, r>> # <<a, p>>
          BY <3>1
        <5> QED BY <2>11, <5>1
      <4>2. \A e \in Chan, x \in Party : InChannel(after[e], x, r) = InChannel(opened[e], x, r)
        BY <4>1
      <4> HIDE DEF after
      <4>3. Owned(tally, after, r) = Owned(tally, opened, r)
        BY <1>2, <1>5, <3>0, <4>2, OwnedSame
      <4> QED BY <4>3 DEF after
    <3>2. CASE r = p /\ c = d
      <4>1. InChannel(channels_Map'[c], a, p) = InChannel(opened[c], a, p)
        BY <1>7, <1>10, <2>2, <2>3, <2>6, <2>8, <2>10, <3>2
      <4>2. \A e \in Chan, x \in Party :
              InChannel(channels_Map'[e], x, p) = InChannel(opened[e], x, p)
        <5> TAKE e \in Chan, x \in Party
        <5>1. CASE e = c /\ x = a
          BY <4>1, <5>1
        <5>2. CASE e # c \/ x # a
          <6>1. <<x, p>> # <<a, p>> \/ e \notin {c, d}
            BY <3>2, <5>2
          <6> QED BY <2>11, <6>1
        <5> QED BY <5>1, <5>2
      <4>3. Owned(tally, channels_Map', p) = Owned(tally, opened, p)
        <5>1. \A e \in Chan, x \in Party : InChannel(after[e], x, p) = InChannel(opened[e], x, p)
          BY <4>2
        <5> HIDE DEF after
        <5>2. Owned(tally, after, p) = Owned(tally, opened, p)
          BY <1>2, <1>5, <3>0, <5>1, OwnedSame
        <5> QED BY <5>2 DEF after
      <4> QED BY <3>2, <4>3
    <3>3. CASE r = p /\ c # d
      <4>1. \A e \in Chan, x \in Party : <<e, x>> \notin {<<c, a>>, <<d, a>>} =>
              InChannel(channels_Map'[e], x, p) = InChannel(opened[e], x, p)
        <5> TAKE e \in Chan, x \in Party
        <5> HAVE <<e, x>> \notin {<<c, a>>, <<d, a>>}
        <5>1. <<x, p>> # <<a, p>> \/ e \notin {c, d}
          OBVIOUS
        <5> QED BY <2>11, <5>1
      <4>2. Owned(tally, channels_Map', p)
              = Owned(tally, opened, p) - InChannel(opened[c], a, p) - InChannel(opened[d], a, p)
                  + InChannel(channels_Map'[c], a, p) + InChannel(channels_Map'[d], a, p)
        <5>1. \A e \in Chan, x \in Party : <<e, x>> \notin {<<c, a>>, <<d, a>>} =>
                InChannel(after[e], x, p) = InChannel(opened[e], x, p)
          BY <4>1
        <5> HIDE DEF after
        <5>2. Owned(tally, after, p)
                = Owned(tally, opened, p) - InChannel(opened[c], a, p) - InChannel(opened[d], a, p)
                    + InChannel(after[c], a, p) + InChannel(after[d], a, p)
          BY <1>2, <1>5, <3>0, <3>3, <5>1, OwnedPassed
        <5> QED BY <5>2 DEF after
      <4>3. InChannel(channels_Map'[c], a, p) = opened[c].balances[<<a, p>>] - n
        BY <1>7, <1>10, <2>2, <2>9, <2>10, <3>3
      <4>4. InChannel(channels_Map'[d], a, p) = opened[d].balances[<<a, p>>] + n
        BY <2>3, <2>6, <2>8, <3>3
      <4>5. /\ InChannel(opened[c], a, p) = opened[c].balances[<<a, p>>]
            /\ InChannel(opened[d], a, p) = opened[d].balances[<<a, p>>]
        BY <2>10
      <4>6. Owned(tally, opened, p) \in Nat
        BY <1>2, <1>5, NoFeesType, SupplyIsOwned
      <4>7. Owned(tally, channels_Map', p) = Owned(tally, opened, p)
        BY <1>7, <1>10, <4>2, <4>3, <4>4, <4>5, <4>6
      <4> QED BY <3>3, <4>7
    <3> QED BY <3>1, <3>2, <3>3
  <2>14. Owned(tally', channels_Map', r) = Owned(tally, channels_Map, r)
    BY <1>4, <1>6, <2>13
  <2> QED BY <1>4, <2>14, MovedOnly
<1> QED BY <1>12, <1>13

\* A fee is never more than what it is taken from.
LEMMA FeeFits ==
  ASSUME NEW n \in Nat, NEW p \in Prop
  PROVE  CacheFee(n, p) \in Nat /\ CacheFee(n, p) <= n
<1> DEFINE d == 2 * BASISPOINT * BASISPOINT
<1>1. d \in Nat \ {0}
  <2>1. BASISPOINT \in Nat \ {0}
    BY ChannelsAssumption
  <2>2. BASISPOINT * BASISPOINT \in Nat \ {0}
    BY <2>1
  <2> QED BY <2>1, <2>2
<1>2. CacheFee(n, p) = IF p \in Divisible THEN DivideAndRoundUp(n, d) ELSE 0
  BY DEF CacheFee
<1> HIDE DEF d
<1>3. CASE n = 0
  BY <1>2, <1>3 DEF DivideAndRoundUp
<1>4. CASE n # 0
  <2> DEFINE k == n - 1
             q == k \div d
  <2>1. k \in Nat
    BY <1>4
  <2> HIDE DEF k
  <2>2. q \in Int /\ k = d * q + (k % d) /\ k % d \in 0 .. d - 1
    BY <1>1, <2>1
  <2>3. q \in Nat
    BY <1>1, <2>1
  <2>4. DivideAndRoundUp(n, d) = 1 + q
    BY <1>4 DEF DivideAndRoundUp, k
  <2> HIDE DEF q
  <2>5. q <= d * q
    BY <1>1, <2>3
  <2>6. q <= k
    <3> DEFINE dq == d * q
               m  == k % d
    <3>1. dq \in Nat /\ m \in Nat /\ k = dq + m /\ q <= dq
      BY <1>1, <2>2, <2>3, <2>5
    <3> HIDE DEF dq, m
    <3> QED BY <2>1, <2>3, <3>1
  <2>7. k = n - 1
    BY DEF k
  <2>8. 1 + q <= n
    BY <2>1, <2>3, <2>6, <2>7
  <2> QED BY <1>2, <2>3, <2>4, <2>8
<1> QED BY <1>3, <1>4

\* The buyer who takes the open place brings no tokens.
LEMMA BuyerBalances ==
  ASSUME NEW chn \in Filled, NEW b \in Addr
  PROVE  WithBuyer(chn, b).balances = chn.balances
BY DEF WithBuyer, Filled

\* n tokens of p are taken from the share of b in channel c, whose other place
\* may have been filled before (chn), and m of them are paid to a.
PayOut(a, c, b, p, n, m, chn) ==
  /\ checkChannelAddress(c) /\ chn.balances = channels_Map[c].balances
  /\ m <= n /\ n <= chn.balances[<<b, p>>]
  /\ channels_Map' = [channels_Map EXCEPT ![c] = updateChannelBal(chn, b, p, -n).chn]
  /\ tally' = update_tally_map(tally, Bal(a, p), m).tally

\* What such a payment changes: the one balance, the one share and nothing
\* else.
Pays(a, c, b, p, n, m) ==
  /\ tally'[Bal(a, p)] = tally[Bal(a, p)] + m
  /\ InChannel(channels_Map'[c], b, p) = InChannel(channels_Map[c], b, p) - n
  /\ \A e \in Addr, q \in Prop : <<e, q>> # <<a, p>> => tally'[Bal(e, q)] = tally[Bal(e, q)]
  /\ \A d \in Chan, e \in Party, q \in Prop : <<d, e, q>> # <<c, b, p>> =>
       InChannel(channels_Map'[d], e, q) = InChannel(channels_Map[d], e, q)

\* Neither the debit nor the credit of a payment is refused.
LEMMA PayOutPays ==
  ASSUME PlainOK, OwnedFits, NEW a \in Addr, NEW c \in Chan, NEW b \in Party,
         NEW p \in Prop, NEW n \in Nat, NEW m \in Nat, NEW chn \in Filled,
         PayOut(a, c, b, p, n, m, chn)
  PROVE  Pays(a, c, b, p, n, m)
<1> DEFINE k  == -n
           c2 == updateChannelBal(chn, b, p, k).chn
<1>1. /\ channels_Map[c] # None /\ chn.balances = channels_Map[c].balances
      /\ m <= n /\ n <= chn.balances[<<b, p>>]
      /\ channels_Map' = [channels_Map EXCEPT ![c] = c2]
      /\ tally' = update_tally_map(tally, Bal(a, p), m).tally
  BY DEF PayOut, checkChannelAddress
<1>2. \A e \in Party, q \in Prop : InChannel(channels_Map[c], e, q) = chn.balances[<<e, q>>]
  BY <1>1 DEF InChannel
<1>3. /\ tally[Bal(a, p)] + chn.balances[<<b, p>>] <= MAX_INT64
      /\ tally[Bal(a, p)] \in Nat /\ chn.balances[<<b, p>>] \in Nat /\ MAX_INT64 \in Nat
  <2>1. /\ tally[Bal(a, p)] + InChannel(channels_Map[c], b, p) <= MAX_INT64
        /\ tally[Bal(a, p)] \in Nat /\ InChannel(channels_Map[c], b, p) \in Nat
        /\ MAX_INT64 \in Nat
    BY Room
  <2> QED BY <1>2, <2>1
<1>4. tally \in [Account -> Nat] /\ channels_Map \in ChannelMaps
  BY OwnerTypes
<1>5. tally'[Bal(a, p)] = tally[Bal(a, p)] + m
  <2>1. 0 <= tally[Bal(a, p)] + m /\ tally[Bal(a, p)] + m <= MAX_INT64
    BY <1>1, <1>3
  <2>2. update_tally_map(tally, Bal(a, p), m).tally[Bal(a, p)] = tally[Bal(a, p)] + m
    BY <1>4, <2>1, TallyExact
  <2> QED BY <1>1, <2>2
<1>6. \A e \in Addr, q \in Prop : <<e, q>> # <<a, p>> => tally'[Bal(e, q)] = tally[Bal(e, q)]
  <2>1. \A e \in Addr, q \in Prop : <<e, q>> # <<a, p>> =>
          update_tally_map(tally, Bal(a, p), m).tally[Bal(e, q)] = tally[Bal(e, q)]
    BY <1>4, TallyOthers
  <2> QED BY <1>1, <2>1
<1>7. k \in Int /\ 0 <= chn.balances[<<b, p>>] + k /\ chn.balances[<<b, p>>] + k <= MAX_INT64
      /\ chn.balances[<<b, p>>] + k = chn.balances[<<b, p>>] - n
  BY <1>1, <1>3
<1> HIDE DEF k
<1>8. c2.balances[<<b, p>>] = chn.balances[<<b, p>>] - n
  BY <1>7, UpdateExact
<1>9. \A e \in Party, q \in Prop : <<e, q>> # <<b, p>> =>
        c2.balances[<<e, q>>] = chn.balances[<<e, q>>]
  BY <1>7, UpdateOthers
<1>10. c2 \in Filled
  BY <1>7, UpdateOthers
<1> HIDE DEF c2
<1>11. \A e \in Party, q \in Prop : InChannel(channels_Map'[c], e, q) = c2.balances[<<e, q>>]
  <2>1. \A e \in Party, q \in Prop :
          InChannel([channels_Map EXCEPT ![c] = c2][c], e, q) = c2.balances[<<e, q>>]
    <3>1. channels_Map \in ChannelMaps /\ c \in Chan /\ c2 \in Filled
      BY <1>4, <1>10
    <3> QED BY ONLY <3>1, OneChannel
  <2> QED BY <1>1, <2>1
<1>12. \A d \in Chan \ {c}, e \in Party, q \in Prop :
         InChannel(channels_Map'[d], e, q) = InChannel(channels_Map[d], e, q)
  <2>1. \A d \in Chan \ {c}, e \in Party, q \in Prop :
          InChannel([channels_Map EXCEPT ![c] = c2][d], e, q) = InChannel(channels_Map[d], e, q)
    BY <1>4, <1>10, OneChannel
  <2> QED BY <1>1, <2>1
<1>13. InChannel(channels_Map'[c], b, p) = InChannel(channels_Map[c], b, p) - n
  BY <1>2, <1>8, <1>11
<1>14. \A d \in Chan, e \in Party, q \in Prop : <<d, e, q>> # <<c, b, p>> =>
         InChannel(channels_Map'[d], e, q) = InChannel(channels_Map[d], e, q)
  <2> TAKE d \in Chan, e \in Party, q \in Prop
  <2> HAVE <<d, e, q>> # <<c, b, p>>
  <2>1. CASE d = c
    <3>1. <<e, q>> # <<b, p>>
      BY <2>1
    <3>2. c2.balances[<<e, q>>] = chn.balances[<<e, q>>]
      BY <1>9, <3>1
    <3> QED BY <1>2, <1>11, <2>1, <3>2
  <2> QED BY <1>12, <2>1
<1> QED BY <1>5, <1>6, <1>13, <1>14 DEF Pays

\* A payment takes n tokens of p and gives m; nothing of another property
\* moves.
LEMMA PaymentOwned ==
  ASSUME PlainOK, PlainOK', NEW a \in Addr, NEW c \in Chan, NEW b \in Party,
         NEW p \in Prop, NEW n \in Nat, NEW m \in Nat, Pays(a, c, b, p, n, m),
         NEW r \in Prop
  PROVE  IF r = p
           THEN Owned(tally', channels_Map', r) + n = Owned(tally, channels_Map, r) + m
           ELSE Owned(tally', channels_Map', r) = Owned(tally, channels_Map, r)
<1>1. /\ tally'[Bal(a, p)] = tally[Bal(a, p)] + m
      /\ InChannel(channels_Map'[c], b, p) = InChannel(channels_Map[c], b, p) - n
  BY DEF Pays
<1>2. \A e \in Addr, q \in Prop : <<e, q>> # <<a, p>> => tally'[Bal(e, q)] = tally[Bal(e, q)]
  BY DEF Pays
<1>3. \A d \in Chan, e \in Party, q \in Prop : <<d, e, q>> # <<c, b, p>> =>
        InChannel(channels_Map'[d], e, q) = InChannel(channels_Map[d], e, q)
  BY DEF Pays
<1>4. CASE r = p
  <2>1. \A e \in Addr \ {a} : tally'[Bal(e, p)] = tally[Bal(e, p)]
    BY <1>2
  <2>2. \A d \in Chan, e \in Party : <<d, e>> # <<c, b>> =>
          InChannel(channels_Map'[d], e, p) = InChannel(channels_Map[d], e, p)
    BY <1>3
  <2>3. Owned(tally', channels_Map', p) + n = Owned(tally, channels_Map, p) + m
    <3>1. /\ tally \in [Account -> Nat] /\ channels_Map \in ChannelMaps
          /\ tally[Bal(a, p)] \in Nat /\ InChannel(channels_Map[c], b, p) \in Nat
      BY OwnerTypes
    <3>2. tally' \in [Account -> Nat] /\ channels_Map' \in ChannelMaps
      BY DEF PlainOK, TypeOK
    <3>3. Owned(tally', channels_Map', p)
            = Owned(tally, channels_Map, p) - tally[Bal(a, p)]
                - InChannel(channels_Map[c], b, p)
                + tally'[Bal(a, p)] + InChannel(channels_Map'[c], b, p)
      BY <2>1, <2>2, <3>1, <3>2, OwnedPaid
    <3>4. Owned(tally, channels_Map, p) \in Nat
      BY <3>1, NoFeesType, SupplyIsOwned
    <3> QED BY <1>1, <3>1, <3>3, <3>4
  <2> QED BY <1>4, <2>3
<1>5. CASE r # p
  <2>1. \A e \in Addr : tally'[Bal(e, r)] = tally[Bal(e, r)]
    BY <1>2, <1>5
  <2>2. \A d \in Chan, e \in Party :
          InChannel(channels_Map'[d], e, r) = InChannel(channels_Map[d], e, r)
    BY <1>3, <1>5
  <2>3. Owned(tally', channels_Map', r) = Owned(tally, channels_Map, r)
    BY <2>1, <2>2, NothingOwnedMoves
  <2> QED BY <1>5, <2>3
<1> QED BY <1>4, <1>5

\* A litecoin trade moves tokens from the channel to the buyer and the fees
\* cache, or books a fee that nobody pays.
LEMMA LtcOwned ==
  ASSUME PlainOK, PlainOK', OwnedFits, NEW c \in Chan, NEW buyer \in Addr,
         NEW seller \in Addr, NEW p \in Prop, NEW forsale \in Nat,
         NEW price \in Nat \ {0}, NEW nvalue \in Nat,
         HandleLtcInstantTrade(c, buyer, seller, p, forsale, price, nvalue),
         NEW r \in Prop
  PROVE  OwnedExplained(r)
<1> DEFINE paid      == IF nvalue > price THEN price ELSE nvalue
           purchased == DivideAndRoundUp(paid * forsale, price)
           fee       == CacheFee(purchased, p)
           chn       == WithBuyer(channels_Map[c], buyer)
           covered   == getRemaining(chn, seller, p) >= purchased
<1>1. purchased \in Nat
  <2>1. paid * forsale \in Nat
    OBVIOUS
  <2> HIDE DEF paid
  <2> QED BY <2>1, RoundType
<1>2. fee \in Nat /\ fee <= purchased
  <2> HIDE DEF purchased
  <2> QED BY <1>1, FeeFits
<1>3. channels_Map[c] \in Filled /\ None \notin Filled /\ checkChannelAddress(c)
  BY PlainTypes, FilledIsChannel DEF HandleLtcInstantTrade
<1>4. chn \in Filled /\ chn.balances = channels_Map[c].balances
  BY <1>3, BuyerFilled, BuyerBalances
<1>5. \/ /\ channels_Map' = [channels_Map EXCEPT ![c] = chn]
         /\ UNCHANGED <<tally, native_fees>>
      \/ /\ channels_Map' = [channels_Map EXCEPT ![c] = chn]
         /\ UNCHANGED tally
      \/ /\ covered
         /\ channels_Map' = [channels_Map EXCEPT
              ![c] = updateChannelBal(chn, seller, p, -purchased).chn]
         /\ native_fees' = [native_fees EXCEPT ![p] = @ + fee]
         /\ tally' = update_tally_map(tally, Bal(buyer, p), purchased - fee).tally
  BY DEF HandleLtcInstantTrade
<1>6. covered => purchased <= chn.balances[<<seller, p>>]
  BY <1>1, <1>4 DEF getRemaining, Filled, Party
<1> HIDE DEF chn, purchased, fee, covered
<1>7. /\ tally \in [Account -> Nat] /\ channels_Map \in ChannelMaps
      /\ native_fees \in [Prop -> Nat] /\ native_fees[r] \in Nat
  BY OwnerTypes
<1>8. CASE channels_Map' = [channels_Map EXCEPT ![c] = chn] /\ UNCHANGED tally
  <2>1. \A d \in Chan, e \in Party :
          InChannel(channels_Map'[d], e, r) = InChannel(channels_Map[d], e, r)
    <3> TAKE d \in Chan, e \in Party
    <3>1. CASE d = c
      <4>1. channels_Map'[d] = chn /\ chn # None /\ channels_Map[c] # None
        BY <1>3, <1>4, <1>7, <1>8, <3>1 DEF ChannelMaps
      <4> QED BY <1>4, <3>1, <4>1 DEF InChannel
    <3>2. CASE d # c
      BY <1>7, <1>8, <3>2 DEF ChannelMaps
    <3> QED BY <3>1, <3>2
  <2>2. Owned(tally', channels_Map', r) = Owned(tally, channels_Map, r)
    BY <1>8, <2>1, NothingOwnedMoves
  <2> QED BY <1>8, <2>2 DEF OwnedExplained
<1>9. CASE /\ covered
           /\ channels_Map' = [channels_Map EXCEPT
                ![c] = updateChannelBal(chn, seller, p, -purchased).chn]
           /\ native_fees' = [native_fees EXCEPT ![p] = @ + fee]
           /\ tally' = update_tally_map(tally, Bal(buyer, p), purchased - fee).tally
  <2> DEFINE m == purchased - fee
  <2>1. m \in Nat /\ m <= purchased /\ seller \in Party
    BY <1>1, <1>2 DEF Party
  <2>2. tally' = update_tally_map(tally, Bal(buyer, p), m).tally /\ m + fee = purchased
    BY <1>1, <1>2, <1>9
  <2> HIDE DEF m
  <2>3. IF r = p
          THEN Owned(tally', channels_Map', r) + purchased = Owned(tally, channels_Map, r) + m
          ELSE Owned(tally', channels_Map', r) = Owned(tally, channels_Map, r)
    <3>1. PayOut(buyer, c, seller, p, purchased, m, chn)
      BY <1>3, <1>4, <1>6, <1>9, <2>1, <2>2 DEF PayOut
    <3>2. Pays(buyer, c, seller, p, purchased, m)
      BY <1>1, <1>4, <2>1, <3>1, PayOutPays
    <3> QED BY <1>1, <2>1, <3>2, PaymentOwned
  <2>4. Owned(tally, channels_Map, r) \in Nat /\ Owned(tally', channels_Map', r) \in Nat
    <3>1. tally' \in [Account -> Nat] /\ channels_Map' \in ChannelMaps
      BY DEF PlainOK, TypeOK
    <3> QED BY <1>7, <3>1, NoFeesType, SupplyIsOwned
  <2>5. native_fees'[r] = IF r = p THEN native_fees[r] + fee ELSE native_fees[r]
    BY <1>7, <1>9
  <2>6. /\ Owned(tally', channels_Map', r) + native_fees'[r]
             = Owned(tally, channels_Map, r) + native_fees[r]
        /\ native_fees[r] <= native_fees'[r]
    BY <1>1, <1>2, <1>7, <2>1, <2>2, <2>3, <2>4, <2>5
  <2> QED BY <2>6 DEF OwnedExplained
<1> QED BY <1>5, <1>8, <1>9

\* What makeWithdrawal does with the withdrawal at position i.
Served(c, i) ==
  LET w     == withdrawal_Map[c][i]
      amt   == ToInt64(w.amount)
      debit == updateChannelBal(channels_Map[c], w.address, w.prop, Neg64(amt))
  IN  /\ w \in Withdrawal /\ w.left = 0 /\ checkChannelAddress(c)
      /\ withdrawal_Map' = [withdrawal_Map EXCEPT ![c] = Without(@, i)]
      /\ channels_Map' = [channels_Map EXCEPT ![c] = debit.chn]
      /\ tally' = IF debit.ok
                    THEN update_tally_map(tally, Bal(w.address, w.prop), amt).tally
                    ELSE tally

\* makeWithdrawal serves one withdrawal that is due.
LEMMA ServesOne ==
  ASSUME TypeOK, NEW c \in Chan, makeWithdrawal(c)
  PROVE  \E i \in DOMAIN withdrawal_Map[c] : Served(c, i)
<1>1. PICK i \in Due(c) :
       LET w     == withdrawal_Map[c][i]
           amt   == ToInt64(w.amount)
           debit == updateChannelBal(channels_Map[c], w.address, w.prop, Neg64(amt))
       IN  /\ withdrawal_Map' = [withdrawal_Map EXCEPT ![c] = Without(@, i)]
           /\ channels_Map' = [channels_Map EXCEPT ![c] = debit.chn]
           /\ tally' = IF debit.ok
                         THEN update_tally_map(tally, Bal(w.address, w.prop),
                                               amt).tally
                         ELSE tally
  BY DEF makeWithdrawal
<1>2. i \in DOMAIN withdrawal_Map[c] /\ withdrawal_Map[c][i].left = 0 /\ checkChannelAddress(c)
  BY DEF Due
<1>3. withdrawal_Map[c][i] \in Withdrawal
  BY <1>2, Types
<1> QED BY <1>1, <1>2, <1>3 DEF Served

\* A withdrawal moves tokens from the channel to the balance, or nothing moves.
LEMMA ServedOwned ==
  ASSUME PlainOK, PlainOK', OwnedFits, NEW c \in Chan, NEW i \in DOMAIN withdrawal_Map[c],
         Served(c, i), native_fees' = native_fees, NEW r \in Prop,
         withdrawal_Map[c][i].amount <= MAX_INT64
  PROVE  OwnedExplained(r)
<1> DEFINE w     == withdrawal_Map[c][i]
           debit == updateChannelBal(channels_Map[c], w.address, w.prop, -w.amount)
<1>1. w \in Withdrawal /\ checkChannelAddress(c)
  BY DEF Served
<1>2. w.address \in Addr /\ w.address \in Party /\ w.prop \in Prop /\ w.amount \in Nat
      /\ -w.amount \in Int /\ ToInt64(w.amount) = w.amount
      /\ Neg64(ToInt64(w.amount)) = -w.amount
  <2>1. w.address \in Addr /\ w.prop \in Prop /\ w.amount \in UInt64
    BY <1>1 DEF Withdrawal
  <2> QED BY <2>1, Conversions DEF Party
<1>3. /\ channels_Map' = [channels_Map EXCEPT ![c] = debit.chn]
      /\ tally' = IF debit.ok
                    THEN update_tally_map(tally, Bal(w.address, w.prop), w.amount).tally
                    ELSE tally
  BY <1>2 DEF Served
<1> HIDE DEF w
<1> DEFINE a == w.address
           p == w.prop
           n == w.amount
<1>4. /\ channels_Map[c] \in Filled /\ None \notin Filled
      /\ InChannel(channels_Map[c], a, p) = channels_Map[c].balances[<<a, p>>]
      /\ getRemaining(channels_Map[c], a, p) = channels_Map[c].balances[<<a, p>>]
  <2>1. channels_Map[c] \in Filled /\ None \notin Filled
    BY <1>1, PlainTypes, FilledIsChannel
  <2> QED BY <2>1 DEF InChannel, getRemaining
<1>5. channels_Map[c].balances[<<a, p>>] \in Nat /\ tally[Bal(a, p)] \in Nat
  BY <1>2, <1>4, OwnerTypes
<1>6. CASE debit.ok
  <2>1. channels_Map[c].balances[<<a, p>>] + (-n) >= 0
    BY <1>2, <1>4, <1>6, UpdateFilled
  <2>2. n <= channels_Map[c].balances[<<a, p>>]
    <3> HIDE DEF n
    <3>1. n \in Nat
      BY <1>2 DEF n
    <3> QED BY <1>4, <1>5, <2>1, <3>1
  <2>3. channels_Map' = [channels_Map EXCEPT ![c] =
          updateChannelBal(channels_Map[c], a, p, -n).chn]
        /\ tally' = update_tally_map(tally, Bal(a, p), n).tally
    BY <1>3, <1>6
  <2>4. a \in Addr /\ a \in Party /\ p \in Prop /\ n \in Nat
    BY <1>2
  <2> HIDE DEF a, p, n, debit
  <2>5. n <= n
    BY <2>4
  <2>6. IF r = p
          THEN Owned(tally', channels_Map', r) + n = Owned(tally, channels_Map, r) + n
          ELSE Owned(tally', channels_Map', r) = Owned(tally, channels_Map, r)
    <3>1. PayOut(a, c, a, p, n, n, channels_Map[c])
      BY <1>1, <2>2, <2>3, <2>5 DEF PayOut
    <3>2. Pays(a, c, a, p, n, n)
      BY <1>4, <2>4, <3>1, PayOutPays
    <3> QED BY <2>4, <3>2, PaymentOwned
  <2>7. Owned(tally, channels_Map, r) \in Nat /\ Owned(tally', channels_Map', r) \in Nat
    <3>1. tally' \in [Account -> Nat] /\ channels_Map' \in ChannelMaps
      BY DEF PlainOK, TypeOK
    <3>2. tally \in [Account -> Nat] /\ channels_Map \in ChannelMaps
      BY OwnerTypes
    <3> QED BY <3>1, <3>2, NoFeesType, SupplyIsOwned
  <2>8. Owned(tally', channels_Map', r) = Owned(tally, channels_Map, r)
    BY <2>4, <2>6, <2>7
  <2> QED BY <2>8, MovedOnly
<1>7. CASE ~debit.ok
  <2>1. tally' = tally /\ debit.chn = channels_Map[c]
    BY <1>2, <1>3, <1>4, <1>7, UpdateFilled
  <2>2. channels_Map' = channels_Map
    BY <1>3, <2>1 DEF PlainOK, TypeOK
  <2> QED BY <2>1, <2>2, MovedOnly
<1> QED BY <1>6, <1>7

-----------------------------------------------------------------------------
(* Closing a channel *)

\* An address that closes gets its share as balance; the placeholder of an
\* open place has none.
Cashed(f, c, e) ==
  [x \in Holder |-> IF x = Share(c, e) THEN 0
                    ELSE IF e \in Addr /\ x = BalOf(e) THEN f[x] + f[Share(c, e)]
                    ELSE f[x]]

\* This does not change the total.
LEMMA CashedTotal ==
  ASSUME NEW f \in [Holder -> Nat], NEW c \in Chan, NEW e \in Party,
         e \notin Addr => f[Share(c, e)] = 0
  PROVE  Cashed(f, c, e) \in [Holder -> Nat] /\ Total(Cashed(f, c, e)) = Total(f)
<1> DEFINE g == Cashed(f, c, e)
<1>1. Share(c, e) \in Holder /\ IsFiniteSet(Holder)
  BY HolderFacts
<1>2. f[Share(c, e)] \in Nat
  BY <1>1
<1>3. g \in [Holder -> Nat]
  BY <1>2 DEF Cashed
<1>4. CASE e \notin Addr
  <2>1. \A x \in Holder : g[x] = f[x]
    BY <1>4 DEF Cashed
  <2> HIDE DEF g
  <2>2. g = f
    BY <1>3, <2>1
  <2> QED BY <1>3, <2>2 DEF g
<1>5. CASE e \in Addr
  <2>1. BalOf(e) \in Holder /\ BalOf(e) # Share(c, e)
    BY <1>5, HolderFacts
  <2>2. g[Share(c, e)] = 0 /\ g[BalOf(e)] = f[BalOf(e)] + f[Share(c, e)]
    BY <1>1, <1>5, <2>1 DEF Cashed
  <2>3. \A x \in Holder \ {BalOf(e), Share(c, e)} : g[x] = f[x]
    BY DEF Cashed
  <2> HIDE DEF g
  <2>4. Total(f) \in Nat
        /\ Total(g) = Total(f) - f[BalOf(e)] - f[Share(c, e)] + g[BalOf(e)] + g[Share(c, e)]
    BY <1>1, <1>3, <2>1, <2>3, TotalShift
  <2>5. f[BalOf(e)] \in Nat
    BY <2>1
  <2>6. Total(g) = Total(f)
    BY <1>2, <2>2, <2>4, <2>5
  <2> QED BY <1>3, <2>6 DEF g
<1> QED BY <1>4, <1>5

\* What the addresses outside a channel's two places have in it, counted by
\* holders.
LEMMA OutsidersTotal ==
  ASSUME NEW chn \in Filled, NEW c \in Chan, NEW p \in Prop,
         NEW h \in [{Share(c, x) : x \in Party \ {chn.first, chn.second}} -> Nat],
         \A x \in Party \ {chn.first, chn.second} : h[Share(c, x)] = chn.balances[<<x, p>>]
  PROVE  Total(h) = OfOutsiders(chn, p)
<1> DEFINE S == Party \ {chn.first, chn.second}
           T == {Share(c, x) : x \in S}
           b == [x \in S |-> Share(c, x)]
           f == [x \in S |-> getRemaining(chn, x, p)]
<1>1. IsFiniteSet(S)
  <2>1. IsFiniteSet({CHANNEL_PENDING}) /\ IsFiniteSet(Addr)
    BY ChannelsAssumption, FS_Singleton
  <2>2. IsFiniteSet(Party)
    BY <2>1, FS_Union DEF Party
  <2> QED BY <2>2, FS_Subset
<1>2. b \in Bijection(S, T)
  <2>1. b \in [S -> T]
    OBVIOUS
  <2>2. \A x, y \in S : b[x] = b[y] => x = y
    BY DEF Share
  <2>3. \A t \in T : \E x \in S : b[x] = t
    OBVIOUS
  <2> QED BY <2>1, <2>2, <2>3 DEF Bijection, Injection, Surjection, IsInjective
<1>3. f \in [S -> Nat]
  BY DEF getRemaining, Filled
<1>4. \A x \in S : h[b[x]] = f[x]
  BY DEF getRemaining
<1>5. OfOutsiders(chn, p) = Total(f)
  BY DEF OfOutsiders
<1>6. h \in [T -> Nat]
  OBVIOUS
<1> HIDE DEF S, T, b, f
<1>7. Total(h) = Total(f)
  BY <1>1, <1>2, <1>3, <1>4, <1>6, TotalRename
<1> QED BY <1>5, <1>7

\* The balances after a channel was closed.
LEMMA ClosedTally ==
  ASSUME PlainOK, PartiesInv, oversized = 0, OwnedFits, NEW a \in Addr, NEW c \in Chan,
         closeChannel(a, c), NEW e \in Addr, NEW r \in Prop
  PROVE  tally'[Bal(e, r)] = tally[Bal(e, r)] +
           (IF e \in {channels_Map[c].first, channels_Map[c].second}
              THEN channels_Map[c].balances[<<e, r>>] ELSE 0)
<1> DEFINE chn == channels_Map[c]
           one == RefundOf(chn, chn.first, e, r)
           two == RefundOf(chn, chn.second, e, r)
<1>1. chn \in Filled /\ Sound(chn, TRUE) /\ chn # None
  BY PlainSound DEF closeChannel, checkChannelAddress
<1>2. Bal(e, r) \in Account /\ Bal(e, r)[1] = e /\ Bal(e, r)[2] = r
  BY DEF Bal, Account, Party
<1>3. tally'[Bal(e, r)]
        = updateMoney(updateMoney(tally[Bal(e, r)], one, "BALANCE"), two, "BALANCE")
  BY <1>2 DEF closeChannel, Refunded
<1>4. e \in Party /\ e # CHANNEL_PENDING
  BY ChannelsAssumption DEF Party
<1>5. /\ tally[Bal(e, r)] + chn.balances[<<e, r>>] <= MAX_INT64
      /\ tally[Bal(e, r)] \in Nat /\ chn.balances[<<e, r>>] \in Nat /\ MAX_INT64 \in Nat
  <2>1. /\ tally[Bal(e, r)] + InChannel(channels_Map[c], e, r) <= MAX_INT64
        /\ tally[Bal(e, r)] \in Nat /\ InChannel(channels_Map[c], e, r) \in Nat
        /\ MAX_INT64 \in Nat
    BY <1>4, Room
  <2>2. InChannel(channels_Map[c], e, r) = chn.balances[<<e, r>>]
    BY <1>1 DEF InChannel
  <2> QED BY <2>1, <2>2
<1>6. /\ one = IF e = chn.first THEN chn.balances[<<e, r>>] ELSE 0
      /\ two = IF e = chn.second THEN chn.balances[<<e, r>>] ELSE 0
      /\ ~(e = chn.first /\ e = chn.second)
  <2>1. ~(e = chn.first /\ e = chn.second)
    BY <1>1, <1>4 DEF Sound
  <2> HIDE DEF chn
  <2> QED BY <1>5, <2>1 DEF RefundOf, getRemaining
<1> HIDE DEF one, two, chn
<1>7. \A now, n \in Nat : now + n <= MAX_INT64 => updateMoney(now, n, "BALANCE") = now + n
  <2> TAKE now, n \in Nat
  <2> HAVE now + n <= MAX_INT64
  <2>1. ~isOverflow(now, n)
    BY <1>5 DEF isOverflow, MIN_INT64
  <2> QED BY <2>1 DEF updateMoney, updateMoneyOk
<1>8. updateMoney(tally[Bal(e, r)], one, "BALANCE") = tally[Bal(e, r)] + one
      /\ one \in Nat /\ two \in Nat
  BY <1>5, <1>6, <1>7
<1>9. updateMoney(tally[Bal(e, r)] + one, two, "BALANCE") = tally[Bal(e, r)] + one + two
  BY <1>5, <1>6, <1>7, <1>8
<1> QED BY <1>3, <1>5, <1>6, <1>8, <1>9 DEF chn

\* Closing pays the two addresses of the channel and drops the shares of all
\* others.
LEMMA CloseOwned ==
  ASSUME PlainOK, PlainOK', PartiesInv, oversized = 0, OwnedFits, NEW a \in Addr, NEW c \in Chan,
         closeChannel(a, c), NEW r \in Prop
  PROVE  /\ Owned(tally', channels_Map', r)
              = Owned(tally, channels_Map, r) - OfOutsiders(channels_Map[c], r)
         /\ OfOutsiders(channels_Map[c], r) \in Nat
         /\ channels_Map[c] # None /\ channels_Map'[c] = None /\ native_fees' = native_fees
<1> DEFINE chn == channels_Map[c]
           H   == Holdings(tally, channels_Map, NoFees, r)
           J   == Holdings(tally', channels_Map', NoFees, r)
           f1  == Cashed(H, c, chn.first)
           f2  == Cashed(f1, c, chn.second)
           S   == {Share(c, x) : x \in Party \ {chn.first, chn.second}}
           h   == [x \in S |-> H[x]]
<1>1. chn \in Filled /\ Sound(chn, TRUE) /\ chn # None
  BY PlainSound DEF closeChannel, checkChannelAddress
<1>2. chn.first \in Party /\ chn.second \in Party
      /\ (chn.first = chn.second => chn.first = CHANNEL_PENDING)
      /\ chn.balances[<<CHANNEL_PENDING, r>>] = 0
  BY <1>1 DEF Filled, Sound
<1>3. /\ channels_Map' = [channels_Map EXCEPT ![c] = None]
      /\ native_fees' = native_fees
  BY DEF closeChannel
<1>4. tally \in [Account -> Nat] /\ channels_Map \in ChannelMaps
      /\ tally' \in [Account -> Nat] /\ channels_Map' \in ChannelMaps
  BY DEF PlainOK, TypeOK
<1>5. /\ H \in [Holder -> Nat]
      /\ \A e \in Addr : H[BalOf(e)] = tally[Bal(e, r)]
      /\ \A d \in Chan, x \in Party : H[Share(d, x)] = InChannel(channels_Map[d], x, r)
      /\ H[FeesCache] = 0
  <2>1. NoFees[r] = 0
    BY DEF NoFees
  <2> QED BY <1>4, <2>1, HoldingsAre, NoFeesType
<1>6. /\ J \in [Holder -> Nat]
      /\ \A e \in Addr : J[BalOf(e)] = tally'[Bal(e, r)]
      /\ \A d \in Chan, x \in Party : J[Share(d, x)] = InChannel(channels_Map'[d], x, r)
      /\ J[FeesCache] = 0
  <2>1. NoFees[r] = 0
    BY DEF NoFees
  <2> QED BY <1>4, <2>1, HoldingsAre, NoFeesType
<1>7. Owned(tally, channels_Map, r) = Total(H) /\ Owned(tally', channels_Map', r) = Total(J)
  BY DEF Owned, Supply
<1> HIDE DEF H, J
<1>8. \A x \in Party : H[Share(c, x)] = chn.balances[<<x, r>>]
  BY <1>1, <1>5 DEF InChannel
<1>9. \A x \in Party : J[Share(c, x)] = 0
  <2>1. channels_Map'[c] = None
    BY <1>3, <1>4 DEF ChannelMaps
  <2> QED BY <1>6, <2>1 DEF InChannel
<1>10. \A d \in Chan \ {c}, x \in Party : J[Share(d, x)] = H[Share(d, x)]
  <2>1. \A d \in Chan \ {c} : channels_Map'[d] = channels_Map[d]
    BY <1>3, <1>4 DEF ChannelMaps
  <2> QED BY <1>5, <1>6, <2>1
<1>11. \A e \in Addr : J[BalOf(e)] = H[BalOf(e)] +
         (IF e \in {chn.first, chn.second} THEN H[Share(c, e)] ELSE 0)
  <2> TAKE e \in Addr
  <2>1. tally'[Bal(e, r)] = tally[Bal(e, r)] +
          (IF e \in {chn.first, chn.second} THEN chn.balances[<<e, r>>] ELSE 0)
    BY ClosedTally
  <2>2. e \in Party
    BY DEF Party
  <2> QED BY <1>5, <1>6, <1>8, <2>1, <2>2
<1> HIDE DEF chn
<1>12. f1 \in [Holder -> Nat] /\ Total(f1) = Total(H)
  <2>1. chn.first \notin Addr => H[Share(c, chn.first)] = 0
    BY <1>2, <1>8 DEF Party
  <2> QED BY <1>2, <1>5, <2>1, CashedTotal
<1>13. /\ \A e \in Addr : f1[BalOf(e)] = H[BalOf(e)] +
            (IF e = chn.first THEN H[Share(c, e)] ELSE 0)
       /\ \A d \in Chan, x \in Party : f1[Share(d, x)] =
            IF d = c /\ x = chn.first THEN 0 ELSE H[Share(d, x)]
       /\ f1[FeesCache] = 0
  <2>1. \A e \in Addr : f1[BalOf(e)] = H[BalOf(e)] +
          (IF e = chn.first THEN H[Share(c, e)] ELSE 0)
    <3> TAKE e \in Addr
    <3>1. BalOf(e) \in Holder /\ BalOf(e) # Share(c, chn.first)
          /\ H[BalOf(e)] \in Nat
      BY <1>2, <1>5, HolderFacts
    <3>2. CASE e = chn.first
      BY <3>1, <3>2 DEF Cashed
    <3>3. CASE e # chn.first
      <4>1. BalOf(e) # BalOf(chn.first)
        BY <3>3 DEF BalOf
      <4> QED BY <3>1, <3>3, <4>1 DEF Cashed
    <3> QED BY <3>2, <3>3
  <2>2. \A d \in Chan, x \in Party : f1[Share(d, x)] =
          IF d = c /\ x = chn.first THEN 0 ELSE H[Share(d, x)]
    <3> TAKE d \in Chan, x \in Party
    <3>1. Share(d, x) \in Holder /\ (chn.first \in Addr => Share(d, x) # BalOf(chn.first))
      BY HolderFacts
    <3>2. Share(d, x) = Share(c, chn.first) <=> d = c /\ x = chn.first
      BY DEF Share
    <3> QED BY <3>1, <3>2 DEF Cashed
  <2>3. f1[FeesCache] = 0
    BY <1>2, <1>5, HolderFacts DEF Cashed
  <2> QED BY <2>1, <2>2, <2>3
<1> HIDE DEF f1
<1>14. f2 \in [Holder -> Nat] /\ Total(f2) = Total(f1)
  <2>1. chn.second \notin Addr => f1[Share(c, chn.second)] = 0
    BY <1>2, <1>8, <1>13 DEF Party
  <2> QED BY <1>2, <1>12, <2>1, CashedTotal
<1>15. /\ \A e \in Addr : f2[BalOf(e)] = f1[BalOf(e)] +
            (IF e = chn.second THEN f1[Share(c, e)] ELSE 0)
       /\ \A d \in Chan, x \in Party : f2[Share(d, x)] =
            IF d = c /\ x = chn.second THEN 0 ELSE f1[Share(d, x)]
       /\ f2[FeesCache] = 0
  <2>1. \A e \in Addr : f2[BalOf(e)] = f1[BalOf(e)] +
          (IF e = chn.second THEN f1[Share(c, e)] ELSE 0)
    <3> TAKE e \in Addr
    <3>1. BalOf(e) \in Holder /\ BalOf(e) # Share(c, chn.second)
          /\ f1[BalOf(e)] \in Nat
      BY <1>2, <1>12, HolderFacts
    <3>2. CASE e = chn.second
      BY <3>1, <3>2 DEF Cashed
    <3>3. CASE e # chn.second
      <4>1. BalOf(e) # BalOf(chn.second)
        BY <3>3 DEF BalOf
      <4> QED BY <3>1, <3>3, <4>1 DEF Cashed
    <3> QED BY <3>2, <3>3
  <2>2. \A d \in Chan, x \in Party : f2[Share(d, x)] =
          IF d = c /\ x = chn.second THEN 0 ELSE f1[Share(d, x)]
    <3> TAKE d \in Chan, x \in Party
    <3>1. Share(d, x) \in Holder /\ (chn.second \in Addr => Share(d, x) # BalOf(chn.second))
      BY HolderFacts
    <3>2. Share(d, x) = Share(c, chn.second) <=> d = c /\ x = chn.second
      BY DEF Share
    <3> QED BY <3>1, <3>2 DEF Cashed
  <2>3. f2[FeesCache] = 0
    BY <1>2, <1>13, HolderFacts DEF Cashed
  <2> QED BY <2>1, <2>2, <2>3
<1> HIDE DEF f2
<1>16. \A e \in Addr : f2[BalOf(e)] = J[BalOf(e)]
  <2> TAKE e \in Addr
  <2>1. e \in Party /\ e # CHANNEL_PENDING
    BY ChannelsAssumption DEF Party
  <2>2. H[BalOf(e)] \in Nat /\ H[Share(c, e)] \in Nat
    BY <1>5, <2>1, HolderFacts
  <2>3. ~(e = chn.first /\ e = chn.second)
    BY <1>2, <2>1
  <2>4. e = chn.second => f1[Share(c, e)] = H[Share(c, e)]
    BY <1>13, <2>1, <2>3
  <2> QED BY <1>11, <1>13, <1>15, <2>2, <2>3, <2>4
<1>17. S \in SUBSET Holder /\ IsFiniteSet(Holder)
  BY HolderFacts
<1>18. h \in [S -> Nat] /\ \A x \in S : h[x] = H[x]
  BY <1>5, <1>17
<1>19. \A x \in S : J[x] = 0 /\ h[x] = f2[x]
  <2> TAKE x \in S
  <2>1. PICK y \in Party \ {chn.first, chn.second} : x = Share(c, y)
    OBVIOUS
  <2>2. f1[Share(c, y)] = H[Share(c, y)]
    BY <1>13, <2>1
  <2>3. f2[Share(c, y)] = f1[Share(c, y)]
    BY <1>15, <2>1
  <2> QED BY <1>9, <1>18, <2>1, <2>2, <2>3
<1>20. \A x \in Holder \ S : J[x] = f2[x]
  <2> TAKE x \in Holder \ S
  <2>1. ASSUME NEW e \in Addr, x = BalOf(e) PROVE J[x] = f2[x]
    BY <1>16, <2>1
  <2>2. ASSUME NEW d \in Chan, NEW y \in Party, x = Share(d, y) PROVE J[x] = f2[x]
    <3>1. CASE d = c
      <4>1. y \in {chn.first, chn.second}
        BY <2>2, <3>1
      <4>2. f2[Share(c, y)] = 0
        BY <1>13, <1>15, <4>1
      <4> QED BY <1>9, <2>2, <3>1, <4>2
    <3>2. CASE d # c
      <4>1. f2[Share(d, y)] = f1[Share(d, y)]
        BY <1>15, <3>2
      <4>2. f1[Share(d, y)] = H[Share(d, y)]
        BY <1>13, <3>2
      <4> QED BY <1>10, <2>2, <3>2, <4>1, <4>2
    <3> QED BY <3>1, <3>2
  <2>3. CASE x = FeesCache
    BY <1>6, <1>15, <2>3
  <2> QED BY <2>1, <2>2, <2>3, HolderFacts
<1> HIDE DEF h
<1>21. Total(h) = OfOutsiders(chn, r)
  <2>1. \A x \in Party \ {chn.first, chn.second} : h[Share(c, x)] = chn.balances[<<x, r>>]
    BY <1>8, <1>18
  <2> QED BY <1>1, <1>18, <2>1, OutsidersTotal
<1> HIDE DEF S
<1>22. Total(J) = Total(f2) - Total(h) /\ Total(h) \in Nat /\ Total(f2) \in Nat
       /\ Total(J) \in Nat
  BY <1>6, <1>14, <1>17, <1>18, <1>19, <1>20, TotalDropped
<1>23. channels_Map'[c] = None
  BY <1>3, <1>4 DEF ChannelMaps
<1> QED BY <1>1, <1>3, <1>7, <1>12, <1>14, <1>21, <1>22, <1>23 DEF chn

-----------------------------------------------------------------------------
(* The supply *)

\* As long as channels hold nothing below zero, no withdrawal of more than
\* MAX_INT64 tokens is accepted.
AmountsInv ==
  oversized = 0 =>
    \A c \in Chan : \A i \in DOMAIN withdrawal_Map[c] :
      withdrawal_Map[c][i].amount <= MAX_INT64

\* What is owned fits into an int64; so no credit is refused.
SupplyInv ==
  TypeOK /\ PartiesInv /\ AmountsInv /\ (oversized = 0 => OwnedFits)

\* Which steps may change the list of withdrawals, and which the counter.
LEMMA WhatChanges ==
  /\ \A a, c, p, n : CommitChannel(a, c, p, n) =>
       withdrawal_Map' = withdrawal_Map /\ Names({n})
  /\ \A c, f, s, p, n, q, m : Instant_Trade(c, f, s, p, n, q, m) =>
       withdrawal_Map' = withdrawal_Map /\ Names({n, m})
  /\ \A c, d, option, p, n : Transfer(c, d, option, p, n) =>
       withdrawal_Map' = withdrawal_Map /\ Names({n})
  /\ \A c, b, s, p, forsale, price, nvalue :
       HandleLtcInstantTrade(c, b, s, p, forsale, price, nvalue) =>
         withdrawal_Map' = withdrawal_Map /\ oversized' = oversized
  /\ withdrawalsDone => withdrawal_Map' = withdrawal_Map /\ oversized' = oversized
  /\ UNCHANGED vars => withdrawal_Map' = withdrawal_Map /\ oversized' = oversized
  /\ \A a, c, p, n, h : Withdrawal_FromChannel(a, c, p, n, h) => oversized' = oversized
  /\ \A a, c : closeChannel(a, c) => oversized' = oversized
  /\ \A c : makeWithdrawal(c) => oversized' = oversized
  /\ block_begin => oversized' = oversized
<1>1. \A a, c, p, n : CommitChannel(a, c, p, n) =>
        withdrawal_Map' = withdrawal_Map /\ Names({n})
  BY DEF CommitChannel
<1>2. \A c, f, s, p, n, q, m : Instant_Trade(c, f, s, p, n, q, m) =>
        withdrawal_Map' = withdrawal_Map /\ Names({n, m})
  BY DEF Instant_Trade
<1>3. \A c, d, option, p, n : Transfer(c, d, option, p, n) =>
        withdrawal_Map' = withdrawal_Map /\ Names({n})
  BY DEF Transfer
<1>4. \A c, b, s, p, forsale, price, nvalue :
        HandleLtcInstantTrade(c, b, s, p, forsale, price, nvalue) =>
          withdrawal_Map' = withdrawal_Map /\ oversized' = oversized
  BY DEF HandleLtcInstantTrade
<1>5. withdrawalsDone => withdrawal_Map' = withdrawal_Map /\ oversized' = oversized
  BY DEF withdrawalsDone
<1>6. UNCHANGED vars => withdrawal_Map' = withdrawal_Map /\ oversized' = oversized
  BY DEF vars
<1>7. \A a, c, p, n, h : Withdrawal_FromChannel(a, c, p, n, h) => oversized' = oversized
  BY DEF Withdrawal_FromChannel
<1>8. \A a, c : closeChannel(a, c) => oversized' = oversized
  BY DEF closeChannel
<1>9. \A c : makeWithdrawal(c) => oversized' = oversized
  BY DEF makeWithdrawal
<1>10. block_begin => oversized' = oversized
  BY DEF block_begin
<1> QED BY <1>1, <1>2, <1>3, <1>4, <1>5, <1>6, <1>7, <1>8, <1>9, <1>10

\* The counter never goes back.
LEMMA StepCounts ==
  ASSUME TypeOK, [Next]_vars, oversized' = 0
  PROVE  oversized = 0
<1>1. \A S : Names(S) => oversized = 0
  BY NamesType
<1> QED BY <1>1, WhatChanges DEF Next

\* So the channels are filled before and after such a step.
LEMMA StepPlain ==
  ASSUME TypeOK, PartiesInv, [Next]_vars
  PROVE  /\ oversized' \in Nat
         /\ ~(oversized' > 0) => oversized' = 0
         /\ oversized' = 0 => oversized = 0 /\ PlainOK /\ PlainOK'
<1>1. TypeOK' /\ PartiesInv'
  BY StepType, StepSound
<1>2. oversized' \in Nat
  BY <1>1 DEF TypeOK
<1>3. ASSUME oversized' = 0 PROVE PlainOK'
  <2>1. ASSUME NEW c \in Chan PROVE channels_Map'[c] \in Filled \cup {None}
    <3>1. CASE channels_Map'[c] # None
      <4>1. channels_Map'[c] \in Channel
        BY <1>1, <3>1 DEF TypeOK
      <4>2. \A x \in Party \X Prop : channels_Map'[c].balances[x] >= 0
        BY <1>1, <1>3, <3>1 DEF PartiesInv, Sound
      <4> QED BY <4>1, <4>2, ChannelIsFilled
    <3> QED BY <3>1
  <2> QED BY <1>1, <2>1 DEF PlainOK, TypeOK, ChannelMaps
<1>4. oversized' = 0 => oversized = 0 /\ PlainOK
  BY StepCounts, SoundIsPlain
<1> QED BY <1>2, <1>3, <1>4

\* Removing an element of a list adds none.
LEMMA WithoutFrom ==
  ASSUME NEW S, NEW s \in Seq(S), NEW k \in DOMAIN s, NEW i \in DOMAIN Without(s, k)
  PROVE  \E j \in DOMAIN s : Without(s, k)[i] = s[j]
<1> DEFINE u == SubSeq(s, 1, k - 1)
           v == SubSeq(s, k + 1, Len(s))
<1>1. k \in 1 .. Len(s) /\ Len(s) \in Nat
  OBVIOUS
<1>2. u \in Seq(S) /\ Len(u) = k - 1 /\ \A x \in 1 .. k - 1 : u[x] = s[x]
  BY <1>1, SubSeqProperties
<1>3. v \in Seq(S) /\ Len(v) = Len(s) - k
      /\ \A x \in 1 .. Len(s) - k : v[x] = s[k + x]
  BY <1>1, SubSeqProperties
<1> HIDE DEF u, v
<1>4. /\ u \o v \in Seq(S) /\ Len(u \o v) = Len(u) + Len(v)
      /\ \A x \in 1 .. Len(u) + Len(v) :
           (u \o v)[x] = IF x <= Len(u) THEN u[x] ELSE v[x - Len(u)]
  BY <1>2, <1>3, ConcatProperties
<1>5. Without(s, k) = u \o v
  BY DEF Without, u, v
<1>6. i \in 1 .. Len(s) - 1 /\ Len(u) + Len(v) = Len(s) - 1
  BY <1>1, <1>2, <1>3, <1>4, <1>5
<1>7. CASE i <= k - 1
  <2>1. (u \o v)[i] = s[i] /\ i \in DOMAIN s
    BY <1>1, <1>2, <1>4, <1>6, <1>7
  <2> QED BY <1>5, <2>1
<1>8. CASE ~(i <= k - 1)
  <2>1. (u \o v)[i] = v[i - (k - 1)]
    BY <1>1, <1>2, <1>4, <1>6, <1>8
  <2>2. i - (k - 1) \in 1 .. Len(s) - k /\ k + (i - (k - 1)) = i + 1 /\ i + 1 \in DOMAIN s
    BY <1>1, <1>6, <1>8
  <2>3. v[i - (k - 1)] = s[i + 1]
    BY <1>3, <2>2
  <2> QED BY <1>5, <2>1, <2>2, <2>3
<1> QED BY <1>7, <1>8

\* Amounts that fit stay so: a withdrawal asks for no more than the channel
\* holds.
LEMMA StepAmounts ==
  ASSUME TypeOK, PartiesInv, AmountsInv, [Next]_vars
  PROVE  AmountsInv'
<1> SUFFICES ASSUME oversized' = 0, NEW c \in Chan, NEW i \in DOMAIN withdrawal_Map'[c]
             PROVE  withdrawal_Map'[c][i].amount <= MAX_INT64
  BY DEF AmountsInv
<1>1. oversized = 0 /\ PlainOK
  BY StepPlain
<1>2. \A d \in Chan : \A j \in DOMAIN withdrawal_Map[d] :
        withdrawal_Map[d][j].amount <= MAX_INT64
  BY <1>1 DEF AmountsInv
<1>3. withdrawal_Map \in [Chan -> Seq(Withdrawal)] /\ withdrawal_Map[c] \in Seq(Withdrawal)
  BY DEF TypeOK
<1>4. CASE withdrawal_Map' = withdrawal_Map
  BY <1>2, <1>4
<1>5. ASSUME NEW a \in Addr, NEW d \in Chan, NEW p \in Prop, NEW n \in WireAmount,
             NEW h \in TxId, Withdrawal_FromChannel(a, d, p, n, h)
      PROVE  withdrawal_Map'[c][i].amount <= MAX_INT64
  <2> DEFINE w == [address |-> a, left |-> WithdrawalDelay, prop |-> p,
                   amount |-> n, txid |-> h]
  <2>1. withdrawal_Map' = [withdrawal_Map EXCEPT ![d] = Append(withdrawal_Map[d], w)]
    BY <1>5 DEF Withdrawal_FromChannel
  <2>2. w.amount <= MAX_INT64
    <3>1. channels_Map[d] \in Filled
      BY <1>1, <1>5, PlainTypes DEF Withdrawal_FromChannel
    <3>2. getRemaining(channels_Map[d], a, p) \in 0 .. MAX_INT64
      BY <3>1 DEF getRemaining, Filled, Party
    <3>3. n <= ToUInt64(getRemaining(channels_Map[d], a, p)) /\ n \in Nat
      BY <1>5, WireType, Conversions DEF Withdrawal_FromChannel
    <3> QED BY <3>2, <3>3, MaxInt64Assumption DEF ToUInt64
  <2> HIDE DEF w
  <2>3. CASE c = d
    <3>1. withdrawal_Map'[c] = Append(withdrawal_Map[c], w)
      BY <1>3, <2>1, <2>3
    <3>2. \/ i \in DOMAIN withdrawal_Map[c] /\ withdrawal_Map'[c][i] = withdrawal_Map[c][i]
          \/ withdrawal_Map'[c][i] = w
      <4> DEFINE s == withdrawal_Map[c]
      <4>1. s \in Seq(Withdrawal) /\ i \in DOMAIN Append(s, w)
        BY <1>3, <3>1
      <4> HIDE DEF s
      <4>2. \/ i \in DOMAIN s /\ Append(s, w)[i] = s[i]
            \/ Append(s, w)[i] = w
        BY <4>1
      <4> QED BY <3>1, <4>2 DEF s
    <3> QED BY <1>2, <2>2, <3>2
  <2>4. CASE c # d
    BY <1>2, <1>3, <2>1, <2>4
  <2> QED BY <2>3, <2>4
<1>6. ASSUME NEW a \in Addr, NEW d \in Chan, closeChannel(a, d)
      PROVE  withdrawal_Map'[c][i].amount <= MAX_INT64
  <2>1. withdrawal_Map' = [withdrawal_Map EXCEPT ![d] = <<>>]
    BY <1>6 DEF closeChannel
  <2>2. CASE c = d
    BY <1>3, <2>1, <2>2
  <2> QED BY <1>2, <1>3, <2>1, <2>2
<1>7. ASSUME block_begin PROVE withdrawal_Map'[c][i].amount <= MAX_INT64
  <2>1. withdrawal_Map'[c] = [x \in DOMAIN withdrawal_Map[c] |->
          [withdrawal_Map[c][x] EXCEPT !.left = IF @ = 0 THEN 0 ELSE @ - 1]]
    BY <1>7 DEF block_begin
  <2>2. i \in DOMAIN withdrawal_Map[c]
        /\ withdrawal_Map'[c][i] =
             [withdrawal_Map[c][i] EXCEPT !.left = IF @ = 0 THEN 0 ELSE @ - 1]
    BY <2>1
  <2>3. withdrawal_Map[c][i] \in Withdrawal
    BY <1>3, <2>2
  <2>4. withdrawal_Map'[c][i].amount = withdrawal_Map[c][i].amount
    BY <2>2, <2>3 DEF Withdrawal
  <2> QED BY <1>2, <2>2, <2>4
<1>8. ASSUME NEW d \in Chan, makeWithdrawal(d)
      PROVE  withdrawal_Map'[c][i].amount <= MAX_INT64
  <2>1. PICK k \in DOMAIN withdrawal_Map[d] : Served(d, k)
    BY <1>8, ServesOne
  <2>2. withdrawal_Map' = [withdrawal_Map EXCEPT ![d] = Without(withdrawal_Map[d], k)]
    BY <2>1 DEF Served
  <2>3. CASE c = d
    <3> DEFINE s == withdrawal_Map[c]
    <3>1. withdrawal_Map'[c] = Without(s, k) /\ s \in Seq(Withdrawal) /\ k \in DOMAIN s
      BY <1>3, <2>1, <2>2, <2>3
    <3> HIDE DEF s
    <3>2. \E j \in DOMAIN s : Without(s, k)[i] = s[j]
      <4>1. i \in DOMAIN Without(s, k)
        BY <3>1
      <4> QED BY <3>1, <4>1, WithoutFrom
    <3> QED BY <1>2, <3>1, <3>2 DEF s
  <2>4. CASE c # d
    BY <1>2, <1>3, <2>2, <2>4
  <2> QED BY <2>3, <2>4
<1> QED BY <1>4, <1>5, <1>6, <1>7, <1>8, WhatChanges DEF Next

\* Every step of transactions that name amounts that fit explains what it does
\* to what is owned of each property.
LEMMA StepExplained ==
  ASSUME TypeOK, PartiesInv, AmountsInv, oversized = 0 => OwnedFits, [Next]_vars,
         oversized' = 0, NEW r \in Prop
  PROVE  OwnedExplained(r)
<1>1. PlainOK /\ PlainOK' /\ OwnedFits /\ oversized = 0
  BY StepPlain
<1>2. \A S : Names(S) => \A n \in S : ~(n > MAX_INT64)
  BY NamesType
<1>3. CASE UNCHANGED <<tally, channels_Map, native_fees>>
  BY <1>1, <1>3, MovedOnly
<1>4. ASSUME NEW n \in WireAmount, ~(n > MAX_INT64)
      PROVE  n \in UInt64 /\ n <= MAX_INT64 /\ n \in Nat
  <2>1. n \in UInt64 /\ n \in Nat /\ MAX_INT64 \in Nat
    BY WireType, Conversions, MaxInt64Assumption
  <2> QED BY <1>4, <2>1
<1>5. ASSUME NEW a \in Addr, NEW c \in Chan, NEW p \in Prop, NEW n \in WireAmount,
             CommitChannel(a, c, p, n)
      PROVE  OwnedExplained(r)
  <2>1. n \in UInt64 /\ n <= MAX_INT64
    BY <1>2, <1>4, <1>5 DEF CommitChannel
  <2> QED BY <1>1, <1>5, <2>1, CommitOwned
<1>6. ASSUME NEW c \in Chan, NEW f \in Addr, NEW s \in Addr, NEW p \in Prop,
             NEW q \in Prop, NEW n \in WireAmount, NEW m \in WireAmount,
             Instant_Trade(c, f, s, p, n, q, m)
      PROVE  OwnedExplained(r)
  <2>1. n \in UInt64 /\ n <= MAX_INT64 /\ m \in UInt64 /\ m <= MAX_INT64
    <3>1. Names({n, m})
      BY <1>6 DEF Instant_Trade
    <3> QED BY <1>2, <1>4, <3>1
  <2> QED BY <1>1, <1>6, <2>1, TradeOwned
<1>7. ASSUME NEW c \in Chan, NEW d \in Chan, NEW option \in BOOLEAN, NEW p \in Prop,
             NEW n \in WireAmount, Transfer(c, d, option, p, n)
      PROVE  OwnedExplained(r)
  <2>1. n \in UInt64 /\ n <= MAX_INT64
    BY <1>2, <1>4, <1>7 DEF Transfer
  <2> QED BY <1>1, <1>7, <2>1, TransferOwned
<1>8. ASSUME NEW c \in Chan, NEW buyer \in Addr, NEW seller \in Addr, NEW p \in Prop,
             NEW forsale \in WireAmount, NEW price \in 1 .. MaxLTC,
             NEW nvalue \in 1 .. MaxLTC,
             HandleLtcInstantTrade(c, buyer, seller, p, forsale, price, nvalue)
      PROVE  OwnedExplained(r)
  <2>1. forsale \in Nat /\ price \in Nat \ {0} /\ nvalue \in Nat
    BY WireType, Conversions
  <2> QED BY <1>1, <1>8, <2>1, LtcOwned
<1>9. ASSUME NEW a \in Addr, NEW c \in Chan, closeChannel(a, c) PROVE OwnedExplained(r)
  <2>1. /\ Owned(tally', channels_Map', r)
             = Owned(tally, channels_Map, r) - OfOutsiders(channels_Map[c], r)
        /\ OfOutsiders(channels_Map[c], r) \in Nat
        /\ channels_Map[c] # None /\ channels_Map'[c] = None /\ native_fees' = native_fees
    BY <1>1, <1>9, CloseOwned
  <2> QED BY <2>1 DEF OwnedExplained
<1>10. ASSUME NEW c \in Chan, makeWithdrawal(c) PROVE OwnedExplained(r)
  <2>1. PICK i \in DOMAIN withdrawal_Map[c] : Served(c, i)
    BY <1>10, ServesOne
  <2>2. native_fees' = native_fees
    BY <1>10 DEF makeWithdrawal
  <2>3. withdrawal_Map[c][i].amount <= MAX_INT64
    BY <1>1 DEF AmountsInv
  <2> QED BY <1>1, <2>1, <2>2, <2>3, ServedOwned
<1> QED BY <1>3, <1>5, <1>6, <1>7, <1>8, <1>9, <1>10
        DEF Next, vars, Withdrawal_FromChannel, block_begin, withdrawalsDone

\* So what is owned never grows by them.
LEMMA StepFits == SupplyInv /\ [Next]_vars => SupplyInv'
<1> SUFFICES ASSUME SupplyInv, [Next]_vars PROVE SupplyInv'
  OBVIOUS
<1>1. TypeOK /\ PartiesInv /\ AmountsInv /\ (oversized = 0 => OwnedFits)
  BY DEF SupplyInv
<1>2. TypeOK' /\ PartiesInv' /\ AmountsInv'
  BY <1>1, StepType, StepSound, StepAmounts
<1>3. ASSUME oversized' = 0, NEW r \in Prop PROVE Owned(tally', channels_Map', r) <= MAX_INT64
  <2>0. oversized = 0 /\ PlainOK /\ PlainOK'
    BY <1>1, <1>3, StepPlain
  <2>1. OwnedExplained(r)
    BY <1>1, <1>3, StepExplained
  <2>2. /\ tally \in [Account -> Nat] /\ channels_Map \in ChannelMaps
        /\ native_fees[r] \in Nat
    BY <2>0, OwnerTypes
  <2>3. /\ tally' \in [Account -> Nat] /\ channels_Map' \in ChannelMaps
        /\ native_fees'[r] \in Nat
    BY <2>0 DEF PlainOK, TypeOK
  <2>4. Owned(tally, channels_Map, r) \in Nat /\ Owned(tally', channels_Map', r) \in Nat
    BY <2>2, <2>3, NoFeesType, SupplyIsOwned
  <2>5. Owned(tally, channels_Map, r) <= MAX_INT64 /\ MAX_INT64 \in Nat
    BY <1>1, <2>0, MaxInt64Assumption DEF OwnedFits
  <2>6. Owned(tally', channels_Map', r) <= Owned(tally, channels_Map, r)
    BY <2>1, <2>2, <2>3, <2>4 DEF OwnedExplained
  <2> QED BY <2>4, <2>5, <2>6
<1> QED BY <1>2, <1>3 DEF SupplyInv, OwnedFits

\* At the start only balances are owned, and they fit (SupplyFits).
LEMMA InitFits == Init => SupplyInv
<1> SUFFICES ASSUME Init PROVE SupplyInv
  OBVIOUS
<1>1. PlainOK
  BY InitType, InitSound, SoundIsPlain DEF Init
<1>2. TypeOK /\ PartiesInv /\ AmountsInv
  <2>1. AmountsInv
    <3>1. \A c \in Chan : DOMAIN withdrawal_Map[c] = {}
      BY DEF Init
    <3> QED BY <3>1 DEF AmountsInv
  <2> QED BY <2>1, InitType, InitSound
<1>3. ASSUME NEW p \in Prop PROVE Owned(tally, channels_Map, p) <= MAX_INT64
  <2> DEFINE H == Holdings(tally, channels_Map, NoFees, p)
             S == {BalOf(a) : a \in Addr}
             h == [x \in S |-> H[x]]
             z == [x \in Holder |-> 0]
             b == [a \in Addr |-> BalOf(a)]
             f == [a \in Addr |-> InitialBalance[<<a, p>>]]
  <2>1. /\ H \in [Holder -> Nat]
        /\ \A a \in Addr : H[BalOf(a)] = tally[Bal(a, p)]
        /\ \A c \in Chan, a \in Party : H[Share(c, a)] = InChannel(channels_Map[c], a, p)
        /\ H[FeesCache] = 0
    <3>1. NoFees[p] = 0
      BY DEF NoFees
    <3>2. tally \in [Account -> Nat] /\ channels_Map \in ChannelMaps
      BY <1>1, OwnerTypes
    <3> QED BY <3>1, <3>2, HoldingsAre, NoFeesType
  <2>2. Owned(tally, channels_Map, p) = Total(H)
    BY DEF Owned, Supply
  <2> HIDE DEF H
  <2>3. \A a \in Addr : H[BalOf(a)] = InitialBalance[<<a, p>>]
    <3> TAKE a \in Addr
    <3>1. Bal(a, p) \in Account /\ Bal(a, p)[1] = a /\ Bal(a, p)[2] = p
      BY DEF Bal, Account, Party
    <3>2. tally[Bal(a, p)] = InitialBalance[<<a, p>>]
      BY <3>1 DEF Init
    <3> QED BY <2>1, <3>2
  <2>4. \A c \in Chan, a \in Party : H[Share(c, a)] = 0
    BY <2>1 DEF Init, InChannel
  <2>5. S \in SUBSET Holder /\ IsFiniteSet(Holder)
    BY HolderFacts
  <2>6. h \in [S -> Nat] /\ z \in [Holder -> Nat] /\ \A x \in S : z[x] = 0 /\ h[x] = H[x]
    BY <2>1, <2>5
  <2>7. \A x \in Holder \ S : z[x] = H[x]
    BY <2>1, <2>4, HolderFacts
  <2>8. Total(z) = 0
    BY <2>6, TotalZero
  <2>9. b \in Bijection(Addr, S)
    <3>1. b \in [Addr -> S]
      OBVIOUS
    <3>2. \A x, y \in Addr : b[x] = b[y] => x = y
      BY DEF BalOf
    <3>3. \A t \in S : \E x \in Addr : b[x] = t
      OBVIOUS
    <3> QED BY <3>1, <3>2, <3>3 DEF Bijection, Injection, Surjection, IsInjective
  <2>10. f \in [Addr -> Nat] /\ \A a \in Addr : h[b[a]] = f[a]
    BY <2>3, ChannelsAssumption
  <2>11. Total(f) <= MAX_INT64
    BY SupplyFits
  <2> HIDE DEF S, h, z, b, f
  <2>12. Total(z) = Total(H) - Total(h) /\ Total(h) \in Nat /\ Total(H) \in Nat
         /\ Total(z) \in Nat
    BY <2>1, <2>5, <2>6, <2>7, TotalDropped
  <2>13. IsFiniteSet(Addr)
    BY ChannelsAssumption
  <2>14. Total(h) = Total(f)
    BY <2>6, <2>9, <2>10, <2>13, TotalRename
  <2> QED BY <2>2, <2>8, <2>11, <2>12, <2>14
<1> QED BY <1>1, <1>2, <1>3 DEF SupplyInv, OwnedFits

\* The step that SupplyExplained speaks of.
SupplyStep ==
  \/ oversized' > 0
  \/ UNCHANGED <<tally, channels_Map, native_fees>>
  \/ \A p \in Prop :
       LET before == Supply(tally, channels_Map, native_fees, p)
           after  == Supply(tally', channels_Map', native_fees', p)
       IN  \/ after = before
           \/ \E c \in Chan :
                /\ channels_Map[c] # None /\ channels_Map'[c] = None
                /\ after = before - OfOutsiders(channels_Map[c], p)
           \/ /\ native_fees'[p] - native_fees[p] = after - before
              /\ UNCHANGED tally

\* Tokens appear and vanish only where SupplyExplained says so.
LEMMA StepSupply == SupplyInv /\ [Next]_vars => SupplyStep
<1> SUFFICES ASSUME SupplyInv, [Next]_vars, ~(oversized' > 0), NEW p \in Prop
             PROVE  \/ Supply(tally', channels_Map', native_fees', p)
                         = Supply(tally, channels_Map, native_fees, p)
                    \/ \E c \in Chan :
                         /\ channels_Map[c] # None /\ channels_Map'[c] = None
                         /\ Supply(tally', channels_Map', native_fees', p)
                              = Supply(tally, channels_Map, native_fees, p)
                                  - OfOutsiders(channels_Map[c], p)
                    \/ /\ native_fees'[p] - native_fees[p]
                            = Supply(tally', channels_Map', native_fees', p)
                                - Supply(tally, channels_Map, native_fees, p)
                       /\ UNCHANGED tally
  BY DEF SupplyStep
<1>0. oversized = 0 /\ oversized' = 0
  BY StepPlain DEF SupplyInv
<1>1. PlainOK /\ PlainOK'
  BY <1>0, StepPlain DEF SupplyInv
<1>2. /\ Supply(tally, channels_Map, native_fees, p)
           = Owned(tally, channels_Map, p) + native_fees[p]
      /\ Owned(tally, channels_Map, p) \in Nat /\ native_fees[p] \in Nat
  <2>1. tally \in [Account -> Nat] /\ channels_Map \in ChannelMaps
        /\ native_fees \in [Prop -> Nat]
    BY <1>1, OwnerTypes
  <2> QED BY <2>1, SupplyIsOwned
<1>3. /\ Supply(tally', channels_Map', native_fees', p)
           = Owned(tally', channels_Map', p) + native_fees'[p]
      /\ Owned(tally', channels_Map', p) \in Nat /\ native_fees'[p] \in Nat
  <2>1. tally' \in [Account -> Nat] /\ channels_Map' \in ChannelMaps
        /\ native_fees' \in [Prop -> Nat]
    BY <1>1 DEF PlainOK, TypeOK, ChannelMaps
  <2> QED BY <2>1, SupplyIsOwned
<1>4. OwnedExplained(p)
  BY <1>0, StepExplained DEF SupplyInv
<1>5. CASE Owned(tally', channels_Map', p) + native_fees'[p]
             = Owned(tally, channels_Map, p) + native_fees[p]
  BY <1>2, <1>3, <1>5
<1>6. CASE Owned(tally', channels_Map', p) = Owned(tally, channels_Map, p) /\ UNCHANGED tally
  BY <1>2, <1>3, <1>6
<1>7. ASSUME NEW c \in Chan, channels_Map[c] # None, channels_Map'[c] = None,
             Owned(tally', channels_Map', p)
               = Owned(tally, channels_Map, p) - OfOutsiders(channels_Map[c], p),
             OfOutsiders(channels_Map[c], p) \in Nat, native_fees'[p] = native_fees[p]
      PROVE  /\ channels_Map[c] # None /\ channels_Map'[c] = None
             /\ Supply(tally', channels_Map', native_fees', p)
                  = Supply(tally, channels_Map, native_fees, p)
                      - OfOutsiders(channels_Map[c], p)
  BY <1>2, <1>3, <1>7
<1> QED BY <1>4, <1>5, <1>6, <1>7 DEF OwnedExplained

\* For any traders, channels and properties: as long as no transaction names
\* more than MAX_INT64 tokens, no commit, trade, transfer or withdrawal creates
\* or destroys a token.  Only closing a channel loses what
\* third addresses had in it, and only a fee that takes a whole litecoin trade
\* is booked without being paid.
THEOREM ChannelsExplainSupply == Spec => SupplyExplained
<1>1. SupplyInv /\ [Next]_vars => [SupplyStep]_vars
  BY StepSupply
<1> QED BY <1>1, InitFits, StepFits, PTL DEF Spec, SupplyExplained, SupplyStep

-----------------------------------------------------------------------------
(* What becomes of a withdrawal *)

\* Removing one element of a list keeps all others.
LEMMA WithoutKeeps ==
  ASSUME NEW S, NEW s \in Seq(S), NEW k \in DOMAIN s, NEW i \in DOMAIN s, i # k
  PROVE  \E j \in DOMAIN Without(s, k) : Without(s, k)[j] = s[i]
<1> DEFINE u == SubSeq(s, 1, k - 1)
           v == SubSeq(s, k + 1, Len(s))
<1>1. k \in 1 .. Len(s) /\ i \in 1 .. Len(s) /\ Len(s) \in Nat
  OBVIOUS
<1>2. u \in Seq(S) /\ Len(u) = k - 1 /\ \A x \in 1 .. k - 1 : u[x] = s[x]
  BY <1>1, SubSeqProperties
<1>3. v \in Seq(S) /\ Len(v) = Len(s) - k
      /\ \A x \in 1 .. Len(s) - k : v[x] = s[k + x]
  BY <1>1, SubSeqProperties
<1> HIDE DEF u, v
<1>4. /\ u \o v \in Seq(S) /\ Len(u \o v) = Len(s) - 1
      /\ \A x \in 1 .. Len(u) + Len(v) : (u \o v)[x] = IF x <= Len(u) THEN u[x] ELSE v[x - Len(u)]
  <2>1. u \in Seq(S) /\ v \in Seq(S)
    BY <1>2, <1>3
  <2>2. /\ u \o v \in Seq(S) /\ Len(u \o v) = Len(u) + Len(v)
        /\ \A x \in 1 .. Len(u) + Len(v) :
             (u \o v)[x] = IF x <= Len(u) THEN u[x] ELSE v[x - Len(u)]
    BY <2>1, ConcatProperties
  <2>3. Len(u) + Len(v) = Len(s) - 1
    BY <1>1, <1>2, <1>3
  <2> QED BY <2>2, <2>3
<1>5. Without(s, k) = u \o v
  BY DEF Without, u, v
<1>6. DOMAIN (u \o v) = 1 .. Len(s) - 1
  BY <1>4
<1>7. CASE i < k
  <2>1. i \in 1 .. Len(s) - 1 /\ (u \o v)[i] = s[i]
    BY <1>1, <1>2, <1>3, <1>4, <1>7
  <2> QED BY <1>5, <1>6, <2>1
<1>8. CASE i > k
  <2>1. i - 1 \in 1 .. Len(s) - 1 /\ (u \o v)[i - 1] = v[i - k]
    <3>1. i - 1 \in 1 .. Len(u) + Len(v) /\ ~(i - 1 <= Len(u))
          /\ (i - 1) - Len(u) = i - k
      BY <1>1, <1>2, <1>3, <1>8
    <3>2. (u \o v)[i - 1] = v[(i - 1) - Len(u)]
      BY <1>4, <3>1
    <3>3. i - 1 \in 1 .. Len(s) - 1
      BY <1>1, <1>8
    <3> QED BY <3>1, <3>2, <3>3
  <2>2. v[i - k] = s[i]
    <3>1. i - k \in 1 .. Len(s) - k /\ k + (i - k) = i
      BY <1>1, <1>8
    <3> QED BY <1>3, <3>1
  <2> QED BY <1>5, <1>6, <2>1, <2>2
<1> QED BY <1>1, <1>7, <1>8

\* The step that WithdrawalHonoured speaks of.
HonourStep ==
  \A c \in Chan : \A i \in DOMAIN withdrawal_Map[c] :
    LET w == withdrawal_Map[c][i]
    IN  (\A j \in DOMAIN withdrawal_Map'[c] :
           withdrawal_Map'[c][j].txid # w.txid)
        => /\ w.left = 0
           /\ w.amount <= MAX_INT64 =>
                LET before == tally[Bal(w.address, w.prop)]
                IN  \/ tally'[Bal(w.address, w.prop)] = before + w.amount
                    \/ getRemaining(channels_Map[c], w.address, w.prop) < w.amount
                    \/ isOverflow(before, w.amount)

\* A withdrawal that is served is paid, unless the channel holds too little or
\* the balance would leave int64.
LEMMA ServedPays ==
  ASSUME TypeOK, NEW c \in Chan, NEW i \in DOMAIN withdrawal_Map[c], Served(c, i),
         NEW w, w = withdrawal_Map[c][i], w.amount <= MAX_INT64
  PROVE  \/ tally'[Bal(w.address, w.prop)] = tally[Bal(w.address, w.prop)] + w.amount
         \/ getRemaining(channels_Map[c], w.address, w.prop) < w.amount
         \/ isOverflow(tally[Bal(w.address, w.prop)], w.amount)
<1> DEFINE a   == w.address
           p   == w.prop
           n   == w.amount
           rem == getRemaining(channels_Map[c], a, p)
           old == tally[Bal(a, p)]
           neg == -n
<1>1. w \in Withdrawal /\ checkChannelAddress(c)
  BY DEF Served
<1>2. a \in Addr /\ a \in Party /\ p \in Prop /\ n \in UInt64
  BY <1>1 DEF Withdrawal, Party
<1>3. n \in Nat /\ ToInt64(n) = n /\ Neg64(ToInt64(n)) = neg
  <2> HIDE DEF n
  <2> QED BY <1>2, Conversions DEF n
<1>4. tally' = IF updateChannelBal(channels_Map[c], a, p, neg).ok
                 THEN update_tally_map(tally, Bal(a, p), n).tally ELSE tally
  BY <1>3 DEF Served
<1>5. channels_Map[c] \in Channel /\ tally \in [Account -> Nat]
  BY <1>1, Types
<1>6. rem \in Int64 /\ Bal(a, p) \in Account /\ Bal(a, p)[3] = "BALANCE"
  BY <1>2, <1>5 DEF getRemaining, Channel, Bal, Account
<1>7. updateChannelBal(channels_Map[c], a, p, neg).ok
        = (neg # 0 /\ ~isOverflow(rem, neg) /\ rem + neg >= 0)
  BY DEF updateChannelBal
<1>8. update_tally_map(tally, Bal(a, p), n).tally
        = [tally EXCEPT ![Bal(a, p)] = updateMoney(old, n, "BALANCE")]
  BY <1>6 DEF update_tally_map
<1>9. old \in Nat /\ rem \in Int /\ rem <= MAX_INT64 /\ MAX_INT64 \in Nat
  BY <1>5, <1>6, MaxInt64Assumption DEF Int64
<1>10. w.amount <= MAX_INT64
  OBVIOUS
<1> SUFFICES ASSUME ~(rem < n), ~isOverflow(old, n) PROVE tally'[Bal(a, p)] = old + n
  OBVIOUS
<1> HIDE DEF rem, old, a, p
<1>11. CASE n = 0
  <2>1. ~updateChannelBal(channels_Map[c], a, p, neg).ok
    <3>1. neg = 0
      <4>1. \A k \in Int : -k \in Int /\ -k + k = 0
        OBVIOUS
      <4>2. neg \in Int /\ neg + n = 0
        BY <1>3, <4>1
      <4> HIDE DEF neg
      <4> QED BY <1>11, <4>2
    <3> HIDE DEF neg
    <3> QED BY <1>7, <3>1
  <2>2. tally' = tally
    BY <1>4, <2>1
  <2> QED BY <1>9, <1>11, <2>2 DEF old
<1>12. CASE n # 0
  <2>1. neg # 0 /\ rem + neg >= 0 /\ ~isOverflow(rem, neg)
    <3> HIDE DEF n
    <3>1. rem - n >= 0 /\ rem - n <= MAX_INT64 /\ rem + neg = rem - n /\ neg # 0
          /\ neg \in Int /\ neg < 0 /\ -MAX_INT64 <= neg
      BY <1>3, <1>9, <1>10, <1>12 DEF n
    <3> HIDE DEF neg
    <3>2. ~isOverflow(rem, neg)
      BY <1>9, <3>1 DEF isOverflow, MIN_INT64
    <3> QED BY <3>1, <3>2
  <2>2. tally' = [tally EXCEPT ![Bal(a, p)] = updateMoney(old, n, "BALANCE")]
    BY <1>4, <1>7, <1>8, <2>1
  <2>3. updateMoney(old, n, "BALANCE") = old + n
    <3> HIDE DEF n
    <3> QED BY <1>3, <1>9, <1>12 DEF updateMoney, updateMoneyOk
  <2> HIDE DEF n
  <2> QED BY <1>5, <1>6, <2>2, <2>3
<1> QED BY <1>11, <1>12

\* Only makeWithdrawal takes a withdrawal out of the list.
LEMMA StepHonours == TypeOK /\ [Next]_vars => HonourStep
<1> SUFFICES ASSUME TypeOK, [Next]_vars, NEW c \in Chan,
                    NEW i \in DOMAIN withdrawal_Map[c],
                    \A j \in DOMAIN withdrawal_Map'[c] :
                      withdrawal_Map'[c][j].txid # withdrawal_Map[c][i].txid
             PROVE  Served(c, i)
  <2>1. ASSUME NEW c \in Chan, NEW i \in DOMAIN withdrawal_Map[c], Served(c, i)
        PROVE  withdrawal_Map[c][i].left = 0
    BY <2>1 DEF Served
  <2>2. ASSUME TypeOK, NEW c \in Chan, NEW i \in DOMAIN withdrawal_Map[c], Served(c, i),
               withdrawal_Map[c][i].amount <= MAX_INT64
        PROVE  LET w == withdrawal_Map[c][i]
               IN  \/ tally'[Bal(w.address, w.prop)] = tally[Bal(w.address, w.prop)] + w.amount
                   \/ getRemaining(channels_Map[c], w.address, w.prop) < w.amount
                   \/ isOverflow(tally[Bal(w.address, w.prop)], w.amount)
    BY <2>2, ServedPays
  <2> QED BY <2>1, <2>2 DEF HonourStep
<1>3. withdrawal_Map[c] \in Seq(Withdrawal) /\ withdrawal_Map \in [Chan -> Seq(Withdrawal)]
  BY DEF TypeOK
<1>4. withdrawal_Map'[c] # withdrawal_Map[c]
  OBVIOUS
<1>5. ASSUME NEW a \in Addr, NEW d \in Chan, NEW p \in Prop, NEW n \in WireAmount,
             NEW h \in TxId, Withdrawal_FromChannel(a, d, p, n, h)
      PROVE  FALSE
  <2> DEFINE w == [address |-> a, left |-> WithdrawalDelay, prop |-> p,
                   amount |-> n, txid |-> h]
  <2>1. withdrawal_Map' = [withdrawal_Map EXCEPT ![d] = Append(withdrawal_Map[d], w)]
    BY <1>5 DEF Withdrawal_FromChannel
  <2> HIDE DEF w
  <2>2. withdrawal_Map'[c] = Append(withdrawal_Map[c], w)
    BY <1>3, <1>4, <2>1
  <2>3. i \in DOMAIN Append(withdrawal_Map[c], w)
        /\ Append(withdrawal_Map[c], w)[i] = withdrawal_Map[c][i]
    BY <1>3
  <2> QED BY <2>2, <2>3
<1>6. ASSUME NEW a \in Addr, NEW d \in Chan, closeChannel(a, d) PROVE FALSE
  <2>1. withdrawal_Map' = [withdrawal_Map EXCEPT ![d] = <<>>] /\ withdrawal_Map[d] = <<>>
    BY <1>6 DEF closeChannel, isChannelWithdraw
  <2>2. withdrawal_Map'[c] = withdrawal_Map[c]
    BY <1>3, <2>1
  <2> QED BY <1>4, <2>2
<1>7. ASSUME block_begin PROVE FALSE
  <2>1. withdrawal_Map'[c] = [x \in DOMAIN withdrawal_Map[c] |->
          [withdrawal_Map[c][x] EXCEPT !.left = IF @ = 0 THEN 0 ELSE @ - 1]]
    BY <1>7 DEF block_begin
  <2>2. withdrawal_Map[c][i] \in Withdrawal
    BY <1>3
  <2>3. i \in DOMAIN withdrawal_Map'[c]
        /\ withdrawal_Map'[c][i] =
             [withdrawal_Map[c][i] EXCEPT !.left = IF @ = 0 THEN 0 ELSE @ - 1]
    BY <2>1
  <2>4. withdrawal_Map'[c][i].txid = withdrawal_Map[c][i].txid
    BY <2>2, <2>3 DEF Withdrawal
  <2> QED BY <2>3, <2>4
<1>8. ASSUME NEW d \in Chan, makeWithdrawal(d) PROVE Served(c, i)
  <2>1. PICK k \in DOMAIN withdrawal_Map[d] : Served(d, k)
    BY <1>8, ServesOne
  <2>2. withdrawal_Map' = [withdrawal_Map EXCEPT ![d] = Without(withdrawal_Map[d], k)]
    BY <2>1 DEF Served
  <2>3. d = c
    BY <1>3, <1>4, <2>2
  <2>4. withdrawal_Map'[c] = Without(withdrawal_Map[c], k)
    BY <1>3, <2>2, <2>3
  <2>5. k = i
    <3>1. SUFFICES ASSUME i # k PROVE FALSE
      OBVIOUS
    <3>2. \E j \in DOMAIN Without(withdrawal_Map[c], k) :
            Without(withdrawal_Map[c], k)[j] = withdrawal_Map[c][i]
      BY <1>3, <2>1, <2>3, <3>1, WithoutKeeps
    <3> QED BY <2>4, <3>2
  <2> QED BY <2>1, <2>3, <2>5
<1>9. withdrawal_Map' # withdrawal_Map
  BY <1>4
<1> QED BY <1>5, <1>6, <1>7, <1>8, <1>9, WhatChanges DEF Next

\* For any number of channels and withdrawals: one leaves the list only at its
\* deadline, and is then paid in full unless the channel no longer holds the
\* amount or the balance would leave int64.
THEOREM WithdrawalsHonoured == Spec => WithdrawalHonoured
<1>1. TypeOK /\ [Next]_vars => [HonourStep]_vars
  BY StepHonours
<1> QED BY <1>1, InitType, StepType, PTL DEF Spec, WithdrawalHonoured, HonourStep
=============================================================================
