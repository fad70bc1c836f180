------------------------------- MODULE MetaDEx -------------------------------
(***************************************************************************)
(* The exchange of tokens for tokens: the order book metadex, the matching *)
(* of a new order against it (x_Trade) and the cancellations.  The state   *)
(* is the book, the BALANCE and METADEX_RESERVE of the tally, the fees     *)
(* cache and the register of matched trades; the operations are            *)
(* logicMath_MetaDExTrade with MetaDEx_ADD, logicMath_MetaDExCancel and    *)
(* logicMath_MetaDExCancelAll.  All of them run under cs_tally; the loop   *)
(* of x_Trade is modelled one resting order per step, with no other        *)
(* operation in between.                                                   *)
(***************************************************************************)
EXTENDS Tally, Totals

CONSTANTS
  Addr,                \* addresses of traders
  Prop,                \* identifiers of the properties _my_sps knows
  None,                \* "no order is being matched"
  ALL,                 \* the property whose seller is not checked for KYC
  TL_PROPERTY_VESTING, \* the vesting property, which cannot be traded
  KycOk,               \* <<address, property>> that checkAttestationReg and
                       \* kycPropertyMatch accept
  BASISPOINT,          \* 100 in the code
  InitialBalance,      \* BALANCE of each <<address, property>> at the start
  \* bounds
  MaxAmount,           \* tokens for sale, and desired, in one order
  MaxOrders            \* orders made in a behaviour

VARIABLES
  tally,               \* mp_tally_map
  metadex,             \* the orders that rest in the book
  taker,               \* pnew while x_Trade runs, or None
  passed,              \* the resting orders x_Trade has dealt with for pnew
  native_fees,         \* g_fees->native_fees
  tradelist,           \* the matched trades of t_tradelistdb
  made                 \* how many orders were made

vars == <<tally, metadex, taker, passed, native_fees, tradelist, made>>

-----------------------------------------------------------------------------
MDexType == {"BALANCE", "METADEX_RESERVE"}
Account == Addr \X Prop \X MDexType
Bal(a, p) == <<a, p, "BALANCE">>
Res(a, p) == <<a, p, "METADEX_RESERVE">>

OrderId == 1 .. MaxOrders

\* CMPMetaDEx.  The id stands for the transaction: its hash, and its block and
\* position in the block, by which MetaDEx_compare orders.
Order == [id : OrderId, addr : Addr, property : Prop, forsale : Nat,
          desprop : Prop, desired : Nat, remaining : Nat]

\* A register of recordMatchedTrade: what the older order got and what it gave.
Trade == [old : OrderId, new : OrderId, paid : Nat, got : Nat]

ASSUME MetaDExAssumption ==
  /\ IsFiniteSet(Addr) /\ IsFiniteSet(Prop) /\ None \notin Order
  /\ KycOk \subseteq Addr \X Prop
  /\ BASISPOINT \in Nat \ {0}
  /\ InitialBalance \in [Addr \X Prop -> Nat]
  /\ {MaxAmount, MaxOrders} \subseteq Nat

Init ==
  /\ tally = [x \in Account |->
                IF x[3] = "BALANCE" THEN InitialBalance[<<x[1], x[2]>>] ELSE 0]
  /\ metadex = {}
  /\ taker = None
  /\ passed = {}
  /\ native_fees = [p \in Prop |-> 0]
  /\ tradelist = {}
  /\ made = 0

Ready == taker = None

\* What the resting orders of an address hold of a property.
Rested(book, a, p) ==
  Total([o \in {x \in book : x.addr = a /\ x.property = p} |-> o.remaining])

DivideAndRoundUp(n, d) == IF n = 0 THEN 0 ELSE 1 + (n - 1) \div d

-----------------------------------------------------------------------------
(* Prices.  unitPrice is desired / forsale and inversePrice its inverse, of *)
(* the amounts the order was made with; fractions are compared crosswise.   *)

\* old->unitPrice() <= new->inversePrice()
Crosses(new, old) == old.desired * new.desired <= new.forsale * old.forsale

\* lhs->unitPrice() < rhs->unitPrice()
Cheaper(lhs, rhs) == lhs.desired * rhs.forsale < rhs.desired * lhs.forsale

\* The order in which x_Trade meets two resting orders: price map, then md_Set.
Before(lhs, rhs) ==
  \/ Cheaper(lhs, rhs)
  \/ ~Cheaper(rhs, lhs) /\ lhs.id < rhs.id

\* Mutant: what can be bought is rounded up.
CouldBuyUp(new, old) ==
  LET n == DivideAndRoundUp(new.remaining * old.forsale, old.desired)
  IN  IF n < old.remaining THEN n ELSE old.remaining

\* nCouldBuy: what the new order can buy at the old one's price, rounded down.
CouldBuy(new, old) ==
  LET n == (new.remaining * old.forsale) \div old.desired
  IN  IF n < old.remaining THEN n ELSE old.remaining

\* Mutant: what the new order pays is rounded down.
WouldPayDown(old, n) == (n * old.desired) \div old.forsale

\* nWouldPay: what n tokens of the old order cost, rounded up.
WouldPay(old, n) == DivideAndRoundUp(n * old.desired, old.forsale)

\* xEffectivePrice > pnew->inversePrice()
TooExpensive(new, n, pay) == pay * new.desired > n * new.forsale

-----------------------------------------------------------------------------
(* Orders *)

\* Mutant: an order is accepted whatever the sender's balance.
checkReserveAny(a, p, n) == tally[Bal(a, p)] # 0

\* The balance must cover the amount and 0.05 % of it.
checkReserve(a, p, n) ==
  LET reserve == n + DivideAndRoundUp(n * 5, BASISPOINT * BASISPOINT)
  IN  tally[Bal(a, p)] >= reserve /\ tally[Bal(a, p)] # 0

\* Tx 25 up to the call of x_Trade.  When ALL is sold, the KYC id is not
\* initialised and the check of the desired property may go either way.
MetaDExTrade(a, p, n, d, m) ==
  /\ Ready
  /\ p # d /\ TL_PROPERTY_VESTING \notin {p, d}
  /\ p = ALL \/ {<<a, p>>, <<a, d>>} \subseteq KycOk
  /\ n > 0 /\ m > 0
  /\ checkReserve(a, p, n)
  /\ made < MaxOrders
  /\ made' = made + 1
  /\ taker' = [id |-> made + 1, addr |-> a, property |-> p, forsale |-> n,
               desprop |-> d, desired |-> m, remaining |-> n]
  /\ passed' = {}
  /\ UNCHANGED <<tally, metadex, native_fees, tradelist>>

\* The resting orders x_Trade still has to look at for pnew.
Candidates ==
  {o \in metadex : /\ o.id \notin passed
                   /\ o.property = taker.desprop
                   /\ o.desprop = taker.property
                   /\ Crosses(taker, o)}

\* The next resting order of the loop; there is none once pnew is used up.
Looking(o) ==
  /\ taker # None
  /\ taker.remaining > 0
  /\ o \in Candidates
  /\ \A x \in Candidates \ {o} : Before(o, x)

\* Mutant: x_Trade ends with the first order it looks at.
AdvanceToEnd(o) == OrderId

\* The iterators move past the order, also when a part of it stays.
Advance(o) == passed \cup {o.id}

\* x_Trade: no unit can be bought, or only for more than the new order allows.
x_TradeSkip(o) ==
  LET n == CouldBuy(taker, o)
  IN  /\ Looking(o)
      /\ n = 0 \/ TooExpensive(taker, n, WouldPay(o, n))
      /\ passed' = Advance(o)
      /\ UNCHANGED <<tally, metadex, taker, native_fees, tradelist, made>>

\* MetaDEx_Fees: 0.01 % rounded up of what the new order got, five times of
\* which is taken from it; four times go to the old order.
CacheFee(got) == DivideAndRoundUp(got, BASISPOINT * BASISPOINT)
Fees(t, new, old, got) ==
  update_tally_map(
    update_tally_map(t, Bal(new.addr, new.desprop), -5 * CacheFee(got)).tally,
    Bal(old.addr, old.property), 4 * CacheFee(got)).tally

\* Mutant: the reserve is debited by the payment.
PaymentMixed(t, new, old, got, pay) ==
  LET paid == Move(t, Bal(new.addr, new.property), Bal(old.addr, old.desprop), pay).tally
  IN  update_tally_map(
        update_tally_map(paid, Res(old.addr, old.property), -pay).tally,
        Bal(new.addr, new.desprop), got).tally

\* The transfers of a match, before the fees.
Payment(t, new, old, got, pay) ==
  Move(Move(t, Bal(new.addr, new.property), Bal(old.addr, old.desprop), pay).tally,
       Res(old.addr, old.property), Bal(new.addr, new.desprop), got).tally

\* Mutant: an order that is not used up goes back into the book as it was.
ReplacementStale(old, got) == IF old.remaining = got THEN {} ELSE {old}

\* The old order after the match: it leaves the book when nothing remains.
Replacement(old, got) ==
  IF old.remaining = got THEN {}
  ELSE {[old EXCEPT !.remaining = @ - got]}

\* x_Trade: the match.  The fee is booked under the property that pnew sells.
x_Trade(o) ==
  LET got == CouldBuy(taker, o)
      pay == WouldPay(o, got)
  IN  /\ Looking(o)
      /\ got # 0 /\ ~TooExpensive(taker, got, pay)
      /\ tally' = Fees(Payment(tally, taker, o, got, pay), taker, o, got)
      /\ native_fees' = [native_fees EXCEPT ![taker.property] = @ + CacheFee(got)]
      /\ tradelist' = tradelist \cup
           {[old |-> o.id, new |-> taker.id, paid |-> pay, got |-> got]}
      /\ metadex' = (metadex \ {o}) \cup Replacement(o, got)
      /\ taker' = [taker EXCEPT !.remaining = @ - pay]
      /\ passed' = Advance(o)
      /\ UNCHANGED made

\* Mutant: the whole amount for sale is reserved, not what remains of it.
MetaDEx_INSERTWhole ==
  /\ taker # None
  /\ taker.remaining = 0 \/ Candidates = {}
  /\ metadex' = IF taker.remaining > 0 THEN metadex \cup {taker} ELSE metadex
  /\ tally' = IF taker.remaining > 0
                THEN Move(tally, Bal(taker.addr, taker.property),
                          Res(taker.addr, taker.property), taker.forsale).tally
                ELSE tally
  /\ taker' = None
  /\ passed' = {}
  /\ UNCHANGED <<native_fees, tradelist, made>>

\* MetaDEx_ADD after x_Trade: what remains is put into the book and reserved.
MetaDEx_INSERT ==
  /\ taker # None
  /\ taker.remaining = 0 \/ Candidates = {}
  /\ metadex' = IF taker.remaining > 0 THEN metadex \cup {taker} ELSE metadex
  /\ tally' = IF taker.remaining > 0
                THEN Move(tally, Bal(taker.addr, taker.property),
                          Res(taker.addr, taker.property), taker.remaining).tally
                ELSE tally
  /\ taker' = None
  /\ passed' = {}
  /\ UNCHANGED <<native_fees, tradelist, made>>

\* Tx 35: one order, named by its transaction.
MetaDEx_CANCEL(a, o) ==
  /\ Ready
  /\ o \in metadex /\ o.addr = a
  /\ tally' = Move(tally, Res(a, o.property), Bal(a, o.property), o.remaining).tally
  /\ metadex' = metadex \ {o}
  /\ UNCHANGED <<taker, passed, native_fees, tradelist, made>>

\* Tx 26: all orders of the sender.
MetaDEx_CANCEL_EVERYTHING(a) ==
  /\ Ready
  /\ tally' = [x \in Account |->
       IF x[1] # a THEN tally[x]
       ELSE updateMoney(tally[x], IF x[3] = "BALANCE" THEN Rested(metadex, a, x[2])
                                  ELSE -Rested(metadex, a, x[2]), x[3])]
  /\ metadex' = {o \in metadex : o.addr # a}
  /\ UNCHANGED <<taker, passed, native_fees, tradelist, made>>

Next ==
  \/ \E a \in Addr, p, d \in Prop, n, m \in 1 .. MaxAmount :
       MetaDExTrade(a, p, n, d, m)
  \/ \E o \in metadex : x_TradeSkip(o) \/ x_Trade(o)
  \/ MetaDEx_INSERT
  \/ \E a \in Addr : \/ \E o \in metadex : MetaDEx_CANCEL(a, o)
                     \/ MetaDEx_CANCEL_EVERYTHING(a)

Spec == Init /\ [][Next]_vars

-----------------------------------------------------------------------------
(* Properties *)

TypeOK ==
  /\ tally \in [Account -> Nat]
  /\ metadex \subseteq Order /\ IsFiniteSet(metadex)
  /\ taker \in Order \cup {None}
  /\ passed \subseteq OrderId
  /\ native_fees \in [Prop -> Nat]
  /\ tradelist \subseteq Trade
  /\ made \in 0 .. MaxOrders

\* METADEX_RESERVE of an address is what its resting orders still offer, so
\* that every match and every cancellation finds the tokens it moves (a debit
\* beyond the reserve would be cut to 0 by updateMoney, creating tokens).
ReserveBacksOrders ==
  \A a \in Addr, p \in Prop : tally[Res(a, p)] = Rested(metadex, a, p)

\* While x_Trade runs, the balance still covers what remains of the new order,
\* though fees are taken and other orders of the same address may be matched.
TakerCovered ==
  taker # None => tally[Bal(taker.addr, taker.property)] >= taker.remaining

\* The assertions of x_Trade hold for the resting order it looks at: both
\* amounts positive, the effective price within the limits of both orders, and
\* neither side giving more than remains.
NoAssertFails ==
  \A o \in metadex : Looking(o) =>
    LET n   == CouldBuy(taker, o)
        pay == WouldPay(o, n)
    IN  /\ 0 < o.remaining
        /\ n # 0 /\ ~TooExpensive(taker, n, pay) =>
             /\ pay * o.forsale >= n * o.desired
             /\ n <= o.remaining
             /\ pay <= taker.remaining

\* What t_tradelistdb says was sold of an order.
Sold(id) ==
  Total([t \in {x \in tradelist : x.old = id} |-> t.got]) +
  Total([t \in {x \in tradelist : x.new = id} |-> t.paid])

\* The register of trades explains the book: what a resting order no longer
\* offers is what the register says it sold, as maker and as taker together.
TradelistExplainsBook ==
  \A o \in metadex : o.remaining + Sold(o.id) = o.forsale

\* BALANCE and METADEX_RESERVE of all addresses together.
Supply(t, p) == Total([x \in Addr \X MDexType |-> t[<<x[1], p, x[2]>>]])

\* Only the fees of a match change how many tokens of a property the addresses
\* have: the fee of the property bought leaves them, or, if the buyer has less
\* than the five parts it owes, the four parts of the maker are partly new.
SupplyByFeesOnly ==
  [][\A p \in Prop :
       \/ Supply(tally', p) = Supply(tally, p)
       \/ \E t \in tradelist' \ tradelist :
            LET got  == t.got
                fee  == CacheFee(got)
                had  == tally[Bal(taker.addr, p)] + got
            IN  /\ p = taker.desprop
                /\ Supply(tally', p) = Supply(tally, p) + 4 * fee
                                       - (IF had < 5 * fee THEN had ELSE 5 * fee)]_vars

\* Two orders that rest side by side cross by less than one unit of payment:
\* the surplus that the newer order would leave at the older one's price, for
\* all it can still buy, is smaller than what rounding the payment up can cost.
\* x_Trade looks at each order once and skips one whose rounded price is too
\* high, so that a book that is crossed by a fraction of a unit does rest.
CrossedBelowUnit ==
  \A new, old \in metadex :
    /\ old.id < new.id
    /\ old.property = new.desprop /\ old.desprop = new.property
    => CouldBuy(new, old) * (new.forsale * old.forsale - new.desired * old.desired)
         < new.desired * old.forsale
=============================================================================
