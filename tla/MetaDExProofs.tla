---------------------------- MODULE MetaDExProofs ----------------------------
(***************************************************************************)
(* The exchange of tokens for tokens, for any addresses, properties,       *)
(* amounts and number of orders: types, the assertions of x_Trade, that    *)
(* the reserves back the book, that the register of trades explains it,    *)
(* that resting orders cross by less than a unit, and that only fees       *)
(* change the supply.                                                      *)
(***************************************************************************)
EXTENDS MetaDEx, TotalsProofs

-----------------------------------------------------------------------------
(* Arithmetic of a match *)

\* What \div computes, without \div.
LEMMA DivBounds ==
  ASSUME NEW n \in Nat, NEW d \in Nat \ {0}
  PROVE  /\ n \div d \in Nat
         /\ (n \div d) * d <= n
         /\ n < (n \div d) * d + d
<1>1. n \div d \in Int /\ n = d * (n \div d) + (n % d) /\ n % d \in 0 .. d - 1
  OBVIOUS
<1>2. n \div d \in Nat
  OBVIOUS
<1> DEFINE q == n \div d
<1>3. d * q = q * d
  BY <1>2
<1> HIDE DEF q
<1> QED BY <1>1, <1>2, <1>3 DEF q

\* What DivideAndRoundUp computes.
LEMMA RoundUpBounds ==
  ASSUME NEW n \in Nat, NEW d \in Nat \ {0}
  PROVE  LET c == DivideAndRoundUp(n, d)
         IN  /\ c \in Nat
             /\ n <= c * d
             /\ c * d < n + d
             /\ n > 0 => c > 0
<1>1. CASE n = 0
  BY <1>1 DEF DivideAndRoundUp
<1>2. CASE n # 0
  <2> DEFINE q == (n - 1) \div d
  <2>1. n - 1 \in Nat
    BY <1>2
  <2>2. q \in Nat /\ q * d <= n - 1 /\ n - 1 < q * d + d
    BY <2>1, DivBounds
  <2>3. DivideAndRoundUp(n, d) = 1 + q
    BY <1>2 DEF DivideAndRoundUp
  <2> HIDE DEF q
  <2>4. (1 + q) * d = d + q * d
    BY <2>2
  <2> QED BY <2>2, <2>3, <2>4
<1> QED BY <1>1, <1>2

\* A positive factor can be cancelled.
LEMMA Cancel ==
  ASSUME NEW a \in Nat, NEW b \in Nat, NEW d \in Nat \ {0}, a * d < b * d
  PROVE  a < b
<1>1. SUFFICES ASSUME b <= a PROVE FALSE
  OBVIOUS
<1>2. PICK k \in Nat : a = b + k
  <2>1. a - b \in Nat /\ a = b + (a - b)
    BY <1>1
  <2> QED BY <2>1
<1>3. a * d = b * d + k * d /\ k * d \in Nat /\ b * d \in Nat
  BY <1>2
<1> QED BY <1>3

\* Products keep an order.
LEMMA MulMono ==
  ASSUME NEW a \in Nat, NEW b \in Nat, NEW d \in Nat, a <= b
  PROVE  a * d <= b * d
<1>1. PICK k \in Nat : b = a + k
  <2>1. b - a \in Nat /\ b = a + (b - a)
    OBVIOUS
  <2> QED BY <2>1
<1>2. b * d = a * d + k * d /\ k * d \in Nat /\ a * d \in Nat
  BY <1>1
<1> QED BY <1>2

\* What an order has to be for its prices to make sense.
Priced(o) == o.forsale > 0 /\ o.desired > 0

\* nCouldBuy is bounded by what rests, and by what the new order can pay.
LEMMA CouldBuyBounds ==
  ASSUME NEW new \in Order, NEW old \in Order, Priced(old)
  PROVE  LET n == CouldBuy(new, old)
         IN  /\ n \in Nat
             /\ n <= old.remaining
             /\ n * old.desired <= new.remaining * old.forsale
             /\ n < old.remaining =>
                  new.remaining * old.forsale < n * old.desired + old.desired
<1> DEFINE r == new.remaining
           F == old.forsale
           D == old.desired
           R == old.remaining
           q == (r * F) \div D
           n == CouldBuy(new, old)
<1>1. r \in Nat /\ F \in Nat \ {0} /\ D \in Nat \ {0} /\ R \in Nat
  BY DEF Order, Priced
<1>2. n = IF q < R THEN q ELSE R
  BY DEF CouldBuy
<1> HIDE DEF r, F, D, R, n
<1>3. r * F \in Nat
  BY <1>1
<1>4. q \in Nat /\ q * D <= r * F /\ r * F < q * D + D
  BY <1>1, <1>3, DivBounds
<1> HIDE DEF q
<1>5. CASE q < R
  BY <1>1, <1>2, <1>4, <1>5 DEF r, F, D, R, n
<1>6. CASE ~(q < R)
  <2>1. n = R /\ R <= q
    BY <1>1, <1>2, <1>4, <1>6
  <2>2. R * D <= q * D
    BY <1>1, <1>4, <2>1, MulMono
  <2>3. R * D <= r * F
    <3>1. R * D \in Nat /\ q * D \in Nat
      BY <1>1, <1>4
    <3> QED BY <1>3, <1>4, <2>2, <3>1
  <2> QED BY <1>1, <2>1, <2>3 DEF r, F, D, R, n
<1> QED BY <1>5, <1>6

\* nWouldPay covers the old order's price by less than one unit, and the new
\* order has that much.
LEMMA WouldPayBounds ==
  ASSUME NEW new \in Order, NEW old \in Order, Priced(old)
  PROVE  LET n   == CouldBuy(new, old)
             pay == WouldPay(old, n)
         IN  /\ pay \in Nat
             /\ n * old.desired <= pay * old.forsale
             /\ pay * old.forsale < n * old.desired + old.forsale
             /\ pay <= new.remaining
<1> DEFINE r == new.remaining
           F == old.forsale
           D == old.desired
           n == CouldBuy(new, old)
           pay == WouldPay(old, n)
<1>1. r \in Nat /\ F \in Nat \ {0} /\ D \in Nat \ {0}
  BY DEF Order, Priced
<1>2. n \in Nat /\ n * D <= r * F
  BY CouldBuyBounds
<1>3. pay = DivideAndRoundUp(n * D, F)
  BY DEF WouldPay
<1> HIDE DEF r, F, D, n, pay
<1>4. n * D \in Nat /\ r * F \in Nat
  BY <1>1, <1>2
<1>5. pay \in Nat /\ n * D <= pay * F /\ pay * F < n * D + F
  BY <1>1, <1>3, <1>4, RoundUpBounds
<1>6. pay * F < (r + 1) * F
  <2>1. (r + 1) * F = r * F + F
    BY <1>1
  <2>2. pay * F \in Nat
    BY <1>1, <1>5
  <2> QED BY <1>1, <1>2, <1>4, <1>5, <2>1, <2>2
<1>7. pay < r + 1
  BY <1>1, <1>5, <1>6, Cancel
<1> QED BY <1>1, <1>5, <1>7 DEF r, F, D, n, pay

-----------------------------------------------------------------------------
(* The inductive invariant *)

\* The orders that matching can meet: positive prices, a remainder to sell,
\* identifiers that are unique and, in the book, older than the taker's.
OrdersOK ==
  /\ \A o \in metadex : /\ Priced(o) /\ o.property # o.desprop
                        /\ 0 < o.remaining /\ o.id <= made
  /\ \A o, x \in metadex : o.id = x.id => o = x
  /\ taker # None => /\ Priced(taker) /\ taker.property # taker.desprop
                     /\ taker.id = made
                     /\ \A o \in metadex : o.id < taker.id

\* The trades of the register are between an older and a newer order, and the
\* taker has traded only with orders it has passed.
TradesOK ==
  /\ IsFiniteSet(tradelist)
  /\ \A t \in tradelist : t.old < t.new /\ t.new <= made
  /\ taker # None => \A t \in tradelist : t.new = taker.id => t.old \in passed

\* TradelistExplainsBook, for the order that is being matched.
TradelistExplainsTaker ==
  taker # None => taker.remaining + Sold(taker.id) = taker.forsale

\* CrossedBelowUnit for a pair of orders, and for the taker and those it passed.
Uncrossed(new, old) ==
  CouldBuy(new, old) * (new.forsale * old.forsale - new.desired * old.desired)
    < new.desired * old.forsale
TakerUncrossed ==
  taker # None =>
    \A o \in metadex : /\ o.property = taker.desprop /\ o.desprop = taker.property
                       /\ o.id \in passed
                       => Uncrossed(taker, o)

\* Types, orders and trades together: no other part is needed to keep them.
ShapeInv == TypeOK /\ OrdersOK /\ TradesOK

-----------------------------------------------------------------------------
(* Types *)

\* updateMoney keeps a balance or a reserve a natural number.
LEMMA MoneyType ==
  ASSUME NEW now \in Nat, NEW n \in Int, NEW ty \in MDexType
  PROVE  updateMoney(now, n, ty) \in Nat
BY DEF updateMoney, updateMoneyOk, MayBeNegative, MDexType

\* So does update_tally_map for all accounts.
LEMMA UpdateType ==
  ASSUME NEW t \in [Account -> Nat], NEW acc \in Account, NEW n \in Int
  PROVE  update_tally_map(t, acc, n).tally \in [Account -> Nat]
<1>1. t[acc] \in Nat /\ acc[3] \in MDexType
  BY DEF Account
<1>2. updateMoney(t[acc], n, acc[3]) \in Nat
  BY <1>1, MoneyType
<1> QED BY <1>2 DEF update_tally_map

\* And Move.
LEMMA MoveType ==
  ASSUME NEW t \in [Account -> Nat], NEW src \in Account, NEW dst \in Account,
         NEW n \in Int
  PROVE  Move(t, src, dst, n).tally \in [Account -> Nat]
<1>1. -n \in Int
  OBVIOUS
<1>2. update_tally_map(t, src, -n).tally \in [Account -> Nat]
  BY <1>1, UpdateType
<1>3. update_tally_map(update_tally_map(t, src, -n).tally, dst, n).tally \in [Account -> Nat]
  BY <1>2, UpdateType
<1> QED BY <1>3 DEF Move

\* The accounts of an address.
LEMMA AccountTypes ==
  ASSUME NEW a \in Addr, NEW p \in Prop
  PROVE  Bal(a, p) \in Account /\ Res(a, p) \in Account
BY DEF Bal, Res, Account, MDexType

\* An order after it has sold k tokens.
Reduced(o, k) == [o EXCEPT !.remaining = @ - k]

\* It differs from the order in what remains only.
LEMMA ReducedOrder ==
  ASSUME NEW o \in Order, NEW k \in Nat, k <= o.remaining
  PROVE  /\ Reduced(o, k) \in Order
         /\ Reduced(o, k).remaining = o.remaining - k
         /\ Reduced(o, k).id = o.id /\ Reduced(o, k).addr = o.addr
         /\ Reduced(o, k).property = o.property /\ Reduced(o, k).desprop = o.desprop
         /\ Reduced(o, k).forsale = o.forsale /\ Reduced(o, k).desired = o.desired
<1>1. o.remaining - k \in Nat
  BY DEF Order
<1> QED BY <1>1 DEF Order, Reduced

\* What is known of the resting order that x_Trade looks at.
LEMMA LookingFacts ==
  ASSUME ShapeInv, NEW o \in metadex, Looking(o)
  PROVE  /\ taker # None /\ taker \in Order /\ o \in Order
         /\ Priced(taker) /\ Priced(o)
         /\ o.id \notin passed /\ o.id < taker.id
         /\ o.property = taker.desprop /\ o.desprop = taker.property
         /\ o.property # o.desprop
         /\ CouldBuy(taker, o) \in Nat /\ CouldBuy(taker, o) <= o.remaining
         /\ WouldPay(o, CouldBuy(taker, o)) \in Nat
         /\ WouldPay(o, CouldBuy(taker, o)) <= taker.remaining
<1>1. /\ taker # None /\ taker \in Order /\ o \in Order
      /\ Priced(taker) /\ Priced(o)
      /\ o.id < taker.id /\ o.property # o.desprop
  BY DEF ShapeInv, TypeOK, OrdersOK, Looking
<1>2. /\ o.id \notin passed
      /\ o.property = taker.desprop /\ o.desprop = taker.property
  BY DEF Looking, Candidates
<1> QED BY <1>1, <1>2, CouldBuyBounds, WouldPayBounds

\* What a match does to the book, the taker and the register.
LEMMA MatchFacts ==
  ASSUME ShapeInv, NEW o \in metadex, x_Trade(o)
  PROVE  LET got == CouldBuy(taker, o)
             pay == WouldPay(o, got)
         IN  /\ got # 0
             /\ metadex' = (metadex \ {o}) \cup
                             (IF o.remaining = got THEN {} ELSE {Reduced(o, got)})
             /\ taker' = Reduced(taker, pay) /\ taker' # None /\ taker' \in Order
             /\ Reduced(o, got) \in Order
             /\ tradelist' = tradelist \cup
                  {[old |-> o.id, new |-> taker.id, paid |-> pay, got |-> got]}
             /\ passed' = passed \cup {o.id}
             /\ made' = made
<1> DEFINE got == CouldBuy(taker, o)
           pay == WouldPay(o, got)
<1>1. /\ got \in Nat /\ got <= o.remaining /\ pay \in Nat /\ pay <= taker.remaining
      /\ taker \in Order /\ o \in Order /\ taker # None
  BY LookingFacts DEF x_Trade
<1>2. Reduced(taker, pay) \in Order /\ Reduced(o, got) \in Order
  <2> HIDE DEF got, pay
  <2> QED BY <1>1, ReducedOrder
<1>3. None \notin Order
  BY MetaDExAssumption
<1>4. /\ got # 0
      /\ metadex' = (metadex \ {o}) \cup Replacement(o, got)
      /\ taker' = Reduced(taker, pay)
      /\ tradelist' = tradelist \cup
           {[old |-> o.id, new |-> taker.id, paid |-> pay, got |-> got]}
      /\ passed' = passed \cup {o.id}
      /\ made' = made
  BY DEF x_Trade, Advance, Reduced
<1>5. Replacement(o, got) = IF o.remaining = got THEN {} ELSE {Reduced(o, got)}
  BY DEF Replacement, Reduced
<1> QED BY <1>2, <1>3, <1>4, <1>5

\* The register of a match is a trade.
LEMMA TradeType ==
  ASSUME NEW i \in OrderId, NEW j \in OrderId, NEW k \in Nat, NEW n \in Nat
  PROVE  [old |-> i, new |-> j, paid |-> k, got |-> n] \in Trade
BY DEF Trade

\* The fee is a natural number, at most what was bought.
LEMMA FeeType ==
  ASSUME NEW got \in Nat
  PROVE  CacheFee(got) \in Nat
<1>1. BASISPOINT * BASISPOINT \in Nat \ {0}
  BY MetaDExAssumption
<1> QED BY <1>1, RoundUpBounds DEF CacheFee

\* Fees and Payment keep the type of the tally.
LEMMA MatchTallyType ==
  ASSUME NEW t \in [Account -> Nat], NEW new \in Order, NEW old \in Order,
         NEW got \in Nat, NEW pay \in Nat
  PROVE  Fees(Payment(t, new, old, got, pay), new, old, got) \in [Account -> Nat]
<1>1. /\ Bal(new.addr, new.property) \in Account /\ Bal(new.addr, new.desprop) \in Account
      /\ Bal(old.addr, old.property) \in Account /\ Bal(old.addr, old.desprop) \in Account
      /\ Res(old.addr, old.property) \in Account
  BY AccountTypes DEF Order
<1>2. Payment(t, new, old, got, pay) \in [Account -> Nat]
  <2> DEFINE m == Move(t, Bal(new.addr, new.property), Bal(old.addr, old.desprop), pay).tally
  <2>1. m \in [Account -> Nat]
    BY <1>1, MoveType
  <2>2. Payment(t, new, old, got, pay)
          = Move(m, Res(old.addr, old.property), Bal(new.addr, new.desprop), got).tally
    BY DEF Payment
  <2> HIDE DEF m
  <2> QED BY <1>1, <2>1, <2>2, MoveType
<1>3. -5 * CacheFee(got) \in Int /\ 4 * CacheFee(got) \in Int
  BY FeeType
<1> DEFINE t1 == Payment(t, new, old, got, pay)
           t2 == update_tally_map(t1, Bal(new.addr, new.desprop), -5 * CacheFee(got)).tally
<1> HIDE DEF t1
<1>4. t2 \in [Account -> Nat]
  BY <1>1, <1>2, <1>3, UpdateType DEF t1
<1>5. Fees(t1, new, old, got)
        = update_tally_map(t2, Bal(old.addr, old.property), 4 * CacheFee(got)).tally
  BY DEF Fees
<1> HIDE DEF t2
<1>6. Fees(t1, new, old, got) \in [Account -> Nat]
  BY <1>1, <1>3, <1>4, <1>5, UpdateType
<1> QED BY <1>6 DEF t1

\* What the orders of an address offer is a natural number.
LEMMA RestedType ==
  ASSUME NEW book \in SUBSET Order, IsFiniteSet(book), NEW a, NEW p
  PROVE  Rested(book, a, p) \in Nat
<1> DEFINE S == {x \in book : x.addr = a /\ x.property = p}
           f == [o \in S |-> o.remaining]
<1>1. IsFiniteSet(S)
  BY FS_Subset
<1>2. f \in [S -> Nat]
  BY DEF Order
<1> QED BY <1>1, <1>2, TotalType DEF Rested

\* Every step keeps the types.
LEMMA StepType == ShapeInv /\ [Next]_vars => TypeOK'
<1> SUFFICES ASSUME ShapeInv, [Next]_vars PROVE TypeOK'
  OBVIOUS
<1>1. /\ tally \in [Account -> Nat]
      /\ metadex \subseteq Order /\ IsFiniteSet(metadex)
      /\ taker \in Order \cup {None}
      /\ passed \subseteq OrderId
      /\ native_fees \in [Prop -> Nat]
      /\ tradelist \subseteq Trade
      /\ made \in 0 .. MaxOrders /\ MaxOrders \in Nat
  BY MetaDExAssumption DEF ShapeInv, TypeOK
<1>2. ASSUME NEW a \in Addr, NEW p \in Prop, NEW d \in Prop, NEW n \in 1 .. MaxAmount,
             NEW m \in 1 .. MaxAmount, MetaDExTrade(a, p, n, d, m)
      PROVE  TypeOK'
  <2>1. made' \in 0 .. MaxOrders /\ made + 1 \in OrderId
    BY <1>1, <1>2 DEF MetaDExTrade, OrderId
  <2>2. taker' \in Order
    BY <1>2, <2>1 DEF MetaDExTrade, Order
  <2> QED BY <1>1, <1>2, <2>1, <2>2 DEF MetaDExTrade, TypeOK
<1>3. ASSUME NEW o \in metadex, x_TradeSkip(o) PROVE TypeOK'
  BY <1>1, <1>3 DEF x_TradeSkip, Advance, TypeOK, Order
<1>4. ASSUME NEW o \in metadex, x_Trade(o) PROVE TypeOK'
  <2> DEFINE got == CouldBuy(taker, o)
             pay == WouldPay(o, got)
             rest == IF o.remaining = got THEN {} ELSE {Reduced(o, got)}
  <2>1. /\ taker # None /\ taker \in Order /\ o \in Order
        /\ got \in Nat /\ pay \in Nat
    BY <1>4, LookingFacts DEF x_Trade
  <2>2. /\ metadex' = (metadex \ {o}) \cup rest
        /\ taker' \in Order
        /\ Reduced(o, got) \in Order
        /\ tradelist' = tradelist \cup
             {[old |-> o.id, new |-> taker.id, paid |-> pay, got |-> got]}
        /\ passed' = passed \cup {o.id}
        /\ made' = made
    BY <1>4, MatchFacts
  <2>3. /\ tally' = Fees(Payment(tally, taker, o, got, pay), taker, o, got)
        /\ native_fees' = [native_fees EXCEPT ![taker.property] = @ + CacheFee(got)]
    BY <1>4 DEF x_Trade
  <2> HIDE DEF got, pay
  <2>4. tally' \in [Account -> Nat]
    BY <1>1, <2>1, <2>3, MatchTallyType
  <2>5. native_fees' \in [Prop -> Nat]
    BY <1>1, <2>1, <2>3, FeeType DEF Order
  <2>6. tradelist' \subseteq Trade /\ passed' \subseteq OrderId
    BY <1>1, <2>1, <2>2, TradeType DEF Order
  <2>7. metadex' \subseteq Order /\ IsFiniteSet(metadex')
    <3>1. IsFiniteSet(metadex \ {o})
      BY <1>1, FS_Difference
    <3>2. IsFiniteSet(rest)
      BY FS_EmptySet, FS_Singleton
    <3>3. IsFiniteSet((metadex \ {o}) \cup rest)
      BY <3>1, <3>2, FS_Union
    <3> QED BY <1>1, <2>2, <3>3
  <2> QED BY <1>1, <2>2, <2>4, <2>5, <2>6, <2>7 DEF TypeOK
<1>5. CASE MetaDEx_INSERT
  <2>1. taker # None /\ taker \in Order
    BY <1>1, <1>5 DEF MetaDEx_INSERT
  <2>2. metadex' \subseteq Order /\ IsFiniteSet(metadex')
    BY <1>1, <1>5, <2>1, FS_AddElement DEF MetaDEx_INSERT
  <2>3. tally' \in [Account -> Nat]
    <3>1. Bal(taker.addr, taker.property) \in Account
          /\ Res(taker.addr, taker.property) \in Account /\ taker.remaining \in Int
      BY <2>1, AccountTypes DEF Order
    <3>2. Move(tally, Bal(taker.addr, taker.property), Res(taker.addr, taker.property),
               taker.remaining).tally \in [Account -> Nat]
      BY <1>1, <3>1, MoveType
    <3> QED BY <1>1, <1>5, <3>2 DEF MetaDEx_INSERT
  <2> QED BY <1>1, <1>5, <2>2, <2>3 DEF MetaDEx_INSERT, TypeOK
<1>6. ASSUME NEW a \in Addr, NEW o \in metadex, MetaDEx_CANCEL(a, o) PROVE TypeOK'
  <2>1. Bal(a, o.property) \in Account /\ Res(a, o.property) \in Account
        /\ o.remaining \in Int
    BY <1>1, AccountTypes DEF Order
  <2>2. tally' \in [Account -> Nat]
    BY <1>1, <1>6, <2>1, MoveType DEF MetaDEx_CANCEL
  <2>3. metadex' \subseteq Order /\ IsFiniteSet(metadex')
    BY <1>1, <1>6, FS_Difference DEF MetaDEx_CANCEL
  <2> QED BY <1>1, <1>6, <2>2, <2>3 DEF MetaDEx_CANCEL, TypeOK
<1>7. ASSUME NEW a \in Addr, MetaDEx_CANCEL_EVERYTHING(a) PROVE TypeOK'
  <2>1. ASSUME NEW x \in Account
        PROVE  updateMoney(tally[x], IF x[3] = "BALANCE" THEN Rested(metadex, a, x[2])
                                     ELSE -Rested(metadex, a, x[2]), x[3]) \in Nat
    <3>1. Rested(metadex, a, x[2]) \in Nat
      BY <1>1, RestedType
    <3>2. x[3] \in MDexType /\ tally[x] \in Nat
      BY <1>1 DEF Account
    <3> QED BY <3>1, <3>2, MoneyType
  <2>2. tally' \in [Account -> Nat]
    BY <1>1, <1>7, <2>1 DEF MetaDEx_CANCEL_EVERYTHING
  <2>3. metadex' \subseteq Order /\ IsFiniteSet(metadex')
    BY <1>1, <1>7, FS_Subset DEF MetaDEx_CANCEL_EVERYTHING
  <2> QED BY <1>1, <1>7, <2>2, <2>3 DEF MetaDEx_CANCEL_EVERYTHING, TypeOK
<1>8. CASE UNCHANGED vars
  BY <1>1, <1>8 DEF vars, TypeOK
<1> QED BY <1>2, <1>3, <1>4, <1>5, <1>6, <1>7, <1>8 DEF Next

\* Every step keeps the orders in order.
LEMMA StepOrders == ShapeInv /\ [Next]_vars => OrdersOK'
<1> SUFFICES ASSUME ShapeInv, [Next]_vars PROVE OrdersOK'
  OBVIOUS
<1> USE DEF Priced
<1>1. OrdersOK /\ made \in Nat /\ metadex \subseteq Order /\ taker \in Order \cup {None}
      /\ None \notin Order
  BY MetaDExAssumption DEF ShapeInv, TypeOK
<1>2. ASSUME NEW a \in Addr, NEW p \in Prop, NEW d \in Prop, NEW n \in 1 .. MaxAmount,
             NEW m \in 1 .. MaxAmount, MetaDExTrade(a, p, n, d, m)
      PROVE  OrdersOK'
  <2>1. \A o \in metadex : o.id \in Nat /\ o.id <= made
    BY <1>1 DEF Order, OrderId, OrdersOK
  <2> QED BY <1>1, <1>2, <2>1 DEF MetaDExTrade, OrdersOK
<1>3. ASSUME NEW o \in metadex, x_TradeSkip(o) PROVE OrdersOK'
  BY <1>1, <1>3 DEF x_TradeSkip, OrdersOK
<1>4. ASSUME NEW o \in metadex, x_Trade(o) PROVE OrdersOK'
  <2> DEFINE got == CouldBuy(taker, o)
             pay == WouldPay(o, got)
  <2>1. /\ taker # None /\ taker \in Order /\ o \in Order
        /\ got \in Nat /\ got <= o.remaining /\ pay \in Nat /\ pay <= taker.remaining
    BY <1>4, LookingFacts DEF x_Trade
  <2>2. /\ metadex' = (metadex \ {o}) \cup
                        (IF o.remaining = got THEN {} ELSE {Reduced(o, got)})
        /\ taker' = Reduced(taker, pay) /\ taker' # None
        /\ made' = made
    BY <1>4, MatchFacts
  <2> HIDE DEF got, pay
  <2>3. /\ taker'.id = taker.id /\ taker'.property = taker.property
        /\ taker'.desprop = taker.desprop
        /\ taker'.forsale = taker.forsale /\ taker'.desired = taker.desired
    BY <2>1, <2>2, ReducedOrder
  <2>4. ASSUME NEW x \in metadex'
        PROVE  \E y \in metadex :
                 /\ x.id = y.id /\ x.property = y.property /\ x.desprop = y.desprop
                 /\ x.forsale = y.forsale /\ x.desired = y.desired /\ 0 < x.remaining
                 /\ y # o => x = y
                 /\ y = o => x = Reduced(o, got)
    <3>1. CASE x \in metadex \ {o}
      BY <1>1, <3>1 DEF OrdersOK
    <3>2. CASE o.remaining # got /\ x = Reduced(o, got)
      <4>1. o.remaining \in Nat /\ o.remaining - got > 0
        BY <2>1, <3>2 DEF Order
      <4> QED BY <2>1, <3>2, <4>1, ReducedOrder
    <3> QED BY <2>2, <3>1, <3>2
  <2>5. \A x \in metadex' : /\ Priced(x) /\ x.property # x.desprop
                            /\ 0 < x.remaining /\ x.id <= made /\ x.id < taker.id
    BY <1>1, <2>1, <2>4 DEF OrdersOK
  <2>6. \A x, y \in metadex' : x.id = y.id => x = y
    BY <1>1, <2>4 DEF OrdersOK
  <2>7. Priced(taker) /\ taker.property # taker.desprop /\ taker.id = made
    BY <1>1, <2>1 DEF OrdersOK
  <2> QED BY <2>2, <2>3, <2>5, <2>6, <2>7 DEF OrdersOK
<1>5. CASE MetaDEx_INSERT
  <2>1. taker # None /\ taker \in Order
    BY <1>1, <1>5 DEF MetaDEx_INSERT
  <2>2. metadex' = metadex \/ (metadex' = metadex \cup {taker} /\ taker.remaining > 0)
    BY <1>5 DEF MetaDEx_INSERT
  <2>3. taker' = None /\ made' = made
    BY <1>5 DEF MetaDEx_INSERT
  <2>4. \A o \in metadex : o.id < taker.id /\ o.id \in Nat /\ taker.id \in Nat
    BY <1>1, <2>1 DEF OrdersOK, Order, OrderId
  <2> QED BY <1>1, <2>1, <2>2, <2>3, <2>4 DEF OrdersOK
<1>6. ASSUME NEW a \in Addr, NEW o \in metadex, MetaDEx_CANCEL(a, o) PROVE OrdersOK'
  BY <1>1, <1>6 DEF MetaDEx_CANCEL, OrdersOK
<1>7. ASSUME NEW a \in Addr, MetaDEx_CANCEL_EVERYTHING(a) PROVE OrdersOK'
  BY <1>1, <1>7 DEF MetaDEx_CANCEL_EVERYTHING, OrdersOK
<1>8. CASE UNCHANGED vars
  BY <1>1, <1>8 DEF vars, OrdersOK
<1> QED BY <1>2, <1>3, <1>4, <1>5, <1>6, <1>7, <1>8 DEF Next

\* Every step keeps the register in order.
LEMMA StepTrades == ShapeInv /\ [Next]_vars => TradesOK'
<1> SUFFICES ASSUME ShapeInv, [Next]_vars PROVE TradesOK'
  OBVIOUS
<1>1. TradesOK /\ made \in Nat /\ tradelist \subseteq Trade
  BY DEF ShapeInv, TypeOK
<1>2. \A t \in tradelist : t.new \in Nat /\ t.new <= made
  BY <1>1 DEF Trade, OrderId, TradesOK
<1>3. ASSUME NEW a \in Addr, NEW p \in Prop, NEW d \in Prop, NEW n \in 1 .. MaxAmount,
             NEW m \in 1 .. MaxAmount, MetaDExTrade(a, p, n, d, m)
      PROVE  TradesOK'
  <2>1. \A t \in tradelist : t.new # made + 1 /\ t.new <= made + 1
    BY <1>1, <1>2
  <2> QED BY <1>1, <1>3, <2>1 DEF MetaDExTrade, TradesOK
<1>4. ASSUME NEW o \in metadex, x_TradeSkip(o) PROVE TradesOK'
  BY <1>1, <1>4 DEF x_TradeSkip, Advance, TradesOK
<1>5. ASSUME NEW o \in metadex, x_Trade(o) PROVE TradesOK'
  <2> DEFINE got == CouldBuy(taker, o)
             pay == WouldPay(o, got)
             trade == [old |-> o.id, new |-> taker.id, paid |-> pay, got |-> got]
  <2>1. taker # None /\ taker \in Order /\ o \in Order /\ o.id < taker.id
        /\ pay \in Nat /\ pay <= taker.remaining
    BY <1>5, LookingFacts DEF x_Trade
  <2>2. /\ taker' = Reduced(taker, pay)
        /\ tradelist' = tradelist \cup {trade}
        /\ passed' = passed \cup {o.id} /\ made' = made
    BY <1>5, MatchFacts
  <2>3. trade.old = o.id /\ trade.new = taker.id
    OBVIOUS
  <2> HIDE DEF got, pay, trade
  <2>4. taker'.id = taker.id
    BY <2>1, <2>2, ReducedOrder
  <2>5. taker.id <= made
    BY <1>1, <2>1 DEF ShapeInv, OrdersOK
  <2>6. IsFiniteSet(tradelist')
    BY <1>1, <2>2, FS_AddElement DEF TradesOK
  <2> QED BY <1>1, <2>1, <2>2, <2>3, <2>4, <2>5, <2>6 DEF TradesOK
<1>6. CASE MetaDEx_INSERT
  BY <1>1, <1>6 DEF MetaDEx_INSERT, TradesOK
<1>7. ASSUME NEW a \in Addr, NEW o \in metadex, MetaDEx_CANCEL(a, o) PROVE TradesOK'
  BY <1>1, <1>7 DEF MetaDEx_CANCEL, TradesOK
<1>8. ASSUME NEW a \in Addr, MetaDEx_CANCEL_EVERYTHING(a) PROVE TradesOK'
  BY <1>1, <1>8 DEF MetaDEx_CANCEL_EVERYTHING, TradesOK
<1>9. CASE UNCHANGED vars
  BY <1>1, <1>9 DEF vars, TradesOK
<1> QED BY <1>3, <1>4, <1>5, <1>6, <1>7, <1>8, <1>9 DEF Next

\* The book is empty at the start.
LEMMA InitShape == Init => ShapeInv
<1> SUFFICES ASSUME Init PROVE ShapeInv
  OBVIOUS
<1>1. tally \in [Account -> Nat]
  BY MetaDExAssumption DEF Init, Account
<1>2. made \in 0 .. MaxOrders
  BY MetaDExAssumption DEF Init
<1>3. IsFiniteSet({})
  BY FS_EmptySet
<1>4. TypeOK
  BY <1>1, <1>2, <1>3 DEF Init, TypeOK
<1>5. OrdersOK /\ TradesOK
  BY <1>3 DEF Init, OrdersOK, TradesOK
<1> QED BY <1>4, <1>5 DEF ShapeInv

\* Types, orders and trades are kept by every step.
LEMMA StepShape == ShapeInv /\ [Next]_vars => ShapeInv'
BY StepType, StepOrders, StepTrades DEF ShapeInv

\* The MetaDEx keeps its types for any number of traders, properties and
\* orders: no order ever offers, and no account ever holds, less than nothing.
THEOREM MetaDExTypeCorrect == Spec => []TypeOK
<1>1. ShapeInv => TypeOK
  BY DEF ShapeInv
<1> QED BY <1>1, InitShape, StepShape, PTL DEF Spec

\* The assertions of x_Trade hold whenever it looks at a resting order:
\* matched amounts are positive, neither side gives more than remains, and
\* the maker gets at least its price in spite of the rounding.
THEOREM MatchAssertionsHold == Spec => []NoAssertFails
<1>1. ShapeInv => NoAssertFails
  <2> SUFFICES ASSUME ShapeInv, NEW o \in metadex, Looking(o)
               PROVE  LET n   == CouldBuy(taker, o)
                          pay == WouldPay(o, n)
                      IN  /\ 0 < o.remaining
                          /\ n # 0 /\ ~TooExpensive(taker, n, pay) =>
                               /\ pay * o.forsale >= n * o.desired
                               /\ n <= o.remaining
                               /\ pay <= taker.remaining
    BY DEF NoAssertFails
  <2>1. taker \in Order /\ o \in Order /\ Priced(o)
        /\ CouldBuy(taker, o) <= o.remaining
    BY LookingFacts
  <2>2. 0 < o.remaining
    BY DEF ShapeInv, OrdersOK
  <2>3. /\ CouldBuy(taker, o) * o.desired <= WouldPay(o, CouldBuy(taker, o)) * o.forsale
        /\ WouldPay(o, CouldBuy(taker, o)) <= taker.remaining
        /\ WouldPay(o, CouldBuy(taker, o)) \in Nat /\ CouldBuy(taker, o) \in Nat
        /\ o.forsale \in Nat /\ o.desired \in Nat
    BY <2>1, WouldPayBounds, CouldBuyBounds DEF Order
  <2> DEFINE n   == CouldBuy(taker, o)
             pay == WouldPay(o, n)
  <2> HIDE DEF n, pay
  <2>4. pay * o.forsale >= n * o.desired /\ n <= o.remaining /\ pay <= taker.remaining
    BY <2>1, <2>3 DEF n, pay
  <2> QED BY <2>2, <2>4 DEF n, pay
<1> QED BY <1>1, InitShape, StepShape, PTL DEF Spec

-----------------------------------------------------------------------------
(* The register of trades *)

\* What a set of trades says that an order sold as maker, and as taker.
SoldAsMaker(L, id) == Total([t \in {x \in L : x.old = id} |-> t.got])
SoldAsTaker(L, id) == Total([t \in {x \in L : x.new = id} |-> t.paid])
SoldIn(L, id) == SoldAsMaker(L, id) + SoldAsTaker(L, id)

\* A new trade adds what it says to the sales of its two orders, and nothing
\* to those of any other order.
LEMMA TradeAdds ==
  ASSUME NEW L \in SUBSET Trade, IsFiniteSet(L), NEW tr \in Trade, tr \notin L, NEW id
  PROVE  /\ SoldAsMaker(L, id) \in Nat /\ SoldAsTaker(L, id) \in Nat
         /\ SoldAsMaker(L \cup {tr}, id)
              = SoldAsMaker(L, id) + (IF tr.old = id THEN tr.got ELSE 0)
         /\ SoldAsTaker(L \cup {tr}, id)
              = SoldAsTaker(L, id) + (IF tr.new = id THEN tr.paid ELSE 0)
<1>1. /\ SoldAsMaker(L, id) \in Nat
      /\ SoldAsMaker(L \cup {tr}, id)
           = SoldAsMaker(L, id) + (IF tr.old = id THEN tr.got ELSE 0)
  <2> DEFINE S == {x \in L : x.old = id}
             T == {x \in L \cup {tr} : x.old = id}
             f == [t \in S |-> t.got]
             g == [t \in T |-> t.got]
  <2>1. IsFiniteSet(S) /\ f \in [S -> Nat] /\ g \in [T -> Nat]
    BY FS_Subset DEF Trade
  <2>2. Total(f) \in Nat
    BY <2>1, TotalType
  <2>3. CASE tr.old = id
    <3>1. T = S \cup {tr} /\ tr \notin S /\ g[tr] = tr.got /\ \A j \in S : g[j] = f[j]
      BY <2>3
    <3> HIDE DEF S, T, f, g
    <3>2. Total(g) = Total(f) + tr.got
      BY <2>1, <3>1, TotalAdd
    <3> QED BY <2>2, <2>3, <3>2 DEF SoldAsMaker, S, T, f, g
  <2>4. CASE tr.old # id
    <3>1. T = S /\ f = g
      BY <2>4
    <3> QED BY <2>2, <2>4, <3>1 DEF SoldAsMaker
  <2> QED BY <2>3, <2>4
<1>2. /\ SoldAsTaker(L, id) \in Nat
      /\ SoldAsTaker(L \cup {tr}, id)
           = SoldAsTaker(L, id) + (IF tr.new = id THEN tr.paid ELSE 0)
  <2> DEFINE S == {x \in L : x.new = id}
             T == {x \in L \cup {tr} : x.new = id}
             f == [t \in S |-> t.paid]
             g == [t \in T |-> t.paid]
  <2>1. IsFiniteSet(S) /\ f \in [S -> Nat] /\ g \in [T -> Nat]
    BY FS_Subset DEF Trade
  <2>2. Total(f) \in Nat
    BY <2>1, TotalType
  <2>3. CASE tr.new = id
    <3>1. T = S \cup {tr} /\ tr \notin S /\ g[tr] = tr.paid /\ \A j \in S : g[j] = f[j]
      BY <2>3
    <3> HIDE DEF S, T, f, g
    <3>2. Total(g) = Total(f) + tr.paid
      BY <2>1, <3>1, TotalAdd
    <3> QED BY <2>2, <2>3, <3>2 DEF SoldAsTaker, S, T, f, g
  <2>4. CASE tr.new # id
    <3>1. T = S /\ f = g
      BY <2>4
    <3> QED BY <2>2, <2>4, <3>1 DEF SoldAsTaker
  <2> QED BY <2>3, <2>4
<1> QED BY <1>1, <1>2

\* What a match adds to the sales of an order.
LEMMA MatchSold ==
  ASSUME ShapeInv, NEW o \in metadex, x_Trade(o)
  PROVE  \A id : /\ SoldIn(tradelist, id) \in Nat
                 /\ SoldIn(tradelist', id)
                      = SoldIn(tradelist, id)
                        + (IF id = o.id THEN CouldBuy(taker, o) ELSE 0)
                        + (IF id = taker.id THEN WouldPay(o, CouldBuy(taker, o)) ELSE 0)
<1> DEFINE got == CouldBuy(taker, o)
           pay == WouldPay(o, got)
           tr  == [old |-> o.id, new |-> taker.id, paid |-> pay, got |-> got]
<1>1. taker # None /\ taker \in Order /\ o \in Order /\ o.id \notin passed
      /\ pay \in Nat /\ got \in Nat
  BY LookingFacts DEF x_Trade
<1>2. tradelist' = tradelist \cup {tr}
  BY MatchFacts
<1>3. tr.old = o.id /\ tr.new = taker.id /\ tr.paid = pay /\ tr.got = got
  OBVIOUS
<1> HIDE DEF got, pay
<1>4. tr \in Trade
  BY <1>1, TradeType DEF Order
<1> HIDE DEF tr
<1>5. tr \notin tradelist /\ tradelist \in SUBSET Trade /\ IsFiniteSet(tradelist)
  BY <1>1, <1>3 DEF ShapeInv, TypeOK, TradesOK
<1>6. \A id :
      /\ SoldAsMaker(tradelist, id) \in Nat /\ SoldAsTaker(tradelist, id) \in Nat
      /\ SoldAsMaker(tradelist', id)
           = SoldAsMaker(tradelist, id) + (IF tr.old = id THEN tr.got ELSE 0)
      /\ SoldAsTaker(tradelist', id)
           = SoldAsTaker(tradelist, id) + (IF tr.new = id THEN tr.paid ELSE 0)
  BY <1>2, <1>4, <1>5, TradeAdds
<1> QED BY <1>1, <1>3, <1>6 DEF SoldIn, got, pay

\* An order that is in no trade has sold nothing.
LEMMA NothingSold ==
  ASSUME NEW L, NEW id, \A t \in L : t.old # id /\ t.new # id
  PROVE  SoldIn(L, id) = 0
<1> DEFINE f == [t \in {x \in L : x.old = id} |-> t.got]
           g == [t \in {x \in L : x.new = id} |-> t.paid]
<1>1. f \in [{} -> Nat] /\ g \in [{} -> Nat]
  OBVIOUS
<1> HIDE DEF f, g
<1>2. Total(f) = 0 /\ Total(g) = 0
  BY <1>1, TotalZero
<1> QED BY <1>2 DEF SoldIn, SoldAsMaker, SoldAsTaker, f, g

\* The register explains the book and the order that is being matched.
RegisterInv == TradelistExplainsBook /\ TradelistExplainsTaker

\* The same, of given trades, book and taker.
Explains(L, book, new) ==
  /\ \A o \in book : o.remaining + SoldIn(L, o.id) = o.forsale
  /\ new # None => new.remaining + SoldIn(L, new.id) = new.forsale

\* Before and after a step.
LEMMA RegisterMeans ==
  /\ RegisterInv <=> Explains(tradelist, metadex, taker)
  /\ RegisterInv' <=> Explains(tradelist', metadex', taker')
BY DEF RegisterInv, TradelistExplainsBook, TradelistExplainsTaker, Explains,
       Sold, SoldIn, SoldAsMaker, SoldAsTaker

\* Every step keeps that.
LEMMA StepRegister == ShapeInv /\ RegisterInv /\ [Next]_vars => RegisterInv'
<1> SUFFICES ASSUME ShapeInv, RegisterInv, [Next]_vars
             PROVE  Explains(tradelist', metadex', taker')
  BY RegisterMeans
<1>1. /\ metadex \subseteq Order /\ taker \in Order \cup {None} /\ None \notin Order
      /\ made \in Nat /\ tradelist \subseteq Trade
  BY MetaDExAssumption DEF ShapeInv, TypeOK
<1>2. /\ \A o \in metadex : o.remaining + SoldIn(tradelist, o.id) = o.forsale
      /\ taker # None => taker.remaining + SoldIn(tradelist, taker.id) = taker.forsale
  BY RegisterMeans DEF Explains
<1>3. ASSUME UNCHANGED tradelist, metadex' \subseteq metadex \cup ({taker} \ {None}),
             taker' \in {taker, None}
      PROVE  Explains(tradelist', metadex', taker')
  BY <1>2, <1>3 DEF Explains
<1>4. ASSUME NEW a \in Addr, NEW p \in Prop, NEW d \in Prop, NEW n \in 1 .. MaxAmount,
             NEW m \in 1 .. MaxAmount, MetaDExTrade(a, p, n, d, m)
      PROVE  Explains(tradelist', metadex', taker')
  <2>1. \A t \in tradelist : t.old # made + 1 /\ t.new # made + 1
    BY <1>1 DEF ShapeInv, TradesOK, Trade, OrderId
  <2>2. SoldIn(tradelist, made + 1) = 0
    BY <2>1, NothingSold
  <2>3. taker'.id = made + 1 /\ taker'.remaining = n /\ taker'.forsale = n
        /\ metadex' = metadex /\ tradelist' = tradelist
    BY <1>4 DEF MetaDExTrade
  <2> QED BY <1>2, <2>2, <2>3 DEF Explains
<1>5. ASSUME NEW o \in metadex, x_Trade(o)
      PROVE  Explains(tradelist', metadex', taker')
  <2> DEFINE got == CouldBuy(taker, o)
             pay == WouldPay(o, got)
  <2>1. /\ taker # None /\ taker \in Order /\ o \in Order /\ o.id < taker.id
        /\ got \in Nat /\ got <= o.remaining /\ pay \in Nat /\ pay <= taker.remaining
    BY <1>5, LookingFacts DEF x_Trade
  <2>2. /\ metadex' = (metadex \ {o}) \cup
                        (IF o.remaining = got THEN {} ELSE {Reduced(o, got)})
        /\ taker' = Reduced(taker, pay)
    BY <1>5, MatchFacts
  <2>3. \A id : /\ SoldIn(tradelist, id) \in Nat
                /\ SoldIn(tradelist', id) = SoldIn(tradelist, id)
                                        + (IF id = o.id THEN got ELSE 0)
                                        + (IF id = taker.id THEN pay ELSE 0)
    BY <1>5, MatchSold
  <2>4. o.id \in Nat /\ taker.id \in Nat /\ o.remaining \in Nat /\ o.forsale \in Nat
        /\ taker.remaining \in Nat /\ taker.forsale \in Nat
    BY <2>1 DEF Order, OrderId
  <2> HIDE DEF got, pay
  <2>5. ASSUME NEW x \in metadex \ {o}
        PROVE  x.remaining + SoldIn(tradelist', x.id) = x.forsale
    <3>1. x.id # o.id /\ x.id # taker.id
      BY <2>1, <2>4 DEF ShapeInv, OrdersOK
    <3>2. SoldIn(tradelist', x.id) = SoldIn(tradelist, x.id)
      BY <2>3, <3>1
    <3> QED BY <1>2, <3>2
  <2>6. Reduced(o, got).remaining + SoldIn(tradelist', Reduced(o, got).id)
          = Reduced(o, got).forsale
    <3>1. Reduced(o, got).remaining = o.remaining - got /\ Reduced(o, got).id = o.id
          /\ Reduced(o, got).forsale = o.forsale
      BY <2>1, ReducedOrder
    <3>2. SoldIn(tradelist', o.id) = SoldIn(tradelist, o.id) + got
          /\ SoldIn(tradelist, o.id) \in Nat
      BY <2>1, <2>3, <2>4
    <3>3. o.remaining + SoldIn(tradelist, o.id) = o.forsale
      BY <1>2
    <3> QED BY <2>1, <2>4, <3>1, <3>2, <3>3
  <2>7. taker'.remaining + SoldIn(tradelist', taker'.id) = taker'.forsale
    <3>1. taker'.remaining = taker.remaining - pay /\ taker'.id = taker.id
          /\ taker'.forsale = taker.forsale
      BY <2>1, <2>2, ReducedOrder
    <3>2. SoldIn(tradelist', taker.id) = SoldIn(tradelist, taker.id) + pay
          /\ SoldIn(tradelist, taker.id) \in Nat
      BY <2>1, <2>3, <2>4
    <3>3. taker.remaining + SoldIn(tradelist, taker.id) = taker.forsale
      BY <1>2, <2>1
    <3> QED BY <2>1, <2>4, <3>1, <3>2, <3>3
  <2>8. \A x \in metadex' : x.remaining + SoldIn(tradelist', x.id) = x.forsale
    BY <2>2, <2>5, <2>6
  <2> QED BY <2>7, <2>8 DEF Explains
<1> QED BY <1>3, <1>4, <1>5 DEF Next, x_TradeSkip, MetaDEx_INSERT, MetaDEx_CANCEL,
        MetaDEx_CANCEL_EVERYTHING, vars

\* What a resting order no longer offers is what the register of trades says
\* it sold, over any sequence of orders, matches and cancellations.
THEOREM RegisterExplainsBook == Spec => []TradelistExplainsBook
<1>1. Init => RegisterInv
  BY DEF Init, RegisterInv, TradelistExplainsBook, TradelistExplainsTaker
<1>2. RegisterInv => TradelistExplainsBook
  BY DEF RegisterInv
<1> QED BY <1>1, <1>2, InitShape, StepShape, StepRegister, PTL DEF Spec

-----------------------------------------------------------------------------
(* Crossed orders *)

\* An order that has less left to pay with, or meets less, buys no more.
LEMMA CouldBuyMono ==
  ASSUME NEW new \in Order, NEW old \in Order, NEW new2 \in Order, NEW old2 \in Order,
         Priced(old), old2.forsale = old.forsale, old2.desired = old.desired,
         new2.remaining <= new.remaining, old2.remaining <= old.remaining
  PROVE  CouldBuy(new2, old2) <= CouldBuy(new, old)
<1> DEFINE n  == CouldBuy(new, old)
           n2 == CouldBuy(new2, old2)
           D == old.desired
           F == old.forsale
<1>1. /\ n \in Nat
      /\ n < old.remaining => new.remaining * F < n * D + D
  BY CouldBuyBounds
<1>2. n2 \in Nat /\ n2 <= old2.remaining /\ n2 * D <= new2.remaining * F
  BY CouldBuyBounds DEF Priced
<1>3. /\ new.remaining \in Nat /\ new2.remaining \in Nat /\ D \in Nat \ {0} /\ F \in Nat
      /\ old.remaining \in Nat /\ old2.remaining \in Nat
  BY DEF Order, Priced
<1> HIDE DEF n, n2, D, F
<1>4. SUFFICES ASSUME n < n2 PROVE FALSE
  BY <1>1, <1>2 DEF n, n2
<1>5. new.remaining * F < n * D + D
  BY <1>1, <1>2, <1>3, <1>4
<1>6. new2.remaining * F <= new.remaining * F
  BY <1>3, MulMono
<1>7. (n + 1) * D <= n2 * D
  BY <1>1, <1>2, <1>3, <1>4, MulMono
<1>8. (n + 1) * D = n * D + D
  BY <1>1, <1>3
<1>9. n * D \in Nat /\ n2 * D \in Nat /\ new.remaining * F \in Nat
      /\ new2.remaining * F \in Nat
  BY <1>1, <1>2, <1>3
<1> QED BY <1>2, <1>3, <1>5, <1>6, <1>7, <1>8, <1>9

\* Two orders that do not cross by a unit never do later, when less remains.
LEMMA UncrossedMono ==
  ASSUME NEW new \in Order, NEW old \in Order, NEW new2 \in Order, NEW old2 \in Order,
         Priced(old), Priced(new),
         old2.forsale = old.forsale, old2.desired = old.desired,
         new2.forsale = new.forsale, new2.desired = new.desired,
         new2.remaining <= new.remaining, old2.remaining <= old.remaining,
         Uncrossed(new, old)
  PROVE  Uncrossed(new2, old2)
<1> DEFINE n  == CouldBuy(new, old)
           n2 == CouldBuy(new2, old2)
           s  == new.forsale * old.forsale - new.desired * old.desired
           u  == new.desired * old.forsale
<1>1. n \in Nat /\ n2 \in Nat /\ n2 <= n
  BY CouldBuyBounds, CouldBuyMono DEF Priced
<1>2. s \in Int /\ u \in Nat /\ u > 0
  BY DEF Order, Priced
<1>3. n * s < u
  BY DEF Uncrossed
<1>4. Uncrossed(new2, old2) <=> n2 * s < u
  BY DEF Uncrossed
<1> HIDE DEF n, n2, s, u
<1>5. CASE s <= 0
  <2>1. n2 * s <= 0
    <3>1. -s \in Nat /\ n2 * (-s) \in Nat
      BY <1>1, <1>2, <1>5
    <3>2. n2 * s = -(n2 * (-s))
      BY <1>1, <1>2
    <3> QED BY <3>1, <3>2
  <2>2. n2 * s \in Int
    BY <1>1, <1>2
  <2> QED BY <1>2, <1>4, <2>1, <2>2
<1>6. CASE s > 0
  <2>1. s \in Nat
    BY <1>2, <1>6
  <2>2. n2 * s <= n * s /\ n2 * s \in Nat /\ n * s \in Nat
    BY <1>1, <2>1, MulMono
  <2> QED BY <1>2, <1>3, <1>4, <2>2
<1> QED BY <1>2, <1>5, <1>6

\* Orders whose prices do not cross do not cross by a unit.
LEMMA NotCrossing ==
  ASSUME NEW new \in Order, NEW old \in Order, Priced(old), Priced(new),
         ~Crosses(new, old)
  PROVE  Uncrossed(new, old)
<1> DEFINE n == CouldBuy(new, old)
           x == new.forsale * old.forsale
           y == new.desired * old.desired
           u == new.desired * old.forsale
<1>1. n \in Nat
  BY CouldBuyBounds
<1>2. x \in Nat /\ y \in Nat /\ u \in Nat /\ u > 0 /\ x < y
  BY DEF Order, Priced, Crosses
<1>3. Uncrossed(new, old) <=> n * (x - y) < u
  BY DEF Uncrossed
<1> HIDE DEF n, x, y, u
<1>4. y - x \in Nat /\ n * (y - x) \in Nat /\ n * (x - y) = -(n * (y - x))
  BY <1>1, <1>2
<1> QED BY <1>2, <1>3, <1>4

\* A positive factor keeps a strict order.
LEMMA MulStrict ==
  ASSUME NEW a \in Nat, NEW b \in Nat, NEW d \in Nat \ {0}, a < b
  PROVE  a * d < b * d
<1>1. (a + 1) * d <= b * d
  BY MulMono
<1>2. (a + 1) * d = a * d + d /\ a * d \in Nat /\ b * d \in Nat
  OBVIOUS
<1> QED BY <1>1, <1>2

\* An order that x_Trade skips, because nothing can be bought or the rounded
\* price is too high, crosses by less than a unit.
LEMMA SkippedUncrossed ==
  ASSUME NEW new \in Order, NEW old \in Order, Priced(old), Priced(new),
         \/ CouldBuy(new, old) = 0
         \/ TooExpensive(new, CouldBuy(new, old), WouldPay(old, CouldBuy(new, old)))
  PROVE  Uncrossed(new, old)
<1> DEFINE n   == CouldBuy(new, old)
           pay == WouldPay(old, n)
           nf == new.forsale
           nd == new.desired
           F  == old.forsale
           D  == old.desired
<1>1. n \in Nat /\ pay \in Nat /\ pay * F < n * D + F
  BY CouldBuyBounds, WouldPayBounds
<1>2. nf \in Nat \ {0} /\ nd \in Nat \ {0} /\ F \in Nat \ {0} /\ D \in Nat \ {0}
  BY DEF Order, Priced
<1>3. Uncrossed(new, old) <=> n * (nf * F - nd * D) < nd * F
  BY DEF Uncrossed
<1>4. n = 0 \/ pay * nd > n * nf
  BY DEF TooExpensive
<1> HIDE DEF n, pay, nf, nd, F, D
<1>5. CASE n = 0
  <2>1. nf * F - nd * D \in Int /\ nd * F \in Nat \ {0}
    BY <1>2
  <2>2. n * (nf * F - nd * D) = 0
    BY <1>5, <2>1
  <2> QED BY <1>3, <2>1, <2>2
<1>6. CASE pay * nd > n * nf
  <2>1. (n * nf) * F < (pay * nd) * F
    <3>1. n * nf \in Nat /\ pay * nd \in Nat
      BY <1>1, <1>2
    <3> QED BY <1>2, <1>6, <3>1, MulStrict
  <2>2. (pay * F) * nd < (n * D + F) * nd
    <3>1. pay * F \in Nat /\ n * D + F \in Nat
      BY <1>1, <1>2
    <3> QED BY <1>1, <1>2, <3>1, MulStrict
  <2>3. (pay * nd) * F = (pay * F) * nd
    BY <1>1, <1>2
  <2>4. (n * D + F) * nd = n * (nd * D) + nd * F
    BY <1>1, <1>2
  <2>5. (n * nf) * F = n * (nf * F)
    BY <1>1, <1>2
  <2>6. n * (nf * F - nd * D) = n * (nf * F) - n * (nd * D)
    BY <1>1, <1>2
  <2>7. n * (nf * F) \in Nat /\ n * (nd * D) \in Nat /\ nd * F \in Nat
        /\ (pay * F) * nd \in Nat
    BY <1>1, <1>2
  <2>8. n * (nf * F) < n * (nd * D) + nd * F
    BY <2>1, <2>2, <2>3, <2>4, <2>5, <2>7
  <2> QED BY <1>3, <2>6, <2>7, <2>8
<1> QED BY <1>4, <1>5, <1>6

\* After a match that leaves a part of the old order, what remains of the new
\* one buys no further unit of it.
LEMMA MatchedUncrossed ==
  ASSUME NEW new \in Order, NEW old \in Order, Priced(old), Priced(new),
         CouldBuy(new, old) < old.remaining
  PROVE  LET got == CouldBuy(new, old)
             pay == WouldPay(old, got)
         IN  Uncrossed(Reduced(new, pay), Reduced(old, got))
<1> DEFINE got == CouldBuy(new, old)
           pay == WouldPay(old, got)
           new2 == Reduced(new, pay)
           old2 == Reduced(old, got)
           n2 == CouldBuy(new2, old2)
           r == new.remaining
           F == old.forsale
           D == old.desired
<1>1. /\ got \in Nat /\ got <= old.remaining /\ pay \in Nat /\ pay <= r
      /\ got * D <= pay * F
      /\ r * F < got * D + D
  BY CouldBuyBounds, WouldPayBounds
<1>2. /\ new2 \in Order /\ new2.remaining = r - pay
      /\ new2.forsale = new.forsale /\ new2.desired = new.desired
      /\ old2 \in Order /\ old2.forsale = F /\ old2.desired = D
  <2> HIDE DEF got, pay
  <2> QED BY <1>1, ReducedOrder
<1>3. r \in Nat /\ F \in Nat \ {0} /\ D \in Nat \ {0}
      /\ new.desired \in Nat \ {0} /\ new.forsale \in Nat
  BY DEF Order, Priced
<1> HIDE DEF got, pay, new2, old2
<1>4. Priced(old2)
  BY <1>2, <1>3 DEF Priced
<1>5. n2 \in Nat /\ n2 * D <= (r - pay) * F
  BY <1>2, <1>4, CouldBuyBounds
<1> HIDE DEF r, F, D, n2
<1>6. n2 * D < 1 * D
  <2>1. (r - pay) * F = r * F - pay * F
    BY <1>1, <1>3
  <2>2. r * F \in Nat /\ pay * F \in Nat /\ got * D \in Nat /\ n2 * D \in Nat
    BY <1>1, <1>3, <1>5
  <2> QED BY <1>1, <1>3, <1>5, <2>1, <2>2
<1>7. n2 < 1
  BY <1>3, <1>5, <1>6, Cancel
<1>8. n2 = 0
  BY <1>5, <1>7
<1>9. n2 * (new2.forsale * old2.forsale - new2.desired * old2.desired)
        < new2.desired * old2.forsale
  <2>1. new2.forsale * old2.forsale - new2.desired * old2.desired \in Int
        /\ new2.desired * old2.forsale \in Nat \ {0}
    BY <1>2, <1>3
  <2> QED BY <1>8, <2>1
<1> QED BY <1>9 DEF Uncrossed, n2, new2, old2, got, pay

\* The book and the taker do not cross by a unit.
CrossInv == CrossedBelowUnit /\ TakerUncrossed

\* CrossInv of a given book, taker and set of passed orders.
Untangled(book, new, done) ==
  /\ \A x, y \in book : y.id < x.id /\ y.property = x.desprop /\ y.desprop = x.property
                        => Uncrossed(x, y)
  /\ new # None =>
       \A y \in book : y.property = new.desprop /\ y.desprop = new.property /\ y.id \in done
                       => Uncrossed(new, y)

\* Before and after a step.
LEMMA CrossMeans ==
  /\ CrossInv <=> Untangled(metadex, taker, passed)
  /\ CrossInv' <=> Untangled(metadex', taker', passed')
BY DEF CrossInv, CrossedBelowUnit, TakerUncrossed, Untangled, Uncrossed

\* Every step keeps that.
LEMMA StepCross == ShapeInv /\ CrossInv /\ [Next]_vars => CrossInv'
<1> SUFFICES ASSUME ShapeInv, CrossInv, [Next]_vars
             PROVE  Untangled(metadex', taker', passed')
  BY CrossMeans
<1>1. /\ metadex \subseteq Order /\ taker \in Order \cup {None} /\ None \notin Order
      /\ passed \subseteq OrderId
  BY MetaDExAssumption DEF ShapeInv, TypeOK
<1>2. \A o \in metadex : Priced(o) /\ o.id \in Nat
  BY <1>1 DEF ShapeInv, OrdersOK, Order, OrderId
<1>3. Untangled(metadex, taker, passed)
  BY CrossMeans
<1>4. ASSUME NEW a \in Addr, NEW p \in Prop, NEW d \in Prop, NEW n \in 1 .. MaxAmount,
             NEW m \in 1 .. MaxAmount, MetaDExTrade(a, p, n, d, m)
      PROVE  Untangled(metadex', taker', passed')
  BY <1>3, <1>4 DEF MetaDExTrade, Untangled
<1>5. ASSUME NEW o \in metadex, x_TradeSkip(o)
      PROVE  Untangled(metadex', taker', passed')
  <2>1. taker \in Order /\ taker # None /\ o \in Order /\ Priced(o) /\ Priced(taker)
    BY <1>5, LookingFacts DEF x_TradeSkip
  <2>2. Uncrossed(taker, o)
    BY <1>5, <2>1, SkippedUncrossed DEF x_TradeSkip
  <2>3. \A y \in metadex : y.id = o.id => y = o
    BY DEF ShapeInv, OrdersOK
  <2> QED BY <1>3, <1>5, <2>2, <2>3 DEF x_TradeSkip, Advance, Untangled
<1>6. ASSUME NEW o \in metadex, x_Trade(o)
      PROVE  Untangled(metadex', taker', passed')
  <2> DEFINE got == CouldBuy(taker, o)
             pay == WouldPay(o, got)
             rest == Reduced(o, got)
  <2>1. /\ taker # None /\ taker \in Order /\ o \in Order /\ Priced(o) /\ Priced(taker)
        /\ got \in Nat /\ got <= o.remaining /\ pay \in Nat /\ pay <= taker.remaining
    BY <1>6, LookingFacts DEF x_Trade
  <2>2. /\ metadex' = (metadex \ {o}) \cup (IF o.remaining = got THEN {} ELSE {rest})
        /\ taker' = Reduced(taker, pay) /\ taker' \in Order
        /\ rest \in Order
        /\ passed' = passed \cup {o.id}
    BY <1>6, MatchFacts
  <2>3. o.remaining # got => Uncrossed(taker', rest)
    <3>1. o.remaining \in Nat
      BY <2>1 DEF Order
    <3>2. o.remaining # got => got < o.remaining
      BY <2>1, <3>1
    <3> QED BY <2>1, <2>2, <3>2, MatchedUncrossed
  <2> HIDE DEF got, pay
  <2>4. /\ rest.id = o.id /\ rest.property = o.property /\ rest.desprop = o.desprop
        /\ rest.forsale = o.forsale /\ rest.desired = o.desired
        /\ rest.remaining <= o.remaining
    <3>1. o.remaining \in Nat /\ rest.remaining = o.remaining - got
      BY <2>1, ReducedOrder DEF Order
    <3> QED BY <2>1, <3>1, ReducedOrder
  <2>5. /\ taker'.property = taker.property /\ taker'.desprop = taker.desprop
        /\ taker'.forsale = taker.forsale /\ taker'.desired = taker.desired
        /\ taker'.remaining <= taker.remaining
    <3>1. taker.remaining \in Nat /\ taker'.remaining = taker.remaining - pay
      BY <2>1, <2>2, ReducedOrder DEF Order
    <3> QED BY <2>1, <2>2, <3>1, ReducedOrder
  <2> HIDE DEF rest
  <2>6. ASSUME NEW x \in metadex'
        PROVE  \E z \in metadex :
                 /\ x \in Order /\ z \in Order /\ Priced(z)
                 /\ x.id = z.id /\ x.property = z.property /\ x.desprop = z.desprop
                 /\ x.forsale = z.forsale /\ x.desired = z.desired
                 /\ x.remaining <= z.remaining
    <3>1. CASE x \in metadex \ {o}
      <4>1. x \in Order /\ x.remaining \in Nat
        BY <1>1, <3>1 DEF Order
      <4> QED BY <1>2, <3>1, <4>1
    <3>2. CASE x = rest
      BY <1>1, <1>2, <2>2, <2>4, <3>2
    <3> QED BY <2>2, <3>1, <3>2
  <2>7. ASSUME NEW x \in metadex', NEW y \in metadex', y.id < x.id,
               y.property = x.desprop, y.desprop = x.property
        PROVE  Uncrossed(x, y)
    <3>1. PICK u \in metadex :
                 /\ x \in Order /\ u \in Order /\ Priced(u)
                 /\ x.id = u.id /\ x.property = u.property /\ x.desprop = u.desprop
                 /\ x.forsale = u.forsale /\ x.desired = u.desired
                 /\ x.remaining <= u.remaining
      BY <2>6
    <3>2. PICK v \in metadex :
                 /\ y \in Order /\ v \in Order /\ Priced(v)
                 /\ y.id = v.id /\ y.property = v.property /\ y.desprop = v.desprop
                 /\ y.forsale = v.forsale /\ y.desired = v.desired
                 /\ y.remaining <= v.remaining
      BY <2>6
    <3>3. Uncrossed(u, v)
      BY <1>3, <2>7, <3>1, <3>2 DEF Untangled
    <3> QED BY <3>1, <3>2, <3>3, UncrossedMono
  <2>8. ASSUME NEW y \in metadex', y.property = taker'.desprop,
               y.desprop = taker'.property, y.id \in passed'
        PROVE  Uncrossed(taker', y)
    <3>1. CASE y \in metadex \ {o}
      <4>1. y.id # o.id
        BY <3>1 DEF ShapeInv, OrdersOK
      <4>2. Uncrossed(taker, y)
        BY <1>3, <2>1, <2>2, <2>5, <2>8, <3>1, <4>1 DEF Untangled
      <4>3. y \in Order /\ Priced(y) /\ y.remaining <= y.remaining
        BY <1>1, <1>2, <3>1 DEF Order
      <4> QED BY <2>1, <2>2, <2>5, <4>2, <4>3, UncrossedMono
    <3>2. CASE o.remaining # got /\ y = rest
      BY <2>3, <3>2
    <3> QED BY <2>2, <3>1, <3>2
  <2> QED BY <2>7, <2>8 DEF Untangled
<1>7. CASE MetaDEx_INSERT
  <2>1. taker # None /\ taker \in Order /\ Priced(taker) /\ taker' = None
        /\ taker.id \in Nat
    BY <1>1, <1>7 DEF MetaDEx_INSERT, ShapeInv, OrdersOK, Order, OrderId
  <2>2. \A o \in metadex : o.id < taker.id
    BY <2>1 DEF ShapeInv, OrdersOK
  <2>3. CASE metadex' = metadex
    BY <1>3, <2>1, <2>3 DEF Untangled
  <2>4. CASE metadex' = metadex \cup {taker} /\ taker.remaining > 0
    <3>1. Candidates = {}
      <4>1. taker.remaining # 0
        BY <2>1, <2>4 DEF Order
      <4> QED BY <1>7, <4>1 DEF MetaDEx_INSERT
    <3>2. ASSUME NEW y \in metadex, y.property = taker.desprop, y.desprop = taker.property
          PROVE  Uncrossed(taker, y)
      <4>1. CASE y.id \in passed
        BY <1>3, <2>1, <3>2, <4>1 DEF Untangled
      <4>2. CASE ~Crosses(taker, y)
        BY <1>1, <1>2, <2>1, <4>2, NotCrossing
      <4> QED BY <3>1, <3>2, <4>1, <4>2 DEF Candidates
    <3>3. ASSUME NEW x \in metadex', NEW y \in metadex', y.id < x.id,
                 y.property = x.desprop, y.desprop = x.property
          PROVE  Uncrossed(x, y)
      <4>1. CASE x \in metadex /\ y \in metadex
        BY <1>3, <3>3, <4>1 DEF Untangled
      <4>2. CASE x = taker /\ y \in metadex
        BY <3>2, <3>3, <4>2
      <4>3. CASE y = taker
        <5>1. ~(y.id < x.id)
          BY <1>2, <2>1, <2>2, <2>4, <4>3
        <5> QED BY <3>3, <5>1
      <4> QED BY <2>4, <4>1, <4>2, <4>3
    <3> QED BY <2>1, <3>3 DEF Untangled
  <2> QED BY <1>7, <2>3, <2>4 DEF MetaDEx_INSERT
<1>8. ASSUME metadex' \subseteq metadex, taker' = taker, passed' = passed
      PROVE  Untangled(metadex', taker', passed')
  BY <1>3, <1>8 DEF Untangled
<1> QED BY <1>4, <1>5, <1>6, <1>7, <1>8 DEF Next, MetaDEx_CANCEL,
        MetaDEx_CANCEL_EVERYTHING, vars

\* Whatever orders are made, matched, partly filled and cancelled, no two
\* orders rest that cross by a whole unit of payment.
THEOREM BookCrossedBelowUnit == Spec => []CrossedBelowUnit
<1>1. Init => CrossInv
  BY DEF Init, CrossInv, CrossedBelowUnit, TakerUncrossed
<1>2. CrossInv => CrossedBelowUnit
  BY DEF CrossInv
<1> QED BY <1>1, <1>2, InitShape, StepShape, StepCross, PTL DEF Spec

-----------------------------------------------------------------------------
(* Reserves *)

\* One update of the tally: other accounts stay as they are, a covered debit is
\* exact, a credit that fits is exact, and no credit takes anything away.
LEMMA UpdateAt ==
  ASSUME NEW t \in [Account -> Nat], NEW acc \in Account, NEW n \in Int
  PROVE  LET u == update_tally_map(t, acc, n).tally
         IN  /\ u \in [Account -> Nat]
             /\ \A x \in Account : x # acc => u[x] = t[x]
             /\ n <= 0 /\ 0 <= t[acc] + n => u[acc] = t[acc] + n
             /\ 0 <= n /\ t[acc] + n <= MAX_INT64 => u[acc] = t[acc] + n
             /\ 0 <= n => t[acc] <= u[acc]
<1> DEFINE u == update_tally_map(t, acc, n).tally
           b == t[acc]
           v == updateMoney(b, n, acc[3])
<1>1. u = [t EXCEPT ![acc] = v] /\ u \in [Account -> Nat]
  BY UpdateType DEF update_tally_map
<1>2. b \in Nat /\ MAX_INT64 \in Nat
  BY MaxInt64Assumption
<1>3. u[acc] = v /\ \A x \in Account : x # acc => u[x] = t[x]
  BY <1>1
<1>4. /\ n <= 0 /\ 0 <= b + n => v = b + n
      /\ 0 <= n /\ b + n <= MAX_INT64 => v = b + n
      /\ 0 <= n => b <= v
  <2> HIDE DEF b
  <2>1. n = 0 => v = b
    BY DEF updateMoney, updateMoneyOk
  <2>2. ASSUME n < 0, 0 <= b + n PROVE v = b + n
    <3>1. updateMoneyOk(b, n)
      BY <1>2, <2>2 DEF updateMoneyOk, isOverflow, MIN_INT64
    <3> QED BY <1>2, <2>2, <3>1 DEF updateMoney
  <2>3. ASSUME 0 < n, b + n <= MAX_INT64 PROVE v = b + n
    <3>1. updateMoneyOk(b, n)
      BY <1>2, <2>3 DEF updateMoneyOk, isOverflow, MIN_INT64
    <3> QED BY <1>2, <2>3, <3>1 DEF updateMoney
  <2>4. ASSUME 0 < n PROVE b <= v
    BY <1>2, <2>4 DEF updateMoney
  <2> HIDE DEF v
  <2> QED BY <1>2, <2>1, <2>2, <2>3, <2>4
<1> HIDE DEF u
<1> QED BY <1>1, <1>3, <1>4 DEF u

\* Reserves and balances are different accounts, and so are those of different
\* properties or addresses.
LEMMA AccountsDiffer ==
  ASSUME NEW a, NEW p, NEW b, NEW q
  PROVE  /\ Bal(a, p) # Res(b, q)
         /\ Res(a, p) = Res(b, q) => a = b /\ p = q
         /\ Bal(a, p) = Bal(b, q) => a = b /\ p = q
BY DEF Bal, Res

\* What an order offers of a property on behalf of an address.
Offer(o, a, p) == IF o.addr = a /\ o.property = p THEN o.remaining ELSE 0

\* An order that enters the book adds what it offers to what its owner's
\* orders hold, and to nothing else.
LEMMA RestedAdd ==
  ASSUME NEW book \in SUBSET Order, IsFiniteSet(book), NEW o \in Order, o \notin book,
         NEW a, NEW p
  PROVE  /\ Rested(book, a, p) \in Nat
         /\ Rested(book \cup {o}, a, p) = Rested(book, a, p) + Offer(o, a, p)
<1> DEFINE S == {x \in book : x.addr = a /\ x.property = p}
           T == {x \in book \cup {o} : x.addr = a /\ x.property = p}
           f == [x \in S |-> x.remaining]
           g == [x \in T |-> x.remaining]
<1>1. IsFiniteSet(S) /\ f \in [S -> Nat] /\ g \in [T -> Nat]
  BY FS_Subset DEF Order
<1>2. Total(f) \in Nat
  BY <1>1, TotalType
<1>3. CASE o.addr = a /\ o.property = p
  <2>1. T = S \cup {o} /\ o \notin S /\ g[o] = o.remaining /\ \A j \in S : g[j] = f[j]
    BY <1>3
  <2> HIDE DEF S, T, f, g
  <2>2. Total(g) = Total(f) + o.remaining
    BY <1>1, <2>1, TotalAdd
  <2> QED BY <1>2, <1>3, <2>2 DEF Rested, Offer, S, T, f, g
<1>4. CASE ~(o.addr = a /\ o.property = p)
  <2>1. T = S /\ f = g
    BY <1>4
  <2> QED BY <1>2, <1>4, <2>1 DEF Rested, Offer
<1> QED BY <1>3, <1>4

\* The steps that move tokens or write the book.
LEMMA TokenSteps ==
  ASSUME [Next]_vars
  PROVE  \/ UNCHANGED <<tally, metadex>>
         \/ \E o \in metadex : x_Trade(o)
         \/ MetaDEx_INSERT
         \/ \E a \in Addr, o \in metadex : MetaDEx_CANCEL(a, o)
         \/ \E a \in Addr : MetaDEx_CANCEL_EVERYTHING(a)
<1>1. CASE UNCHANGED vars
  BY <1>1 DEF vars
<1>2. ASSUME NEW a \in Addr, NEW p, NEW d, NEW n, NEW m, MetaDExTrade(a, p, n, d, m)
      PROVE  UNCHANGED <<tally, metadex>>
  BY <1>2 DEF MetaDExTrade
<1>3. ASSUME NEW o \in metadex, x_TradeSkip(o) PROVE UNCHANGED <<tally, metadex>>
  BY <1>3 DEF x_TradeSkip
<1>4. CASE Next
  BY <1>2, <1>3, <1>4 DEF Next
<1> QED BY <1>1, <1>4

\* An order that leaves the book takes as much away.
LEMMA RestedRemove ==
  ASSUME NEW book \in SUBSET Order, IsFiniteSet(book), NEW o \in book, NEW a, NEW p
  PROVE  /\ Rested(book \ {o}, a, p) \in Nat
         /\ Rested(book, a, p) \in Nat
         /\ Rested(book \ {o}, a, p) = Rested(book, a, p) - Offer(o, a, p)
         /\ Offer(o, a, p) <= Rested(book, a, p)
<1> DEFINE B == book \ {o}
           k == Offer(o, a, p)
<1>1. B \in SUBSET Order /\ IsFiniteSet(B) /\ o \in Order /\ o \notin B /\ B \cup {o} = book
  BY FS_Subset
<1>2. k \in Nat
  BY DEF Order, Offer
<1> HIDE DEF B
<1>3. Rested(B, a, p) \in Nat /\ Rested(book, a, p) = Rested(B, a, p) + k
  BY <1>1, RestedAdd
<1> HIDE DEF k
<1>4. Rested(B, a, p) = Rested(book, a, p) - k /\ k <= Rested(book, a, p)
      /\ Rested(book, a, p) \in Nat
  BY <1>2, <1>3
<1> QED BY <1>3, <1>4 DEF B, k

\* ReserveBacksOrders of a given tally and book.
Backed(t, book) == \A a \in Addr, p \in Prop : t[Res(a, p)] = Rested(book, a, p)

\* What an address has of a property, free and reserved, fits an int64.
HoldingsFit ==
  \A a \in Addr, p \in Prop : tally[Bal(a, p)] + tally[Res(a, p)] <= MAX_INT64

\* A match debits the reserve of the maker by what it sold, if that is covered,
\* and touches no other reserve; the balance that the taker sells from loses at most the payment.
LEMMA MatchReserve ==
  ASSUME NEW t \in [Account -> Nat], NEW new \in Order, NEW old \in Order,
         new.property # new.desprop,
         old.property = new.desprop, old.desprop = new.property,
         NEW got \in Nat, NEW pay \in Nat,
         pay <= t[Bal(new.addr, new.property)]
  PROVE  LET u == Fees(Payment(t, new, old, got, pay), new, old, got)
         IN  /\ got <= t[Res(old.addr, old.property)] =>
                  \A a \in Addr, p \in Prop :
                    u[Res(a, p)] = t[Res(a, p)] -
                      (IF a = old.addr /\ p = old.property THEN got ELSE 0)
             /\ t[Bal(new.addr, new.property)] - pay <= u[Bal(new.addr, new.property)]
<1> DEFINE nb == Bal(new.addr, new.property)
           ob == Bal(old.addr, old.desprop)
           rs == Res(old.addr, old.property)
           nd == Bal(new.addr, new.desprop)
           op == Bal(old.addr, old.property)
           fee == CacheFee(got)
           t1 == update_tally_map(t, nb, -pay).tally
           t2 == update_tally_map(t1, ob, pay).tally
           t3 == update_tally_map(t2, rs, -got).tally
           t4 == update_tally_map(t3, nd, got).tally
           t5 == update_tally_map(t4, nd, -5 * fee).tally
           t6 == update_tally_map(t5, op, 4 * fee).tally
<1>1. Fees(Payment(t, new, old, got, pay), new, old, got) = t6
  BY DEF Fees, Payment, Move
<1>2. nb \in Account /\ ob \in Account /\ rs \in Account /\ nd \in Account /\ op \in Account
  BY AccountTypes DEF Order
<1>3. -pay \in Int /\ pay \in Int /\ -got \in Int /\ got \in Int
      /\ -5 * fee \in Int /\ 4 * fee \in Int
  BY FeeType
<1>4. nb # nd /\ nb # op /\ rs # nb /\ rs # ob /\ rs # nd /\ rs # op
  BY AccountsDiffer
<1>5. t[nb] \in Nat /\ t[rs] \in Nat
  BY <1>2
<1> DEFINE Others(u, v, acc) == u \in [Account -> Nat]
                                /\ \A x \in Account : x # acc => u[x] = v[x]
<1> HIDE DEF fee
<1>6. Others(t1, t, nb) /\ t1[nb] = t[nb] - pay
  <2>1. -pay <= 0 /\ 0 <= t[nb] + (-pay) /\ t[nb] + (-pay) = t[nb] - pay
    BY <1>5
  <2> QED BY <1>2, <1>3, <2>1, UpdateAt
<1> HIDE DEF t1
<1>7. Others(t2, t1, ob) /\ t1[ob] <= t2[ob]
  <2>1. t1 \in [Account -> Nat] /\ ob \in Account /\ pay \in Int /\ 0 <= pay
    BY <1>2, <1>3, <1>6
  <2> HIDE DEF ob
  <2>2. /\ t2 \in [Account -> Nat]
        /\ \A x \in Account : x # ob => t2[x] = t1[x]
        /\ 0 <= pay => t1[ob] <= t2[ob]
    BY <2>1, UpdateAt
  <2> QED BY <2>1, <2>2
<1> HIDE DEF t2
<1>8. t2[rs] = t[rs] /\ t1[nb] <= t2[nb]
  <2>1. t1[nb] \in Nat /\ t2[nb] \in Nat
    BY <1>2, <1>6, <1>7
  <2>2. nb # ob => t2[nb] = t1[nb]
    BY <1>2, <1>7
  <2> QED BY <1>2, <1>4, <1>6, <1>7, <2>1, <2>2
<1>9. Others(t3, t2, rs) /\ (got <= t[rs] => t3[rs] = t[rs] - got)
  <2>1. -got <= 0 /\ (got <= t[rs] => 0 <= t2[rs] + (-got)) /\ t2[rs] + (-got) = t[rs] - got
    BY <1>5, <1>8
  <2>2. Others(t3, t2, rs)
    <3>1. t2 \in [Account -> Nat] /\ rs \in Account /\ -got \in Int
      BY <1>2, <1>3, <1>7
    <3> HIDE DEF rs
    <3> QED BY <3>1, UpdateAt
  <2>3. got <= t[rs] => t3[rs] = t2[rs] + (-got)
    BY <1>2, <1>3, <1>7, <2>1, UpdateAt
  <2> QED BY <2>1, <2>2, <2>3
<1> HIDE DEF t3
<1>10. Others(t4, t3, nd)
  <2>1. t3 \in [Account -> Nat] /\ nd \in Account /\ got \in Int
    BY <1>2, <1>3, <1>9
  <2>2. t4 = update_tally_map(t3, nd, got).tally
    OBVIOUS
  <2> HIDE DEF nd, t4
  <2> QED BY <2>1, <2>2, UpdateAt
<1> HIDE DEF t4
<1>11. Others(t5, t4, nd)
  <2> DEFINE m == -5 * fee
  <2>1. t4 \in [Account -> Nat] /\ nd \in Account /\ m \in Int
    BY <1>2, <1>3, <1>10
  <2>2. t5 = update_tally_map(t4, nd, m).tally
    OBVIOUS
  <2> HIDE DEF nd, m, t5
  <2> QED BY <2>1, <2>2, UpdateAt
<1> HIDE DEF t5
<1>12. Others(t6, t5, op)
  <2> DEFINE m == 4 * fee
  <2>1. t5 \in [Account -> Nat] /\ op \in Account /\ m \in Int
    BY <1>2, <1>3, <1>11
  <2>2. t6 = update_tally_map(t5, op, m).tally
    OBVIOUS
  <2> HIDE DEF op, m, t6
  <2> QED BY <2>1, <2>2, UpdateAt
<1> HIDE DEF t6
<1>13. t6[nb] = t2[nb]
  BY <1>2, <1>4, <1>9, <1>10, <1>11, <1>12
<1>14. t[nb] - pay <= t6[nb]
  BY <1>5, <1>6, <1>8, <1>13
<1>15. ASSUME got <= t[rs], NEW a \in Addr, NEW p \in Prop
       PROVE  t6[Res(a, p)] = t[Res(a, p)] -
                (IF a = old.addr /\ p = old.property THEN got ELSE 0)
  <2> DEFINE x == Res(a, p)
  <2>1. x \in Account /\ x # nb /\ x # ob /\ x # nd /\ x # op
    BY AccountTypes, AccountsDiffer
  <2>2. t[x] \in Nat
    BY <2>1
  <2>3. CASE x = rs
    <3>1. a = old.addr /\ p = old.property
      BY <2>3, AccountsDiffer
    <3>2. t6[rs] = t3[rs]
      BY <1>2, <1>4, <1>10, <1>11, <1>12
    <3> QED BY <1>9, <1>15, <2>3, <3>1, <3>2
  <2>4. CASE x # rs
    <3>1. ~(a = old.addr /\ p = old.property)
      BY <2>4
    <3> HIDE DEF x
    <3>2. t6[x] = t[x]
      BY <1>6, <1>7, <1>9, <1>10, <1>11, <1>12, <2>1, <2>4
    <3>3. t6[x] = t[x] - 0
      BY <2>2, <3>2
    <3> QED BY <3>1, <3>3 DEF x
  <2> QED BY <2>3, <2>4
<1> QED BY <1>1, <1>14, <1>15

\* While a new order is matched, its owner's balance covers what remains of it:
\* nothing else runs meanwhile, each match debits the payment exactly, and the
\* fees are taken in the property bought, which is another one.
LEMMA StepCovered == ShapeInv /\ TakerCovered /\ [Next]_vars => TakerCovered'
<1> SUFFICES ASSUME ShapeInv, TakerCovered, [Next]_vars PROVE TakerCovered'
  OBVIOUS
<1>1. /\ tally \in [Account -> Nat] /\ metadex \subseteq Order
      /\ taker \in Order \cup {None} /\ None \notin Order
  BY MetaDExAssumption DEF ShapeInv, TypeOK
<1>2. ASSUME NEW a \in Addr, NEW p \in Prop, NEW d \in Prop, NEW n \in 1 .. MaxAmount,
             NEW m \in 1 .. MaxAmount, MetaDExTrade(a, p, n, d, m)
      PROVE  TakerCovered'
  <2> DEFINE r == DivideAndRoundUp(n * 5, BASISPOINT * BASISPOINT)
  <2>1. n \in Nat /\ n * 5 \in Nat /\ BASISPOINT * BASISPOINT \in Nat \ {0}
    BY MetaDExAssumption
  <2>2. r \in Nat
    BY <2>1, RoundUpBounds
  <2>3. tally[Bal(a, p)] \in Nat
    BY <1>1, AccountTypes
  <2>4. tally[Bal(a, p)] >= n + r
    BY <1>2 DEF MetaDExTrade, checkReserve
  <2> HIDE DEF r
  <2>5. tally[Bal(a, p)] >= n
    BY <2>1, <2>2, <2>3, <2>4
  <2>6. taker'.addr = a /\ taker'.property = p /\ taker'.remaining = n /\ tally' = tally
    BY <1>2 DEF MetaDExTrade
  <2> QED BY <2>5, <2>6 DEF TakerCovered, Bal
<1>3. ASSUME NEW o \in metadex, x_Trade(o) PROVE TakerCovered'
  <2> DEFINE got == CouldBuy(taker, o)
             pay == WouldPay(o, got)
             nb  == Bal(taker.addr, taker.property)
  <2>1. /\ taker # None /\ taker \in Order /\ o \in Order
        /\ o.property = taker.desprop /\ o.desprop = taker.property
        /\ o.property # o.desprop
        /\ got \in Nat /\ pay \in Nat /\ pay <= taker.remaining
    BY <1>3, LookingFacts DEF x_Trade
  <2>2. tally' = Fees(Payment(tally, taker, o, got, pay), taker, o, got)
        /\ taker' = Reduced(taker, pay) /\ tally' \in [Account -> Nat]
    <3>1. taker' = Reduced(taker, pay)
      BY <1>3, MatchFacts
    <3>2. tally' \in [Account -> Nat]
      BY StepType DEF TypeOK
    <3> QED BY <1>3, <3>1, <3>2 DEF x_Trade
  <2>3. nb \in Account /\ tally[nb] \in Nat /\ taker.remaining \in Nat /\ tally'[nb] \in Nat
    BY <1>1, <2>1, <2>2, AccountTypes DEF Order
  <2>4. tally[nb] >= taker.remaining
    BY <2>1 DEF TakerCovered
  <2> HIDE DEF got, pay
  <2>5. taker'.addr = taker.addr /\ taker'.property = taker.property
        /\ taker'.remaining = taker.remaining - pay
    BY <2>1, <2>2, ReducedOrder
  <2>6. pay <= tally[nb]
    BY <2>1, <2>3, <2>4
  <2>7. tally[nb] - pay <= tally'[nb]
    <3>1. taker.property # taker.desprop
      BY <2>1
    <3> QED BY <1>1, <2>1, <2>2, <2>6, <3>1, MatchReserve
  <2>8. tally'[nb] >= taker.remaining - pay
    <3> HIDE DEF nb
    <3> QED BY <2>1, <2>3, <2>4, <2>7
  <2> QED BY <2>5, <2>8 DEF TakerCovered, Bal
<1>4. ASSUME taker' = None PROVE TakerCovered'
  BY <1>4 DEF TakerCovered
<1>5. ASSUME UNCHANGED <<taker, tally>> PROVE TakerCovered'
  BY <1>5 DEF TakerCovered
<1> QED BY <1>2, <1>3, <1>4, <1>5 DEF Next, x_TradeSkip, MetaDEx_INSERT, MetaDEx_CANCEL,
        MetaDEx_CANCEL_EVERYTHING, Ready, vars

\* While x_Trade runs, the balance of the new order's owner covers what remains
\* of it, also when its own resting orders are matched and fees are taken.
THEOREM TakerStaysCovered == Spec => []TakerCovered
<1>1. Init => TakerCovered
  BY DEF Init, TakerCovered
<1> QED BY <1>1, InitShape, StepShape, StepCovered, PTL DEF Spec

\* Every step keeps the reserves equal to what the book offers.
LEMMA StepBacked ==
  ShapeInv /\ TakerCovered /\ HoldingsFit /\ ReserveBacksOrders /\ [Next]_vars
    => ReserveBacksOrders'
<1> SUFFICES ASSUME ShapeInv, TakerCovered, HoldingsFit, Backed(tally, metadex), [Next]_vars
             PROVE  Backed(tally', metadex')
  BY DEF ReserveBacksOrders, Backed
<1>1. /\ tally \in [Account -> Nat] /\ metadex \in SUBSET Order /\ IsFiniteSet(metadex)
      /\ taker \in Order \cup {None} /\ None \notin Order
  BY MetaDExAssumption DEF ShapeInv, TypeOK
<1>2. ASSUME NEW o \in metadex, x_Trade(o) PROVE Backed(tally', metadex')
  <2> DEFINE got == CouldBuy(taker, o)
             pay == WouldPay(o, got)
             rest == Reduced(o, got)
             B == metadex \ {o}
  <2>1. /\ taker # None /\ taker \in Order /\ o \in Order
        /\ o.property = taker.desprop /\ o.desprop = taker.property
        /\ o.property # o.desprop
        /\ got \in Nat /\ got <= o.remaining /\ pay \in Nat /\ pay <= taker.remaining
    BY <1>2, LookingFacts DEF x_Trade
  <2>2. /\ tally' = Fees(Payment(tally, taker, o, got, pay), taker, o, got)
        /\ metadex' = B \cup (IF o.remaining = got THEN {} ELSE {rest})
        /\ rest \in Order
    <3>1. /\ metadex' = B \cup (IF o.remaining = got THEN {} ELSE {rest})
          /\ rest \in Order
      BY <1>2, MatchFacts
    <3> QED BY <1>2, <3>1 DEF x_Trade
  <2> HIDE DEF got, pay
  <2>3. /\ o.addr \in Addr /\ o.property \in Prop /\ o.remaining \in Nat
        /\ rest.addr = o.addr /\ rest.property = o.property
        /\ rest.remaining = o.remaining - got /\ rest.id = o.id
    BY <2>1, ReducedOrder DEF Order
  <2>4. rest \notin B
    BY <2>3 DEF ShapeInv, OrdersOK
  <2>5. B \in SUBSET Order /\ IsFiniteSet(B)
    BY <1>1, FS_Subset
  <2>6. got <= tally[Res(o.addr, o.property)]
    <3>1. o.remaining <= Rested(metadex, o.addr, o.property)
          /\ Rested(metadex, o.addr, o.property) \in Nat
      BY <1>1, RestedRemove DEF Offer
    <3>2. tally[Res(o.addr, o.property)] = Rested(metadex, o.addr, o.property)
      BY <2>3 DEF Backed
    <3> QED BY <2>1, <2>3, <3>1, <3>2
  <2>7. pay <= tally[Bal(taker.addr, taker.property)]
    <3>1. tally[Bal(taker.addr, taker.property)] \in Nat /\ taker.remaining \in Nat
      BY <1>1, <2>1, AccountTypes DEF Order
    <3>2. tally[Bal(taker.addr, taker.property)] >= taker.remaining
      BY <2>1 DEF TakerCovered
    <3> QED BY <2>1, <3>1, <3>2
  <2>8. \A a \in Addr, p \in Prop :
          tally'[Res(a, p)] = tally[Res(a, p)] -
            (IF a = o.addr /\ p = o.property THEN got ELSE 0)
    <3>1. taker.property # taker.desprop
      BY <2>1
    <3> QED BY <1>1, <2>1, <2>2, <2>6, <2>7, <3>1, MatchReserve
  <2>9. ASSUME NEW a \in Addr, NEW p \in Prop
        PROVE  tally'[Res(a, p)] = Rested(metadex', a, p)
    <3> DEFINE mine == o.addr = a /\ o.property = p
               R == Rested(metadex, a, p)
               Q == Rested(B, a, p)
    <3>1. /\ Q \in Nat /\ R \in Nat
          /\ Q = R - (IF mine THEN o.remaining ELSE 0)
      <4>1. Q \in Nat /\ R \in Nat /\ Q = R - Offer(o, a, p)
        BY <1>1, RestedRemove
      <4> QED BY <4>1 DEF Offer
    <3>2. Rested(B \cup {rest}, a, p) = Q + (IF mine THEN o.remaining - got ELSE 0)
      <4>1. Rested(B \cup {rest}, a, p)
              = Q + (IF rest.addr = a /\ rest.property = p THEN rest.remaining ELSE 0)
        <5> HIDE DEF rest, B
        <5> QED BY <2>2, <2>4, <2>5, RestedAdd DEF Offer
      <4> QED BY <2>3, <4>1
    <3>3. Rested(metadex', a, p) = R - (IF mine THEN got ELSE 0)
      <4>1. CASE o.remaining = got
        <5>1. metadex' = B
          BY <2>2, <4>1
        <5> HIDE DEF R, Q, B
        <5> QED BY <3>1, <4>1, <5>1 DEF Q
      <4>2. CASE o.remaining # got
        <5>1. metadex' = B \cup {rest}
          BY <2>2, <4>2
        <5>2. Rested(metadex', a, p) = Q + (IF mine THEN o.remaining - got ELSE 0)
          BY <3>2, <5>1
        <5> HIDE DEF R, Q, B, rest
        <5> QED BY <2>1, <2>3, <3>1, <5>2
      <4> QED BY <4>1, <4>2
    <3>4. tally[Res(a, p)] = R
      BY DEF Backed
    <3>5. tally'[Res(a, p)] = R - (IF mine THEN got ELSE 0)
      BY <2>8, <3>4
    <3> QED BY <3>3, <3>5
  <2> QED BY <2>9 DEF Backed
<1>3. CASE MetaDEx_INSERT
  <2> DEFINE b == taker.addr
             q == taker.property
             n == taker.remaining
  <2>1. taker # None /\ taker \in Order /\ b \in Addr /\ q \in Prop /\ n \in Nat
    BY <1>1, <1>3 DEF MetaDEx_INSERT, Order
  <2>2. CASE ~(n > 0)
    <3>1. metadex' = metadex /\ tally' = tally
      BY <1>3, <2>2 DEF MetaDEx_INSERT
    <3> QED BY <3>1
  <2>3. CASE n > 0
    <3> DEFINE t1 == update_tally_map(tally, Bal(b, q), -n).tally
    <3>1. metadex' = metadex \cup {taker}
          /\ tally' = update_tally_map(t1, Res(b, q), n).tally
      BY <1>3, <2>3 DEF MetaDEx_INSERT, Move
    <3>2. taker \notin metadex
      <4>1. \A x \in metadex : x.id < taker.id /\ x.id \in Nat
        BY <1>1, <2>1 DEF ShapeInv, OrdersOK, Order, OrderId
      <4> QED BY <4>1
    <3>3. Bal(b, q) \in Account /\ Res(b, q) \in Account /\ Bal(b, q) # Res(b, q)
      BY <2>1, AccountTypes, AccountsDiffer
    <3>4. /\ t1 \in [Account -> Nat]
          /\ \A x \in Account : x # Bal(b, q) => t1[x] = tally[x]
      <4>1. -n \in Int
        BY <2>1
      <4> QED BY <1>1, <3>3, <4>1, UpdateAt
    <3> HIDE DEF t1
    <3>5. tally[Res(b, q)] + n <= MAX_INT64
      <4>1. tally[Bal(b, q)] >= n
        BY <2>1 DEF TakerCovered
      <4>2. tally[Bal(b, q)] + tally[Res(b, q)] <= MAX_INT64
        BY <2>1 DEF HoldingsFit
      <4>3. tally[Bal(b, q)] \in Nat /\ tally[Res(b, q)] \in Nat /\ MAX_INT64 \in Nat
        BY <1>1, <3>3, MaxInt64Assumption
      <4> HIDE DEF b, q, n
      <4> QED BY <2>1, <4>1, <4>2, <4>3
    <3>6. /\ \A x \in Account : x # Res(b, q) => tally'[x] = t1[x]
          /\ tally'[Res(b, q)] = tally[Res(b, q)] + n
      <4>1. t1[Res(b, q)] = tally[Res(b, q)]
        BY <3>3, <3>4
      <4>2. n \in Int /\ 0 <= n /\ t1[Res(b, q)] + n <= MAX_INT64
        BY <2>1, <3>5, <4>1
      <4> HIDE DEF b, q, n
      <4>3. /\ \A x \in Account : x # Res(b, q) => tally'[x] = t1[x]
            /\ tally'[Res(b, q)] = t1[Res(b, q)] + n
        BY <3>1, <3>3, <3>4, <4>2, UpdateAt
      <4> QED BY <4>1, <4>3
    <3>7. ASSUME NEW a \in Addr, NEW p \in Prop
          PROVE  tally'[Res(a, p)] = Rested(metadex', a, p)
      <4>1. /\ Rested(metadex, a, p) \in Nat
            /\ Rested(metadex', a, p) = Rested(metadex, a, p)
                                        + (IF b = a /\ q = p THEN n ELSE 0)
        BY <1>1, <2>1, <3>1, <3>2, RestedAdd DEF Offer
      <4>2. tally[Res(a, p)] = Rested(metadex, a, p)
        BY DEF Backed
      <4>3. CASE b = a /\ q = p
        BY <3>6, <4>1, <4>2, <4>3
      <4>4. CASE ~(b = a /\ q = p)
        <5>1. Res(a, p) # Res(b, q) /\ Res(a, p) # Bal(b, q) /\ Res(a, p) \in Account
          BY <4>4, AccountsDiffer, AccountTypes
        <5>2. tally'[Res(a, p)] = tally[Res(a, p)]
          BY <3>4, <3>6, <5>1
        <5> QED BY <4>1, <4>2, <4>4, <5>2
      <4> QED BY <4>3, <4>4
    <3> QED BY <3>7 DEF Backed
  <2> QED BY <2>2, <2>3
<1>4. ASSUME NEW b \in Addr, NEW o \in metadex, MetaDEx_CANCEL(b, o)
      PROVE  Backed(tally', metadex')
  <2> DEFINE q == o.property
             n == o.remaining
             t1 == update_tally_map(tally, Res(b, q), -n).tally
  <2>1. o \in Order /\ q \in Prop /\ n \in Nat /\ o.addr = b
        /\ metadex' = metadex \ {o}
        /\ tally' = update_tally_map(t1, Bal(b, q), n).tally
    BY <1>1, <1>4 DEF MetaDEx_CANCEL, Order, Move
  <2>2. Bal(b, q) \in Account /\ Res(b, q) \in Account /\ Bal(b, q) # Res(b, q)
    BY <2>1, AccountTypes, AccountsDiffer
  <2>3. n <= tally[Res(b, q)] /\ tally[Res(b, q)] \in Nat
    <3>1. n <= Rested(metadex, b, q)
      BY <1>1, <2>1, RestedRemove DEF Offer
    <3> QED BY <1>1, <2>1, <2>2, <3>1 DEF Backed
  <2> HIDE DEF q, n
  <2>4. /\ t1 \in [Account -> Nat]
        /\ \A x \in Account : x # Res(b, q) => t1[x] = tally[x]
        /\ t1[Res(b, q)] = tally[Res(b, q)] - n
    <3>1. -n \in Int /\ -n <= 0 /\ 0 <= tally[Res(b, q)] + (-n)
          /\ tally[Res(b, q)] + (-n) = tally[Res(b, q)] - n
      BY <2>1, <2>3
    <3> QED BY <1>1, <2>2, <3>1, UpdateAt
  <2> HIDE DEF t1
  <2>5. \A x \in Account : x # Bal(b, q) => tally'[x] = t1[x]
    <3>1. n \in Int
      BY <2>1
    <3> QED BY <2>1, <2>2, <2>4, <3>1, UpdateAt
  <2>6. ASSUME NEW a \in Addr, NEW p \in Prop
        PROVE  tally'[Res(a, p)] = Rested(metadex', a, p)
    <3>1. /\ Rested(metadex, a, p) \in Nat
          /\ Rested(metadex', a, p) = Rested(metadex, a, p)
                                      - (IF b = a /\ q = p THEN n ELSE 0)
      <4>1. /\ Rested(metadex, a, p) \in Nat
            /\ Rested(metadex \ {o}, a, p) = Rested(metadex, a, p) - Offer(o, a, p)
        BY <1>1, RestedRemove
      <4> QED BY <2>1, <4>1 DEF Offer, q, n
    <3>2. tally[Res(a, p)] = Rested(metadex, a, p)
      BY DEF Backed
    <3>3. Res(a, p) # Bal(b, q) /\ Res(a, p) \in Account
      BY AccountsDiffer, AccountTypes
    <3>4. CASE b = a /\ q = p
      <4>1. tally'[Res(a, p)] = tally[Res(a, p)] - n
        BY <2>4, <2>5, <3>3, <3>4
      <4> QED BY <3>1, <3>2, <3>4, <4>1
    <3>5. CASE ~(b = a /\ q = p)
      <4>1. Res(a, p) # Res(b, q)
        BY <3>5, AccountsDiffer
      <4>2. tally'[Res(a, p)] = tally[Res(a, p)]
        BY <2>4, <2>5, <3>3, <4>1
      <4> QED BY <3>1, <3>2, <3>5, <4>2
    <3> QED BY <3>4, <3>5
  <2> QED BY <2>6 DEF Backed
<1>5. ASSUME NEW b \in Addr, MetaDEx_CANCEL_EVERYTHING(b)
      PROVE  Backed(tally', metadex')
  <2>1. metadex' = {o \in metadex : o.addr # b}
    BY <1>5 DEF MetaDEx_CANCEL_EVERYTHING
  <2>2. ASSUME NEW a \in Addr, NEW p \in Prop
        PROVE  tally'[Res(a, p)] = Rested(metadex', a, p)
    <3>1. Res(a, p) \in Account /\ Res(a, p)[1] = a /\ Res(a, p)[2] = p
          /\ Res(a, p)[3] = "METADEX_RESERVE"
      BY AccountTypes DEF Res
    <3>2. tally[Res(a, p)] = Rested(metadex, a, p) /\ Rested(metadex, a, p) \in Nat
      BY <1>1, RestedType DEF Backed
    <3>3. CASE a # b
      <4>1. tally'[Res(a, p)] = tally[Res(a, p)]
        BY <1>5, <3>1, <3>3 DEF MetaDEx_CANCEL_EVERYTHING
      <4>2. {x \in metadex' : x.addr = a /\ x.property = p}
              = {x \in metadex : x.addr = a /\ x.property = p}
        BY <2>1, <3>3
      <4>3. Rested(metadex', a, p) = Rested(metadex, a, p)
        BY <4>2 DEF Rested
      <4> QED BY <3>2, <4>1, <4>3
    <3>4. CASE a = b
      <4> DEFINE R == Rested(metadex, a, p)
      <4>1. tally'[Res(a, p)] = updateMoney(tally[Res(a, p)], -R, "METADEX_RESERVE")
        BY <1>5, <3>1, <3>4 DEF MetaDEx_CANCEL_EVERYTHING
      <4>2. R \in Nat /\ tally[Res(a, p)] = R
        BY <3>2
      <4> HIDE DEF R
      <4>3. updateMoney(R, -R, "METADEX_RESERVE") = 0
        BY <4>2, MaxInt64Assumption DEF updateMoney, updateMoneyOk, isOverflow, MIN_INT64
      <4> DEFINE f == [o \in {x \in metadex' : x.addr = a /\ x.property = p} |-> o.remaining]
      <4>4. f \in [{} -> Nat]
        <5>1. {x \in metadex' : x.addr = a /\ x.property = p} = {}
          BY <2>1, <3>4
        <5> QED BY <5>1
      <4>5. Rested(metadex', a, p) = 0
        <5> HIDE DEF f
        <5>1. Total(f) = 0
          BY <4>4, TotalZero
        <5> QED BY <5>1 DEF Rested, f
      <4> QED BY <4>1, <4>2, <4>3, <4>5
    <3> QED BY <3>3, <3>4
  <2> QED BY <2>2 DEF Backed
<1>6. ASSUME UNCHANGED <<tally, metadex>> PROVE Backed(tally', metadex')
  BY <1>6
<1> QED BY <1>2, <1>3, <1>4, <1>5, <1>6, TokenSteps

\* As long as what an address has of a property fits an int64, its
\* METADEX_RESERVE is exactly what its resting orders offer.  (updateMoney
\* refuses the credit of a reserve that would overflow, and the order would
\* rest without its tokens; the bound is needed for no other step.)
THEOREM ReservesBackBook == Spec /\ []HoldingsFit => []ReserveBacksOrders
<1>1. Init => ReserveBacksOrders
  <2> SUFFICES ASSUME Init, NEW a \in Addr, NEW p \in Prop
               PROVE  tally[Res(a, p)] = Rested(metadex, a, p)
    BY DEF ReserveBacksOrders
  <2>1. tally[Res(a, p)] = 0
    BY AccountTypes DEF Init, Res
  <2> DEFINE f == [o \in {x \in metadex : x.addr = a /\ x.property = p} |-> o.remaining]
  <2>2. f \in [{} -> Nat]
    BY DEF Init
  <2> HIDE DEF f
  <2>3. Total(f) = 0
    BY <2>2, TotalZero
  <2> QED BY <2>1, <2>3 DEF Rested, f
<1>2. Init => TakerCovered
  BY DEF Init, TakerCovered
<1> QED BY <1>1, <1>2, InitShape, StepShape, StepCovered, StepBacked, PTL DEF Spec

-----------------------------------------------------------------------------
(* The supply *)

\* Supply counts the accounts of a property by address and type.
Holding(t, p) == [x \in Addr \X MDexType |-> t[<<x[1], p, x[2]>>]]

\* A family of natural numbers over finitely many accounts.
LEMMA HoldingType ==
  ASSUME NEW t \in [Account -> Nat], NEW p \in Prop
  PROVE  /\ Holding(t, p) \in [Addr \X MDexType -> Nat]
         /\ IsFiniteSet(Addr \X MDexType)
         /\ Supply(t, p) = Total(Holding(t, p)) /\ Supply(t, p) \in Nat
<1>1. \A x \in Addr \X MDexType : <<x[1], p, x[2]>> \in Account
  BY DEF Account
<1>2. Holding(t, p) \in [Addr \X MDexType -> Nat]
  BY <1>1 DEF Holding
<1>3. IsFiniteSet(Addr \X MDexType)
  <2>1. IsFiniteSet({"BALANCE"}) /\ IsFiniteSet({"METADEX_RESERVE"})
    BY FS_Singleton
  <2>2. MDexType = {"BALANCE"} \cup {"METADEX_RESERVE"}
    BY DEF MDexType
  <2>3. IsFiniteSet(MDexType)
    BY <2>1, <2>2, FS_Union
  <2> QED BY <2>3, MetaDExAssumption, FS_Product
<1>4. Supply(t, p) = Total(Holding(t, p))
  BY DEF Supply, Holding
<1> QED BY <1>2, <1>3, <1>4, TotalType

\* A change of one account changes the supply of its property by as much, and
\* that of no other property.
LEMMA SupplyAt ==
  ASSUME NEW t \in [Account -> Nat], NEW u \in [Account -> Nat], NEW acc \in Account,
         \A x \in Account : x # acc => u[x] = t[x],
         NEW q \in Prop
  PROVE  /\ t[acc] <= Supply(t, acc[2])
         /\ Supply(u, q) = IF q = acc[2] THEN Supply(t, q) - t[acc] + u[acc]
                           ELSE Supply(t, q)
<1> DEFINE K == Addr \X MDexType
           p == acc[2]
           k == <<acc[1], acc[3]>>
           f == Holding(t, p)
           g == Holding(u, p)
<1>1. /\ p \in Prop /\ k \in K /\ k[1] = acc[1] /\ k[2] = acc[3]
      /\ acc = <<k[1], p, k[2]>>
  BY DEF Account
<1>2. /\ f \in [K -> Nat] /\ g \in [K -> Nat] /\ IsFiniteSet(K)
      /\ Supply(t, p) = Total(f) /\ Supply(u, p) = Total(g)
  BY <1>1, HoldingType
<1> HIDE DEF p, k
<1>3. f[k] = t[acc] /\ g[k] = u[acc] /\ f[k] \in Nat /\ g[k] \in Nat
  BY <1>1, <1>2 DEF Holding
<1>4. \A x \in K : x # k => g[x] = f[x]
  <2> TAKE x \in K
  <2> HAVE x # k
  <2>1. <<x[1], p, x[2]>> \in Account /\ <<x[1], p, x[2]>> # acc
    BY <1>1 DEF Account
  <2> QED BY <2>1 DEF Holding
<1>5. ASSUME q # p PROVE Supply(u, q) = Supply(t, q)
  <2>1. \A x \in K : <<x[1], q, x[2]>> \in Account /\ <<x[1], q, x[2]>> # acc
    BY <1>1, <1>5 DEF Account
  <2>2. Holding(u, q) = Holding(t, q)
    BY <2>1 DEF Holding
  <2> QED BY <2>2, HoldingType
<1> HIDE DEF f, g, K
<1>6. g = [f EXCEPT ![k] = g[k]]
  BY <1>1, <1>2, <1>3, <1>4
<1>7. /\ Total(f) \in Nat /\ f[k] <= Total(f)
      /\ Total([f EXCEPT ![k] = g[k]]) = Total(f) - f[k] + g[k]
  <2> DEFINE v == g[k]
  <2>1. v \in Nat /\ k \in K /\ f \in [K -> Nat] /\ IsFiniteSet(K)
    BY <1>1, <1>2, <1>3
  <2> HIDE DEF v
  <2>2. /\ Total(f) \in Nat /\ f[k] <= Total(f)
        /\ Total([f EXCEPT ![k] = v]) = Total(f) - f[k] + v
    BY <2>1, TotalUpdate
  <2> QED BY <2>2 DEF v
<1>8. t[acc] <= Supply(t, p) /\ Supply(u, p) = Supply(t, p) - t[acc] + u[acc]
  BY <1>2, <1>3, <1>6, <1>7
<1> QED BY <1>5, <1>8 DEF p

\* A covered debit and a credit that fits change the supply by their amount.
LEMMA SupplyUpdate ==
  ASSUME NEW t \in [Account -> Nat], NEW acc \in Account, NEW n \in Int,
         0 <= t[acc] + n, n <= 0 \/ Supply(t, acc[2]) + n <= MAX_INT64
  PROVE  LET u == update_tally_map(t, acc, n).tally
         IN  /\ u \in [Account -> Nat]
             /\ \A x \in Account : x # acc => u[x] = t[x]
             /\ u[acc] = t[acc] + n
             /\ \A q \in Prop : Supply(u, q) = Supply(t, q) + (IF q = acc[2] THEN n ELSE 0)
<1> DEFINE u == update_tally_map(t, acc, n).tally
<1>1. acc[2] \in Prop /\ t[acc] \in Nat /\ MAX_INT64 \in Nat
  BY MaxInt64Assumption DEF Account
<1>2. Supply(t, acc[2]) \in Nat /\ t[acc] <= Supply(t, acc[2])
  <2>1. \A x \in Account : x # acc => t[x] = t[x]
    OBVIOUS
  <2>2. /\ t[acc] <= Supply(t, acc[2])
        /\ Supply(t, acc[2]) = IF acc[2] = acc[2] THEN Supply(t, acc[2]) - t[acc] + t[acc]
                               ELSE Supply(t, acc[2])
    BY <1>1, <2>1, SupplyAt
  <2> QED BY <1>1, <2>2, HoldingType
<1>3. (n <= 0 /\ 0 <= t[acc] + n) \/ (0 <= n /\ t[acc] + n <= MAX_INT64)
  BY <1>1, <1>2
<1>4. /\ u \in [Account -> Nat] /\ \A x \in Account : x # acc => u[x] = t[x]
      /\ u[acc] = t[acc] + n
  BY <1>1, <1>3, UpdateAt
<1> HIDE DEF u
<1>5. ASSUME NEW q \in Prop PROVE Supply(u, q) = Supply(t, q) + (IF q = acc[2] THEN n ELSE 0)
  <2>1. Supply(t, q) \in Nat
    BY HoldingType
  <2>2. Supply(u, q) = IF q = acc[2] THEN Supply(t, q) - t[acc] + u[acc] ELSE Supply(t, q)
    BY <1>4, SupplyAt
  <2> QED BY <1>1, <1>2, <1>4, <2>1, <2>2
<1> QED BY <1>4, <1>5 DEF u

\* A covered move between two accounts of a property leaves all supplies as
\* they are, provided that they fit.
LEMMA MoveSupply ==
  ASSUME NEW t \in [Account -> Nat], NEW src \in Account, NEW dst \in Account,
         src[2] = dst[2], NEW n \in Nat, n <= t[src], Supply(t, src[2]) <= MAX_INT64
  PROVE  LET u == Move(t, src, dst, n).tally
         IN  /\ u \in [Account -> Nat]
             /\ \A q \in Prop : Supply(u, q) = Supply(t, q)
             /\ \A z \in Account : z # src /\ z # dst => u[z] = t[z]
             /\ src # dst => u[dst] = t[dst] + n
<1> DEFINE m == -n
           p == src[2]
           t1 == update_tally_map(t, src, m).tally
           u == update_tally_map(t1, dst, n).tally
<1>1. m \in Int /\ m <= 0 /\ m = 0 - n /\ n \in Int
  OBVIOUS
<1>2. t[src] \in Nat /\ t[dst] \in Nat /\ MAX_INT64 \in Nat /\ p \in Prop
  BY MaxInt64Assumption DEF Account
<1>3. Supply(t, p) \in Nat
  BY <1>2, HoldingType
<1> HIDE DEF m
<1>4. 0 <= t[src] + m
  BY <1>1, <1>2
<1>5. /\ t1 \in [Account -> Nat] /\ \A z \in Account : z # src => t1[z] = t[z]
      /\ t1[src] = t[src] + m
      /\ \A q \in Prop : Supply(t1, q) = Supply(t, q) + (IF q = p THEN m ELSE 0)
  BY <1>1, <1>4, SupplyUpdate
<1> HIDE DEF t1
<1>6. t1[dst] \in Nat /\ 0 <= t1[dst] + n
  BY <1>5
<1>7. Supply(t1, dst[2]) + n <= MAX_INT64
  <2>1. Supply(t1, p) = Supply(t, p) + m
    BY <1>2, <1>5
  <2>2. Supply(t1, p) + n = Supply(t, p)
    BY <1>1, <1>3, <2>1
  <2> QED BY <2>2
<1>8. /\ u \in [Account -> Nat] /\ \A z \in Account : z # dst => u[z] = t1[z]
      /\ u[dst] = t1[dst] + n
      /\ \A q \in Prop : Supply(u, q) = Supply(t1, q) + (IF q = dst[2] THEN n ELSE 0)
  BY <1>1, <1>5, <1>6, <1>7, SupplyUpdate
<1> HIDE DEF u
<1>9. ASSUME NEW q \in Prop PROVE Supply(u, q) = Supply(t, q)
  <2>1. Supply(t, q) \in Nat
    BY HoldingType
  <2>2. Supply(u, q) = Supply(t, q) + (IF q = p THEN m ELSE 0) + (IF q = p THEN n ELSE 0)
    BY <1>5, <1>8
  <2> QED BY <1>1, <2>1, <2>2
<1>10. \A z \in Account : z # src /\ z # dst => u[z] = t[z]
  BY <1>5, <1>8
<1>11. src # dst => u[dst] = t[dst] + n
  BY <1>2, <1>5, <1>8
<1>12. Move(t, src, dst, n).tally = u
  BY DEF Move, u, t1, m
<1> QED BY <1>8, <1>9, <1>10, <1>11, <1>12

\* The fee grows with what was bought, and is never more.
LEMMA FeeMono ==
  ASSUME NEW x \in Nat, NEW y \in Nat, x <= y
  PROVE  CacheFee(x) <= CacheFee(y) /\ CacheFee(x) <= x
<1> DEFINE D == BASISPOINT * BASISPOINT
           c == CacheFee(x)
           d == CacheFee(y)
<1>1. D \in Nat \ {0}
  BY MetaDExAssumption
<1> HIDE DEF D
<1>2. c \in Nat /\ c * D < x + D
  BY <1>1, RoundUpBounds DEF CacheFee, D
<1>3. d \in Nat /\ y <= d * D
  BY <1>1, RoundUpBounds DEF CacheFee, D
<1> HIDE DEF c, d
<1>4. c * D < (d + 1) * D
  <2>1. (d + 1) * D = d * D + D /\ d * D \in Nat /\ c * D \in Nat
    BY <1>1, <1>2, <1>3
  <2> QED BY <1>1, <1>2, <1>3, <2>1
<1>5. c * D < (x + 1) * D
  <2>1. (x + 1) * D = x * D + D /\ x * D \in Nat /\ c * D \in Nat
    BY <1>1, <1>2
  <2>2. x <= x * D
    <3>1. PICK e \in Nat : D = 1 + e
      <4>1. D - 1 \in Nat /\ D = 1 + (D - 1)
        BY <1>1
      <4> QED BY <4>1
    <3>2. x * D = x + x * e /\ x * e \in Nat
      BY <3>1
    <3> QED BY <3>2
  <2> QED BY <1>1, <1>2, <2>1, <2>2
<1>6. c < d + 1
  BY <1>1, <1>2, <1>3, <1>4, Cancel
<1>7. c < x + 1
  BY <1>1, <1>2, <1>5, Cancel
<1>8. c <= d /\ c <= x
  BY <1>2, <1>3, <1>6, <1>7
<1> QED BY <1>8 DEF c, d

\* A debit beyond the balance takes what is there.
LEMMA UpdateFloor ==
  ASSUME NEW t \in [Account -> Nat], NEW acc \in Account, NEW k \in Nat,
         k <= t[acc] + MAX_INT64
  PROVE  update_tally_map(t, acc, -k).tally[acc] = IF t[acc] < k THEN 0 ELSE t[acc] - k
<1> DEFINE b == t[acc]
           v == updateMoney(b, -k, acc[3])
<1>1. b \in Nat /\ MAX_INT64 \in Nat /\ acc[3] \notin MayBeNegative
  BY MaxInt64Assumption DEF Account, MDexType, MayBeNegative
<1>2. update_tally_map(t, acc, -k).tally[acc] = v
  BY DEF update_tally_map
<1>3. k <= b + MAX_INT64
  OBVIOUS
<1> HIDE DEF b
<1>4. v = IF b < k THEN 0 ELSE b - k
  <2>1. CASE k = 0
    BY <1>1, <2>1 DEF updateMoney, updateMoneyOk
  <2>2. CASE k # 0
    <3>1. updateMoneyOk(b, -k)
      BY <1>1, <1>3, <2>2 DEF updateMoneyOk, isOverflow, MIN_INT64
    <3> QED BY <1>1, <2>2, <3>1 DEF updateMoney
  <2> QED BY <2>1, <2>2
<1> QED BY <1>2, <1>4 DEF b

\* What the fees of a match do to the supply: the buyer pays five parts, or
\* all it has, and the maker gets four.
LEMMA FeesSupply ==
  ASSUME NEW t \in [Account -> Nat], NEW new \in Order, NEW old \in Order,
         old.property = new.desprop, NEW got \in Nat,
         got <= t[Bal(new.addr, new.desprop)],
         Supply(t, new.desprop) + 4 * CacheFee(got) <= MAX_INT64,
         NEW q \in Prop
  PROVE  Supply(Fees(t, new, old, got), q)
           = IF q = new.desprop
             THEN Supply(t, q) + 4 * CacheFee(got)
                  - (IF t[Bal(new.addr, new.desprop)] < 5 * CacheFee(got)
                     THEN t[Bal(new.addr, new.desprop)] ELSE 5 * CacheFee(got))
             ELSE Supply(t, q)
<1> DEFINE p   == new.desprop
           nd  == Bal(new.addr, new.desprop)
           op  == Bal(old.addr, old.property)
           fee == CacheFee(got)
           k   == 5 * fee
           m   == -k
           n   == 4 * fee
           t5  == update_tally_map(t, nd, m).tally
           t6  == update_tally_map(t5, op, n).tally
           cut == IF t[nd] < k THEN t[nd] ELSE k
<1>1. /\ p \in Prop /\ nd \in Account /\ op \in Account /\ nd[2] = p /\ op[2] = p
      /\ t[nd] \in Nat /\ MAX_INT64 \in Nat
  <2>1. p \in Prop /\ nd \in Account /\ op \in Account /\ nd[2] = p /\ op[2] = p
    BY AccountTypes DEF Order, Bal
  <2> QED BY <2>1, MaxInt64Assumption
<1>2. fee \in Nat /\ fee <= got
  BY FeeType, FeeMono
<1>3. Fees(t, new, old, got) = t6
  <2>1. m = -5 * fee
    BY <1>2
  <2> QED BY <2>1 DEF Fees
<1>4. got <= t[nd] /\ Supply(t, p) + n <= MAX_INT64
  OBVIOUS
<1> HIDE DEF p, nd, op, fee
<1>5. k \in Nat /\ n \in Nat /\ n \in Int /\ m \in Int
  BY <1>2
<1>6. Supply(t, p) \in Nat /\ Supply(t, q) \in Nat
  BY <1>1, HoldingType
<1>7. k <= t[nd] + MAX_INT64
  BY <1>1, <1>2, <1>4, <1>6
<1> HIDE DEF k, n
<1>8. t5 \in [Account -> Nat] /\ (\A x \in Account : x # nd => t5[x] = t[x])
      /\ t5[nd] = IF t[nd] < k THEN 0 ELSE t[nd] - k
  <2>1. t5[nd] = IF t[nd] < k THEN 0 ELSE t[nd] - k
    BY <1>1, <1>5, <1>7, UpdateFloor
  <2> HIDE DEF m
  <2>2. t5 \in [Account -> Nat] /\ \A x \in Account : x # nd => t5[x] = t[x]
    BY <1>1, <1>5, UpdateAt
  <2> QED BY <2>1, <2>2
<1> HIDE DEF t5, m
<1>9. t5[nd] = t[nd] - cut /\ cut \in Nat /\ t5[nd] \in Nat /\ cut <= t[nd]
  BY <1>1, <1>5, <1>8
<1> HIDE DEF cut
<1>10. \A r \in Prop : Supply(t5, r) = IF r = p THEN Supply(t, r) - t[nd] + t5[nd]
                                       ELSE Supply(t, r)
  BY <1>1, <1>8, SupplyAt
<1>11. Supply(t5, p) = Supply(t, p) - cut
  BY <1>1, <1>6, <1>9, <1>10
<1>12. Supply(t5, op[2]) + n <= MAX_INT64
  <2>1. Supply(t5, p) + n <= MAX_INT64
    BY <1>1, <1>4, <1>5, <1>6, <1>9, <1>11
  <2> QED BY <1>1, <2>1
<1>13. 0 <= t5[op] + n
  BY <1>1, <1>5, <1>8
<1>14. \A r \in Prop : Supply(t6, r) = Supply(t5, r) + (IF r = op[2] THEN n ELSE 0)
  BY <1>1, <1>5, <1>8, <1>12, <1>13, SupplyUpdate
<1> HIDE DEF t6
<1>15. Supply(t6, q) = IF q = p THEN Supply(t, q) + n - cut ELSE Supply(t, q)
  <2>1. CASE q = p
    <3>1. Supply(t6, p) = Supply(t5, p) + n
      BY <1>1, <1>14
    <3> QED BY <1>5, <1>6, <1>9, <1>11, <2>1, <3>1
  <2>2. CASE q # p
    <3>1. Supply(t6, q) = Supply(t5, q) + 0 /\ Supply(t5, q) = Supply(t, q)
      BY <1>1, <1>10, <1>14, <2>2
    <3> QED BY <1>6, <2>2, <3>1
  <2> QED BY <2>1, <2>2
<1> QED BY <1>3, <1>15 DEF p, nd, n, k, cut, fee

\* What a whole match does to the supply.
LEMMA MatchSupply ==
  ASSUME NEW t \in [Account -> Nat], NEW new \in Order, NEW old \in Order,
         new.property # new.desprop,
         old.property = new.desprop, old.desprop = new.property,
         NEW got \in Nat, NEW pay \in Nat,
         pay <= t[Bal(new.addr, new.property)], got <= t[Res(old.addr, old.property)],
         Supply(t, new.property) <= MAX_INT64,
         Supply(t, new.desprop) + 4 * CacheFee(got) <= MAX_INT64,
         NEW q \in Prop
  PROVE  Supply(Fees(Payment(t, new, old, got, pay), new, old, got), q)
           = IF q = new.desprop
             THEN Supply(t, q) + 4 * CacheFee(got)
                  - (IF t[Bal(new.addr, new.desprop)] + got < 5 * CacheFee(got)
                     THEN t[Bal(new.addr, new.desprop)] + got ELSE 5 * CacheFee(got))
             ELSE Supply(t, q)
<1> DEFINE nb == Bal(new.addr, new.property)
           ob == Bal(old.addr, old.desprop)
           rs == Res(old.addr, old.property)
           nd == Bal(new.addr, new.desprop)
           t2 == Move(t, nb, ob, pay).tally
           t4 == Move(t2, rs, nd, got).tally
           n  == 4 * CacheFee(got)
<1>1. /\ new.property \in Prop /\ new.desprop \in Prop
      /\ nb \in Account /\ ob \in Account /\ rs \in Account /\ nd \in Account
      /\ nb[2] = new.property /\ ob[2] = new.property
      /\ rs[2] = new.desprop /\ nd[2] = new.desprop
  BY AccountTypes DEF Order, Bal, Res
<1>2. rs # nd /\ rs # nb /\ rs # ob /\ nd # nb /\ nd # ob
  <2>1. nd # nb /\ nd # ob
    BY <1>1
  <2> QED BY <2>1, AccountsDiffer
<1>3. Payment(t, new, old, got, pay) = t4
  BY DEF Payment
<1>4. pay <= t[nb] /\ got <= t[rs] /\ Supply(t, new.desprop) + n <= MAX_INT64
  OBVIOUS
<1>5. n \in Nat /\ Supply(t, new.desprop) \in Nat /\ MAX_INT64 \in Nat
  BY <1>1, FeeType, HoldingType, MaxInt64Assumption
<1> HIDE DEF nb, ob, rs, nd, n
<1>6. /\ t2 \in [Account -> Nat]
      /\ \A r \in Prop : Supply(t2, r) = Supply(t, r)
      /\ \A z \in Account : z # nb /\ z # ob => t2[z] = t[z]
  <2>1. Supply(t, nb[2]) <= MAX_INT64 /\ nb[2] = ob[2]
    BY <1>1
  <2> QED BY <1>1, <1>4, <2>1, MoveSupply
<1> HIDE DEF t2
<1>7. t2[rs] = t[rs] /\ t2[nd] = t[nd] /\ t[nd] \in Nat
  BY <1>1, <1>2, <1>6
<1>8. Supply(t2, new.desprop) <= MAX_INT64
  <2>1. Supply(t2, new.desprop) = Supply(t, new.desprop)
    BY <1>1, <1>6
  <2> QED BY <1>4, <1>5, <2>1
<1>9. /\ t4 \in [Account -> Nat]
      /\ \A r \in Prop : Supply(t4, r) = Supply(t2, r)
      /\ t4[nd] = t2[nd] + got
  <2>1. got <= t2[rs] /\ Supply(t2, rs[2]) <= MAX_INT64 /\ rs[2] = nd[2]
    BY <1>1, <1>4, <1>7, <1>8
  <2> QED BY <1>1, <1>2, <1>6, <2>1, MoveSupply
<1> HIDE DEF t4
<1>10. t4[nd] = t[nd] + got /\ got <= t4[nd]
  BY <1>7, <1>9
<1>11. Supply(t4, new.desprop) + n <= MAX_INT64 /\ Supply(t4, q) = Supply(t, q)
  BY <1>1, <1>4, <1>6, <1>9
<1>12. Supply(Fees(t4, new, old, got), q)
         = IF q = new.desprop
           THEN Supply(t4, q) + 4 * CacheFee(got)
                - (IF t4[Bal(new.addr, new.desprop)] < 5 * CacheFee(got)
                   THEN t4[Bal(new.addr, new.desprop)] ELSE 5 * CacheFee(got))
           ELSE Supply(t4, q)
  <2>1. /\ got <= t4[Bal(new.addr, new.desprop)]
        /\ Supply(t4, new.desprop) + 4 * CacheFee(got) <= MAX_INT64
    BY <1>10, <1>11 DEF nd, n
  <2> QED BY <1>9, <2>1, FeesSupply
<1>13. t4[Bal(new.addr, new.desprop)] = t[Bal(new.addr, new.desprop)] + got
  BY <1>10 DEF nd
<1> QED BY <1>3, <1>11, <1>12, <1>13

\* The supply of every property, and the maker's part of a fee on all of it, fit
\* an int64.
RoomForFees ==
  \A p \in Prop : Supply(tally, p) + 4 * CacheFee(Supply(tally, p)) <= MAX_INT64

\* Balance and reserve of an address are two of the accounts that Supply counts.
LEMMA RoomFits ==
  ASSUME TypeOK, RoomForFees, NEW a \in Addr, NEW p \in Prop
  PROVE  /\ Supply(tally, p) \in Nat /\ Supply(tally, p) <= MAX_INT64
         /\ tally[Bal(a, p)] + tally[Res(a, p)] <= Supply(tally, p)
         /\ tally[Bal(a, p)] + tally[Res(a, p)] <= MAX_INT64
         /\ tally[Bal(a, p)] \in Nat /\ tally[Res(a, p)] \in Nat
<1> DEFINE K == Addr \X MDexType
           f == Holding(tally, p)
           x == <<a, "BALANCE">>
           y == <<a, "METADEX_RESERVE">>
           S == Supply(tally, p)
<1>1. tally \in [Account -> Nat] /\ MAX_INT64 \in Nat
  BY MaxInt64Assumption DEF TypeOK
<1>2. f \in [K -> Nat] /\ IsFiniteSet(K) /\ S = Total(f) /\ S \in Nat
  BY <1>1, HoldingType
<1>3. x \in K /\ y \in K /\ x # y
  BY DEF MDexType
<1>4. f[x] = tally[Bal(a, p)] /\ f[y] = tally[Res(a, p)]
  BY <1>3 DEF Holding, Bal, Res
<1>5. f[x] + f[y] <= Total(f)
  <2> HIDE DEF f, K, x, y, S
  <2>1. \A z \in K \ {x, y} : f[z] = f[z]
    OBVIOUS
  <2>2. /\ Total(f) \in Nat /\ f[x] + f[y] <= Total(f)
        /\ Total(f) = Total(f) - f[x] - f[y] + f[x] + f[y]
    BY <1>2, <1>3, <2>1, TotalShift
  <2> QED BY <2>2
<1>6. CacheFee(S) \in Nat /\ S + 4 * CacheFee(S) <= MAX_INT64
  BY <1>2, FeeType DEF RoomForFees
<1>7. tally[Bal(a, p)] \in Nat /\ tally[Res(a, p)] \in Nat
  BY <1>1, AccountTypes
<1> HIDE DEF S, f
<1>8. S <= MAX_INT64 /\ tally[Bal(a, p)] + tally[Res(a, p)] <= S
  BY <1>1, <1>2, <1>4, <1>5, <1>6
<1>9. tally[Bal(a, p)] + tally[Res(a, p)] <= MAX_INT64
  BY <1>1, <1>2, <1>7, <1>8
<1> QED BY <1>2, <1>7, <1>8, <1>9 DEF S

\* The step that SupplyByFeesOnly speaks of.
FeeStep ==
  \A p \in Prop :
    \/ Supply(tally', p) = Supply(tally, p)
    \/ \E t \in tradelist' \ tradelist :
         LET got  == t.got
             fee  == CacheFee(got)
             had  == tally[Bal(taker.addr, p)] + got
         IN  /\ p = taker.desprop
             /\ Supply(tally', p) = Supply(tally, p) + 4 * fee
                                    - (IF had < 5 * fee THEN had ELSE 5 * fee)

\* All that the step's proof needs of the state before.
SoundBook ==
  /\ ShapeInv /\ TakerCovered /\ ReserveBacksOrders /\ RoomForFees
  /\ tally \in [Account -> Nat] /\ metadex \in SUBSET Order /\ IsFiniteSet(metadex)
  /\ taker \in Order \cup {None} /\ None \notin Order

\* A match changes the supply of the property bought by its fees.
LEMMA TradeSupply ==
  ASSUME SoundBook, NEW o \in metadex, x_Trade(o) PROVE FeeStep
<1> DEFINE got == CouldBuy(taker, o)
           pay == WouldPay(o, got)
           tr  == [old |-> o.id, new |-> taker.id, paid |-> pay, got |-> got]
           b   == taker.desprop
<1>1. /\ taker # None /\ taker \in Order /\ o \in Order /\ o.id \notin passed
      /\ o.property = taker.desprop /\ o.desprop = taker.property
      /\ taker.property # taker.desprop
      /\ got \in Nat /\ got <= o.remaining /\ pay \in Nat /\ pay <= taker.remaining
  <2>1. Looking(o) /\ ShapeInv
    BY DEF x_Trade, SoundBook
  <2> QED BY <2>1, LookingFacts
<1>2. /\ tally' = Fees(Payment(tally, taker, o, got, pay), taker, o, got)
      /\ tradelist' = tradelist \cup {tr}
  BY DEF x_Trade
<1>3. tr.old = o.id /\ tr.new = taker.id /\ tr.got = got
  OBVIOUS
<1> HIDE DEF got, pay, tr
<1>4. tr \in tradelist' \ tradelist
  BY <1>1, <1>2, <1>3 DEF SoundBook, ShapeInv, TradesOK
<1>5. /\ o.addr \in Addr /\ o.property \in Prop /\ o.remaining \in Nat /\ b \in Prop
      /\ taker.addr \in Addr /\ taker.property \in Prop /\ taker.remaining \in Nat
  BY <1>1 DEF Order
<1>6. /\ tally[Bal(taker.addr, taker.property)] \in Nat
      /\ Supply(tally, taker.property) <= MAX_INT64
  BY <1>5, RoomFits DEF SoundBook, ShapeInv
<1>7. /\ Supply(tally, o.property) \in Nat
      /\ tally[Bal(o.addr, o.property)] + tally[Res(o.addr, o.property)]
           <= Supply(tally, o.property)
      /\ tally[Bal(o.addr, o.property)] \in Nat /\ tally[Res(o.addr, o.property)] \in Nat
  BY <1>5, RoomFits DEF SoundBook, ShapeInv
<1>8. pay <= tally[Bal(taker.addr, taker.property)]
  <2>1. tally[Bal(taker.addr, taker.property)] >= taker.remaining
    BY <1>1 DEF SoundBook, TakerCovered
  <2> QED BY <1>1, <1>5, <1>6, <2>1
<1>9. got <= tally[Res(o.addr, o.property)]
  <2>1. o.remaining <= Rested(metadex, o.addr, o.property)
        /\ Rested(metadex, o.addr, o.property) \in Nat
    BY RestedRemove DEF Offer, SoundBook
  <2>2. tally[Res(o.addr, o.property)] = Rested(metadex, o.addr, o.property)
    BY <1>5 DEF SoundBook, ReserveBacksOrders
  <2> QED BY <1>1, <1>5, <2>1, <2>2
<1>10. Supply(tally, b) + 4 * CacheFee(got) <= MAX_INT64
  <2> DEFINE S == Supply(tally, b)
  <2>1. S \in Nat /\ got <= S
    BY <1>1, <1>7, <1>9
  <2>2. CacheFee(got) <= CacheFee(S)
    BY <1>1, <2>1, FeeMono
  <2>3. CacheFee(got) \in Nat /\ CacheFee(S) \in Nat /\ MAX_INT64 \in Nat
    BY <1>1, <2>1, FeeType, MaxInt64Assumption
  <2>4. S + 4 * CacheFee(S) <= MAX_INT64
    BY <1>5 DEF SoundBook, RoomForFees
  <2> HIDE DEF S
  <2>5. S + 4 * CacheFee(got) <= MAX_INT64
    BY <2>1, <2>2, <2>3, <2>4
  <2> QED BY <2>5 DEF S
<1>11. ASSUME NEW q \in Prop
       PROVE  Supply(tally', q)
           = IF q = taker.desprop
             THEN Supply(tally, q) + 4 * CacheFee(got)
                  - (IF tally[Bal(taker.addr, taker.desprop)] + got < 5 * CacheFee(got)
                     THEN tally[Bal(taker.addr, taker.desprop)] + got ELSE 5 * CacheFee(got))
             ELSE Supply(tally, q)
  <2> DEFINE u == Fees(Payment(tally, taker, o, got, pay), taker, o, got)
  <2>1. tally \in [Account -> Nat]
    BY DEF SoundBook
  <2>2. Supply(u, q)
           = IF q = taker.desprop
             THEN Supply(tally, q) + 4 * CacheFee(got)
                  - (IF tally[Bal(taker.addr, taker.desprop)] + got < 5 * CacheFee(got)
                     THEN tally[Bal(taker.addr, taker.desprop)] + got ELSE 5 * CacheFee(got))
             ELSE Supply(tally, q)
    BY <1>1, <1>6, <1>8, <1>9, <1>10, <2>1, MatchSupply
  <2>3. tally' = u
    BY <1>2
  <2> HIDE DEF u
  <2> QED BY <2>2, <2>3
<1>12. ASSUME NEW q \in Prop
       PROVE  \/ Supply(tally', q) = Supply(tally, q)
              \/ /\ q = taker.desprop
                 /\ Supply(tally', q) = Supply(tally, q) + 4 * CacheFee(tr.got)
                      - (IF tally[Bal(taker.addr, q)] + tr.got < 5 * CacheFee(tr.got)
                         THEN tally[Bal(taker.addr, q)] + tr.got ELSE 5 * CacheFee(tr.got))
  BY <1>3, <1>11
<1> QED BY <1>4, <1>12 DEF FeeStep

\* A move between balance and reserve of an address changes no supply.
LEMMA OwnMoveSupply ==
  ASSUME SoundBook, NEW a \in Addr, NEW q \in Prop, NEW n \in Nat, NEW p \in Prop,
         NEW src \in {Bal(a, q), Res(a, q)}, NEW dst \in {Bal(a, q), Res(a, q)},
         n <= tally[src], tally' = Move(tally, src, dst, n).tally
  PROVE  Supply(tally', p) = Supply(tally, p)
<1>1. src \in Account /\ dst \in Account /\ src[2] = q /\ dst[2] = q
  <2>1. Bal(a, q) \in Account /\ Res(a, q) \in Account
    BY AccountTypes
  <2>2. Bal(a, q)[2] = q /\ Res(a, q)[2] = q
    BY DEF Bal, Res
  <2> QED BY <2>1, <2>2
<1>2. Supply(tally, src[2]) <= MAX_INT64 /\ src[2] = dst[2]
  BY <1>1, RoomFits DEF SoundBook, ShapeInv
<1>3. tally \in [Account -> Nat]
  BY DEF SoundBook
<1> DEFINE u == Move(tally, src, dst, n).tally
<1>4. /\ u \in [Account -> Nat]
      /\ \A r \in Prop : Supply(u, r) = Supply(tally, r)
      /\ \A z \in Account : z # src /\ z # dst => u[z] = tally[z]
      /\ src # dst => u[dst] = tally[dst] + n
  BY <1>1, <1>2, <1>3, MoveSupply
<1>5. tally' = u
  OBVIOUS
<1> HIDE DEF u
<1> QED BY <1>4, <1>5

\* Neither does cancelling all orders of an address.
LEMMA CancelAllSupply ==
  ASSUME SoundBook, NEW a \in Addr, MetaDEx_CANCEL_EVERYTHING(a), NEW p \in Prop
  PROVE  Supply(tally', p) = Supply(tally, p)
<1> DEFINE K == Addr \X MDexType
           t2 == tally'
           f == Holding(tally, p)
           g == Holding(t2, p)
           x == <<a, "BALANCE">>
           y == <<a, "METADEX_RESERVE">>
           R == Rested(metadex, a, p)
           B == tally[Bal(a, p)]
<1>1. tally \in [Account -> Nat] /\ t2 \in [Account -> Nat]
  <2>1. [Next]_vars /\ ShapeInv
    BY DEF Next, SoundBook
  <2> QED BY <2>1, StepType DEF SoundBook, TypeOK
<1>2. \A z \in Account : t2[z] =
        IF z[1] # a THEN tally[z]
        ELSE updateMoney(tally[z], IF z[3] = "BALANCE" THEN Rested(metadex, a, z[2])
                                   ELSE -Rested(metadex, a, z[2]), z[3])
  BY DEF MetaDEx_CANCEL_EVERYTHING
<1>3. R \in Nat /\ tally[Res(a, p)] = R /\ B \in Nat /\ MAX_INT64 \in Nat
      /\ B + R <= MAX_INT64
  <2>1. R \in Nat /\ tally[Res(a, p)] = R
    BY RestedType DEF SoundBook, ReserveBacksOrders
  <2> QED BY <2>1, RoomFits, MaxInt64Assumption DEF SoundBook, ShapeInv
<1> HIDE DEF t2
<1>4. t2[Bal(a, p)] = B + R
  <2>1. Bal(a, p) \in Account /\ Bal(a, p)[1] = a /\ Bal(a, p)[2] = p
        /\ Bal(a, p)[3] = "BALANCE"
    BY AccountTypes DEF Bal
  <2>2. t2[Bal(a, p)] = updateMoney(B, R, "BALANCE")
    BY <1>2, <2>1
  <2> HIDE DEF R, B
  <2>3. updateMoney(B, R, "BALANCE") = B + R
    BY <1>3 DEF updateMoney, updateMoneyOk, isOverflow, MIN_INT64, MayBeNegative
  <2> QED BY <2>2, <2>3
<1>5. t2[Res(a, p)] = 0
  <2>1. Res(a, p) \in Account /\ Res(a, p)[1] = a /\ Res(a, p)[2] = p
        /\ Res(a, p)[3] = "METADEX_RESERVE"
    BY AccountTypes DEF Res
  <2>2. t2[Res(a, p)] = updateMoney(R, -R, "METADEX_RESERVE")
    BY <1>2, <1>3, <2>1
  <2> HIDE DEF R, B
  <2>3. updateMoney(R, -R, "METADEX_RESERVE") = 0
    BY <1>3 DEF updateMoney, updateMoneyOk, isOverflow, MIN_INT64
  <2> QED BY <2>2, <2>3
<1>6. \A z \in Account : z[1] # a => t2[z] = tally[z]
  BY <1>2
<1>7. /\ f \in [K -> Nat] /\ g \in [K -> Nat] /\ IsFiniteSet(K)
      /\ Supply(tally, p) = Total(f) /\ Supply(t2, p) = Total(g)
  BY <1>1, HoldingType
<1>8. x \in K /\ y \in K /\ x # y
  BY DEF MDexType
<1>9. f[x] = B /\ f[y] = R /\ g[x] = B + R /\ g[y] = 0
  BY <1>3, <1>4, <1>5, <1>8 DEF Holding, Bal, Res
<1>10. \A z \in K \ {x, y} : g[z] = f[z]
  <2> TAKE z \in K \ {x, y}
  <2>1. <<z[1], p, z[2]>> \in Account /\ z[1] # a
    BY DEF MDexType, Account
  <2> QED BY <1>6, <2>1 DEF Holding
<1> HIDE DEF f, g, K, x, y, R, B
<1>11. /\ Total(f) \in Nat /\ f[x] + f[y] <= Total(f)
       /\ Total(g) = Total(f) - f[x] - f[y] + g[x] + g[y]
  BY <1>7, <1>8, <1>10, TotalShift
<1>12. Supply(t2, p) = Supply(tally, p)
  BY <1>3, <1>7, <1>9, <1>11
<1> QED BY <1>12 DEF t2

\* Every step explains what it does to the supply.
LEMMA StepSupply == SoundBook /\ [Next]_vars => FeeStep
<1> SUFFICES ASSUME SoundBook, [Next]_vars PROVE FeeStep
  OBVIOUS
<1>1. ASSUME \A p \in Prop : Supply(tally', p) = Supply(tally, p) PROVE FeeStep
  BY <1>1 DEF FeeStep
<1>2. ASSUME tally' = tally PROVE FeeStep
  BY <1>1, <1>2
<1>3. ASSUME NEW o \in metadex, x_Trade(o) PROVE FeeStep
  BY <1>3, TradeSupply
<1>4. CASE MetaDEx_INSERT
  <2>1. taker # None /\ taker \in Order
    BY <1>4 DEF MetaDEx_INSERT, SoundBook
  <2> DEFINE a == taker.addr
             q == taker.property
             n == taker.remaining
  <2>2. a \in Addr /\ q \in Prop /\ n \in Nat
    BY <2>1 DEF Order
  <2>3. n <= tally[Bal(a, q)]
    <3>1. tally[Bal(a, q)] >= n /\ tally[Bal(a, q)] \in Nat
      BY <2>1, <2>2, AccountTypes DEF TakerCovered, SoundBook
    <3> HIDE DEF a, q, n
    <3> QED BY <2>2, <3>1
  <2>4. tally' = tally \/ tally' = Move(tally, Bal(a, q), Res(a, q), n).tally
    BY <1>4 DEF MetaDEx_INSERT
  <2> HIDE DEF a, q, n
  <2>5. ASSUME tally' = Move(tally, Bal(a, q), Res(a, q), n).tally, NEW p \in Prop
        PROVE  Supply(tally', p) = Supply(tally, p)
    <3>1. Bal(a, q) \in {Bal(a, q), Res(a, q)} /\ Res(a, q) \in {Bal(a, q), Res(a, q)}
      OBVIOUS
    <3> QED BY <2>2, <2>3, <2>5, <3>1, OwnMoveSupply
  <2> QED BY <1>1, <1>2, <2>4, <2>5
<1>5. ASSUME NEW a \in Addr, NEW o \in metadex, MetaDEx_CANCEL(a, o) PROVE FeeStep
  <2> DEFINE q == o.property
             n == o.remaining
  <2>1. o \in Order /\ q \in Prop /\ n \in Nat /\ o.addr = a
        /\ tally' = Move(tally, Res(a, q), Bal(a, q), n).tally
    BY <1>5 DEF MetaDEx_CANCEL, Order, SoundBook
  <2>2. n <= tally[Res(a, q)]
    <3>1. n <= Rested(metadex, a, q)
      BY <2>1, RestedRemove DEF Offer, SoundBook
    <3>2. tally[Res(a, q)] = Rested(metadex, a, q)
      BY <2>1 DEF SoundBook, ReserveBacksOrders
    <3> QED BY <3>1, <3>2
  <2> HIDE DEF q, n
  <2>3. ASSUME NEW p \in Prop PROVE Supply(tally', p) = Supply(tally, p)
    <3> DEFINE src == Res(a, q)
               dst == Bal(a, q)
    <3>1. src \in {Bal(a, q), Res(a, q)} /\ dst \in {Bal(a, q), Res(a, q)}
      OBVIOUS
    <3>2. q \in Prop /\ n \in Nat /\ n <= tally[src]
          /\ tally' = Move(tally, src, dst, n).tally
      BY <2>1, <2>2
    <3> HIDE DEF src, dst
    <3> QED BY <3>1, <3>2, OwnMoveSupply
  <2> QED BY <1>1, <2>3
<1>6. ASSUME NEW a \in Addr, MetaDEx_CANCEL_EVERYTHING(a) PROVE FeeStep
  <2>1. \A p \in Prop : Supply(tally', p) = Supply(tally, p)
    BY <1>6, CancelAllSupply
  <2> QED BY <1>1, <2>1
<1> QED BY <1>2, <1>3, <1>4, <1>5, <1>6, TokenSteps

\* As long as the supplies and the maker's part of a fee fit an int64, only
\* the fee of a match changes how many tokens of a property the addresses
\* have, by exactly what SupplyByFeesOnly says.  The payments of a match, the
\* reservation and the cancellations only move tokens that are there.
THEOREM SupplyChangedByFeesOnly == Spec /\ []RoomForFees => SupplyByFeesOnly
<1>1. ShapeInv /\ RoomForFees => HoldingsFit
  BY RoomFits DEF ShapeInv, HoldingsFit
<1>2. ShapeInv /\ TakerCovered /\ ReserveBacksOrders /\ RoomForFees => SoundBook
  BY MetaDExAssumption DEF SoundBook, ShapeInv, TypeOK
<1>3. SoundBook /\ [Next]_vars => [FeeStep]_vars
  BY StepSupply
<1>4. Spec => []ShapeInv
  BY InitShape, StepShape, PTL DEF Spec
<1> QED BY <1>1, <1>2, <1>3, <1>4, TakerStaysCovered, ReservesBackBook, PTL
        DEF Spec, SupplyByFeesOnly, FeeStep
=============================================================================
