------------------------------ MODULE DExProofs ------------------------------
(***************************************************************************)
(* Theorems about the DEx for every value of its constants.                *)
(***************************************************************************)
EXTENDS DEx, TotalsProofs

-----------------------------------------------------------------------------
(* Moves between accounts *)

\* Whatever is moved, update_tally_map leaves natural balances.
LEMMA MoveType ==
  ASSUME NEW t \in [Account -> Nat], NEW src \in Account, NEW dst \in Account,
         NEW n \in Nat
  PROVE  /\ Move(t, src, dst, n).tally \in [Account -> Nat]
         /\ Move(t, src, dst, n).ok \in BOOLEAN
<1>1. ASSUME NEW m \in Nat, NEW d \in Int, NEW ty, ty \notin MayBeNegative
      PROVE  updateMoney(m, d, ty) \in Nat
  BY <1>1 DEF updateMoney
<1>2. src[3] \notin MayBeNegative /\ dst[3] \notin MayBeNegative
  BY DEF Account, DexType, MayBeNegative
<1> DEFINE u == update_tally_map(t, src, -n).tally
<1>3. u \in [Account -> Nat]
  <2>1. updateMoney(t[src], -n, src[3]) \in Nat
    BY <1>1, <1>2
  <2> QED BY <2>1 DEF update_tally_map
<1> HIDE DEF u
<1>4. update_tally_map(u, dst, n).tally \in [Account -> Nat]
  <2>1. updateMoney(u[dst], n, dst[3]) \in Nat
    BY <1>1, <1>2, <1>3
  <2> QED BY <1>3, <2>1 DEF update_tally_map
<1> QED BY <1>4 DEF Move, u, update_tally_map, updateMoneyOk

\* The tally after n units went from account src to account dst.
Shifted(t, src, dst, n) == [t EXCEPT ![src] = @ - n, ![dst] = @ + n]

\* A covered move of a positive amount that does not overflow is exact.
LEMMA MoveExact ==
  ASSUME NEW t \in [Account -> Nat], NEW src \in Account, NEW dst \in Account,
         src # dst, NEW n \in Nat, 0 < n, n <= t[src],
         t[dst] + n <= MAX_INT64
  PROVE  /\ Move(t, src, dst, n).ok
         /\ Move(t, src, dst, n).tally = Shifted(t, src, dst, n)
<1>1. updateMoneyOk(t[src], -n) /\ updateMoneyOk(t[dst], n)
  BY MaxInt64Assumption DEF updateMoneyOk, isOverflow, MIN_INT64
<1>2. updateMoney(t[src], -n, src[3]) = t[src] - n
  BY <1>1 DEF updateMoney
<1>3. updateMoney(t[dst], n, dst[3]) = t[dst] + n
  BY <1>1 DEF updateMoney
<1> DEFINE u == [t EXCEPT ![src] = t[src] - n]
<1>4. update_tally_map(t, src, -n).ok /\ update_tally_map(t, src, -n).tally = u
  BY <1>1, <1>2 DEF update_tally_map
<1>5. u[dst] = t[dst]
  OBVIOUS
<1>6. /\ update_tally_map(u, dst, n).ok
      /\ update_tally_map(u, dst, n).tally = [u EXCEPT ![dst] = t[dst] + n]
  BY <1>1, <1>3, <1>5 DEF update_tally_map
<1>7. [u EXCEPT ![dst] = t[dst] + n] = Shifted(t, src, dst, n)
  BY DEF Shifted
<1> HIDE DEF u
<1> QED BY <1>4, <1>6, <1>7 DEF Move

\* Each property has finitely many accounts.
LEMMA FiniteAccounts == IsFiniteSet(Addr \X DexType)
<1>1. IsFiniteSet({"BALANCE"})
  BY FS_Singleton
<1>2. IsFiniteSet({"BALANCE"} \cup {"SELLOFFER_RESERVE"})
  BY <1>1, FS_AddElement
<1>3. IsFiniteSet(({"BALANCE"} \cup {"SELLOFFER_RESERVE"}) \cup {"ACCEPT_RESERVE"})
  BY <1>2, FS_AddElement
<1>4. DexType = ({"BALANCE"} \cup {"SELLOFFER_RESERVE"}) \cup {"ACCEPT_RESERVE"}
  BY DEF DexType
<1>5. IsFiniteSet(DexType)
  BY <1>3, <1>4
<1> QED BY <1>5, FS_Product, DExAssumption

\* Two accounts of a property hold no more than its supply.
LEMMA TwoAccounts ==
  ASSUME NEW t \in [Account -> Nat], NEW p \in Prop,
         NEW a \in Addr, NEW x \in DexType, NEW b \in Addr, NEW y \in DexType,
         <<a, x>> # <<b, y>>
  PROVE  t[<<a, p, x>>] + t[<<b, p, y>>] <= Supply(t, p)
<1> DEFINE K == Addr \X DexType
           f == Holdings(t, p)
           i == <<a, x>>
           j == <<b, y>>
           z == [f EXCEPT ![i] = 0]
<1>2. IsFiniteSet(K)
  BY FiniteAccounts
<1>3. f \in [K -> Nat] /\ i \in K /\ j \in K /\ z \in [K -> Nat] /\ z[j] = f[j]
  BY DEF Holdings, Account
<1>4. f[i] = t[<<a, p, x>>] /\ f[j] = t[<<b, p, y>>]
  BY DEF Holdings
<1> HIDE DEF K, f, i, j
<1>5. Total(f) \in Nat /\ Total(z) = Total(f) - f[i]
  BY <1>2, <1>3, TotalType, TotalWithout
<1>6. z[j] <= Total(z) /\ Total(z) \in Nat
  BY <1>2, <1>3, TotalUpdate
<1>7. f[i] \in Nat /\ f[j] \in Nat
  BY <1>3
<1>8. f[i] + f[j] <= Total(f)
  <2> HIDE DEF z
  <2> QED BY <1>3, <1>5, <1>6, <1>7
<1> QED BY <1>4, <1>8 DEF Supply, f

\* A move within a property keeps the supply of every property.
LEMMA MoveKeepsSupply ==
  ASSUME NEW t \in [Account -> Nat], NEW p \in Prop,
         NEW a \in Addr, NEW x \in DexType, NEW b \in Addr, NEW y \in DexType,
         <<a, x>> # <<b, y>>, NEW n \in Nat, n <= t[<<a, p, x>>],
         NEW q \in Prop
  PROVE  Supply(Shifted(t, <<a, p, x>>, <<b, p, y>>, n), q) = Supply(t, q)
<1> DEFINE K == Addr \X DexType
           i == <<a, x>>
           j == <<b, y>>
           f == Holdings(t, q)
           u == [t EXCEPT ![<<a, p, x>>] = @ - n, ![<<b, p, y>>] = @ + n]
           g == Holdings(u, q)
<1>1. CASE q # p
  <2>1. \A c \in Addr, w \in DexType : u[<<c, q, w>>] = t[<<c, q, w>>]
    BY <1>1 DEF Account
  <2>2. g = f
    <3>1. ASSUME NEW k \in K PROVE g[k] = f[k]
      <4>1. PICK c \in Addr, w \in DexType : k = <<c, w>>
        OBVIOUS
      <4>2. u[<<c, q, w>>] = t[<<c, q, w>>]
        BY <2>1
      <4> HIDE DEF u
      <4>3. g[k] = u[<<c, q, w>>]
        BY <4>1 DEF Holdings
      <4>4. f[k] = t[<<c, q, w>>]
        BY <4>1 DEF Holdings
      <4> QED BY <4>2, <4>3, <4>4
    <3>2. g = [k \in K |-> g[k]] /\ f = [k \in K |-> f[k]]
      BY DEF Holdings
    <3> HIDE DEF f, g
    <3> QED BY <3>1, <3>2
  <2> QED BY <2>2 DEF Supply, Shifted
<1>2. CASE q = p
  <2> DEFINE v == [f EXCEPT ![i] = f[i] - n]
             w == [v EXCEPT ![j] = v[j] + n]
  <2>1. f \in [K -> Nat] /\ i \in K /\ j \in K /\ i # j
    BY DEF Holdings, Account
  <2>2. f[i] = t[<<a, p, x>>] /\ f[j] = t[<<b, p, y>>]
    BY <1>2 DEF Holdings
  <2>3. v \in [K -> Nat] /\ v[j] = f[j] /\ f[i] - n \in Nat
    BY <2>1, <2>2
  <2>4. g = w
    <3>1. ASSUME NEW k \in K PROVE g[k] = w[k]
      <4>1. PICK c \in Addr, z \in DexType : k = <<c, z>>
        OBVIOUS
      <4>2. g[k] = u[<<c, p, z>>] /\ f[k] = t[<<c, p, z>>]
        BY <1>2, <4>1 DEF Holdings
      <4>3. CASE k = i
        BY <4>1, <4>2, <4>3, <2>1, <2>2 DEF Account
      <4>4. CASE k = j
        BY <4>1, <4>2, <4>4, <2>1, <2>2, <2>3 DEF Account
      <4>5. CASE k # i /\ k # j
        BY <4>1, <4>2, <4>5, <2>1, <2>3 DEF Account
      <4> QED BY <4>3, <4>4, <4>5
    <3>2. g = [k \in K |-> g[k]]
      BY DEF Holdings
    <3>3. w = [k \in K |-> w[k]]
      <4> HIDE DEF v
      <4> QED BY <2>3
    <3> HIDE DEF g, w
    <3> QED BY <3>1, <3>2, <3>3
  <2>5. Total(v) = Total(f) - f[i] + (f[i] - n)
    <3>1. IsFiniteSet(K) /\ f \in [K -> Nat] /\ i \in K
      BY <2>1, FiniteAccounts
    <3> HIDE DEF f, i, K
    <3>2. \A d \in Nat : Total([f EXCEPT ![i] = d]) = Total(f) - f[i] + d
      BY ONLY <3>1, TotalUpdate
    <3> QED BY <2>3, <3>2
  <2>6. v[j] + n \in Nat
    BY <2>1, <2>3
  <2>7. Total(w) = Total(v) - v[j] + (v[j] + n)
    <3>1. IsFiniteSet(K) /\ v \in [K -> Nat] /\ j \in K
      BY <2>1, <2>3, FiniteAccounts
    <3> HIDE DEF v, j, K
    <3>2. \A d \in Nat : Total([v EXCEPT ![j] = d]) = Total(v) - v[j] + d
      BY ONLY <3>1, TotalUpdate
    <3> QED BY <2>6, <3>2
  <2>8. Total(f) \in Nat /\ f[i] \in Nat /\ v[j] \in Nat
    BY <2>1, <2>3, FiniteAccounts, TotalType
  <2>9. Total(w) = Total(f)
    <3> HIDE DEF v, w, f, i, j
    <3> QED BY <2>5, <2>7, <2>8
  <2> QED BY <2>4, <2>9 DEF Supply, Shifted
<1> QED BY <1>1, <1>2

-----------------------------------------------------------------------------
(* Type correctness *)

\* An operation that commits well-typed maps keeps the type invariant.
LEMMA CommitType ==
  ASSUME TypeOK, NEW r, NEW offers, NEW accepts,
         r.tally \in [Account -> Nat],
         offers \in [OfferKey -> Offer \cup {None}],
         accepts \in [AcceptKey -> Accept \cup {None}],
         Commit(r, offers, accepts)
  PROVE  TypeOK'
<1>1. CASE r.ok
  BY <1>1 DEF Commit, TypeOK, stats
<1>2. CASE ~r.ok
  BY <1>2 DEF Commit, Down, TypeOK, stats, book, NodeState
<1> QED BY <1>1, <1>2

\* The accounts of an address in a property are accounts of the tally.
LEMMA AccountTypes ==
  ASSUME NEW a \in Addr, NEW p \in Prop
  PROVE  Bal(a, p) \in Account /\ Sell(a, p) \in Account /\ Acc(a, p) \in Account
BY DEF Bal, Sell, Acc, Account, DexType

\* Releasing the reserve of an offer leaves natural balances.
LEMMA ReleaseType ==
  ASSUME NEW t \in [Account -> Nat], NEW s \in Addr, NEW p \in Prop
  PROVE  ReleaseReserve(t, s, p).tally \in [Account -> Nat]
<1>1. t[Sell(s, p)] \in Nat
  BY AccountTypes
<1>2. Move(t, Sell(s, p), Bal(s, p), t[Sell(s, p)]).tally \in [Account -> Nat]
  BY <1>1, AccountTypes, MoveType
<1> QED BY <1>2 DEF ReleaseReserve, NoMove

\* The offers the handlers create are offers.
LEMMA NewOfferType ==
  ASSUME NEW amount \in 1 .. MaxAmount, NEW desired \in 1 .. MaxLTC,
         NEW fee \in 0 .. MaxFee, NEW window \in 1 .. MaxWindow, NEW h \in TxId,
         NEW option \in {BUYER, SELLER}
  PROVE  NewOffer(amount, desired, fee, window, h, option) \in Offer
BY DEF NewOffer, Offer

\* The amount of tokens a payment buys is a natural number.
LEMMA PurchaseType ==
  ASSUME NEW offered \in Nat, NEW desired \in Nat, desired > 0, NEW paid \in Nat
  PROVE  calculateDExPurchase(offered, desired, paid) \in Nat
<1> DEFINE n == paid * offered
<1>1. n \in Nat
  OBVIOUS
<1> HIDE DEF n
<1>2. n + desired - 1 \in Nat
  BY <1>1
<1> DEFINE m == n + desired - 1
<1>3. m \div desired \in Nat
  <2> HIDE DEF m
  <2> QED BY <1>2 DEF m
<1> QED BY <1>3 DEF calculateDExPurchase, n

\* A step of the offer operations keeps the type invariant.
LEMMA OfferStepType ==
  ASSUME TypeOK, NEW s \in Addr, NEW p \in Prop, DExSell(s, p) \/ DExBuy(s, p)
  PROVE  TypeOK'
<1> USE DExAssumption
<1>1. tally \in [Account -> Nat] /\ my_offers \in [OfferKey -> Offer \cup {None}]
      /\ my_accepts \in [AcceptKey -> Accept \cup {None}] /\ <<s, p>> \in OfferKey
  BY DEF TypeOK, OfferKey
<1>2. ASSUME DEx_offerDestroy(s, p) PROVE TypeOK'
  <2>1. [my_offers EXCEPT ![<<s, p>>] = None] \in [OfferKey -> Offer \cup {None}]
    BY <1>1
  <2>2. ReleaseReserve(tally, s, p).tally \in [Account -> Nat]
    BY <1>1, ReleaseType
  <2> QED BY <1>1, <1>2, <2>1, <2>2, CommitType DEF DEx_offerDestroy
<1>3. ASSUME NEW amount \in 0 .. MaxAmount, NEW desired \in 0 .. MaxLTC,
             NEW fee \in 0 .. MaxFee, NEW window \in 0 .. MaxWindow, NEW h \in TxId,
             \/ DEx_offerCreate(s, p, amount, desired, fee, window, h)
             \/ DEx_offerUpdate(s, p, amount, desired, fee, window, h)
             \/ amount # 0 /\ DEx_BuyOfferCreate(s, p, amount, desired, fee, window, h)
      PROVE  TypeOK'
  <2> DEFINE offers(o) == [my_offers EXCEPT ![<<s, p>>] =
                             NewOffer(amount, desired, fee, window, h, o)]
  <2>1. ASSUME amount > 0, desired # 0, window # 0, NEW o \in {BUYER, SELLER}
        PROVE  offers(o) \in [OfferKey -> Offer \cup {None}]
    <3>1. amount \in 1 .. MaxAmount /\ desired \in 1 .. MaxLTC /\ window \in 1 .. MaxWindow
      BY <2>1
    <3>2. NewOffer(amount, desired, fee, window, h, o) \in Offer
      BY <3>1, NewOfferType
    <3> QED BY <1>1, <3>2
  <2>2. ASSUME NEW t \in [Account -> Nat]
        PROVE  Move(t, Bal(s, p), Sell(s, p), amount).tally \in [Account -> Nat]
    <3>1. amount \in Nat
      OBVIOUS
    <3> QED BY <3>1, AccountTypes, MoveType
  <2>3. CASE DEx_offerCreate(s, p, amount, desired, fee, window, h)
    <3>1. Commit(Move(tally, Bal(s, p), Sell(s, p), amount), offers(SELLER), my_accepts)
          /\ amount > 0 /\ desired # 0 /\ window # 0
      BY <2>3 DEF DEx_offerCreate, OfferCreatable
    <3>2. offers(SELLER) \in [OfferKey -> Offer \cup {None}]
      BY <2>1, <3>1
    <3> HIDE DEF offers
    <3> QED BY <1>1, <2>2, <3>1, <3>2, CommitType
  <2>4. CASE amount # 0 /\ DEx_BuyOfferCreate(s, p, amount, desired, fee, window, h)
    <3>1. Commit(NoMove(tally), offers(BUYER), my_accepts)
          /\ amount > 0 /\ desired # 0 /\ window # 0
      BY <2>4 DEF DEx_BuyOfferCreate
    <3>2. offers(BUYER) \in [OfferKey -> Offer \cup {None}]
      BY <2>1, <3>1
    <3>3. NoMove(tally).tally = tally
      BY DEF NoMove
    <3> HIDE DEF offers
    <3> QED BY <1>1, <3>1, <3>2, <3>3, CommitType
  <2>5. CASE DEx_offerUpdate(s, p, amount, desired, fee, window, h)
    <3> DEFINE freed == ReleaseReserve(tally, s, p)
               moved == Move(freed.tally, Bal(s, p), Sell(s, p), amount)
               r == [moved EXCEPT !.ok = @ /\ freed.ok]
    <3>1. freed.tally \in [Account -> Nat] /\ moved.tally \in [Account -> Nat]
      BY <1>1, <2>2, ReleaseType
    <3>2. r.tally = moved.tally
      BY DEF Move
    <3>3. CASE OfferCreatable(freed.tally, s, p, amount, desired, window)
      <4>1. Commit(r, offers(SELLER), my_accepts)
        BY <2>5, <3>3 DEF DEx_offerUpdate
      <4>2. offers(SELLER) \in [OfferKey -> Offer \cup {None}]
        BY <2>1, <3>3 DEF OfferCreatable
      <4> HIDE DEF offers, r, moved, freed
      <4> QED BY <1>1, <3>1, <3>2, <4>1, <4>2, CommitType
    <3>4. CASE ~OfferCreatable(freed.tally, s, p, amount, desired, window)
      <4>1. Commit(freed, [my_offers EXCEPT ![<<s, p>>] = None], my_accepts)
        BY <2>5, <3>4 DEF DEx_offerUpdate
      <4>2. [my_offers EXCEPT ![<<s, p>>] = None] \in [OfferKey -> Offer \cup {None}]
        BY <1>1
      <4> HIDE DEF freed
      <4> QED BY <1>1, <3>1, <4>1, <4>2, CommitType
    <3> QED BY <3>3, <3>4
  <2> QED BY <1>3, <2>3, <2>4, <2>5
<1>4. CASE DExSell(s, p)
  BY <1>2, <1>3, <1>4 DEF DExSell
<1>5. CASE DExBuy(s, p)
  <2>1. CASE DEx_offerDestroy(s, p)
    BY <1>2, <2>1
  <2>2. CASE \E amount \in 1 .. MaxAmount, price \in 0 .. MaxLTC,
               fee \in 0 .. MaxFee, window \in 0 .. MaxWindow, h \in TxId :
                  \/ DEx_BuyOfferCreate(s, p, amount, price, fee, window, h)
                  \/ DEx_offerUpdate(s, p, amount, price, fee, window, h)
    <3>1. PICK amount \in 1 .. MaxAmount, price \in 0 .. MaxLTC,
               fee \in 0 .. MaxFee, window \in 0 .. MaxWindow, h \in TxId :
                  \/ DEx_BuyOfferCreate(s, p, amount, price, fee, window, h)
                  \/ DEx_offerUpdate(s, p, amount, price, fee, window, h)
      BY <2>2
    <3>2. amount \in 0 .. MaxAmount /\ amount # 0
      OBVIOUS
    <3> QED BY <1>3, <3>1, <3>2
  <2> QED BY <1>5, <2>1, <2>2 DEF DExBuy
<1> QED BY <1>4, <1>5

\* A new accept order is an accept when its offer is one.
LEMMA NewAcceptType ==
  ASSUME NEW offer \in Offer, NEW n \in Nat
  PROVE  NewAccept(offer, n) \in Accept
BY DEF NewAccept, Accept, Offer

\* DEx_acceptCreate keeps the type invariant.
LEMMA AcceptStepType ==
  ASSUME TypeOK, NEW taker \in Addr, NEW maker \in Addr, NEW p \in Prop,
         NEW amount \in 0 .. MaxAmount, NEW feePaid,
         DEx_acceptCreate(taker, maker, p, amount, feePaid)
  PROVE  TypeOK'
<1> DEFINE offer == my_offers[<<maker, p>>]
           key == <<maker, p, taker>>
           accepts(n) == [my_accepts EXCEPT ![key] = NewAccept(offer, n)]
<1>1. tally \in [Account -> Nat] /\ my_offers \in [OfferKey -> Offer \cup {None}]
      /\ my_accepts \in [AcceptKey -> Accept \cup {None}] /\ key \in AcceptKey
  BY DEF TypeOK, AcceptKey
<1>2. offer \in Offer /\ amount \in Nat /\ offer.amount \in Nat
  <2>1. offer \in Offer
    BY <1>1 DEF DEx_acceptCreate, DEx_offerExists, OfferKey
  <2> QED BY <2>1, DExAssumption DEF Offer
<1>3. ASSUME NEW n \in Nat PROVE accepts(n) \in [AcceptKey -> Accept \cup {None}]
  <2>1. NewAccept(offer, n) \in Accept
    BY <1>2, NewAcceptType
  <2> QED BY <1>1, <2>1
<1>4. CASE AcceptSellOffer(taker, maker, p, amount)
  <2> DEFINE n == Lesser(amount, tally[Sell(maker, p)])
             r == Move(tally, Sell(maker, p), Acc(maker, p), n)
  <2>1. n \in Nat
    BY <1>1, <1>2, AccountTypes DEF Lesser
  <2>2. r.tally \in [Account -> Nat]
    BY <1>1, <2>1, AccountTypes, MoveType
  <2>3. Commit(r, my_offers, accepts(n))
    BY <1>4 DEF AcceptSellOffer
  <2>4. accepts(n) \in [AcceptKey -> Accept \cup {None}]
    BY <1>3, <2>1
  <2> HIDE DEF accepts, r, n
  <2> QED BY <1>1, <2>2, <2>3, <2>4, CommitType
<1>5. CASE AcceptBuyOffer(taker, maker, p, amount)
  <2> DEFINE n == Lesser(amount, offer.amount)
             r == IF tally[Bal(taker, p)] >= n
                  THEN Move(tally, Bal(taker, p), Acc(taker, p), n)
                  ELSE NoMove(tally)
  <2>1. n \in Nat
    BY <1>2 DEF Lesser
  <2>2. r.tally \in [Account -> Nat]
    <3>1. Move(tally, Bal(taker, p), Acc(taker, p), n).tally \in [Account -> Nat]
      BY <1>1, <2>1, AccountTypes, MoveType
    <3>2. NoMove(tally).tally \in [Account -> Nat]
      BY <1>1 DEF NoMove
    <3> HIDE DEF n
    <3> QED BY <3>1, <3>2
  <2>3. Commit(r, my_offers, accepts(n))
    BY <1>5 DEF AcceptBuyOffer
  <2>4. accepts(n) \in [AcceptKey -> Accept \cup {None}]
    BY <1>3, <2>1
  <2> HIDE DEF accepts, r, n
  <2> QED BY <1>1, <2>2, <2>3, <2>4, CommitType
<1> QED BY <1>4, <1>5 DEF DEx_acceptCreate

\* One accept of the expiry sweep keeps the type invariant.
LEMMA ExpireStepType ==
  ASSUME TypeOK, NEW k \in AcceptKey, EraseExpired(k)
  PROVE  TypeOK'
<1>1. tally \in [Account -> Nat] /\ my_offers \in [OfferKey -> Offer \cup {None}]
      /\ my_accepts \in [AcceptKey -> Accept \cup {None}]
  BY DEF TypeOK
<1>2. PICK m \in Addr, p \in Prop, b \in Addr : k = <<m, p, b>>
  BY DEF AcceptKey
<1>3. my_accepts[k] \in Accept /\ my_accepts[k].remaining \in Nat
  BY <1>1 DEF EraseExpired, Expired, Accept
<1>4. CASE DEx_offerExists(k[1], k[2])
  <2>1. ReturnAccepted(tally, k).tally \in [Account -> Nat]
    <3> DEFINE n == my_accepts[k].remaining
    <3>1. \A dst \in Account : Move(tally, Acc(m, p), dst, n).tally \in [Account -> Nat]
      BY <1>1, <1>3, AccountTypes, MoveType
    <3>2. Sell(m, p) \in Account /\ Bal(m, p) \in Account
      BY AccountTypes
    <3> QED BY <1>1, <1>2, <3>1, <3>2 DEF ReturnAccepted, NoMove
  <2>2. [my_accepts EXCEPT ![k] = None] \in [AcceptKey -> Accept \cup {None}]
    BY <1>1
  <2>3. Commit(ReturnAccepted(tally, k), my_offers, [my_accepts EXCEPT ![k] = None])
    BY <1>4 DEF EraseExpired
  <2> QED BY <1>1, <2>1, <2>2, <2>3, CommitType
<1>5. CASE ~DEx_offerExists(k[1], k[2])
  BY <1>5 DEF EraseExpired, Down, TypeOK, stats, book, NodeState
<1> QED BY <1>4, <1>5

\* Handling an output keeps the shape of the payment in progress.
LEMMA HandledType ==
  ASSUME NEW rc, NEW value \in Nat, paying.outs # <<>>,
         paying \in [payer : Addr \cup {None}, outs : Seq(Output), count : Nat, nvalue : Nat],
         Handled(rc, value)
  PROVE  /\ paying' \in [payer : Addr \cup {None}, outs : Seq(Output), count : Nat, nvalue : Nat]
         /\ paying'.payer = paying.payer
<1>1. Tail(paying.outs) \in Seq(Output)
  OBVIOUS
<1>2. (IF rc THEN paying.count + 1 ELSE paying.count) \in Nat
  OBVIOUS
<1>3. paying' = [payer |-> paying.payer, outs |-> Tail(paying.outs),
                 count |-> IF rc THEN paying.count + 1 ELSE paying.count,
                 nvalue |-> value]
  BY DEF Handled
<1> QED BY <1>1, <1>2, <1>3

\* The amounts an accept is made of.
LEMMA AcceptFields ==
  ASSUME NEW z \in Accept
  PROVE  z.remaining \in Nat /\ z.offered \in Nat /\ z.desired \in Nat /\ z.desired > 0
BY DExAssumption DEF Accept

\* DEx_payment on one accept keeps the type invariant.
LEMMA PayAcceptType ==
  ASSUME TypeOK, phase = "paying", paying.outs # <<>>,
         NEW seller \in Addr, NEW buyer \in Addr, NEW p \in Prop,
         NEW key \in AcceptKey, my_accepts[key] # None,
         NEW value \in 1 .. MaxLTC, PayAccept(seller, buyer, p, key, value)
  PROVE  TypeOK'
<1> DEFINE accept == my_accepts[key]
           computed == calculateDExPurchase(accept.offered, accept.desired, value)
           purchased == Lesser(computed, accept.remaining)
           paid == IF purchased > 0
                   THEN Move(tally, Acc(seller, p), Bal(buyer, p), purchased)
                   ELSE NoMove(tally)
           rest == [accept EXCEPT !.remaining = @ - purchased]
<1>1. tally \in [Account -> Nat] /\ my_offers \in [OfferKey -> Offer \cup {None}]
      /\ my_accepts \in [AcceptKey -> Accept \cup {None}]
      /\ paying \in [payer : Addr \cup {None}, outs : Seq(Output), count : Nat, nvalue : Nat]
      /\ MapLTCVolume \in [Prop -> Nat] /\ MapTokenVolume \in [Prop -> Nat]
      /\ globalVolumeALL_LTC \in Nat /\ paying.payer \in Addr /\ node \in NodeState
  BY DEF TypeOK
<1>2. accept \in Accept /\ value \in Nat
  BY <1>1, DExAssumption
<1>3. /\ accept.remaining \in Nat /\ accept.offered \in Nat
      /\ accept.desired \in Nat /\ accept.desired > 0
  <2> HIDE DEF accept
  <2> QED BY <1>2, AcceptFields
<1>4. computed \in Nat
  BY <1>2, <1>3, PurchaseType
<1>5. purchased \in Nat /\ purchased <= accept.remaining
  <2> HIDE DEF computed
  <2> QED BY <1>3, <1>4 DEF Lesser
<1>6. rest \in Accept
  <2> HIDE DEF purchased
  <2>1. accept.remaining - purchased \in Nat
    BY <1>3, <1>5
  <2> QED BY <1>2, <2>1 DEF Accept
<1>7. paid.tally \in [Account -> Nat]
  <2> HIDE DEF purchased
  <2>1. Move(tally, Acc(seller, p), Bal(buyer, p), purchased).tally \in [Account -> Nat]
    BY <1>1, <1>5, AccountTypes, MoveType
  <2> QED BY <1>1, <2>1 DEF NoMove
<1>8. CASE \E why \in {"range", "assert", "null"} : Down(why)
  BY <1>8 DEF Down, TypeOK, stats, book, NodeState
<1>9. CASE ~\E why \in {"range", "assert", "null"} : Down(why)
  <2>1. /\ tally' = paid.tally
        /\ my_accepts' \in {[my_accepts EXCEPT ![key] = None],
                            [my_accepts EXCEPT ![key] = rest]}
        /\ my_offers' \in {my_offers, [my_offers EXCEPT ![<<seller, p>>] = None]}
        /\ MapLTCVolume' = [MapLTCVolume EXCEPT ![p] = @ + value]
        /\ MapTokenVolume' = [MapTokenVolume EXCEPT ![p] = @ + computed]
        /\ \E rc : Handled(rc, value)
        /\ UNCHANGED <<globalVolumeALL_LTC, phase, node>>
    <3> HIDE DEF computed, rest, paid, purchased
    <3> QED BY <1>1, <1>9 DEF PayAccept, paid, computed, purchased, rest, OfferKey
  <2>2. tally' \in [Account -> Nat]
    BY <1>7, <2>1
  <2>3. my_accepts' \in [AcceptKey -> Accept \cup {None}]
    <3> HIDE DEF rest
    <3> QED BY <1>1, <1>6, <2>1
  <2>4. my_offers' \in [OfferKey -> Offer \cup {None}]
    BY <1>1, <2>1
  <2>5. MapLTCVolume' \in [Prop -> Nat] /\ MapTokenVolume' \in [Prop -> Nat]
    <3> HIDE DEF computed
    <3> QED BY <1>1, <1>2, <1>4, <2>1
  <2>6. /\ paying' \in [payer : Addr \cup {None}, outs : Seq(Output), count : Nat, nvalue : Nat]
        /\ paying'.payer = paying.payer
    BY <1>1, <1>2, <2>1, HandledType
  <2> QED BY <1>1, <2>1, <2>2, <2>3, <2>4, <2>5, <2>6 DEF TypeOK
<1> QED BY <1>8, <1>9

\* One output of a payment transaction keeps the type invariant.
LEMMA PaymentStepType ==
  ASSUME TypeOK, DEx_payment
  PROVE  TypeOK'
<1> DEFINE buyer == paying.payer
           seller == Head(paying.outs).to
           value == Head(paying.outs).value
           matching == {p \in Prop : Matches(seller, p, buyer)}
<1>1. /\ paying \in [payer : Addr \cup {None}, outs : Seq(Output), count : Nat, nvalue : Nat]
      /\ phase = "paying" /\ paying.payer \in Addr /\ paying.outs # <<>>
  BY DEF TypeOK, DEx_payment
<1>2. seller \in Addr /\ value \in 1 .. MaxLTC /\ value \in Nat
  <2>1. Head(paying.outs) \in Output
    BY <1>1
  <2> QED BY <2>1, DExAssumption DEF Output
<1>3. CASE /\ paying' = [paying EXCEPT !.outs = Tail(@)]
           /\ UNCHANGED <<book, stats, globalVolumeALL_LTC, phase, node>>
  <2>1. Tail(paying.outs) \in Seq(Output)
    BY <1>1
  <2> QED BY <1>1, <1>3, <2>1 DEF TypeOK, book, stats
<1>4. CASE /\ Handled(FALSE, value)
           /\ UNCHANGED <<book, stats, globalVolumeALL_LTC, phase, node>>
  <2>1. /\ paying' \in [payer : Addr \cup {None}, outs : Seq(Output), count : Nat, nvalue : Nat]
        /\ paying'.payer = paying.payer
    BY <1>1, <1>2, <1>4, HandledType
  <2> QED BY <1>1, <1>4, <2>1 DEF TypeOK, book, stats
<1>5. CASE Down("null")
  BY <1>5 DEF Down, TypeOK, book, stats, NodeState
<1>6. CASE \E p \in matching :
             PayAccept(seller, buyer, p,
                       IF DEx_acceptExists(seller, p, buyer)
                       THEN <<seller, p, buyer>> ELSE <<buyer, p, seller>>, value)
  <2>1. PICK p \in matching :
             PayAccept(seller, buyer, p,
                       IF DEx_acceptExists(seller, p, buyer)
                       THEN <<seller, p, buyer>> ELSE <<buyer, p, seller>>, value)
    BY <1>6
  <2> DEFINE key == IF DEx_acceptExists(seller, p, buyer)
                    THEN <<seller, p, buyer>> ELSE <<buyer, p, seller>>
  <2>2. key \in AcceptKey /\ my_accepts[key] # None
    BY <1>1, <1>2 DEF Matches, DEx_acceptExists, AcceptKey
  <2> HIDE DEF key, seller, value
  <2> QED BY <1>1, <1>2, <2>1, <2>2, PayAcceptType DEF key
<1> QED BY <1>3, <1>4, <1>5, <1>6 DEF DEx_payment

\* The type invariant is inductive.
LEMMA TypeInductive ==
  ASSUME TypeOK, [Next]_vars
  PROVE  TypeOK'
<1>1. CASE \E s \in Addr, p \in Prop : DExSell(s, p) \/ DExBuy(s, p)
  BY <1>1, OfferStepType
<1>2. CASE \E taker, maker \in Addr, p \in Prop, amount \in 0 .. MaxAmount,
              feePaid \in 0 .. MaxFee :
                 DEx_acceptCreate(taker, maker, p, amount, feePaid)
  BY <1>2, AcceptStepType
<1>3. CASE \E payer \in Addr, outs \in Payments : StartPayment(payer, outs)
  <2>1. PICK payer \in Addr, outs \in Payments : StartPayment(payer, outs)
    BY <1>3
  <2>2. outs \in Seq(Output)
    BY DEF Payments
  <2>3. paying' = [payer |-> payer, outs |-> outs, count |-> 0, nvalue |-> 0]
    BY <2>1 DEF StartPayment, NoPayment
  <2> QED BY <2>1, <2>2, <2>3 DEF TypeOK, StartPayment, book, stats
<1>4. CASE DEx_payment
  BY <1>4, PaymentStepType
<1>5. CASE EndPayment
  BY <1>5 DEF EndPayment, TypeOK, NoPayment, book, stats
<1>6. CASE BlockEnd
  BY <1>6 DEF BlockEnd, Ready, TypeOK, book, stats
<1>7. CASE \E k \in AcceptKey : EraseExpired(k)
  BY <1>7, ExpireStepType
<1>8. CASE NextBlock
  <2>1. my_accepts' \in [AcceptKey -> Accept \cup {None}]
    <3>1. ASSUME NEW x \in Accept PROVE [x EXCEPT !.age = @ + 1] \in Accept
      BY DEF Accept
    <3> QED BY <1>8, <3>1 DEF NextBlock, TypeOK
  <2> QED BY <1>8, <2>1 DEF NextBlock, TypeOK, stats
<1>9. CASE UNCHANGED vars
  BY <1>9 DEF vars, TypeOK
<1> QED BY <1>1, <1>2, <1>3, <1>4, <1>5, <1>6, <1>7, <1>8, <1>9 DEF Next

\* Every reachable state of the exchange is well typed: whatever is offered,
\* accepted, paid or left to expire, no balance of the tally goes negative.
THEOREM TypeCorrect == Spec => []TypeOK
<1>1. Init => TypeOK
  <2>1. InitTally \in [Account -> Nat]
    BY DExAssumption DEF InitTally, Account, OfferKey
  <2>2. NoPayment \in [payer : Addr \cup {None}, outs : Seq(Output), count : Nat, nvalue : Nat]
    BY DEF NoPayment
  <2> QED BY <2>1, <2>2 DEF Init, TypeOK, NodeState
<1>2. TypeOK /\ [Next]_vars => TypeOK'
  BY TypeInductive
<1> QED BY <1>1, <1>2, PTL DEF Spec

-----------------------------------------------------------------------------
(* The exchange without buy offers *)

\* With the supply intact no balance can overflow: a covered move within a
\* property passes both assertions, is exact and keeps the supply.
LEMMA SafeMove ==
  ASSUME NEW t \in [Account -> Nat],
         \A q \in Prop : Supply(t, q) = Supply(InitTally, q),
         NEW src \in Account, NEW dst \in Account, src # dst, src[2] = dst[2],
         NEW n \in Nat, 0 < n, n <= t[src]
  PROVE  /\ Move(t, src, dst, n).ok
         /\ Move(t, src, dst, n).tally = Shifted(t, src, dst, n)
         /\ \A q \in Prop : Supply(Shifted(t, src, dst, n), q) = Supply(InitTally, q)
<1>1. PICK a \in Addr, p \in Prop, x \in DexType, b \in Addr, y \in DexType :
         src = <<a, p, x>> /\ dst = <<b, p, y>> /\ <<a, x>> # <<b, y>>
  BY DEF Account
<1>2. t[src] + t[dst] <= Supply(t, p)
  BY <1>1, TwoAccounts
<1>3. Supply(t, p) <= MAX_INT64
  BY SupplyAssumption
<1>4. Supply(t, p) \in Nat
  <2>1. Holdings(t, p) \in [Addr \X DexType -> Nat]
    BY DEF Holdings, Account
  <2> QED BY <2>1, FiniteAccounts, TotalType DEF Supply
<1>5. t[src] \in Nat /\ t[dst] \in Nat /\ t[dst] + n <= MAX_INT64
  BY <1>2, <1>3, <1>4, MaxInt64Assumption
<1>6. Move(t, src, dst, n).ok /\ Move(t, src, dst, n).tally = Shifted(t, src, dst, n)
  BY <1>5, MoveExact
<1>7. \A q \in Prop : Supply(Shifted(t, src, dst, n), q) = Supply(t, q)
  BY <1>1, MoveKeepsSupply
<1> QED BY <1>6, <1>7

\* What a shift does account by account.
LEMMA ShiftedAt ==
  ASSUME NEW t \in [Account -> Nat], NEW src \in Account, NEW dst \in Account,
         src # dst, NEW n \in Nat, n <= t[src]
  PROVE  /\ Shifted(t, src, dst, n) \in [Account -> Nat]
         /\ Shifted(t, src, dst, n)[src] = t[src] - n
         /\ Shifted(t, src, dst, n)[dst] = t[dst] + n
         /\ \A c \in Account : c # src /\ c # dst => Shifted(t, src, dst, n)[c] = t[c]
BY DEF Shifted

\* The three accounts of an address in a property are distinct, and differ
\* from those of any other address or property.
LEMMA AccountsDistinct ==
  ASSUME NEW a, NEW p, NEW b, NEW q
  PROVE  /\ Bal(a, p) # Sell(b, q) /\ Bal(a, p) # Acc(b, q) /\ Sell(a, p) # Acc(b, q)
         /\ (Bal(a, p) = Bal(b, q)) <=> (a = b /\ p = q)
         /\ (Sell(a, p) = Sell(b, q)) <=> (a = b /\ p = q)
         /\ (Acc(a, p) = Acc(b, q)) <=> (a = b /\ p = q)
         /\ Bal(a, p)[2] = p /\ Sell(a, p)[2] = p /\ Acc(a, p)[2] = p
BY DEF Bal, Sell, Acc

\* What an address owns of a property.
LEMMA OwnedAt ==
  ASSUME NEW t, NEW a \in Addr, NEW p \in Prop
  PROVE  Owned(t)[<<a, p>>] = t[Bal(a, p)] + t[Sell(a, p)] + t[Acc(a, p)]
BY DEF Owned, OfferKey

\* Moving tokens between two accounts of one owner changes nobody's holding.
LEMMA OwnMoveKeepsOwned ==
  ASSUME NEW t \in [Account -> Nat], NEW p \in Prop, NEW a \in Addr,
         NEW src \in {Bal(a, p), Sell(a, p), Acc(a, p)},
         NEW dst \in {Bal(a, p), Sell(a, p), Acc(a, p)}, src # dst,
         NEW n \in Nat, n <= t[src]
  PROVE  Owned(Shifted(t, src, dst, n)) = Owned(t)
<1> DEFINE u == Shifted(t, src, dst, n)
<1>1. src \in Account /\ dst \in Account
  BY AccountTypes
<1>2. /\ u[src] = t[src] - n /\ u[dst] = t[dst] + n
      /\ \A c \in Account : c # src /\ c # dst => u[c] = t[c]
  BY <1>1, ShiftedAt
<1>3. ASSUME NEW c \in Addr, NEW q \in Prop
      PROVE  u[Bal(c, q)] + u[Sell(c, q)] + u[Acc(c, q)]
               = t[Bal(c, q)] + t[Sell(c, q)] + t[Acc(c, q)]
  <2>1. Bal(c, q) \in Account /\ Sell(c, q) \in Account /\ Acc(c, q) \in Account
    BY AccountTypes
  <2>2. t[Bal(c, q)] \in Nat /\ t[Sell(c, q)] \in Nat /\ t[Acc(c, q)] \in Nat
    BY <2>1
  <2>3. CASE c # a \/ q # p
    <3>1. src \notin {Bal(c, q), Sell(c, q), Acc(c, q)} /\ dst \notin {Bal(c, q), Sell(c, q), Acc(c, q)}
      BY <2>3, AccountsDistinct
    <3> HIDE DEF u
    <3> QED BY <1>2, <2>1, <3>1
  <2>4. CASE c = a /\ q = p
    <3>1. Bal(a, p) # Sell(a, p) /\ Bal(a, p) # Acc(a, p) /\ Sell(a, p) # Acc(a, p)
      BY AccountsDistinct
    <3> HIDE DEF u
    <3> QED BY <1>2, <2>1, <2>2, <2>4, <3>1
  <2> QED BY <2>3, <2>4
<1> HIDE DEF u
<1> QED BY <1>3 DEF Owned, OfferKey, u

\* Releasing the reserve of an offer passes its assertions, empties the
\* reserve into the balance and touches nothing else.
LEMMA ReleaseExact ==
  ASSUME NEW t \in [Account -> Nat],
         \A q \in Prop : Supply(t, q) = Supply(InitTally, q),
         NEW s \in Addr, NEW p \in Prop
  PROVE  LET r == ReleaseReserve(t, s, p)
         IN  /\ r.ok
             /\ r.tally \in [Account -> Nat]
             /\ \A q \in Prop : Supply(r.tally, q) = Supply(InitTally, q)
             /\ r.tally[Sell(s, p)] = 0
             /\ \A c \in Account : c # Sell(s, p) /\ c # Bal(s, p) => r.tally[c] = t[c]
             /\ Owned(r.tally) = Owned(t)
<1> DEFINE n == t[Sell(s, p)]
           u == Shifted(t, Sell(s, p), Bal(s, p), n)
<1>1. /\ n \in Nat /\ Sell(s, p) \in Account /\ Bal(s, p) \in Account
      /\ Sell(s, p) # Bal(s, p) /\ Sell(s, p)[2] = Bal(s, p)[2]
  BY AccountTypes, AccountsDistinct
<1>2. CASE n > 0
  <2>1. /\ Move(t, Sell(s, p), Bal(s, p), n).ok
        /\ Move(t, Sell(s, p), Bal(s, p), n).tally = u
        /\ \A q \in Prop : Supply(u, q) = Supply(InitTally, q)
    BY <1>1, <1>2, SafeMove
  <2>2. Owned(u) = Owned(t)
    BY <1>1, OwnMoveKeepsOwned
  <2>3. u \in [Account -> Nat] /\ u[Sell(s, p)] = 0
        /\ \A c \in Account : c # Sell(s, p) /\ c # Bal(s, p) => u[c] = t[c]
    BY <1>1, ShiftedAt
  <2> HIDE DEF u
  <2> QED BY <1>2, <2>1, <2>2, <2>3 DEF ReleaseReserve
<1>3. CASE ~(n > 0)
  BY <1>1, <1>3 DEF ReleaseReserve, NoMove
<1> QED BY <1>2, <1>3

\* A step that leaves the accepts and the ACCEPT_RESERVEs alone leaves them
\* in balance.
LEMMA ClaimsUnchanged ==
  ASSUME AcceptReserveBacked, my_accepts' = my_accepts,
         \A m \in Addr, p \in Prop : tally'[Acc(m, p)] = tally[Acc(m, p)]
  PROVE  AcceptReserveBacked'
BY DEF AcceptReserveBacked, Claims, Remaining

\* A step that writes one accept and changes its maker's ACCEPT_RESERVE by
\* the same amount leaves accepts and reserves in balance.
LEMMA ClaimsUpdated ==
  ASSUME TypeOK, AcceptReserveBacked,
         NEW m \in Addr, NEW p \in Prop, NEW b \in Addr,
         NEW x \in Accept \cup {None}, NEW n \in Nat,
         n = (IF x = None THEN 0 ELSE x.remaining),
         my_accepts' = [my_accepts EXCEPT ![<<m, p, b>>] = x],
         tally'[Acc(m, p)] = tally[Acc(m, p)] - Remaining(<<m, p, b>>) + n,
         \A c \in Addr, q \in Prop :
            c # m \/ q # p => tally'[Acc(c, q)] = tally[Acc(c, q)]
  PROVE  AcceptReserveBacked'
<1>1. ASSUME NEW c \in Addr, NEW q \in Prop
      PROVE  Claims(c, q) \in [Addr -> Nat]
  BY DEF Claims, Remaining, TypeOK, AcceptKey, Accept
<1>2. Claims(m, p)' = [Claims(m, p) EXCEPT ![b] = n]
  <2>1. my_accepts \in [AcceptKey -> Accept \cup {None}] /\ <<m, p, b>> \in AcceptKey
    BY DEF TypeOK, AcceptKey
  <2>2. ASSUME NEW c \in Addr
        PROVE  my_accepts'[<<m, p, c>>] = IF c = b THEN x ELSE my_accepts[<<m, p, c>>]
    <3>1. <<m, p, c>> \in AcceptKey /\ (<<m, p, c>> = <<m, p, b>> <=> c = b)
      BY DEF AcceptKey
    <3> QED
      BY <2>1, <3>1
  <2>3. ASSUME NEW c \in Addr
        PROVE  Remaining(<<m, p, c>>)' = IF c = b THEN n ELSE Remaining(<<m, p, c>>)
    BY <2>2 DEF Remaining
  <2> QED
    BY <2>3 DEF Claims
<1>3. ASSUME NEW c \in Addr, NEW q \in Prop, c # m \/ q # p
      PROVE  Claims(c, q)' = Claims(c, q)
  BY <1>3 DEF Claims, Remaining, TypeOK, AcceptKey
<1>4. Claims(m, p)[b] = Remaining(<<m, p, b>>)
  BY DEF Claims
<1>5. Total([Claims(m, p) EXCEPT ![b] = n]) = Total(Claims(m, p)) - Claims(m, p)[b] + n
  <2>1. Claims(m, p) \in [Addr -> Nat] /\ IsFiniteSet(Addr)
    BY <1>1, DExAssumption
  <2>2. n \in Nat /\ b \in Addr
    OBVIOUS
  <2> QED
    BY ONLY <2>1, <2>2, TotalUpdate
<1>6. tally[Acc(m, p)] = Total(Claims(m, p))
  BY DEF AcceptReserveBacked
<1>7. (tally[Acc(m, p)] = Total(Claims(m, p)))'
  BY <1>2, <1>4, <1>5, <1>6 DEF Acc
<1>8. ASSUME NEW c \in Addr, NEW q \in Prop, c # m \/ q # p
      PROVE  (tally[Acc(c, q)] = Total(Claims(c, q)))'
  BY <1>3, <1>8 DEF AcceptReserveBacked, Acc
<1> QED BY <1>7, <1>8 DEF AcceptReserveBacked

\* One accept claims no more than its maker has in ACCEPT_RESERVE.
LEMMA ClaimCovered ==
  ASSUME TypeOK, AcceptReserveBacked, NEW m \in Addr, NEW p \in Prop, NEW b \in Addr
  PROVE  Remaining(<<m, p, b>>) <= tally[Acc(m, p)]
<1>1. Claims(m, p) \in [Addr -> Nat] /\ Claims(m, p)[b] = Remaining(<<m, p, b>>)
  BY DEF Claims, Remaining, TypeOK, AcceptKey, Accept
<1>2. Claims(m, p)[b] <= Total(Claims(m, p))
  BY <1>1, TotalUpdate, DExAssumption, 0 \in Nat
<1> QED BY <1>1, <1>2 DEF AcceptReserveBacked

\* The supply is intact in the sense the moves need.
LEMMA SupplyFact ==
  ASSUME SellInv
  PROVE  /\ tally \in [Account -> Nat]
         /\ \A q \in Prop : Supply(tally, q) = Supply(InitTally, q)
BY DEF SellInv, TypeOK, SupplyConserved

\* A step that leaves the accepts alone, and every offer but that of s in p;
\* a new offer there has a new hash and at most its amount in reserve.
OfferReplaced(s, p) ==
  /\ my_accepts' = my_accepts
  /\ \A m \in Addr, q \in Prop : ~(m = s /\ q = p) =>
       /\ my_offers'[<<m, q>>] = my_offers[<<m, q>>]
       /\ tally'[Sell(m, q)] = tally[Sell(m, q)]
  /\ my_offers'[<<s, p>>] # None =>
       /\ FreshTxid(my_offers'[<<s, p>>].txid)
       /\ tally'[Sell(s, p)] <= my_offers'[<<s, p>>].amount

\* Creating, replacing and cancelling a sell offer keeps the invariant and
\* everybody's holdings.
LEMMA OfferStepSell ==
  ASSUME SellInv, TypeOK', NEW s \in Addr, NEW p \in Prop, DExSell(s, p)
  PROVE  SellInv' /\ Owned(tally') = Owned(tally) /\ OfferReplaced(s, p)
<1>1. /\ tally \in [Account -> Nat]
      /\ \A q \in Prop : Supply(tally, q) = Supply(InitTally, q)
      /\ my_offers \in [OfferKey -> Offer \cup {None}] /\ <<s, p>> \in OfferKey
      /\ node = "up"
  BY SupplyFact DEF SellInv, TypeOK, OfferKey, DExSell, Ready
<1>2. ASSUME NEW r, NEW o \in Offer \cup {None},
             o # None => o.option = SELLER,
             Commit(r, [my_offers EXCEPT ![<<s, p>>] = o], my_accepts),
             r.ok, r.tally \in [Account -> Nat],
             \A q \in Prop : Supply(r.tally, q) = Supply(InitTally, q),
             o = None => r.tally[Sell(s, p)] = 0,
             o # None => FreshTxid(o.txid) /\ r.tally[Sell(s, p)] <= o.amount,
             \A c \in Account : c # Sell(s, p) /\ c # Bal(s, p) => r.tally[c] = tally[c]
      PROVE  SellInv' /\ tally' = r.tally /\ OfferReplaced(s, p)
  <2>1. /\ tally' = r.tally /\ my_offers' = [my_offers EXCEPT ![<<s, p>>] = o]
        /\ my_accepts' = my_accepts /\ node' = node
    BY <1>2 DEF Commit
  <2>2. OnlySellOffers'
    BY <1>1, <1>2, <2>1 DEF OnlySellOffers, SellInv
  <2>3. AcceptReserveBacked'
    <3>1. ASSUME NEW m \in Addr, NEW q \in Prop PROVE tally'[Acc(m, q)] = tally[Acc(m, q)]
      BY <1>2, <2>1, AccountTypes, AccountsDistinct
    <3> QED BY <2>1, <3>1, ClaimsUnchanged DEF SellInv
  <2>4. SellReserveHasOffer'
    <3>1. ASSUME NEW m \in Addr, NEW q \in Prop, tally'[Sell(m, q)] > 0
          PROVE  my_offers'[<<m, q>>] # None
      <4>1. CASE m = s /\ q = p
        BY <1>1, <1>2, <2>1, <3>1, <4>1
      <4>2. CASE ~(m = s /\ q = p)
        <5>1. tally'[Sell(m, q)] = tally[Sell(m, q)]
          BY <1>2, <2>1, <4>2, AccountTypes, AccountsDistinct
        <5>2. my_offers[<<m, q>>] # None
          BY <3>1, <5>1 DEF SellInv, SellReserveHasOffer
        <5> QED BY <1>1, <2>1, <4>2, <5>2
      <4> QED BY <4>1, <4>2
    <3>2. ASSUME NEW m \in Addr, NEW q \in Prop, my_offers'[<<m, q>>] # None
          PROVE  my_offers'[<<m, q>>].option = SELLER
      BY <2>2, <3>2 DEF OnlySellOffers, OfferKey
    <3> QED BY <3>1, <3>2 DEF SellReserveHasOffer, Sell
  <2>5. SupplyConserved'
    BY <1>2, <2>1 DEF SupplyConserved
  <2>6. NoAssertFails'
    BY <1>1, <2>1 DEF NoAssertFails
  <2>7. OfferReplaced(s, p)
    <3>1. ASSUME NEW m \in Addr, NEW q \in Prop, ~(m = s /\ q = p)
          PROVE  /\ my_offers'[<<m, q>>] = my_offers[<<m, q>>]
                 /\ tally'[Sell(m, q)] = tally[Sell(m, q)]
      BY <1>1, <1>2, <2>1, <3>1, AccountTypes, AccountsDistinct DEF OfferKey
    <3>2. my_offers'[<<s, p>>] = o
      BY <1>1, <2>1
    <3> QED BY <1>2, <2>1, <3>1, <3>2 DEF OfferReplaced
  <2> QED BY <2>1, <2>2, <2>3, <2>4, <2>5, <2>6, <2>7 DEF SellInv
<1> DEFINE freed == ReleaseReserve(tally, s, p)
<1>3. /\ freed.ok /\ freed.tally \in [Account -> Nat]
      /\ \A q \in Prop : Supply(freed.tally, q) = Supply(InitTally, q)
      /\ freed.tally[Sell(s, p)] = 0
      /\ \A c \in Account : c # Sell(s, p) /\ c # Bal(s, p) => freed.tally[c] = tally[c]
      /\ Owned(freed.tally) = Owned(tally)
  BY <1>1, ReleaseExact
<1> HIDE DEF freed
<1>4. CASE Commit(freed, [my_offers EXCEPT ![<<s, p>>] = None], my_accepts)
  BY <1>2, <1>3, <1>4
<1>5. ASSUME NEW t \in [Account -> Nat],
             \A q \in Prop : Supply(t, q) = Supply(InitTally, q),
             \A c \in Account : c # Sell(s, p) /\ c # Bal(s, p) => t[c] = tally[c],
             Owned(t) = Owned(tally),
             NEW amount \in Nat, NEW r, NEW o \in Offer, o.option = SELLER,
             amount > 0, amount <= t[Bal(s, p)], t[Sell(s, p)] = 0,
             amount = o.amount, FreshTxid(o.txid),
             r.ok = Move(t, Bal(s, p), Sell(s, p), amount).ok,
             r.tally = Move(t, Bal(s, p), Sell(s, p), amount).tally,
             Commit(r, [my_offers EXCEPT ![<<s, p>>] = o], my_accepts)
      PROVE  SellInv' /\ Owned(tally') = Owned(tally) /\ OfferReplaced(s, p)
  <2> DEFINE u == Shifted(t, Bal(s, p), Sell(s, p), amount)
  <2>1. /\ Bal(s, p) \in Account /\ Sell(s, p) \in Account
        /\ Bal(s, p) # Sell(s, p) /\ Bal(s, p)[2] = Sell(s, p)[2]
    BY AccountTypes, AccountsDistinct
  <2>2. r.ok /\ r.tally = u /\ \A q \in Prop : Supply(u, q) = Supply(InitTally, q)
    BY <1>5, <2>1, SafeMove
  <2>3. /\ u \in [Account -> Nat] /\ u[Sell(s, p)] = t[Sell(s, p)] + amount
        /\ \A c \in Account : c # Sell(s, p) /\ c # Bal(s, p) => u[c] = tally[c]
    BY <1>5, <2>1, ShiftedAt
  <2>4. Owned(u) = Owned(tally)
    BY <1>5, <2>1, OwnMoveKeepsOwned
  <2>5. o # None
    BY DExAssumption
  <2> HIDE DEF u
  <2>6. u[Sell(s, p)] <= o.amount
    BY <1>5, <2>3
  <2> QED BY <1>2, <1>5, <2>2, <2>3, <2>4, <2>5, <2>6
<1>6. ASSUME NEW amount \in 0 .. MaxAmount, NEW desired \in 0 .. MaxLTC,
             NEW fee \in 0 .. MaxFee, NEW window \in 0 .. MaxWindow, NEW h \in TxId,
             FreshTxid(h),
             \/ DEx_offerCreate(s, p, amount, desired, fee, window, h)
             \/ DEx_offerUpdate(s, p, amount, desired, fee, window, h)
      PROVE  SellInv' /\ Owned(tally') = Owned(tally) /\ OfferReplaced(s, p)
  <2> DEFINE o == NewOffer(amount, desired, fee, window, h, SELLER)
  <2>1. ASSUME NEW t, OfferCreatable(t, s, p, amount, desired, window)
        PROVE  /\ o \in Offer /\ o.option = SELLER /\ amount \in Nat
               /\ amount > 0 /\ amount <= t[Bal(s, p)]
               /\ amount = o.amount /\ FreshTxid(o.txid)
    <3>1. amount \in 1 .. MaxAmount /\ desired \in 1 .. MaxLTC /\ window \in 1 .. MaxWindow
      BY <2>1, DExAssumption DEF OfferCreatable
    <3>2. o \in Offer
      BY <3>1, NewOfferType
    <3>3. o.option = SELLER /\ o.amount = amount /\ o.txid = h
      BY DEF NewOffer
    <3> QED BY <1>6, <2>1, <3>1, <3>2, <3>3, DExAssumption DEF OfferCreatable
  <2>2. CASE DEx_offerCreate(s, p, amount, desired, fee, window, h)
    <3>1. OfferCreatable(tally, s, p, amount, desired, window)
      BY <2>2 DEF DEx_offerCreate
    <3>2. Commit(Move(tally, Bal(s, p), Sell(s, p), amount),
                 [my_offers EXCEPT ![<<s, p>>] = o], my_accepts)
      BY <2>2 DEF DEx_offerCreate
    <3>3. tally[Sell(s, p)] = 0
      <4>1. my_offers[<<s, p>>] = None
        BY <2>2 DEF DEx_offerCreate, DEx_offerExists
      <4>2. tally[Sell(s, p)] \in Nat
        BY <1>1, AccountTypes
      <4> QED BY <4>1, <4>2 DEF SellInv, SellReserveHasOffer
    <3> HIDE DEF o
    <3> QED BY <1>1, <1>5, <2>1, <3>1, <3>2, <3>3
  <2>3. CASE DEx_offerUpdate(s, p, amount, desired, fee, window, h)
    <3> DEFINE moved == Move(freed.tally, Bal(s, p), Sell(s, p), amount)
               r == [moved EXCEPT !.ok = @ /\ freed.ok]
    <3>1. r.tally = moved.tally /\ r.ok = (moved.ok /\ freed.ok)
      BY DEF Move
    <3>2. moved.ok \in BOOLEAN
      BY DEF Move, update_tally_map, updateMoneyOk
    <3>3. r.ok = moved.ok
      BY <1>3, <3>1, <3>2
    <3>4. CASE OfferCreatable(freed.tally, s, p, amount, desired, window)
      <4>1. Commit(r, [my_offers EXCEPT ![<<s, p>>] = o], my_accepts)
        BY <2>3, <3>4 DEF DEx_offerUpdate, freed
      <4> HIDE DEF o, r
      <4> QED BY <1>3, <1>5, <2>1, <3>1, <3>3, <3>4, <4>1
    <3>5. CASE ~OfferCreatable(freed.tally, s, p, amount, desired, window)
      <4>1. Commit(freed, [my_offers EXCEPT ![<<s, p>>] = None], my_accepts)
        BY <2>3, <3>5 DEF DEx_offerUpdate, freed
      <4> QED BY <1>4, <4>1
    <3> QED BY <3>4, <3>5
  <2> QED BY <1>6, <2>2, <2>3
<1> QED BY <1>4, <1>6 DEF DExSell, DEx_offerDestroy, freed

\* A step that ends the process without a failed assertion keeps the
\* invariant: what was in memory is not touched.
LEMMA DownSell ==
  ASSUME SellInv, TypeOK', NEW why \in {"range", "null"}, Down(why)
  PROVE  SellInv' /\ UNCHANGED <<tally, my_offers, my_accepts>>
<1>1. UNCHANGED <<tally, my_offers, my_accepts>> /\ node' # "assert"
  BY DEF Down, book
<1> QED BY <1>1 DEF SellInv, OnlySellOffers, AcceptReserveBacked, Claims, Remaining,
                    SellReserveHasOffer, SupplyConserved, NoAssertFails

\* A step that moves tokens between accounts of the maker m and writes the
\* accept of b: the tally becomes t, the accept x, of which n tokens remain.
WritesAccept(m, p, b, x, t, n) ==
  /\ x \in Accept \cup {None} /\ t \in [Account -> Nat] /\ n \in Nat
  /\ n = (IF x = None THEN 0 ELSE x.remaining)
  /\ tally' = t
  /\ my_accepts' = [my_accepts EXCEPT ![<<m, p, b>>] = x]
  /\ node' = "up"
  /\ \A q \in Prop : Supply(t, q) = Supply(InitTally, q)
  /\ t[Acc(m, p)] = tally[Acc(m, p)] - Remaining(<<m, p, b>>) + n
  /\ \A c \in Addr, q \in Prop :
        c # m \/ q # p => t[Acc(c, q)] = tally[Acc(c, q)]
  /\ \A c \in Addr, q \in Prop : t[Sell(c, q)] > 0 => my_offers'[<<c, q>>] # None
  /\ \A k \in OfferKey : my_offers'[k] # None => my_offers'[k] = my_offers[k]

\* Such a step keeps the invariant.
LEMMA OneAcceptStep ==
  ASSUME SellInv, TypeOK', NEW m \in Addr, NEW p \in Prop, NEW b \in Addr,
         NEW x, NEW t, NEW n, WritesAccept(m, p, b, x, t, n)
  PROVE  SellInv'
<1> USE DEF WritesAccept
<1>1. AcceptReserveBacked'
  <2>1. TypeOK /\ AcceptReserveBacked
    BY DEF SellInv
  <2>2. tally'[Acc(m, p)] = tally[Acc(m, p)] - Remaining(<<m, p, b>>) + n
    OBVIOUS
  <2>3. \A c \in Addr, q \in Prop :
          c # m \/ q # p => tally'[Acc(c, q)] = tally[Acc(c, q)]
    OBVIOUS
  <2> QED BY <2>1, <2>2, <2>3, ClaimsUpdated
<1>2. OnlySellOffers'
  BY DEF SellInv, OnlySellOffers
<1>3. SellReserveHasOffer'
  <2>1. ASSUME NEW c \in Addr, NEW q \in Prop, my_offers'[<<c, q>>] # None
        PROVE  my_offers'[<<c, q>>].option = SELLER
    BY <1>2, <2>1 DEF OnlySellOffers, OfferKey
  <2> QED BY <2>1 DEF SellReserveHasOffer, Sell
<1>4. SupplyConserved' /\ NoAssertFails'
  BY DEF SupplyConserved, NoAssertFails
<1> QED BY <1>1, <1>2, <1>3, <1>4 DEF SellInv

\* What the accept a still claims of the offer with hash h.
Claim(a, h) == IF a # None /\ a.offer_txid = h THEN a.remaining ELSE 0

\* A step that writes at most the accept under <<m, p, b>>, leaves offers
\* alone or removes them, and adds nothing to what is for sale of an offer
\* together with what is claimed of it.
OneClaimStep(m, p, b) ==
  /\ \A c \in Addr, q \in Prop : ~(c = m /\ q = p) => tally'[Sell(c, q)] = tally[Sell(c, q)]
  /\ \A k \in OfferKey : my_offers'[k] # None => my_offers'[k] = my_offers[k]
  /\ \A k \in AcceptKey : k # <<m, p, b>> => my_accepts'[k] = my_accepts[k]
  /\ my_offers[<<m, p>>] # None =>
       tally'[Sell(m, p)] + Claim(my_accepts'[<<m, p, b>>], my_offers[<<m, p>>].txid)
         <= tally[Sell(m, p)] + Claim(my_accepts[<<m, p, b>>], my_offers[<<m, p>>].txid)

\* A step that touches neither tally nor books adds nothing.
LEMMA SameBooks ==
  ASSUME SellInv, UNCHANGED <<tally, my_offers, my_accepts>>,
         NEW m \in Addr, NEW p \in Prop, NEW b \in Addr
  PROVE  OneClaimStep(m, p, b)
<1> DEFINE n == tally[Sell(m, p)]
           c == Claim(my_accepts[<<m, p, b>>], my_offers[<<m, p>>].txid)
<1>1. n \in Nat /\ c \in Nat
  BY AccountTypes DEF SellInv, TypeOK, Claim, Accept, AcceptKey
<1>2. n + c <= n + c
  <2> HIDE DEF n, c
  <2> QED BY <1>1
<1> QED BY <1>2 DEF OneClaimStep

\* Accepting a sell offer keeps the invariant and everybody's holdings.
LEMMA AcceptStepSell ==
  ASSUME SellInv, TypeOK', NEW taker \in Addr, NEW maker \in Addr, NEW p \in Prop,
         NEW amount \in 0 .. MaxAmount, NEW feePaid,
         DEx_acceptCreate(taker, maker, p, amount, feePaid)
  PROVE  SellInv' /\ Owned(tally') = Owned(tally) /\ OneClaimStep(maker, p, taker)
<1> DEFINE key == <<maker, p, taker>>
           src == Sell(maker, p)
           dst == Acc(maker, p)
           n == Lesser(amount, tally[src])
           r == Move(tally, src, dst, n)
           u == Shifted(tally, src, dst, n)
           x == NewAccept(my_offers[<<maker, p>>], n)
<1>1. /\ tally \in [Account -> Nat]
      /\ \A q \in Prop : Supply(tally, q) = Supply(InitTally, q)
      /\ my_offers \in [OfferKey -> Offer \cup {None}]
      /\ my_offers[<<maker, p>>] # None /\ <<maker, p>> \in OfferKey
      /\ my_accepts[key] = None /\ node = "up"
  BY SupplyFact DEF SellInv, TypeOK, OfferKey, DEx_acceptCreate, Ready,
                    DEx_offerExists, DEx_acceptExists
<1>2. my_offers[<<maker, p>>] \in Offer /\ my_offers[<<maker, p>>].option = SELLER
  BY <1>1 DEF SellInv, OnlySellOffers
<1>3. AcceptSellOffer(taker, maker, p, amount)
  BY <1>2 DEF DEx_acceptCreate, BUYER, SELLER
<1>4. /\ src \in Account /\ dst \in Account /\ src # dst /\ src[2] = dst[2]
      /\ tally[src] \in Nat /\ tally[dst] \in Nat
  BY <1>1, AccountTypes, AccountsDistinct
<1>5. n > 0 /\ n \in Nat /\ n <= tally[src]
  <2>1. n > 0
    BY <1>3 DEF AcceptSellOffer
  <2> QED BY <1>4, <2>1, DExAssumption DEF Lesser
<1>6. Commit(r, my_offers, [my_accepts EXCEPT ![key] = x])
  BY <1>3 DEF AcceptSellOffer
<1>7. /\ x \in Accept /\ x.remaining = n /\ x # None
      /\ x.offer_txid = my_offers[<<maker, p>>].txid
  <2> HIDE DEF n
  <2>1. x \in Accept
    BY <1>2, <1>5, NewAcceptType
  <2> QED BY <2>1, DExAssumption DEF NewAccept
<1> HIDE DEF n, x
<1>8. r.ok /\ r.tally = u /\ \A q \in Prop : Supply(u, q) = Supply(InitTally, q)
  <2> HIDE DEF src, dst
  <2> QED BY <1>1, <1>4, <1>5, SafeMove
<1>9. /\ u \in [Account -> Nat] /\ u[src] = tally[src] - n /\ u[dst] = tally[dst] + n
      /\ \A c \in Account : c # src /\ c # dst => u[c] = tally[c]
  <2> HIDE DEF src, dst
  <2> QED BY <1>1, <1>4, <1>5, ShiftedAt
<1>10. /\ tally' = u /\ my_accepts' = [my_accepts EXCEPT ![key] = x]
       /\ my_offers' = my_offers /\ node' = "up"
  BY <1>1, <1>6, <1>8 DEF Commit
<1>11. Owned(u) = Owned(tally)
  BY <1>1, <1>4, <1>5, OwnMoveKeepsOwned
<1>12. Remaining(key) = 0
  BY <1>1 DEF Remaining
<1>13. ASSUME NEW c \in Addr, NEW q \in Prop, c # maker \/ q # p
       PROVE  u[Acc(c, q)] = tally[Acc(c, q)]
  <2>1. Acc(c, q) \in Account /\ Acc(c, q) # src /\ Acc(c, q) # dst
    BY <1>13, AccountTypes, AccountsDistinct
  <2> HIDE DEF u
  <2> QED BY <1>9, <2>1
<1>14. ASSUME NEW c \in Addr, NEW q \in Prop, u[Sell(c, q)] > 0
       PROVE  my_offers'[<<c, q>>] # None
  <2>1. CASE c = maker /\ q = p
    BY <1>1, <1>10, <2>1
  <2>2. CASE ~(c = maker /\ q = p)
    <3>1. Sell(c, q) \in Account /\ Sell(c, q) # src /\ Sell(c, q) # dst
      BY <2>2, AccountTypes, AccountsDistinct
    <3>2. tally[Sell(c, q)] > 0
      <4> HIDE DEF u
      <4> QED BY <1>9, <1>14, <3>1
    <3> QED BY <1>10, <3>2 DEF SellInv, SellReserveHasOffer
  <2> QED BY <2>1, <2>2
<1>15. u[Acc(maker, p)] = tally[Acc(maker, p)] - Remaining(<<maker, p, taker>>) + n
  BY <1>4, <1>5, <1>9, <1>12
<1> HIDE DEF u
<1>16. SellInv'
  <2>1. n = (IF x = None THEN 0 ELSE x.remaining)
    BY <1>7
  <2>2. my_accepts' = [my_accepts EXCEPT ![<<maker, p, taker>>] = x]
    BY <1>10
  <2>3. \A k \in OfferKey : my_offers'[k] # None => my_offers'[k] = my_offers[k]
    BY <1>10
  <2>4. /\ x \in Accept \cup {None} /\ n \in Nat /\ u \in [Account -> Nat]
        /\ tally' = u /\ node' = "up"
    BY <1>5, <1>7, <1>9, <1>10
  <2>5. \A q \in Prop : Supply(u, q) = Supply(InitTally, q)
    BY <1>8
  <2>6. WritesAccept(maker, p, taker, x, u, n)
    BY <1>13, <1>14, <1>15, <2>1, <2>2, <2>3, <2>4, <2>5 DEF WritesAccept
  <2> QED BY <2>6, OneAcceptStep
<1>17. OneClaimStep(maker, p, taker)
  <2>1. key \in AcceptKey /\ my_accepts \in [AcceptKey -> Accept \cup {None}]
    BY DEF AcceptKey, SellInv, TypeOK
  <2>2. my_accepts'[key] = x /\ \A k \in AcceptKey : k # key => my_accepts'[k] = my_accepts[k]
    BY <1>10, <2>1
  <2>3. ASSUME NEW c \in Addr, NEW q \in Prop, ~(c = maker /\ q = p)
        PROVE  tally'[Sell(c, q)] = tally[Sell(c, q)]
    <3>1. Sell(c, q) \in Account /\ Sell(c, q) # src /\ Sell(c, q) # dst
      BY <2>3, AccountTypes, AccountsDistinct
    <3> QED BY <1>9, <1>10, <3>1
  <2>4. /\ Claim(x, my_offers[<<maker, p>>].txid) = n
        /\ Claim(my_accepts[key], my_offers[<<maker, p>>].txid) = 0
    BY <1>1, <1>7 DEF Claim
  <2>5. tally'[Sell(maker, p)] + n <= tally[Sell(maker, p)] + 0
    BY <1>4, <1>5, <1>9, <1>10
  <2> QED BY <1>10, <2>2, <2>3, <2>4, <2>5 DEF OneClaimStep
<1> QED BY <1>10, <1>11, <1>16, <1>17

\* One accept of the expiry sweep keeps the invariant and everybody's
\* holdings.
LEMMA ExpireStepSell ==
  ASSUME SellInv, TypeOK', NEW k \in AcceptKey, EraseExpired(k)
  PROVE  SellInv' /\ Owned(tally') = Owned(tally) /\ OneClaimStep(k[1], k[2], k[3])
<1>1. /\ tally \in [Account -> Nat]
      /\ \A q \in Prop : Supply(tally, q) = Supply(InitTally, q)
      /\ my_offers \in [OfferKey -> Offer \cup {None}]
      /\ my_accepts[k] \in Accept /\ my_accepts[k] # None /\ node = "up"
      /\ my_accepts[k].remaining \in Nat
  BY SupplyFact DEF SellInv, TypeOK, EraseExpired, Expired, Accept
<1>2. PICK m \in Addr, p \in Prop, b \in Addr : k = <<m, p, b>>
  BY DEF AcceptKey
<1>3. CASE ~DEx_offerExists(m, p)
  <2>1. Down("null")
    BY <1>2, <1>3 DEF EraseExpired
  <2>2. SellInv' /\ UNCHANGED <<tally, my_offers, my_accepts>>
    BY <2>1, DownSell
  <2> QED BY <2>2, SameBooks, <1>2
<1>4. CASE DEx_offerExists(m, p)
  <2> DEFINE n == my_accepts[k].remaining
             src == Acc(m, p)
             dst == IF my_offers[<<m, p>>].txid = my_accepts[k].offer_txid
                    THEN Sell(m, p) ELSE Bal(m, p)
             r == ReturnAccepted(tally, k)
  <2>1. Commit(r, my_offers, [my_accepts EXCEPT ![k] = None])
    BY <1>2, <1>4 DEF EraseExpired
  <2>2. Remaining(<<m, p, b>>) = n /\ n <= tally[src]
    BY <1>1, <1>2, ClaimCovered DEF Remaining, SellInv
  <2>3. /\ src \in Account /\ dst \in Account /\ src # dst /\ src[2] = dst[2]
        /\ tally[src] \in Nat /\ dst \in {Sell(m, p), Bal(m, p)}
    BY <1>1, AccountTypes, AccountsDistinct
  <2>4. /\ r.ok /\ r.tally \in [Account -> Nat]
        /\ \A q \in Prop : Supply(r.tally, q) = Supply(InitTally, q)
        /\ r.tally[src] = tally[src] - n /\ r.tally[dst] = tally[dst] + n
        /\ \A c \in Account : c # src /\ c # dst => r.tally[c] = tally[c]
        /\ Owned(r.tally) = Owned(tally)
    <3>1. CASE n > 0
      <4> DEFINE u == Shifted(tally, src, dst, n)
      <4>1. r = Move(tally, src, dst, n)
        BY <1>2, <3>1 DEF ReturnAccepted
      <4>2. Owned(u) = Owned(tally)
        BY <1>1, <2>2, <2>3, OwnMoveKeepsOwned
      <4> HIDE DEF src, dst, r, n
      <4>3. /\ Move(tally, src, dst, n).ok
            /\ Move(tally, src, dst, n).tally = u
            /\ \A q \in Prop : Supply(u, q) = Supply(InitTally, q)
        BY <1>1, <2>2, <2>3, <3>1, SafeMove DEF n
      <4>4. /\ u \in [Account -> Nat]
            /\ u[src] = tally[src] - n /\ u[dst] = tally[dst] + n
            /\ \A c \in Account : c # src /\ c # dst => u[c] = tally[c]
        BY <1>1, <2>2, <2>3, ShiftedAt DEF n
      <4> HIDE DEF u
      <4> QED BY <4>1, <4>2, <4>3, <4>4
    <3>2. CASE ~(n > 0)
      <4>1. r = NoMove(tally)
        BY <1>2, <3>2 DEF ReturnAccepted
      <4>2. n = 0
        BY <1>1, <3>2
      <4> HIDE DEF r, n, src, dst
      <4>3. tally[dst] \in Nat
        BY <1>1, <2>3
      <4> QED BY <1>1, <2>3, <4>1, <4>2, <4>3 DEF NoMove
    <3> QED BY <3>1, <3>2
  <2>5. /\ tally' = r.tally /\ my_accepts' = [my_accepts EXCEPT ![<<m, p, b>>] = None]
        /\ my_offers' = my_offers /\ node' = "up"
    <3> HIDE DEF r
    <3> QED BY <1>1, <1>2, <2>1, <2>4 DEF Commit
  <2>6. ASSUME NEW c \in Addr, NEW q \in Prop, c # m \/ q # p
        PROVE  r.tally[Acc(c, q)] = tally[Acc(c, q)]
    <3>1. Acc(c, q) \in Account /\ Acc(c, q) # src /\ Acc(c, q) # dst
      BY <2>6, AccountTypes, AccountsDistinct
    <3> HIDE DEF r, src, dst
    <3> QED BY <2>4, <3>1
  <2>7. ASSUME NEW c \in Addr, NEW q \in Prop, r.tally[Sell(c, q)] > 0
        PROVE  my_offers'[<<c, q>>] # None
    <3>1. CASE c = m /\ q = p
      BY <1>4, <2>5, <3>1 DEF DEx_offerExists
    <3>2. CASE ~(c = m /\ q = p)
      <4>1. Sell(c, q) \in Account /\ Sell(c, q) # src /\ Sell(c, q) # dst
        BY <2>3, <3>2, AccountTypes, AccountsDistinct
      <4>2. tally[Sell(c, q)] > 0
        <5> HIDE DEF r, src, dst
        <5> QED BY <2>4, <2>7, <4>1
      <4> QED BY <2>5, <4>2 DEF SellInv, SellReserveHasOffer
    <3> QED BY <3>1, <3>2
  <2>8. r.tally[Acc(m, p)] = tally[Acc(m, p)] - Remaining(<<m, p, b>>) + 0
    <3> HIDE DEF r
    <3> QED BY <1>1, <2>2, <2>3, <2>4
  <2> HIDE DEF r
  <2>9. SellInv'
    <3>1. WritesAccept(m, p, b, None, r.tally, 0)
      BY <2>4, <2>5, <2>6, <2>7, <2>8 DEF WritesAccept
    <3> QED BY <3>1, OneAcceptStep
  <2>10. OneClaimStep(m, p, b)
    <3>1. my_accepts \in [AcceptKey -> Accept \cup {None}]
      BY DEF SellInv, TypeOK
    <3>2. /\ my_accepts'[<<m, p, b>>] = None
          /\ \A j \in AcceptKey : j # <<m, p, b>> => my_accepts'[j] = my_accepts[j]
      BY <1>2, <2>5, <3>1
    <3>3. ASSUME NEW c \in Addr, NEW q \in Prop, ~(c = m /\ q = p)
          PROVE  tally'[Sell(c, q)] = tally[Sell(c, q)]
      <4>1. Sell(c, q) \in Account /\ Sell(c, q) # src /\ Sell(c, q) # dst
        BY <2>3, <3>3, AccountTypes, AccountsDistinct
      <4> HIDE DEF src, dst
      <4> QED BY <2>4, <2>5, <4>1
    <3> DEFINE h == my_offers[<<m, p>>].txid
    <3>4. /\ Claim(None, h) = 0
          /\ Claim(my_accepts[k], h) = IF h = my_accepts[k].offer_txid THEN n ELSE 0
      BY <1>1 DEF Claim
    <3>5. /\ tally[Sell(m, p)] \in Nat /\ Sell(m, p) \in Account /\ Sell(m, p) # src
          /\ Sell(m, p) # Bal(m, p)
      BY <1>1, AccountTypes, AccountsDistinct
    <3>6. tally'[Sell(m, p)] = tally[Sell(m, p)] + Claim(my_accepts[k], h)
      <4>1. CASE h = my_accepts[k].offer_txid
        <5>1. dst = Sell(m, p)
          BY <4>1
        <5> HIDE DEF src, dst, n, h
        <5> QED BY <2>4, <2>5, <3>4, <4>1, <5>1
      <4>2. CASE h # my_accepts[k].offer_txid
        <5>1. dst = Bal(m, p)
          BY <4>2
        <5> HIDE DEF src, dst, n, h
        <5> QED BY <2>4, <2>5, <3>4, <3>5, <4>2, <5>1
      <4> QED BY <4>1, <4>2
    <3>7. tally'[Sell(m, p)] + 0 <= tally[Sell(m, p)] + Claim(my_accepts[k], h)
      <4>1. Claim(my_accepts[k], h) \in Nat
        BY <1>1, <3>4
      <4> HIDE DEF h
      <4> QED BY <3>5, <3>6, <4>1
    <3> QED BY <1>2, <2>5, <3>2, <3>3, <3>4, <3>7 DEF OneClaimStep
  <2> QED BY <1>2, <2>4, <2>5, <2>9, <2>10
<1> QED BY <1>3, <1>4

\* A payment moves n tokens of the seller to the buyer, and nothing else.
LEMMA PaymentOwned ==
  ASSUME NEW t \in [Account -> Nat], NEW s \in Addr, NEW b \in Addr, s # b,
         NEW p \in Prop, NEW n \in Nat, n <= t[Acc(s, p)]
  PROVE  Owned(Shifted(t, Acc(s, p), Bal(b, p), n))
           = [Owned(t) EXCEPT ![<<s, p>>] = @ - n, ![<<b, p>>] = @ + n]
<1> DEFINE u == Shifted(t, Acc(s, p), Bal(b, p), n)
           w == [Owned(t) EXCEPT ![<<s, p>>] = @ - n, ![<<b, p>>] = @ + n]
<1>1. /\ Acc(s, p) \in Account /\ Bal(b, p) \in Account /\ Acc(s, p) # Bal(b, p)
  BY AccountTypes, AccountsDistinct
<1>2. /\ u[Acc(s, p)] = t[Acc(s, p)] - n /\ u[Bal(b, p)] = t[Bal(b, p)] + n
      /\ \A c \in Account : c # Acc(s, p) /\ c # Bal(b, p) => u[c] = t[c]
  BY <1>1, ShiftedAt
<1>3. ASSUME NEW c \in Addr, NEW q \in Prop
      PROVE  u[Bal(c, q)] + u[Sell(c, q)] + u[Acc(c, q)] = w[<<c, q>>]
  <2>1. /\ Bal(c, q) \in Account /\ Sell(c, q) \in Account /\ Acc(c, q) \in Account
        /\ t[Bal(c, q)] \in Nat /\ t[Sell(c, q)] \in Nat /\ t[Acc(c, q)] \in Nat
    BY AccountTypes
  <2>2. /\ u[Sell(c, q)] = t[Sell(c, q)]
        /\ u[Bal(c, q)] = IF c = b /\ q = p THEN t[Bal(c, q)] + n ELSE t[Bal(c, q)]
        /\ u[Acc(c, q)] = IF c = s /\ q = p THEN t[Acc(c, q)] - n ELSE t[Acc(c, q)]
    <3> HIDE DEF u
    <3> QED BY <1>2, <2>1, AccountsDistinct
  <2>3. Owned(t)[<<c, q>>] = t[Bal(c, q)] + t[Sell(c, q)] + t[Acc(c, q)]
    BY OwnedAt
  <2>4. w[<<c, q>>] = IF c = s /\ q = p THEN Owned(t)[<<c, q>>] - n
                      ELSE IF c = b /\ q = p THEN Owned(t)[<<c, q>>] + n
                      ELSE Owned(t)[<<c, q>>]
    BY DEF Owned, OfferKey
  <2> HIDE DEF u, w
  <2> QED BY <2>1, <2>2, <2>3, <2>4
<1>4. w = [k \in OfferKey |-> w[k]]
  BY DEF Owned
<1> HIDE DEF u, w
<1>5. Owned(u) = [k \in OfferKey |-> w[k]]
  BY <1>3 DEF Owned, OfferKey
<1> QED BY <1>4, <1>5 DEF u, w

\* DEx_payment on an accept made to the seller keeps the invariant, and moves
\* at most tokens of the seller to the buyer.
LEMMA PayAcceptSell ==
  ASSUME SellInv, TypeOK', node = "up", NEW seller \in Addr, NEW buyer \in Addr,
         seller # buyer, NEW p \in Prop, NEW value \in 1 .. MaxLTC,
         my_accepts[<<seller, p, buyer>>] # None,
         PayAccept(seller, buyer, p, <<seller, p, buyer>>, value)
  PROVE  /\ SellInv'
         /\ OneClaimStep(seller, p, buyer)
         /\ \/ Owned(tally') = Owned(tally)
            \/ \E n \in 1 .. Owned(tally)[<<seller, p>>] :
                 Owned(tally') = [Owned(tally) EXCEPT ![<<seller, p>>] = @ - n,
                                                      ![<<buyer, p>>] = @ + n]
<1> DEFINE key == <<seller, p, buyer>>
           accept == my_accepts[key]
           computed == calculateDExPurchase(accept.offered, accept.desired, value)
           n == Lesser(computed, accept.remaining)
           src == Acc(seller, p)
           dst == Bal(buyer, p)
           paid == IF n > 0 THEN Move(tally, src, dst, n) ELSE NoMove(tally)
           isZero == n >= accept.remaining
           rest == [accept EXCEPT !.remaining = @ - n]
           empty == paid.tally[Sell(seller, p)] = 0 /\ paid.tally[src] = 0
<1>1. /\ tally \in [Account -> Nat]
      /\ \A q \in Prop : Supply(tally, q) = Supply(InitTally, q)
      /\ my_offers \in [OfferKey -> Offer \cup {None}]
      /\ my_accepts \in [AcceptKey -> Accept \cup {None}]
      /\ key \in AcceptKey /\ <<seller, p>> \in OfferKey
  BY SupplyFact DEF SellInv, TypeOK, AcceptKey, OfferKey
<1>2. accept \in Accept /\ value \in Nat
  BY <1>1, DExAssumption
<1>3. /\ accept.remaining \in Nat /\ accept.offered \in Nat
      /\ accept.desired \in Nat /\ accept.desired > 0
  <2> HIDE DEF accept
  <2> QED BY <1>2, AcceptFields
<1>4. computed \in Nat
  BY <1>2, <1>3, PurchaseType
<1>5. n \in Nat /\ n <= accept.remaining
  <2> HIDE DEF computed
  <2> QED BY <1>3, <1>4 DEF Lesser
<1> HIDE DEF n
<1>6. rest \in Accept /\ rest.remaining = accept.remaining - n /\ rest # None
  <2>1. accept.remaining - n \in Nat
    BY <1>3, <1>5
  <2> QED BY <1>2, <2>1, DExAssumption DEF Accept
<1>7. /\ src \in Account /\ dst \in Account /\ src # dst /\ src[2] = dst[2]
      /\ tally[src] \in Nat
  BY <1>1, AccountTypes, AccountsDistinct
<1>8. Remaining(key) = accept.remaining /\ n <= tally[src]
  <2>1. Remaining(key) = accept.remaining
    BY DEF Remaining
  <2>2. Remaining(key) <= tally[src]
    BY ClaimCovered DEF SellInv
  <2> HIDE DEF src, accept, key
  <2> QED BY <1>3, <1>5, <1>7, <2>1, <2>2
<1>9. /\ paid.ok /\ paid.tally \in [Account -> Nat]
      /\ \A q \in Prop : Supply(paid.tally, q) = Supply(InitTally, q)
      /\ paid.tally[src] = tally[src] - n
      /\ \A c \in Account : c # src /\ c # dst => paid.tally[c] = tally[c]
      /\ \/ n = 0 /\ Owned(paid.tally) = Owned(tally)
         \/ /\ n > 0
            /\ Owned(paid.tally) = [Owned(tally) EXCEPT ![<<seller, p>>] = @ - n,
                                                        ![<<buyer, p>>] = @ + n]
  <2>1. CASE n > 0
    <3> DEFINE u == Shifted(tally, src, dst, n)
    <3>1. paid = Move(tally, src, dst, n)
      BY <2>1
    <3>2. Owned(u) = [Owned(tally) EXCEPT ![<<seller, p>>] = @ - n, ![<<buyer, p>>] = @ + n]
      BY <1>1, <1>5, <1>8, PaymentOwned
    <3> HIDE DEF src, dst, paid
    <3>3. /\ Move(tally, src, dst, n).ok /\ Move(tally, src, dst, n).tally = u
          /\ \A q \in Prop : Supply(u, q) = Supply(InitTally, q)
      BY <1>1, <1>5, <1>7, <1>8, <2>1, SafeMove
    <3>4. /\ u \in [Account -> Nat] /\ u[src] = tally[src] - n
          /\ \A c \in Account : c # src /\ c # dst => u[c] = tally[c]
      BY <1>1, <1>5, <1>7, <1>8, ShiftedAt
    <3> HIDE DEF u
    <3> QED BY <2>1, <3>1, <3>2, <3>3, <3>4
  <2>2. CASE ~(n > 0)
    <3>1. n = 0 /\ paid.ok /\ paid.tally = tally
      BY <1>5, <2>2 DEF NoMove
    <3> HIDE DEF paid, src, dst
    <3> QED BY <1>1, <1>7, <3>1
  <2> QED BY <2>1, <2>2
<1>10. CASE \E why \in {"range", "null"} : Down(why)
  <2>1. SellInv' /\ UNCHANGED <<tally, my_offers, my_accepts>>
    BY <1>10, DownSell
  <2> QED BY <2>1, SameBooks
<1>11. CASE ~\E why \in {"range", "null"} : Down(why)
  <2> DEFINE x == IF isZero THEN None ELSE rest
  <2>1. /\ tally' = paid.tally
        /\ my_accepts' = [my_accepts EXCEPT ![key] = x]
        /\ my_offers' = [my_offers EXCEPT ![<<seller, p>>] =
                           IF isZero /\ empty THEN None ELSE @]
        /\ node' = "up"
    <3>1. DEx_acceptExists(seller, p, buyer)
      BY DEF DEx_acceptExists
    <3> HIDE DEF computed, paid, rest
    <3> QED BY <1>9, <1>11, <3>1 DEF PayAccept, computed, paid, n, rest
  <2>2. x \in Accept \cup {None}
    BY <1>6
  <2>3. accept.remaining - n = IF x = None THEN 0 ELSE x.remaining
    <3> HIDE DEF rest, accept
    <3> QED BY <1>3, <1>5, <1>6
  <2>4. paid.tally[src] = tally[src] - Remaining(key) + (accept.remaining - n)
    <3> HIDE DEF src, paid, accept, key
    <3> QED BY <1>3, <1>5, <1>7, <1>8, <1>9
  <2>5. ASSUME NEW c \in Addr, NEW q \in Prop, c # seller \/ q # p
        PROVE  paid.tally[Acc(c, q)] = tally[Acc(c, q)]
    <3>1. Acc(c, q) \in Account /\ Acc(c, q) # src /\ Acc(c, q) # dst
      BY <2>5, AccountTypes, AccountsDistinct
    <3> HIDE DEF paid, src, dst
    <3> QED BY <1>9, <3>1
  <2>6. ASSUME NEW c \in Addr, NEW q \in Prop, paid.tally[Sell(c, q)] > 0
        PROVE  my_offers'[<<c, q>>] # None
    <3>1. Sell(c, q) \in Account /\ Sell(c, q) # src /\ Sell(c, q) # dst
      BY AccountTypes, AccountsDistinct
    <3>2. paid.tally[Sell(c, q)] = tally[Sell(c, q)]
      <4> HIDE DEF paid, src, dst
      <4> QED BY <1>9, <3>1
    <3>3. my_offers[<<c, q>>] # None
      <4>1. tally[Sell(c, q)] > 0
        <5> HIDE DEF paid
        <5> QED BY <2>6, <3>2
      <4> QED BY <4>1 DEF SellInv, SellReserveHasOffer
    <3>4. CASE c = seller /\ q = p
      <4> HIDE DEF paid, isZero
      <4> QED BY <1>1, <2>1, <2>6, <3>3, <3>4
    <3>5. CASE ~(c = seller /\ q = p)
      <4> HIDE DEF paid, isZero, empty
      <4> QED BY <1>1, <2>1, <3>3, <3>5
    <3> QED BY <3>4, <3>5
  <2>7. ASSUME NEW k \in OfferKey, my_offers'[k] # None PROVE my_offers'[k] = my_offers[k]
    <3> HIDE DEF paid, isZero, empty
    <3> QED BY <1>1, <2>1, <2>7
  <2>8. accept.remaining - n \in Nat
    BY <1>3, <1>5
  <2>12. OneClaimStep(seller, p, buyer)
    <3>1. /\ my_accepts'[key] = x
          /\ \A j \in AcceptKey : j # key => my_accepts'[j] = my_accepts[j]
      <4> HIDE DEF x
      <4> QED BY <1>1, <2>1
    <3>2. ASSUME NEW c \in Addr, NEW q \in Prop
          PROVE  tally'[Sell(c, q)] = tally[Sell(c, q)] /\ tally[Sell(c, q)] \in Nat
      <4>1. Sell(c, q) \in Account /\ Sell(c, q) # src /\ Sell(c, q) # dst
        BY AccountTypes, AccountsDistinct
      <4> HIDE DEF paid, src, dst
      <4> QED BY <1>1, <1>9, <2>1, <4>1
    <3> DEFINE h == my_offers[<<seller, p>>].txid
    <3>3. Claim(x, h) <= Claim(accept, h) /\ Claim(x, h) \in Nat /\ Claim(accept, h) \in Nat
      <4>1. rest.offer_txid = accept.offer_txid /\ accept # None
        BY <1>2 DEF Accept
      <4> HIDE DEF isZero, rest, h, accept
      <4> QED BY <1>3, <1>5, <1>6, <2>8, <4>1 DEF Claim
    <3>4. tally'[Sell(seller, p)] + Claim(x, h) <= tally[Sell(seller, p)] + Claim(accept, h)
      <4> HIDE DEF x, h, accept
      <4> QED BY <3>2, <3>3
    <3> HIDE DEF x, paid, isZero, empty
    <3> QED BY <2>7, <3>1, <3>2, <3>4 DEF OneClaimStep
  <2> HIDE DEF paid, x, accept, isZero, empty
  <2>9. SellInv'
    <3>1. WritesAccept(seller, p, buyer, x, paid.tally, accept.remaining - n)
      BY <1>9, <2>1, <2>2, <2>3, <2>4, <2>5, <2>6, <2>7, <2>8 DEF WritesAccept
    <3> QED BY <3>1, OneAcceptStep
  <2>10. CASE n = 0
    BY <1>9, <2>1, <2>9, <2>10, <2>12
  <2>11. CASE n > 0
    <3>1. n <= Owned(tally)[<<seller, p>>] /\ Owned(tally)[<<seller, p>>] \in Nat
      <4>1. /\ tally[Bal(seller, p)] \in Nat /\ tally[Sell(seller, p)] \in Nat
            /\ tally[Acc(seller, p)] \in Nat
        BY <1>1, AccountTypes
      <4> QED BY <1>5, <1>8, <4>1, OwnedAt
    <3>2. n \in 1 .. Owned(tally)[<<seller, p>>]
      BY <1>5, <2>11, <3>1
    <3> QED BY <1>9, <2>1, <2>9, <2>11, <2>12, <3>2
  <2> QED BY <1>5, <2>10, <2>11
<1> QED BY <1>10, <1>11

\* Every step of the exchange without buy offers keeps the invariant, and is
\* a transfer of the ledger or leaves all holdings alone.
LEMMA SellStep ==
  ASSUME ~DexBuyActive, SellInv, [Next]_vars
  PROVE  /\ SellInv'
         /\ \/ Owned(tally') = Owned(tally)
            \/ \E a, b \in Addr, p \in Prop :
                 /\ a # b
                 /\ \E n \in 1 .. Owned(tally)[<<a, p>>] :
                      Owned(tally') = [Owned(tally) EXCEPT ![<<a, p>>] = @ - n,
                                                           ![<<b, p>>] = @ + n]
<1>1. TypeOK /\ TypeOK'
  BY TypeInductive DEF SellInv
<1>2. ASSUME UNCHANGED <<tally, my_offers>>, node' = node,
             \A k \in AcceptKey : Remaining(k)' = Remaining(k)
      PROVE  SellInv' /\ Owned(tally') = Owned(tally)
  <2>1. \A m \in Addr, p \in Prop : Claims(m, p)' = Claims(m, p)
    BY <1>2 DEF Claims, AcceptKey
  <2>2. AcceptReserveBacked'
    BY <1>2, <2>1 DEF SellInv, AcceptReserveBacked, Acc
  <2> QED BY <1>1, <1>2, <2>2 DEF SellInv, OnlySellOffers, SellReserveHasOffer, Sell,
                                  SupplyConserved, NoAssertFails
<1>3. ASSUME UNCHANGED book, node' = node
      PROVE  SellInv' /\ Owned(tally') = Owned(tally)
  BY <1>2, <1>3 DEF book, Remaining
<1>4. CASE \E s \in Addr, p \in Prop : DExSell(s, p) \/ DExBuy(s, p)
  <2>1. PICK s \in Addr, p \in Prop : DExSell(s, p)
    BY <1>4 DEF DExBuy
  <2> QED BY <1>1, <2>1, OfferStepSell
<1>5. CASE \E taker, maker \in Addr, p \in Prop, amount \in 0 .. MaxAmount,
              feePaid \in 0 .. MaxFee :
                 DEx_acceptCreate(taker, maker, p, amount, feePaid)
  BY <1>1, <1>5, AcceptStepSell
<1>6. CASE \E payer \in Addr, outs \in Payments : StartPayment(payer, outs)
  <2>1. UNCHANGED book /\ node' = node
    BY <1>6 DEF StartPayment
  <2> QED BY <1>3, <2>1
<1>7. CASE DEx_payment
  <2> DEFINE buyer == paying.payer
             seller == Head(paying.outs).to
             value == Head(paying.outs).value
             matching == {p \in Prop : Matches(seller, p, buyer)}
  <2>1. /\ paying.outs \in Seq(Output) /\ paying.outs # <<>> /\ buyer \in Addr
        /\ node = "up"
    BY <1>1, <1>7 DEF TypeOK, DEx_payment
  <2>2. seller \in Addr /\ value \in 1 .. MaxLTC
    <3>1. Head(paying.outs) \in Output
      BY <2>1
    <3> QED BY <3>1 DEF Output
  <2>3. CASE UNCHANGED <<book, stats, globalVolumeALL_LTC, phase, node>>
    BY <1>3, <2>3
  <2>4. CASE Down("null")
    BY <1>1, <2>4, DownSell
  <2>5. CASE seller # buyer /\ \E p \in matching :
               PayAccept(seller, buyer, p,
                         IF DEx_acceptExists(seller, p, buyer)
                         THEN <<seller, p, buyer>> ELSE <<buyer, p, seller>>, value)
    <3>1. PICK p \in matching :
               PayAccept(seller, buyer, p,
                         IF DEx_acceptExists(seller, p, buyer)
                         THEN <<seller, p, buyer>> ELSE <<buyer, p, seller>>, value)
      BY <2>5
    <3>2. DEx_acceptExists(seller, p, buyer)
      BY DEF Matches
    <3>3. /\ my_accepts[<<seller, p, buyer>>] # None
          /\ PayAccept(seller, buyer, p, <<seller, p, buyer>>, value)
      BY <3>1, <3>2 DEF DEx_acceptExists
    <3>4. p \in Prop /\ seller # buyer
      BY <2>5
    <3> HIDE DEF seller, value, buyer, matching
    <3>5. /\ SellInv'
          /\ \/ Owned(tally') = Owned(tally)
             \/ \E n \in 1 .. Owned(tally)[<<seller, p>>] :
                  Owned(tally') = [Owned(tally) EXCEPT ![<<seller, p>>] = @ - n,
                                                       ![<<buyer, p>>] = @ + n]
      BY <1>1, <2>1, <2>2, <3>3, <3>4, PayAcceptSell
    <3> QED BY <2>1, <2>2, <3>4, <3>5, Zenon
  <2> QED BY <1>7, <2>3, <2>4, <2>5 DEF DEx_payment
<1>8. CASE EndPayment
  BY <1>3, <1>8 DEF EndPayment
<1>9. CASE BlockEnd
  BY <1>3, <1>9 DEF BlockEnd
<1>10. CASE \E k \in AcceptKey : EraseExpired(k)
  BY <1>1, <1>10, ExpireStepSell
<1>11. CASE NextBlock
  <2>1. ASSUME NEW k \in AcceptKey PROVE Remaining(k)' = Remaining(k)
    <3>1. my_accepts[k] # None => my_accepts[k] \in Accept
      BY <1>1 DEF TypeOK
    <3>2. \A x \in Accept : /\ [x EXCEPT !.age = @ + 1].remaining = x.remaining
                            /\ [x EXCEPT !.age = @ + 1] \in Accept
      BY DEF Accept
    <3> QED BY <1>11, <3>1, <3>2, DExAssumption DEF NextBlock, Remaining
  <2> QED BY <1>2, <1>11, <2>1 DEF NextBlock
<1>12. CASE UNCHANGED vars
  BY <1>3, <1>12 DEF vars, book
<1> QED BY <1>4, <1>5, <1>6, <1>7, <1>8, <1>9, <1>10, <1>11, <1>12 DEF Next

\* The initial state satisfies the invariant.
LEMMA SellInit ==
  ASSUME Init
  PROVE  SellInv
<1>1. TypeOK
  <2>1. InitTally \in [Account -> Nat]
    BY DExAssumption DEF InitTally, Account, OfferKey
  <2>2. NoPayment \in [payer : Addr \cup {None}, outs : Seq(Output), count : Nat, nvalue : Nat]
    BY DEF NoPayment
  <2> QED BY <2>1, <2>2 DEF Init, TypeOK, NodeState
<1>2. ASSUME NEW m \in Addr, NEW p \in Prop
      PROVE  tally[Acc(m, p)] = 0 /\ tally[Sell(m, p)] = 0
  BY AccountTypes DEF Init, InitTally, Acc, Sell
<1>3. ASSUME NEW m \in Addr, NEW p \in Prop PROVE Total(Claims(m, p)) = 0
  <2>1. \A b \in Addr : Claims(m, p)[b] = 0
    BY DEF Claims, Remaining, Init, AcceptKey
  <2>2. Units(Claims(m, p)) = {}
    <3>1. DOMAIN Claims(m, p) = Addr
      BY DEF Claims
    <3>2. \A b \in Addr : 1 .. Claims(m, p)[b] = {}
      BY <2>1
    <3> HIDE DEF Claims
    <3> QED BY <3>1, <3>2 DEF Units
  <2> QED BY <2>2, FS_EmptySet DEF Total
<1> QED BY <1>1, <1>2, <1>3 DEF SellInv, OnlySellOffers, AcceptReserveBacked,
           SellReserveHasOffer, SupplyConserved, NoAssertFails, Init

\* Without buy offers the tally and the order books explain one another in
\* every reachable state.
THEOREM SellInvariant ==
  ASSUME ~DexBuyActive
  PROVE  Spec => []SellInv
<1>1. Init => SellInv
  BY SellInit
<1>2. SellInv /\ [Next]_vars => SellInv'
  BY SellStep
<1> QED BY <1>1, <1>2, PTL DEF Spec

\* Every token in ACCEPT_RESERVE is claimed by an open accept and every claim
\* is covered, for any number of buyers and any interleaving of accepts,
\* payments, replacements and expiries.
THEOREM AcceptsBacked ==
  ASSUME ~DexBuyActive
  PROVE  Spec => []AcceptReserveBacked
<1>1. SellInv => AcceptReserveBacked
  BY DEF SellInv
<1> QED BY <1>1, SellInvariant, PTL

\* No token is created, destroyed or lost by the exchange.
THEOREM SupplyIsConserved ==
  ASSUME ~DexBuyActive
  PROVE  Spec => []SupplyConserved
<1>1. SellInv => SupplyConserved
  BY DEF SellInv
<1> QED BY <1>1, SellInvariant, PTL

\* None of the assert(update_tally_map(..)) of dex.cpp can fail.
THEOREM AssertionsHold ==
  ASSUME ~DexBuyActive
  PROVE  Spec => []NoAssertFails
<1>1. SellInv => NoAssertFails
  BY DEF SellInv
<1> QED BY <1>1, SellInvariant, PTL

\* No token stays in SELLOFFER_RESERVE without an offer to sell it.
THEOREM ReservesHaveOffers ==
  ASSUME ~DexBuyActive
  PROVE  Spec => []SellReserveHasOffer
<1>1. SellInv => SellReserveHasOffer
  BY DEF SellInv
<1> QED BY <1>1, SellInvariant, PTL

\* The exchange without buy offers implements the token ledger.
THEOREM DExImplementsLedger ==
  ASSUME ~DexBuyActive
  PROVE  Spec => ImplementsLedger
<1>1. Init => Ledger!Init
  <2>1. ASSUME Init, NEW a \in Addr, NEW p \in Prop
        PROVE  /\ tally[Bal(a, p)] = InitialBalance[<<a, p>>]
               /\ tally[Sell(a, p)] = 0 /\ tally[Acc(a, p)] = 0
               /\ InitialBalance[<<a, p>>] \in Nat
    BY <2>1, AccountTypes, DExAssumption DEF Init, InitTally, Bal, Sell, Acc, OfferKey
  <2>2. ASSUME Init PROVE Owned(tally) = [k \in OfferKey |-> InitialBalance[k]]
    BY <2>1, <2>2 DEF Owned, OfferKey
  <2> QED BY <2>2, DExAssumption DEF Ledger!Init
<1>2. SellInv /\ [Next]_vars => [Ledger!Next]_(Owned(tally))
  <2> SUFFICES ASSUME SellInv, [Next]_vars PROVE [Ledger!Next]_(Owned(tally))
    OBVIOUS
  <2>1. CASE Owned(tally') = Owned(tally)
    BY <2>1 DEF Owned
  <2>2. CASE Owned(tally') # Owned(tally)
    <3>1. PICK a \in Addr, b \in Addr, p \in Prop :
             /\ a # b
             /\ \E n \in 1 .. Owned(tally)[<<a, p>>] :
                  Owned(tally') = [Owned(tally) EXCEPT ![<<a, p>>] = @ - n,
                                                       ![<<b, p>>] = @ + n]
      BY <2>2, SellStep
    <3>2. PICK n \in 1 .. Owned(tally)[<<a, p>>] :
             Owned(tally') = [Owned(tally) EXCEPT ![<<a, p>>] = @ - n,
                                                  ![<<b, p>>] = @ + n]
      BY <3>1
    <3>3. Owned(tally)' = Owned(tally')
      BY DEF Owned, Bal, Sell, Acc
    <3>4. Ledger!Transfer(a, b, p, n)
      <4>1. n <= Owned(tally)[<<a, p>>]
        BY <3>2
      <4>2. Owned(tally)' = [Owned(tally) EXCEPT ![<<a, p>>] = @ - n,
                                                 ![<<b, p>>] = @ + n]
        BY <3>2, <3>3, Zenon
      <4> QED BY <3>1, <4>1, <4>2, Zenon DEF Ledger!Transfer
    <3> QED BY <3>4 DEF Ledger!Next
  <2> QED BY <2>1, <2>2
<1> QED BY <1>1, <1>2, SellInvariant, PTL DEF Spec, ImplementsLedger, Ledger!Spec
-----------------------------------------------------------------------------
(* The life of an accept *)

\* One accept order before (a) and after (b) a step: it is new and of this
\* block, or it keeps its terms and claims no more than before, less only if
\* it may be paid, and it is a block older only if it had not expired.
Aged(a, b, mayPay) ==
  IF a = None THEN b.age = 0
  ELSE /\ b.offered = a.offered /\ b.desired = a.desired
       /\ b.window = a.window /\ b.offer_txid = a.offer_txid
       /\ b.remaining <= a.remaining
       /\ b.remaining < a.remaining => mayPay
       /\ b.age = a.age \/ (a.age < a.window /\ b.age = a.age + 1)

\* Who may lower what remains of the accept under k.
MayPay(k) == phase = "paying" /\ paying.payer \in {k[1], k[3]}

\* An accept that a step leaves alone has not aged.
LEMMA AgedSame ==
  ASSUME NEW a \in Accept, NEW mayPay
  PROVE  Aged(a, a, mayPay)
<1>1. a # None /\ a.remaining \in Nat
  BY DExAssumption DEF Accept
<1> QED BY <1>1 DEF Aged

\* A payment handles only an accept between the payer and the address paid,
\* and lowers its remaining amount.
LEMMA PayAcceptAged ==
  ASSUME TypeOK, phase = "paying", NEW seller \in Addr, NEW p \in Prop,
         NEW key \in {<<seller, p, paying.payer>>, <<paying.payer, p, seller>>},
         my_accepts[key] # None, NEW value \in 1 .. MaxLTC,
         PayAccept(seller, paying.payer, p, key, value),
         NEW k \in AcceptKey, my_accepts'[k] # None
  PROVE  Aged(my_accepts[k], my_accepts'[k], MayPay(k))
<1> DEFINE accept == my_accepts[key]
           computed == calculateDExPurchase(accept.offered, accept.desired, value)
           n == Lesser(computed, accept.remaining)
           rest == [accept EXCEPT !.remaining = @ - n]
<1>1. /\ my_accepts \in [AcceptKey -> Accept \cup {None}] /\ paying.payer \in Addr
      /\ key \in AcceptKey
  BY DEF TypeOK, AcceptKey
<1>2. accept \in Accept /\ value \in Nat
  BY <1>1, DExAssumption
<1>3. /\ accept.remaining \in Nat /\ accept.offered \in Nat
      /\ accept.desired \in Nat /\ accept.desired > 0
  <2> HIDE DEF accept
  <2> QED BY <1>2, AcceptFields
<1>4. computed \in Nat
  BY <1>2, <1>3, PurchaseType
<1>5. n \in Nat /\ n <= accept.remaining
  <2> HIDE DEF computed
  <2> QED BY <1>3, <1>4 DEF Lesser
<1>6. MayPay(key)
  BY DEF MayPay
<1>7. CASE my_accepts'[k] = my_accepts[k]
  BY <1>1, <1>7, AgedSame
<1>8. CASE my_accepts'[k] # my_accepts[k]
  <2>1. my_accepts' \in {my_accepts, [my_accepts EXCEPT ![key] = None],
                         [my_accepts EXCEPT ![key] = rest]}
    <3> HIDE DEF computed, n, rest
    <3> QED BY <1>1 DEF PayAccept, Down, book, computed, n, rest
  <2>2. k = key /\ my_accepts'[k] = rest
    <3> HIDE DEF rest
    <3> QED BY <1>1, <1>8, <2>1
  <2>3. Aged(accept, rest, TRUE)
    <3> HIDE DEF n
    <3> QED BY <1>2, <1>3, <1>5, DExAssumption DEF Aged, Accept
  <2> HIDE DEF rest
  <2> QED BY <1>6, <2>2, <2>3 DEF Aged
<1> QED BY <1>7, <1>8

\* What any step does to an accept order that is there after it.
LEMMA AcceptLife ==
  ASSUME TypeOK, [Next]_vars, NEW k \in AcceptKey, my_accepts'[k] # None
  PROVE  Aged(my_accepts[k], my_accepts'[k], MayPay(k))
<1>1. my_accepts \in [AcceptKey -> Accept \cup {None}]
  BY DEF TypeOK
<1>2. ASSUME my_accepts'[k] = my_accepts[k]
      PROVE  Aged(my_accepts[k], my_accepts'[k], MayPay(k))
  BY <1>1, <1>2, AgedSame
<1>3. CASE \E s \in Addr, p \in Prop : DExSell(s, p) \/ DExBuy(s, p)
  <2>1. my_accepts' = my_accepts
    BY <1>3 DEF DExSell, DExBuy, DEx_offerCreate, DEx_offerUpdate, DEx_offerDestroy,
                DEx_BuyOfferCreate, Commit, Down, book
  <2> QED BY <1>2, <2>1
<1>4. CASE \E taker, maker \in Addr, p \in Prop, amount \in 0 .. MaxAmount,
              feePaid \in 0 .. MaxFee :
                 DEx_acceptCreate(taker, maker, p, amount, feePaid)
  <2>1. PICK taker \in Addr, maker \in Addr, p \in Prop, amount \in 0 .. MaxAmount,
             feePaid \in 0 .. MaxFee :
                DEx_acceptCreate(taker, maker, p, amount, feePaid)
    BY <1>4
  <2> DEFINE key == <<maker, p, taker>>
             offer == my_offers[<<maker, p>>]
  <2>2. my_accepts[key] = None
    BY <2>1 DEF DEx_acceptCreate, DEx_acceptExists
  <2>3. \/ my_accepts' = my_accepts
        \/ \E n : my_accepts' = [my_accepts EXCEPT ![key] = NewAccept(offer, n)]
    BY <2>1 DEF DEx_acceptCreate, AcceptSellOffer, AcceptBuyOffer, Commit, Down, book
  <2>4. CASE my_accepts'[k] = my_accepts[k]
    BY <1>2, <2>4
  <2>5. CASE my_accepts'[k] # my_accepts[k]
    <3>1. PICK n : my_accepts' = [my_accepts EXCEPT ![key] = NewAccept(offer, n)]
      BY <2>3, <2>5
    <3>2. k = key /\ my_accepts'[k] = NewAccept(offer, n)
      BY <1>1, <2>5, <3>1
    <3>3. NewAccept(offer, n).age = 0
      BY DEF NewAccept
    <3> QED BY <2>2, <3>2, <3>3 DEF Aged
  <2> QED BY <2>4, <2>5
<1>5. CASE \E payer \in Addr, outs \in Payments : StartPayment(payer, outs)
  BY <1>2, <1>5 DEF StartPayment, book
<1>6. CASE DEx_payment
  <2> DEFINE buyer == paying.payer
             seller == Head(paying.outs).to
             value == Head(paying.outs).value
             matching == {p \in Prop : Matches(seller, p, buyer)}
             key(p) == IF DEx_acceptExists(seller, p, buyer)
                       THEN <<seller, p, buyer>> ELSE <<buyer, p, seller>>
  <2>1. /\ paying.outs \in Seq(Output) /\ paying.outs # <<>> /\ buyer \in Addr
        /\ phase = "paying"
    BY <1>6 DEF TypeOK, DEx_payment
  <2>2. seller \in Addr /\ value \in 1 .. MaxLTC
    <3>1. Head(paying.outs) \in Output
      BY <2>1
    <3> QED BY <3>1 DEF Output
  <2>3. CASE my_accepts' = my_accepts
    BY <1>2, <2>3
  <2>4. CASE \E p \in matching : PayAccept(seller, buyer, p, key(p), value)
    <3>1. PICK p \in matching : PayAccept(seller, buyer, p, key(p), value)
      BY <2>4
    <3>2. /\ my_accepts[key(p)] # None /\ p \in Prop
          /\ key(p) \in {<<seller, p, paying.payer>>, <<paying.payer, p, seller>>}
      BY DEF Matches, DEx_acceptExists
    <3> DEFINE x == key(p)
    <3> HIDE DEF seller, value, key, x
    <3> QED BY <2>1, <2>2, <3>1, <3>2, PayAcceptAged DEF x
  <2> QED BY <1>6, <2>3, <2>4 DEF DEx_payment, Down, book
<1>7. CASE EndPayment \/ BlockEnd
  BY <1>2, <1>7 DEF EndPayment, BlockEnd, book
<1>8. CASE \E j \in AcceptKey : EraseExpired(j)
  <2>1. PICK j \in AcceptKey : EraseExpired(j)
    BY <1>8
  <2>2. my_accepts' \in {my_accepts, [my_accepts EXCEPT ![j] = None]}
    BY <2>1 DEF EraseExpired, Commit, Down, book
  <2> QED BY <1>1, <1>2, <2>2
<1>9. CASE NextBlock
  <2> DEFINE a == my_accepts[k]
             b == [a EXCEPT !.age = @ + 1]
  <2>1. a # None /\ my_accepts'[k] = b /\ ~Expired(k)
    BY <1>9 DEF NextBlock
  <2>2. a \in Accept /\ ~(a.age >= a.window)
    BY <1>1, <2>1 DEF Expired
  <2>3. Aged(a, b, MayPay(k))
    BY <2>1, <2>2, DExAssumption DEF Aged, Accept
  <2> QED BY <2>1, <2>3
<1>10. CASE UNCHANGED vars
  BY <1>2, <1>10 DEF vars
<1> QED BY <1>3, <1>4, <1>5, <1>6, <1>7, <1>8, <1>9, <1>10 DEF Next

\* No accept outlives its payment window, whoever pays what and however the
\* offers change, with and without buy offers.
THEOREM WindowRespected == Spec => []AcceptWithinWindow
<1>1. Init => AcceptWithinWindow
  BY DEF Init, AcceptWithinWindow
<1>2. TypeOK /\ TypeOK' /\ AcceptWithinWindow /\ [Next]_vars => AcceptWithinWindow'
  <2> SUFFICES ASSUME TypeOK, TypeOK', AcceptWithinWindow, [Next]_vars,
                      NEW k \in AcceptKey, my_accepts'[k] # None
               PROVE  my_accepts'[k].age <= my_accepts'[k].window
    BY DEF AcceptWithinWindow
  <2> DEFINE a == my_accepts[k]
             b == my_accepts'[k]
  <2>1. Aged(a, b, MayPay(k))
    BY AcceptLife
  <2>2. b \in Accept /\ (a # None => a \in Accept /\ a.age <= a.window)
    BY DEF TypeOK, AcceptWithinWindow
  <2> HIDE DEF a, b
  <2>3. b.age <= b.window
    BY <2>1, <2>2, DExAssumption DEF Aged, Accept
  <2> QED BY <2>3 DEF b
<1> QED BY <1>1, <1>2, TypeCorrect, PTL DEF Spec

\* An open accept keeps the price, window and claim it was made with, whatever
\* becomes of its offer; only a payment of one of its two parties lowers it.
THEOREM TermsAreFixed == Spec => AcceptTermsFixed
<1> DEFINE Fixed == \A k \in AcceptKey :
       my_accepts[k] # None /\ my_accepts'[k] # None =>
         /\ my_accepts'[k].offered = my_accepts[k].offered
         /\ my_accepts'[k].desired = my_accepts[k].desired
         /\ my_accepts'[k].window = my_accepts[k].window
         /\ my_accepts'[k].offer_txid = my_accepts[k].offer_txid
         /\ my_accepts'[k].remaining <= my_accepts[k].remaining
         /\ my_accepts'[k].remaining < my_accepts[k].remaining
              => phase = "paying" /\ paying.payer \in {k[1], k[3]}
<1>1. TypeOK /\ [Next]_vars => [Fixed]_vars
  <2> SUFFICES ASSUME TypeOK, [Next]_vars PROVE Fixed
    OBVIOUS
  <2> SUFFICES ASSUME NEW k \in AcceptKey, my_accepts[k] # None, my_accepts'[k] # None
               PROVE  /\ my_accepts'[k].offered = my_accepts[k].offered
                      /\ my_accepts'[k].desired = my_accepts[k].desired
                      /\ my_accepts'[k].window = my_accepts[k].window
                      /\ my_accepts'[k].offer_txid = my_accepts[k].offer_txid
                      /\ my_accepts'[k].remaining <= my_accepts[k].remaining
                      /\ my_accepts'[k].remaining < my_accepts[k].remaining
                           => phase = "paying" /\ paying.payer \in {k[1], k[3]}
    OBVIOUS
  <2>1. Aged(my_accepts[k], my_accepts'[k], MayPay(k))
    BY AcceptLife
  <2> QED BY <2>1 DEF Aged, MayPay
<1> QED BY <1>1, TypeCorrect, PTL DEF Spec, AcceptTermsFixed

\* The process meets a null pointer only where an accept has lost its offer,
\* or in a payment nobody accepted on a node that does not debug the DEx.
THEOREM NullNeedsOrphan == Spec => NullOnlyIfOrphaned
<1> DEFINE Orphaned ==
       node' = "null" /\ node = "up" =>
         \/ \E k \in AcceptKey : my_accepts[k] # None /\ my_offers[<<k[1], k[2]>>] = None
         \/ ~msc_debug_dex /\ phase = "paying"
<1>1. TypeOK /\ [Next]_vars => [Orphaned]_vars
  <2> SUFFICES ASSUME TypeOK, Next, node' = "null", node = "up"
               PROVE  \/ \E k \in AcceptKey : my_accepts[k] # None
                                              /\ my_offers[<<k[1], k[2]>>] = None
                      \/ ~msc_debug_dex /\ phase = "paying"
    BY DEF vars
  <2>1. CASE \E s \in Addr, p \in Prop : DExSell(s, p) \/ DExBuy(s, p)
    BY <2>1 DEF DExSell, DExBuy, DEx_offerCreate, DEx_offerUpdate, DEx_offerDestroy,
                DEx_BuyOfferCreate, Commit, Down
  <2>2. CASE \E taker, maker \in Addr, p \in Prop, amount \in 0 .. MaxAmount,
                feePaid \in 0 .. MaxFee :
                   DEx_acceptCreate(taker, maker, p, amount, feePaid)
    BY <2>2 DEF DEx_acceptCreate, AcceptSellOffer, AcceptBuyOffer, Commit, Down
  <2>3. CASE DEx_payment
    <3> DEFINE buyer == paying.payer
               seller == Head(paying.outs).to
               value == Head(paying.outs).value
               key(p) == IF DEx_acceptExists(seller, p, buyer)
                         THEN <<seller, p, buyer>> ELSE <<buyer, p, seller>>
    <3>1. /\ paying.outs \in Seq(Output) /\ paying.outs # <<>> /\ buyer \in Addr
          /\ phase = "paying"
      BY <2>3 DEF TypeOK, DEx_payment
    <3>2. seller \in Addr
      <4>1. Head(paying.outs) \in Output
        BY <3>1
      <4> QED BY <4>1 DEF Output
    <3>3. CASE \E p \in Prop : PayAccept(seller, buyer, p, key(p), value)
      <4>1. PICK p \in Prop : PayAccept(seller, buyer, p, key(p), value)
        BY <3>3
      <4>2. DEx_acceptExists(seller, p, buyer) /\ ~DEx_offerExists(seller, p)
        <5> HIDE DEF seller, buyer, key, value
        <5> QED BY <4>1 DEF PayAccept, Down
      <4>3. <<seller, p, buyer>> \in AcceptKey
        BY <3>1, <3>2 DEF AcceptKey
      <4> DEFINE k == <<seller, p, buyer>>
      <4>4. k[1] = seller /\ k[2] = p
        OBVIOUS
      <4> HIDE DEF seller, buyer
      <4> QED BY <4>2, <4>3, <4>4 DEF DEx_acceptExists, DEx_offerExists
    <3> QED BY <2>3, <3>1, <3>3 DEF DEx_payment
  <2>4. CASE \E k \in AcceptKey : EraseExpired(k)
    BY <2>4 DEF EraseExpired, Expired, Commit, Down, DEx_offerExists
  <2>5. CASE \/ \E payer \in Addr, outs \in Payments : StartPayment(payer, outs)
             \/ EndPayment \/ BlockEnd \/ NextBlock
    BY <2>5 DEF StartPayment, EndPayment, BlockEnd, NextBlock
  <2> QED BY <2>1, <2>2, <2>3, <2>4, <2>5 DEF Next
<1> QED BY <1>1, TypeCorrect, PTL DEF Spec, NullOnlyIfOrphaned

-----------------------------------------------------------------------------
(* No offer is oversold *)

\* What an offer with hash h of maker m in p has for sale or claimed.
ClaimsAs(accepts, m, p, h) == [t \in Addr |-> Claim(accepts[<<m, p, t>>], h)]

\* The claims on an offer, taker by taker, are natural numbers.
LEMMA ClaimsMean ==
  ASSUME TypeOK, NEW m \in Addr, NEW p \in Prop, NEW h
  PROVE  /\ ClaimsOn(m, p, h) = ClaimsAs(my_accepts, m, p, h)
         /\ ClaimsAs(my_accepts, m, p, h) \in [Addr -> Nat]
<1>1. ASSUME NEW t \in Addr
      PROVE  /\ ClaimsOn(m, p, h)[t] = Claim(my_accepts[<<m, p, t>>], h)
             /\ Claim(my_accepts[<<m, p, t>>], h) \in Nat
  <2>1. my_accepts[<<m, p, t>>] \in Accept \cup {None}
    BY DEF TypeOK, AcceptKey
  <2> QED BY <2>1 DEF ClaimsOn, Remaining, Claim, Accept
<1> QED BY <1>1 DEF ClaimsOn, ClaimsAs

\* A step that writes one accept changes the claims on an offer by what it
\* changes in that accept.
LEMMA ClaimsStep ==
  ASSUME TypeOK, TypeOK', NEW m \in Addr, NEW p \in Prop, NEW b \in Addr, NEW h,
         \A k \in AcceptKey : k # <<m, p, b>> => my_accepts'[k] = my_accepts[k]
  PROVE  /\ Total(ClaimsAs(my_accepts', m, p, h))
              = Total(ClaimsAs(my_accepts, m, p, h))
                - Claim(my_accepts[<<m, p, b>>], h) + Claim(my_accepts'[<<m, p, b>>], h)
         /\ Total(ClaimsAs(my_accepts, m, p, h)) \in Nat
<1> DEFINE f == ClaimsAs(my_accepts, m, p, h)
           g == ClaimsAs(my_accepts', m, p, h)
           v == Claim(my_accepts'[<<m, p, b>>], h)
<1>1. f \in [Addr -> Nat] /\ f[b] = Claim(my_accepts[<<m, p, b>>], h)
  BY ClaimsMean DEF ClaimsAs
<1>2. v \in Nat
  BY DEF TypeOK, AcceptKey, Claim, Accept
<1>3. g = [f EXCEPT ![b] = v]
  BY DEF ClaimsAs, AcceptKey
<1> HIDE DEF f, g, v
<1>4. Total([f EXCEPT ![b] = v]) = Total(f) - f[b] + v /\ Total(f) \in Nat
  <2>1. IsFiniteSet(Addr) /\ f \in [Addr -> Nat]
    BY <1>1, DExAssumption
  <2> QED BY <1>2, <2>1, TotalUpdate
<1> QED BY <1>1, <1>3, <1>4 DEF f, g, v

\* A step that leaves every claim alone leaves the total alone.
LEMMA ClaimsKept ==
  ASSUME NEW accepts, NEW others, NEW m \in Addr, NEW p \in Prop, NEW h,
         \A t \in Addr : Claim(others[<<m, p, t>>], h) = Claim(accepts[<<m, p, t>>], h)
  PROVE  ClaimsAs(others, m, p, h) = ClaimsAs(accepts, m, p, h)
BY DEF ClaimsAs

\* The offers that no step may oversell, one maker and property at a time.
NotOversoldAt(offer, reserve, claims) == offer # None => reserve + claims <= offer.amount

\* Without buy offers the invariant says the same of every maker and property.
LEMMA OversoldMeans ==
  ASSUME SellInv
  PROVE  OfferNotOversold <=>
           \A m \in Addr, p \in Prop :
              NotOversoldAt(my_offers[<<m, p>>], tally[Sell(m, p)],
                            Total(ClaimsAs(my_accepts, m, p, my_offers[<<m, p>>].txid)))
<1>1. \A m \in Addr, p \in Prop : my_offers[<<m, p>>] # None =>
         my_offers[<<m, p>>].option = SELLER
  BY DEF SellInv, OnlySellOffers, OfferKey
<1>2. \A m \in Addr, p \in Prop : \A h : ClaimsOn(m, p, h) = ClaimsAs(my_accepts, m, p, h)
  BY ClaimsMean DEF SellInv
<1> QED BY <1>1, <1>2 DEF OfferNotOversold, NotOversoldAt

\* The same of the state after a step.
LEMMA OversoldAfter ==
  ASSUME \A m \in Addr, p \in Prop :
            NotOversoldAt(my_offers'[<<m, p>>], tally'[Sell(m, p)],
                          Total(ClaimsAs(my_accepts', m, p, my_offers'[<<m, p>>].txid)))
  PROVE  OfferNotOversold'
<1>1. ASSUME NEW m \in Addr, NEW p \in Prop
      PROVE  ClaimsOn(m, p, my_offers[<<m, p>>].txid)'
               = ClaimsAs(my_accepts', m, p, my_offers'[<<m, p>>].txid)
  BY DEF ClaimsOn, Remaining, ClaimsAs, Claim
<1> QED BY <1>1 DEF OfferNotOversold, NotOversoldAt, Sell

\* Replacing an offer oversells neither the new one nor any other.
LEMMA ReplacedNotOversold ==
  ASSUME SellInv, SellInv', NEW s \in Addr, NEW p \in Prop, OfferReplaced(s, p),
         OfferNotOversold
  PROVE  OfferNotOversold'
<1> DEFINE A(m, q) == NotOversoldAt(my_offers'[<<m, q>>], tally'[Sell(m, q)],
                        Total(ClaimsAs(my_accepts', m, q, my_offers'[<<m, q>>].txid)))
<1>1. ASSUME NEW m \in Addr, NEW q \in Prop PROVE A(m, q)
  <2>1. CASE ~(m = s /\ q = p)
    <3>1. NotOversoldAt(my_offers[<<m, q>>], tally[Sell(m, q)],
                        Total(ClaimsAs(my_accepts, m, q, my_offers[<<m, q>>].txid)))
      BY OversoldMeans
    <3> QED BY <2>1, <3>1 DEF OfferReplaced
  <2>2. CASE m = s /\ q = p /\ my_offers'[<<s, p>>] # None
    <3> DEFINE h == my_offers'[<<s, p>>].txid
               f == ClaimsAs(my_accepts', s, p, h)
    <3>1. FreshTxid(h) /\ tally'[Sell(s, p)] <= my_offers'[<<s, p>>].amount
          /\ my_accepts' = my_accepts
      BY <2>2 DEF OfferReplaced
    <3>2. f \in [Addr -> Nat]
      BY <3>1, ClaimsMean DEF SellInv
    <3>3. \A t \in Addr : f[t] = 0
      BY <3>1 DEF FreshTxid, ClaimsAs, Claim, AcceptKey
    <3> HIDE DEF f
    <3>4. Total(f) = 0
      BY <3>2, <3>3, TotalZero
    <3>5. tally'[Sell(s, p)] \in Nat
      BY AccountTypes DEF SellInv, TypeOK
    <3> QED BY <2>2, <3>1, <3>4, <3>5 DEF NotOversoldAt, f
  <2>3. CASE m = s /\ q = p /\ my_offers'[<<s, p>>] = None
    BY <2>3 DEF NotOversoldAt
  <2> QED BY <2>1, <2>2, <2>3
<1> QED BY <1>1, OversoldAfter

\* Writing one accept, with what is for sale, oversells no offer.
LEMMA ClaimNotOversold ==
  ASSUME SellInv, SellInv', NEW s \in Addr, NEW p \in Prop, NEW b \in Addr,
         OneClaimStep(s, p, b), OfferNotOversold
  PROVE  OfferNotOversold'
<1>1. ASSUME NEW m \in Addr, NEW q \in Prop, my_offers'[<<m, q>>] # None
      PROVE  NotOversoldAt(my_offers'[<<m, q>>], tally'[Sell(m, q)],
                           Total(ClaimsAs(my_accepts', m, q, my_offers'[<<m, q>>].txid)))
  <2> DEFINE offer == my_offers[<<m, q>>]
             h == offer.txid
             f == ClaimsAs(my_accepts, m, q, h)
             g == ClaimsAs(my_accepts', m, q, h)
  <2>1. my_offers'[<<m, q>>] = offer /\ offer # None
    BY <1>1 DEF OneClaimStep, OfferKey
  <2>2. tally[Sell(m, q)] + Total(f) <= offer.amount
    BY <2>1, OversoldMeans DEF NotOversoldAt
  <2>3. CASE m = s /\ q = p
    <3> DEFINE c == Claim(my_accepts[<<s, p, b>>], h)
               d == Claim(my_accepts'[<<s, p, b>>], h)
    <3>1. Total(g) = Total(f) - c + d /\ Total(f) \in Nat
      <4>1. \A k \in AcceptKey : k # <<s, p, b>> => my_accepts'[k] = my_accepts[k]
        BY DEF OneClaimStep
      <4>2. TypeOK /\ TypeOK'
        BY DEF SellInv
      <4> HIDE DEF h
      <4> QED BY <2>3, <4>1, <4>2, ClaimsStep
    <3>2. tally'[Sell(s, p)] + d <= tally[Sell(s, p)] + c
      BY <2>1, <2>3 DEF OneClaimStep
    <3>3. /\ tally'[Sell(s, p)] \in Nat /\ tally[Sell(s, p)] \in Nat
          /\ c \in Nat /\ d \in Nat
      <4>1. tally'[Sell(s, p)] \in Nat /\ tally[Sell(s, p)] \in Nat
        BY AccountTypes DEF SellInv, TypeOK
      <4>2. c \in Nat
        BY DEF SellInv, TypeOK, AcceptKey, Claim, Accept
      <4>3. d \in Nat
        BY DEF SellInv, TypeOK, AcceptKey, Claim, Accept
      <4> QED BY <4>1, <4>2, <4>3
    <3>4. offer.amount \in Nat
      <4>1. offer \in Offer
        BY <2>1 DEF SellInv, TypeOK, OfferKey
      <4> QED BY <4>1, DExAssumption DEF Offer
    <3>5. tally'[Sell(s, p)] + Total(g) <= offer.amount
      <4> HIDE DEF c, d, f, g, offer, h
      <4> QED BY <2>2, <2>3, <3>1, <3>2, <3>3, <3>4
    <3> QED BY <2>1, <2>3, <3>5 DEF NotOversoldAt
  <2>4. CASE ~(m = s /\ q = p)
    <3>1. \A t \in Addr : my_accepts'[<<m, q, t>>] = my_accepts[<<m, q, t>>]
      BY <2>4 DEF OneClaimStep, AcceptKey
    <3>2. g = f
      BY <3>1, ClaimsKept
    <3>3. tally'[Sell(m, q)] = tally[Sell(m, q)]
      BY <2>4 DEF OneClaimStep
    <3> QED BY <2>1, <2>2, <3>2, <3>3 DEF NotOversoldAt
  <2> QED BY <2>3, <2>4
<1>2. \A m \in Addr, q \in Prop :
         NotOversoldAt(my_offers'[<<m, q>>], tally'[Sell(m, q)],
                       Total(ClaimsAs(my_accepts', m, q, my_offers'[<<m, q>>].txid)))
  BY <1>1 DEF NotOversoldAt
<1> QED BY <1>2, OversoldAfter

\* A step that changes no claim, no offer and no balance oversells nothing.
LEMMA QuietNotOversold ==
  ASSUME SellInv, OfferNotOversold, UNCHANGED <<tally, my_offers>>,
         \A k \in AcceptKey : \A h : Claim(my_accepts'[k], h) = Claim(my_accepts[k], h)
  PROVE  OfferNotOversold'
<1>1. ASSUME NEW m \in Addr, NEW q \in Prop
      PROVE  NotOversoldAt(my_offers'[<<m, q>>], tally'[Sell(m, q)],
                           Total(ClaimsAs(my_accepts', m, q, my_offers'[<<m, q>>].txid)))
  <2> DEFINE h == my_offers[<<m, q>>].txid
  <2>1. NotOversoldAt(my_offers[<<m, q>>], tally[Sell(m, q)],
                      Total(ClaimsAs(my_accepts, m, q, h)))
    BY OversoldMeans
  <2>2. ClaimsAs(my_accepts', m, q, h) = ClaimsAs(my_accepts, m, q, h)
    <3>1. \A t \in Addr : Claim(my_accepts'[<<m, q, t>>], h) = Claim(my_accepts[<<m, q, t>>], h)
      BY DEF AcceptKey
    <3> HIDE DEF h
    <3> QED BY <3>1, ClaimsKept
  <2> QED BY <2>1, <2>2
<1> QED BY <1>1, OversoldAfter

\* No step oversells an offer.
LEMMA OversoldInductive ==
  ASSUME ~DexBuyActive, SellInv, SellInv', OfferNotOversold, [Next]_vars
  PROVE  OfferNotOversold'
<1>1. TypeOK /\ TypeOK'
  BY DEF SellInv
<1>2. ASSUME UNCHANGED book PROVE OfferNotOversold'
  BY <1>2, QuietNotOversold DEF book
<1>3. CASE \E s \in Addr, p \in Prop : DExSell(s, p) \/ DExBuy(s, p)
  <2>1. PICK s \in Addr, p \in Prop : DExSell(s, p)
    BY <1>3 DEF DExBuy
  <2> QED BY <1>1, <2>1, OfferStepSell, ReplacedNotOversold
<1>4. CASE \E taker, maker \in Addr, p \in Prop, amount \in 0 .. MaxAmount,
              feePaid \in 0 .. MaxFee :
                 DEx_acceptCreate(taker, maker, p, amount, feePaid)
  <2>1. PICK taker \in Addr, maker \in Addr, p \in Prop, amount \in 0 .. MaxAmount,
             feePaid \in 0 .. MaxFee :
                DEx_acceptCreate(taker, maker, p, amount, feePaid)
    BY <1>4
  <2>2. OneClaimStep(maker, p, taker)
    BY <1>1, <2>1, AcceptStepSell
  <2> QED BY <2>2, ClaimNotOversold
<1>5. CASE DEx_payment
  <2> DEFINE buyer == paying.payer
             seller == Head(paying.outs).to
             value == Head(paying.outs).value
             matching == {p \in Prop : Matches(seller, p, buyer)}
             key(p) == IF DEx_acceptExists(seller, p, buyer)
                       THEN <<seller, p, buyer>> ELSE <<buyer, p, seller>>
  <2>1. /\ paying.outs \in Seq(Output) /\ paying.outs # <<>> /\ buyer \in Addr
        /\ node = "up"
    BY <1>1, <1>5 DEF TypeOK, DEx_payment
  <2>2. seller \in Addr /\ value \in 1 .. MaxLTC
    <3>1. Head(paying.outs) \in Output
      BY <2>1
    <3> QED BY <3>1 DEF Output
  <2>3. CASE UNCHANGED book
    BY <1>2, <2>3
  <2>4. CASE seller # buyer /\ \E p \in matching : PayAccept(seller, buyer, p, key(p), value)
    <3>1. PICK p \in matching : PayAccept(seller, buyer, p, key(p), value)
      BY <2>4
    <3>2. DEx_acceptExists(seller, p, buyer) /\ p \in Prop
      BY DEF Matches
    <3>3. /\ my_accepts[<<seller, p, buyer>>] # None /\ seller # buyer
          /\ PayAccept(seller, buyer, p, <<seller, p, buyer>>, value)
      BY <2>4, <3>1, <3>2 DEF DEx_acceptExists
    <3> HIDE DEF seller, value, buyer, matching, key
    <3>4. OneClaimStep(seller, p, buyer)
      BY <1>1, <2>1, <2>2, <3>2, <3>3, PayAcceptSell
    <3> QED BY <2>1, <2>2, <3>2, <3>4, ClaimNotOversold
  <2> QED BY <1>5, <2>3, <2>4 DEF DEx_payment, Down
<1>6. CASE \E k \in AcceptKey : EraseExpired(k)
  <2>1. PICK k \in AcceptKey : EraseExpired(k)
    BY <1>6
  <2>2. OneClaimStep(k[1], k[2], k[3]) /\ k[1] \in Addr /\ k[2] \in Prop /\ k[3] \in Addr
    BY <1>1, <2>1, ExpireStepSell DEF AcceptKey
  <2> QED BY <2>2, ClaimNotOversold
<1>7. CASE NextBlock
  <2>1. ASSUME NEW k \in AcceptKey, NEW h
        PROVE  Claim(my_accepts'[k], h) = Claim(my_accepts[k], h)
    <3>1. my_accepts[k] # None => my_accepts[k] \in Accept
      BY <1>1 DEF TypeOK
    <3>2. \A x \in Accept : /\ [x EXCEPT !.age = @ + 1].remaining = x.remaining
                            /\ [x EXCEPT !.age = @ + 1].offer_txid = x.offer_txid
                            /\ [x EXCEPT !.age = @ + 1] \in Accept
      BY DEF Accept
    <3> QED BY <1>7, <3>1, <3>2, DExAssumption DEF NextBlock, Claim
  <2> QED BY <1>7, <2>1, QuietNotOversold DEF NextBlock
<1>8. CASE \/ \E payer \in Addr, outs \in Payments : StartPayment(payer, outs)
           \/ EndPayment \/ BlockEnd \/ UNCHANGED vars
  BY <1>2, <1>8 DEF StartPayment, EndPayment, BlockEnd, vars, book
<1> QED BY <1>3, <1>4, <1>5, <1>6, <1>7, <1>8 DEF Next

\* Without buy offers no offer is ever oversold, over any sequence of
\* accepts, partial payments, expiries and replacements.
THEOREM NoOfferOversold ==
  ASSUME ~DexBuyActive
  PROVE  Spec => []OfferNotOversold
<1>1. Init => OfferNotOversold
  BY DEF Init, OfferNotOversold, OfferKey
<1>2. SellInv /\ SellInv' /\ OfferNotOversold /\ [Next]_vars => OfferNotOversold'
  BY OversoldInductive
<1> QED BY <1>1, <1>2, SellInvariant, PTL DEF Spec
=============================================================================
