--------------------------------- MODULE DEx ---------------------------------
(***************************************************************************)
(* The token/litecoin exchange of dex.cpp: sell and buy offers, accept     *)
(* orders with a payment window, litecoin payments against accepts, and    *)
(* the expiry of unpaid accepts at the end of a block.  The operations are *)
(* those of logicMath_DExSell, logicMath_DExBuy, logicMath_AcceptOfferBTC, *)
(* HandleDExPayments and mastercore_handler_block_end, each of which runs  *)
(* under cs_tally; a payment transaction with several outputs and the      *)
(* sweep over expired accepts are modelled one output and one accept per   *)
(* step, with no other operation in between.                               *)
(***************************************************************************)
EXTENDS Tally, Totals, Sequences

CONSTANTS
  Addr,              \* addresses
  Prop,              \* identifiers of the properties _my_sps knows
  TxId,              \* transaction hashes
  None,              \* "no such entry" in my_offers and my_accepts
  TL_PROPERTY_VESTING,
  COIN,              \* 10^8 in the code: scale of a unit price
  InitialBalance,    \* BALANCE of each <<address, property>> at the start
  DexBuyActive,      \* the DEx buy offer is past its activation block
  msc_debug_dex,     \* -tldebug=dex; off unless the user asks for it
  \* bounds
  MaxAmount,         \* tokens of an offer or an accept
  MaxLTC,            \* litecoin of an offer or of a payment output
  MaxFee,            \* the accept fee
  MaxWindow,         \* the payment window, in blocks
  MaxOuts,           \* outputs of a payment transaction
  MaxVolume          \* litecoin paid in a behaviour

VARIABLES
  tally,                \* mp_tally_map
  my_offers,            \* one offer per <<maker, property>>
  my_accepts,           \* one accept per <<maker, property, taker>>
  paying,               \* the payment transaction being handled
  MapLTCVolume,         \* litecoin volume of a property, over all blocks
  MapTokenVolume,       \* token volume of a property, over all blocks
  globalVolumeALL_LTC,
  phase,                \* what the block handlers are doing
  node                  \* "up", or how the process ended

vars == <<tally, my_offers, my_accepts, paying, MapLTCVolume, MapTokenVolume,
          globalVolumeALL_LTC, phase, node>>
book == <<tally, my_offers, my_accepts>>
stats == <<MapLTCVolume, MapTokenVolume>>

-----------------------------------------------------------------------------
DexType == {"BALANCE", "SELLOFFER_RESERVE", "ACCEPT_RESERVE"}
Account == Addr \X Prop \X DexType
OfferKey == Addr \X Prop
AcceptKey == Addr \X Prop \X Addr        \* maker, property, taker

Bal(a, p)  == <<a, p, "BALANCE">>
Sell(a, p) == <<a, p, "SELLOFFER_RESERVE">>
Acc(a, p)  == <<a, p, "ACCEPT_RESERVE">>

\* option_ of an offer: the maker buys (1) or sells (2) tokens.
BUYER == 1
SELLER == 2

\* CMPOffer
Offer == [amount : 1 .. MaxAmount, desired : 1 .. MaxLTC, minFee : 0 .. MaxFee,
          window : 1 .. MaxWindow, txid : TxId, option : {BUYER, SELLER}]

\* CMPAccept.  age is the number of blocks since the accept's block, the only
\* thing read of it; offered, desired and offer_txid are copies from the offer.
Accept == [remaining : Nat, age : Nat, window : 1 .. MaxWindow,
           offered : 1 .. MaxAmount, desired : 1 .. MaxLTC, offer_txid : TxId]

Output == [to : Addr, value : 1 .. MaxLTC]

NoPayment == [payer |-> None, outs |-> <<>>, count |-> 0, nvalue |-> 0]

\* How the process can end: a failed assert(update_tally_map(..)), a failed
\* range assertion of ConvertTo64, a null pointer dereference.
NodeState == {"up", "assert", "range", "null"}

ASSUME DExAssumption ==
  /\ IsFiniteSet(Addr) /\ Prop \subseteq Nat /\ IsFiniteSet(Prop)
  /\ None \notin Offer \cup Accept \cup Addr
  /\ COIN \in Nat \ {0}
  /\ InitialBalance \in [OfferKey -> Nat]
  /\ DexBuyActive \in BOOLEAN /\ msc_debug_dex \in BOOLEAN
  /\ {MaxAmount, MaxLTC, MaxFee, MaxWindow, MaxOuts, MaxVolume} \subseteq Nat

\* All the tokens of a property, over addresses and tally types.
Holdings(t, p) == [x \in Addr \X DexType |-> t[<<x[1], p, x[2]>>]]
Supply(t, p) == Total(Holdings(t, p))

InitTally ==
  [x \in Account |-> IF x[3] = "BALANCE" THEN InitialBalance[<<x[1], x[2]>>]
                     ELSE 0]

\* No property has more units than an int64 holds.
ASSUME SupplyAssumption == \A p \in Prop : Supply(InitTally, p) <= MAX_INT64

-----------------------------------------------------------------------------
Init ==
  /\ tally = InitTally
  /\ my_offers = [k \in OfferKey |-> None]
  /\ my_accepts = [k \in AcceptKey |-> None]
  /\ paying = NoPayment
  /\ MapLTCVolume = [p \in Prop |-> 0]
  /\ MapTokenVolume = [p \in Prop |-> 0]
  /\ globalVolumeALL_LTC = 0
  /\ phase = "txs"
  /\ node = "up"

DEx_offerExists(s, p) == my_offers[<<s, p>>] # None
DEx_acceptExists(m, p, t) == my_accepts[<<m, p, t>>] # None

\* A transaction hash no live offer or accept carries.
FreshTxid(h) ==
  /\ \A k \in OfferKey : my_offers[k] # None => my_offers[k].txid # h
  /\ \A k \in AcceptKey : my_accepts[k] # None => my_accepts[k].offer_txid # h

Ready == node = "up" /\ phase = "txs"

\* The process ends; what it had in memory no longer matters.
Down(why) ==
  /\ node' = why
  /\ UNCHANGED <<book, paying, stats, globalVolumeALL_LTC, phase>>

\* The moves of an operation, r, are asserted; then the maps are updated.
Commit(r, offers, accepts) ==
  IF r.ok THEN /\ tally' = r.tally
               /\ my_offers' = offers
               /\ my_accepts' = accepts
               /\ UNCHANGED <<paying, stats, globalVolumeALL_LTC, phase, node>>
  ELSE Down("assert")

NoMove(t) == [ok |-> TRUE, tally |-> t]

-----------------------------------------------------------------------------
(* Offers *)

\* Mutant: an update or creation may ask for no litecoin.
OfferCreatableForNothing(t, s, p, amount, desired, window) ==
  /\ window # 0
  /\ p # TL_PROPERTY_VESTING
  /\ amount <= t[Bal(s, p)]
  /\ amount > 0

\* The conditions of DEx_offerCreate other than that no offer exists.
OfferCreatable(t, s, p, amount, desired, window) ==
  /\ window # 0
  /\ desired # 0
  /\ p # TL_PROPERTY_VESTING
  /\ amount <= t[Bal(s, p)]
  /\ amount > 0

NewOffer(amount, desired, minFee, window, txid, option) ==
  [amount |-> amount, desired |-> desired, minFee |-> minFee,
   window |-> window, txid |-> txid, option |-> option]

DEx_offerCreate(s, p, amount, desired, minFee, window, txid) ==
  /\ ~DEx_offerExists(s, p)
  /\ OfferCreatable(tally, s, p, amount, desired, window)
  /\ Commit(Move(tally, Bal(s, p), Sell(s, p), amount),
            [my_offers EXCEPT ![<<s, p>>] =
               NewOffer(amount, desired, minFee, window, txid, SELLER)],
            my_accepts)

\* A buy offer reserves nothing.
DEx_BuyOfferCreate(m, p, amount, price, minFee, window, txid) ==
  /\ window # 0
  /\ price # 0
  /\ ~DEx_offerExists(m, p)
  /\ Commit(NoMove(tally),
            [my_offers EXCEPT ![<<m, p>>] =
               NewOffer(amount, price, minFee, window, txid, BUYER)],
            my_accepts)

\* Mutants: the reserve is forgotten; a reserve of zero is moved too.
ForgetReserve(t, s, p) == NoMove(t)
ReleaseAnyReserve(t, s, p) == Move(t, Sell(s, p), Bal(s, p), t[Sell(s, p)])

\* The whole SELLOFFER_RESERVE of the seller goes back to its BALANCE.
ReleaseReserve(t, s, p) ==
  IF t[Sell(s, p)] > 0 THEN Move(t, Sell(s, p), Bal(s, p), t[Sell(s, p)])
  ELSE NoMove(t)

DEx_offerDestroy(s, p) ==
  /\ DEx_offerExists(s, p)
  /\ Commit(ReleaseReserve(tally, s, p),
            [my_offers EXCEPT ![<<s, p>>] = None], my_accepts)

\* Destroy, then create a sell offer, whichever side the old offer was on.
\* When the new offer is not creatable the old one is gone all the same.
DEx_offerUpdate(s, p, amount, desired, minFee, window, txid) ==
  /\ DEx_offerExists(s, p)
  /\ LET freed == ReleaseReserve(tally, s, p)
         moved == Move(freed.tally, Bal(s, p), Sell(s, p), amount)
     IN  IF OfferCreatable(freed.tally, s, p, amount, desired, window)
         THEN Commit([moved EXCEPT !.ok = @ /\ freed.ok],
                     [my_offers EXCEPT ![<<s, p>>] =
                        NewOffer(amount, desired, minFee, window, txid, SELLER)],
                     my_accepts)
         ELSE Commit(freed, [my_offers EXCEPT ![<<s, p>>] = None], my_accepts)

\* logicMath_DExSell.  The restrictions of rules.cpp let only version 1
\* through, so the sub-action decides; a refused message changes nothing.
DExSell(s, p) ==
  /\ Ready
  /\ \/ \E amount \in 0 .. MaxAmount, desired \in 0 .. MaxLTC,
           fee \in 0 .. MaxFee, window \in 0 .. MaxWindow, h \in TxId :
          /\ FreshTxid(h)
          /\ \/ DEx_offerCreate(s, p, amount, desired, fee, window, h)
             \/ DEx_offerUpdate(s, p, amount, desired, fee, window, h)
     \/ DEx_offerDestroy(s, p)

\* logicMath_DExBuy.  Only version 0 is let through: amount 0 cancels,
\* anything else creates, or updates the offer there is.
DExBuy(m, p) ==
  /\ Ready
  /\ DexBuyActive
  /\ \/ \E amount \in 1 .. MaxAmount, price \in 0 .. MaxLTC,
           fee \in 0 .. MaxFee, window \in 0 .. MaxWindow, h \in TxId :
          /\ FreshTxid(h)
          /\ \/ DEx_BuyOfferCreate(m, p, amount, price, fee, window, h)
             \/ DEx_offerUpdate(m, p, amount, price, fee, window, h)
     \/ DEx_offerDestroy(m, p)

-----------------------------------------------------------------------------
(* Accepts *)

NewAccept(offer, amount) ==
  [remaining |-> amount, age |-> 0, window |-> offer.window,
   offered |-> offer.amount, desired |-> offer.desired,
   offer_txid |-> offer.txid]

\* Mutant: amounts are not capped by what is left.
Uncapped(m, n) == m

Lesser(m, n) == IF m <= n THEN m ELSE n

\* Accepting a sell offer reserves tokens of the maker, as many as are left.
AcceptSellOffer(taker, maker, p, amount) ==
  LET offer    == my_offers[<<maker, p>>]
      reserved == Lesser(amount, tally[Sell(maker, p)])
  IN  /\ reserved > 0
      /\ Commit(Move(tally, Sell(maker, p), Acc(maker, p), reserved), my_offers,
                [my_accepts EXCEPT ![<<maker, p, taker>>] =
                   NewAccept(offer, reserved)])

\* Accepting a buy offer reserves tokens of the taker; a taker with too few
\* reserves none, and the accept is recorded for the whole amount anyway.
AcceptBuyOffer(taker, maker, p, amount) ==
  LET offer    == my_offers[<<maker, p>>]
      accepted == Lesser(amount, offer.amount)
      balance  == tally[Bal(taker, p)]
  IN  /\ balance # 0
      /\ Commit(IF balance >= accepted
                THEN Move(tally, Bal(taker, p), Acc(taker, p), accepted)
                ELSE NoMove(tally),
                my_offers,
                [my_accepts EXCEPT ![<<maker, p, taker>>] =
                   NewAccept(offer, accepted)])

\* Mutant: a new accept replaces the one the taker has.
AcceptAgain(taker, maker, p, amount, feePaid) ==
  /\ Ready
  /\ DEx_offerExists(maker, p)
  /\ feePaid >= my_offers[<<maker, p>>].minFee
  /\ my_offers[<<maker, p>>].option = SELLER
  /\ AcceptSellOffer(taker, maker, p, amount)

\* logicMath_AcceptOfferBTC and DEx_acceptCreate.
DEx_acceptCreate(taker, maker, p, amount, feePaid) ==
  /\ Ready
  /\ DEx_offerExists(maker, p)
  /\ ~DEx_acceptExists(maker, p, taker)
  /\ feePaid >= my_offers[<<maker, p>>].minFee
  /\ \/ /\ my_offers[<<maker, p>>].option = SELLER
        /\ AcceptSellOffer(taker, maker, p, amount)
     \/ /\ my_offers[<<maker, p>>].option = BUYER
        /\ AcceptBuyOffer(taker, maker, p, amount)

\* Mutants: the reserve stays; it goes back to whatever offer there is now;
\* it is taken from the other party.
KeepAccepted(t, k) == NoMove(t)
ReturnToAnyOffer(t, k) ==
  IF my_accepts[k].remaining > 0
  THEN Move(t, Acc(k[1], k[2]), Sell(k[1], k[2]), my_accepts[k].remaining)
  ELSE NoMove(t)
ReturnFromTaker(t, k) ==
  IF my_accepts[k].remaining > 0
  THEN Move(t, Acc(k[3], k[2]), Sell(k[1], k[2]), my_accepts[k].remaining)
  ELSE NoMove(t)

\* What DEx_acceptDestroy does to the tally when accept k has an offer to
\* look at: the maker's reserve goes back to the offer it came from, or to
\* the maker's balance when that offer has been replaced.
ReturnAccepted(t, k) ==
  LET maker == k[1]
      p     == k[2]
      n     == my_accepts[k].remaining
      same  == my_offers[<<maker, p>>].txid = my_accepts[k].offer_txid
  IN  IF n > 0
      THEN Move(t, Acc(maker, p), IF same THEN Sell(maker, p) ELSE Bal(maker, p), n)
      ELSE NoMove(t)

-----------------------------------------------------------------------------
(* Payments *)

\* ceil(amountPaid * amountOffered / amountDesired)
calculateDExPurchase(amountOffered, amountDesired, amountPaid) ==
  (amountPaid * amountOffered + amountDesired - 1) \div amountDesired

\* The unit price recorded for a trade, scaled by COIN.
UnitPrice(accept) == (COIN * accept.desired) \div accept.offered

\* Whether an accept between the two parties is found for property p; a buy
\* offer is considered once the feature is active.
Matches(seller, p, buyer) ==
  \/ DEx_acceptExists(seller, p, buyer)
  \/ DexBuyActive /\ DEx_acceptExists(buyer, p, seller)

\* A payment transaction reaches HandleDExPayments.
StartPayment(payer, outs) ==
  /\ Ready
  /\ Total(MapLTCVolume) + Len(outs) * MaxLTC <= MaxVolume
  /\ phase' = "paying"
  /\ paying' = [NoPayment EXCEPT !.payer = payer, !.outs = outs]
  /\ UNCHANGED <<book, stats, globalVolumeALL_LTC, node>>

\* Output handled; rc tells whether DEx_payment answered 0.
Handled(rc, value) ==
  paying' = [paying EXCEPT !.outs = Tail(@), !.nvalue = value,
                           !.count = IF rc THEN @ + 1 ELSE @]

\* DEx_payment on the accept under key, in the first matching property p.
PayAccept(seller, buyer, p, key, value) ==
  LET accept    == my_accepts[key]
      computed  == calculateDExPurchase(accept.offered, accept.desired, value)
      purchased == Lesser(computed, accept.remaining)
      paid      == IF purchased > 0
                   THEN Move(tally, Acc(seller, p), Bal(buyer, p), purchased)
                   ELSE NoMove(tally)
      isZero    == purchased >= accept.remaining
      \* DEx_acceptDestroy(buyer, seller): finds only an accept made to the seller
      found     == DEx_acceptExists(seller, p, buyer)
      empty     == paid.tally[Sell(seller, p)] = 0 /\ paid.tally[Acc(seller, p)] = 0
  IN  IF computed > MAX_INT64 \/ UnitPrice(accept) > MAX_INT64 THEN Down("range")
      ELSE IF ~paid.ok THEN Down("assert")
      ELSE IF isZero /\ found /\ ~DEx_offerExists(seller, p) THEN Down("null")
      ELSE /\ tally' = paid.tally
           /\ my_accepts' = [my_accepts EXCEPT ![key] =
                IF isZero /\ found THEN None
                ELSE [accept EXCEPT !.remaining = @ - purchased]]
           /\ my_offers' = [my_offers EXCEPT ![<<seller, p>>] =
                IF isZero /\ empty THEN None ELSE @]
           /\ MapLTCVolume' = [MapLTCVolume EXCEPT ![p] = @ + value]
           /\ MapTokenVolume' = [MapTokenVolume EXCEPT ![p] = @ + computed]
           /\ Handled(purchased > 0 \/ isZero, value)
           /\ UNCHANGED <<globalVolumeALL_LTC, phase, node>>

\* The next output of the payment transaction.
DEx_payment ==
  /\ node = "up" /\ phase = "paying" /\ paying.outs # <<>>
  /\ LET buyer    == paying.payer
         seller   == Head(paying.outs).to
         value    == Head(paying.outs).value
         matching == {p \in Prop : Matches(seller, p, buyer)}
     IN  \/ /\ seller = buyer                       \* own output: skipped
            /\ paying' = [paying EXCEPT !.outs = Tail(@)]
            /\ UNCHANGED <<book, stats, globalVolumeALL_LTC, phase, node>>
         \/ /\ seller # buyer /\ matching = {} /\ msc_debug_dex
            /\ Handled(FALSE, value)
            /\ UNCHANGED <<book, stats, globalVolumeALL_LTC, phase, node>>
         \/ /\ seller # buyer /\ matching = {} /\ ~msc_debug_dex
            /\ Down("null")                         \* p_accept is dereferenced
         \/ /\ seller # buyer /\ matching # {}
            /\ \E p \in matching :
                 /\ \A q \in matching : p <= q
                 /\ PayAccept(seller, buyer, p,
                              IF DEx_acceptExists(seller, p, buyer)
                              THEN <<seller, p, buyer>> ELSE <<buyer, p, seller>>,
                              value)

\* All outputs done: the value of the last one is added to the volume.
EndPayment ==
  /\ node = "up" /\ phase = "paying" /\ paying.outs = <<>>
  /\ globalVolumeALL_LTC' =
       globalVolumeALL_LTC + (IF paying.count > 0 THEN paying.nvalue ELSE 0)
  /\ paying' = NoPayment
  /\ phase' = "txs"
  /\ UNCHANGED <<book, stats, node>>

-----------------------------------------------------------------------------
(* The end of a block *)

BlockEnd ==
  /\ Ready
  /\ phase' = "expiring"
  /\ UNCHANGED <<book, paying, stats, globalVolumeALL_LTC, node>>

\* Mutant: a block too late.
ExpiredLate(k) == my_accepts[k] # None /\ my_accepts[k].age > my_accepts[k].window

Expired(k) == my_accepts[k] # None /\ my_accepts[k].age >= my_accepts[k].window

\* Mutant: the offer of the buyer is looked up.
EraseWithBuyersOffer(k) ==
  /\ node = "up" /\ phase = "expiring"
  /\ Expired(k)
  /\ IF DEx_offerExists(k[3], k[2])
     THEN Commit(ReturnAccepted(tally, k), my_offers,
                 [my_accepts EXCEPT ![k] = None])
     ELSE Down("null")

\* One accept of eraseExpiredAccepts.
EraseExpired(k) ==
  /\ node = "up" /\ phase = "expiring"
  /\ Expired(k)
  /\ IF DEx_offerExists(k[1], k[2])
     THEN Commit(ReturnAccepted(tally, k), my_offers,
                 [my_accepts EXCEPT ![k] = None])
     ELSE Down("null")                              \* p_offer is dereferenced

\* Mutant: accepts count from the current block.
NextBlockWithoutAging ==
  /\ node = "up" /\ phase = "expiring"
  /\ \A k \in AcceptKey : ~Expired(k)
  /\ phase' = "txs"
  /\ UNCHANGED <<book, paying, stats, globalVolumeALL_LTC, node>>

\* The sweep is over; the next block begins.
NextBlock ==
  /\ node = "up" /\ phase = "expiring"
  /\ \A k \in AcceptKey : ~Expired(k)
  /\ my_accepts' = [k \in AcceptKey |->
       IF my_accepts[k] = None THEN None
       ELSE [my_accepts[k] EXCEPT !.age = @ + 1]]
  /\ phase' = "txs"
  /\ UNCHANGED <<tally, my_offers, paying, stats, globalVolumeALL_LTC, node>>

-----------------------------------------------------------------------------
Payments == UNION {[1 .. n -> Output] : n \in 1 .. MaxOuts}

Next ==
  \/ \E s \in Addr, p \in Prop : DExSell(s, p) \/ DExBuy(s, p)
  \/ \E taker, maker \in Addr, p \in Prop, amount \in 0 .. MaxAmount,
        feePaid \in 0 .. MaxFee : DEx_acceptCreate(taker, maker, p, amount, feePaid)
  \/ \E payer \in Addr, outs \in Payments : StartPayment(payer, outs)
  \/ DEx_payment
  \/ EndPayment
  \/ BlockEnd
  \/ \E k \in AcceptKey : EraseExpired(k)
  \/ NextBlock

Spec == Init /\ [][Next]_vars

(***************************************************************************)
(* Blocks keep coming, and a block holds finitely many transactions: the   *)
(* end of a block is never postponed for ever by the transactions before   *)
(* it.  The loops over outputs and over expired accepts run to their end.  *)
(***************************************************************************)
Fairness == /\ SF_vars(BlockEnd)
            /\ WF_vars(DEx_payment) /\ WF_vars(EndPayment)
            /\ WF_vars(\E k \in AcceptKey : EraseExpired(k))
            /\ WF_vars(NextBlock)

FairSpec == Spec /\ Fairness

-----------------------------------------------------------------------------
(* Properties *)

\* Shape of the state: balances are natural numbers, so no update_tally_map
\* of dex.cpp leaves an account below zero.
TypeOK ==
  /\ tally \in [Account -> Nat]
  /\ my_offers \in [OfferKey -> Offer \cup {None}]
  /\ my_accepts \in [AcceptKey -> Accept \cup {None}]
  /\ paying \in [payer : Addr \cup {None}, outs : Seq(Output), count : Nat, nvalue : Nat]
  /\ MapLTCVolume \in [Prop -> Nat] /\ MapTokenVolume \in [Prop -> Nat]
  /\ globalVolumeALL_LTC \in Nat
  /\ phase \in {"txs", "paying", "expiring"}
  /\ phase = "paying" => paying.payer \in Addr
  /\ node \in NodeState

\* What is left of the accept under k, 0 when there is none.
Remaining(k) == IF my_accepts[k] = None THEN 0 ELSE my_accepts[k].remaining

\* What the accepts of maker m in property p still claim, per taker; with
\* h # None, only those made to the offer with hash h.
Claims(m, p) == [t \in Addr |-> Remaining(<<m, p, t>>)]
ClaimsOn(m, p, h) ==
  [t \in Addr |-> IF my_accepts[<<m, p, t>>] # None
                     /\ my_accepts[<<m, p, t>>].offer_txid = h
                  THEN Remaining(<<m, p, t>>) ELSE 0]

\* The ACCEPT_RESERVE of a seller is exactly what its open accepts claim:
\* DEx_acceptCreate, DEx_payment and DEx_acceptDestroy keep the tally and
\* my_accepts in step, so no payment is short of reserved tokens and no
\* token stays reserved once its accept is gone.
AcceptReserveBacked ==
  \A m \in Addr, p \in Prop : tally[Acc(m, p)] = Total(Claims(m, p))

\* Tokens are in SELLOFFER_RESERVE only while there is a sell offer that a
\* buyer can accept or the seller can cancel: DEx_offerDestroy and the
\* finishing DEx_payment leave no reserve behind without an offer.
SellReserveHasOffer ==
  \A m \in Addr, p \in Prop : tally[Sell(m, p)] > 0 =>
     my_offers[<<m, p>>] # None /\ my_offers[<<m, p>>].option = SELLER

\* An offer is never oversold: what is still for sale and what the accepts
\* made to this very offer still claim do not exceed what it offered, over
\* any sequence of accepts, partial payments, expiries and replacements.
OfferNotOversold ==
  \A m \in Addr, p \in Prop : my_offers[<<m, p>>] # None /\ my_offers[<<m, p>>].option = SELLER =>
     tally[Sell(m, p)] + Total(ClaimsOn(m, p, my_offers[<<m, p>>].txid))
        <= my_offers[<<m, p>>].amount

\* The tokens of a property are the same at all times, over all addresses
\* and reserves: what getTotalTokens reports for a fixed property.
SupplyConserved ==
  \A p \in Prop : Supply(tally, p) = Supply(InitTally, p)

\* No assert(update_tally_map(..)) of dex.cpp fails: the amounts moved are
\* never zero and no balance overflows.
NoAssertFails == node # "assert"

\* Without buy offers, every offer sells.
OnlySellOffers ==
  \A k \in OfferKey : my_offers[k] # None => my_offers[k].option = SELLER

\* The inductive invariant of the exchange without buy offers: the reserves
\* of the tally and the two order books explain one another.
SellInv ==
  /\ TypeOK
  /\ OnlySellOffers
  /\ AcceptReserveBacked
  /\ SellReserveHasOffer
  /\ SupplyConserved
  /\ NoAssertFails

\* The terms of an accept are those of the offer at the time it was made:
\* replacing or cancelling the offer changes neither price, window nor
\* claim of an open accept; only a payment lowers what remains of it.
AcceptTermsFixed ==
  [][\A k \in AcceptKey :
       my_accepts[k] # None /\ my_accepts'[k] # None =>
         /\ my_accepts'[k].offered = my_accepts[k].offered
         /\ my_accepts'[k].desired = my_accepts[k].desired
         /\ my_accepts'[k].window = my_accepts[k].window
         /\ my_accepts'[k].offer_txid = my_accepts[k].offer_txid
         /\ my_accepts'[k].remaining <= my_accepts[k].remaining
         /\ my_accepts'[k].remaining < my_accepts[k].remaining
              => phase = "paying" /\ paying.payer \in {k[1], k[3]}]_vars

\* An accept lives at most its payment window: it is at most as old as the
\* window when a block begins (eraseExpiredAccepts).
AcceptWithinWindow ==
  \A k \in AcceptKey : my_accepts[k] # None =>
     my_accepts[k].age <= my_accepts[k].window

\* A null pointer is dereferenced only when an accept's offer is gone, or
\* when a payment without accept meets a node that does not debug the DEx.
NullOnlyIfOrphaned ==
  [][node' = "null" /\ node = "up" =>
       \/ \E k \in AcceptKey : my_accepts[k] # None /\ my_offers[<<k[1], k[2]>>] = None
       \/ ~msc_debug_dex /\ phase = "paying"]_vars

\* Every accept comes to an end, paid or expired, unless the process ends.
AcceptsEnd ==
  \A k \in AcceptKey :
     (my_accepts[k] # None) ~> (my_accepts[k] = None \/ node # "up")

\* What an address owns of a property.
Owned(t) == [k \in OfferKey |-> t[Bal(k[1], k[2])] + t[Sell(k[1], k[2])]
                                  + t[Acc(k[1], k[2])]]

Ledger == INSTANCE TokenLedger WITH holding <- Owned(tally)

\* Without buy offers the exchange implements the token ledger: offers,
\* accepts and expiries leave what everyone owns alone, and a payment moves
\* tokens of the seller to the buyer.
ImplementsLedger == Ledger!Spec
=============================================================================
