# TradeLayer in TLA+

TradeLayer is a protocol layer on Litecoin Core: tokens, exchanges, trade
channels and futures contracts, carried by ordinary litecoin transactions. Its
own code is `src/src/tradelayer` (about 45,000 lines); around it is Litecoin
Core 0.16.3, which is third-party code and appears here only as the caller of
the handlers.

This directory models the parts of TradeLayer that carry money and the parts that
keep a node in agreement with its chain. TLC checks small instances, TLAPS
proves the most important results for every value of the constants.
`PROJECT.json` maps each definition to the lines it models and lists runs,
mutants, findings, hazards and theorems.

## 1. Inventory

### How the system works

The base node calls TradeLayer under `cs_main`:

    ConnectTip ── block_begin ── handler_tx (twice per transaction) ── block_end
    DisconnectTip ── disc_begin

A transaction is decoded (`parseTransaction`), dispatched (`interpretPacket`) and
recorded in a list (`p_txlistdb`). The state it changes is in memory (maps
guarded by `cs_tally`) and in LevelDB databases (properties, contracts,
transactions, trades). At the end of a block nineteen state files are written,
named after the block. After a reorganisation or a restart
`load_most_relevant_state` goes back to a saved state and the blocks after it are
applied again.

Concurrency is small: handlers run one after another in the thread that connects
blocks; RPC threads read the state and add pending amounts, in several steps that
share no lock.
What is hard is order and failure: reorganisations of any depth, crashes between
two writes, half-written files, a shutdown request or an unreadable block in the
middle of a rescan; and in
the exchanges, several parties whose orders refer to each other's and outlive
them.

### Components

| component | state | operations | correct when |
|---|---|---|---|
| Tally (`tally.cpp`) | balance per address, property and type | `updateMoney`, `update_tally_map`, `getTotalTokens` | nothing is created or lost, no balance goes below zero |
| DEx (`dex.cpp`) | sell and buy offers, accepts, volumes | create, update, cancel, accept, pay, expire | reserves and order books explain each other; supply is constant; every accept ends |
| Property registry (`sp.cpp`) | LevelDB: properties, undo records, watermark; `next_spid` | `putSP`, `updateSP`, `popBlock` | holds what the active chain determines |
| Block handlers and persistence (`tradelayer.cpp`, `validation.cpp`) | state files, reorganisation flag, transaction list | connect, disconnect, save, prune, load, rescan, clear, start, stop | a node that has caught up has the state of its chain, whatever happened before |
| Dispatch (`tx.cpp`) | none | `interpretPacket`, `interpret_X`, `logicMath_X` | a transaction answered as valid was carried out, once |
| Sends, property management (`tx.cpp`) | tally, registry | send, send many/all, create, grant, revoke, change issuer | supply equals what was issued less what was revoked |
| Feature activation (`activation.cpp`, `rules.cpp`) | pending and completed activations | activate, deactivate, go live at a height | depends on the chain alone |
| Trade channels (`tradelayer.cpp`) | channels, withdrawals | commit, transfer, withdraw after a delay, instant trades, close | a channel pays out what was committed, to its two parties |
| MetaDEx (`mdex.cpp`) | order book per property and price | add, match, cancel | price-time order, fills conserve value |
| Contract DEx, register (`mdex.cpp`, `register.cpp`, `ce.cpp`) | orders, positions, entries, contracts | trade, close, liquidate, settle | positions sum to zero, margin covers them |
| Insurance fund, fees (`insurancefund.cpp`) | fund, fee cache | accrue, pay out | pays no more than it has |
| Vesting | UNVESTED balances | create, release by volume | releases each token once |
| Node rewards | addresses, winners | register, claim, pay | the block reward is split among the winners |
| KYC, attestations | trade list database | attest, revoke, check | rolled back with its block |
| Pending (`pending.cpp`) | pending amounts of the wallet | add, delete, check | gone once the transaction is confirmed or dropped |
| Consensus hash | none | digest of the state | – |
| RPC, payloads, wallet cache, logging | none of the protocol | formatting | – |

`PROJECT.json` gives the status of each. Modelled, wholly or in part, are the
Tally, the DEx, the registry, the block handlers with persistence, the trade
channels, the MetaDEx, the node rewards and the pending transactions.

One fact about the dispatch matters for reading the models. At this commit
`interpretPacket` calls the `interpret_X` parsers and none of the
`logicMath_X` handlers, so no transaction type executes its logic on the way
from the block. The modules take the `logicMath_X` handlers as the entry points
of their component, which is what the handlers' own checks are written for.

## 2. Plan

| # | module | composes | state |
|---|---|---|---|
| 1 | `Totals`, `TotalsProofs`, `Tally` | | done |
| 2 | `DEx`, abstract specification `TokenLedger`, `DExProofs` | Tally, Totals | done |
| 3 | `SPInfo`, `Recovery`, `RecoveryProofs`, `RegistryProofs` | SPInfo in Recovery | done |
| 4 | `Channels`, `ChannelsProofs` | Tally, Totals | done |
| 5 | `MetaDEx`, `MetaDExProofs` | Tally, Totals | done |
| 6 | `Pending`, `PendingProofs` | Tally, Totals | done |
| 7 | `NodeReward`, `NodeRewardProofs` | Tally | done |
| 8 | `Activation`, `Vesting` | Tally, Recovery's order of blocks | planned |
| 9 | `TxDispatch`: both handler calls per transaction, order on connection and on rescan, what is recorded as valid | Recovery | planned |
| 10 | `Properties`: sends, fixed and managed properties, revoke, change issuer | Tally, SPInfo | planned |
| 11 | `Positions`: contract DEx, register, liquidation, settlement, fund | Tally | planned |

The order is by what goes wrong worst: first the ledger and the exchange that
moves it, then the agreement of a node with its chain, then the other places
where tokens are held for somebody, then the rest.

Abstract specifications: `TokenLedger` (an exchange moves tokens between owners
and does nothing else) is written. Neither channels nor the MetaDEx implement
it, because their fees and a closing channel change the supply; what they do
instead is stated by `SupplyExplained` and `SupplyByFeesOnly`. Planned is a
replica whose state is a function of its chain, to be implemented by `Recovery`.

Of the safety properties of the runs, all are proved. What is left for proofs is to weaken
hypotheses, and the replica just named. Of the registry after a crash half is
proved (`GrantsAreFounded`); the other half is false (see the disagreements below).

## 3. Modules

### Tally, Totals

`updateMoney`, `isOverflow` and `update_tally_map` as they are: a debit that
exceeds the balance is floored at zero and reported as success, a change of zero
or one that overflows is refused. `MAX_INT64` is a constant so that overflow can
happen in a small instance. `Total` sums a finite function by counting its
units; `TotalsProofs` proves what one change does to a total.

### DEx

Variables are the maps of `dex.cpp` (`tally`, `my_offers`, `my_accepts`), the
volumes, the payment transaction in progress, and `node`, which tells how the
process ends when it does (`"assert"`, `"null"`, a failed range conversion). One
action per operation: `DExSell` (new, update, cancel), `DExBuy`,
`DEx_acceptCreate`, the payment loop (`StartPayment`, `DEx_payment` per output,
`EndPayment`) and the end of a block (`BlockEnd`, `EraseExpired` per accept,
`NextBlock`). A multi-output payment and the sweep over expired accepts take
several steps, with nothing in between, as they hold `cs_tally`. An accept's age
replaces block heights, which would grow without bound.

### TokenLedger

Each step leaves what everyone owns alone or moves tokens their owner has to
another owner. `DEx` implements it with
`holding <- balance + sell reserve + accept reserve`.

### SPInfo

The registry's LevelDB keys as one record: current entries, the entry each
updating block displaced, the transaction index and the watermark. Each write is
one synced batch in the code and one operator here. An entry keeps the fields that the
checks of a grant or a rollback read; how many tokens were granted is not among them.

### Recovery

The base node (`tip`, `known`, and what of both is on `disk`), the memory of
TradeLayer, its files and databases, and a program counter `pc` for the handler at
work.

The in-memory state is abstracted to the last block applied to it: applying a block
to the state of its parent gives the state of the block, anything else is
`Garbled`. This is exact for the question asked (is it the state of this chain?)
and independent of what the blocks contain. Three parts are kept apart because
loading and clearing treat them differently: `maps`, which is what
`clear_all_state` clears (balances, offers, accepts, orders, channels,
withdrawals, fees, the register), `volume` (`globalVolumeALL_LTC`), which it does not
clear, and `next_spid`. The registry of node rewards and the spot fees are in none of
them: `clear_all_state` leaves both as they are, and the file of the former is not
read back in full (`NodeReward` models that). Four of the nineteen state files stand
for the groups loaded before, with, between and after these. Blocks form a tree
given by constants, with creations of fixed and managed properties and grants as
transactions.

The registry is written by creations, by grants, by the creation of the vesting
property and by `VestingTokens`, which `block_begin` calls: its `updateSP` keeps the
displaced entry under the null hash, so no rollback undoes it. Whether anything
vests, and whether a grant that the registry allows (`RegistryAllows`) passes the
other checks of `logicMath_GrantTokens` (type, value, the attestations of sender and
receiver, the limit of the supply), is left open: the attestations are read
from a database that no reorganisation rolls back, so their verdict may differ
from node to node, and no property here denies it.

| action | code |
|---|---|
| `ConnectTip`, `DisconnectTip` | the functions of `validation.cpp`, with `disc_begin` and `block_begin` |
| `BlockBegin`, `ProcessTx`, `BlockEnd` | the three handlers |
| `WriteStateFile`, `PruneStateFiles`, `SetWatermark` | `mastercore_save_state`, one step per file |
| `FindWatermark`, `PopInactive`, `PopMark` | `load_most_relevant_state`, start and first loop |
| `LoadStateFiles`, `LoadFails`, `NoFilesFound`, `WalkBack`, `WalkMark` | its second loop |
| `ClearAllState` | `clear_all_state` |
| `ScanBlock`, `ReadBlockFromDisk`, `ScanEnds` | `msc_initial_scan`: `block_begin` of the next block, reading it, the end of the scan or its breaking off |
| `Start`, `RequestShutdown`, `Shutdown`, `Crash` | the process |

Each write that reaches the disk on its own is a step of its own, so that a crash
may come between any two. The base node may flush its index, or index and chain
state, at any connection or disconnection; a crash returns it to what was
flushed. State files are not synced, so a crash may leave one of the block saved
last torn. `handler_tx` is called twice per transaction; both calls are one step,
since nothing reads in between what the second changes (the record of the
transaction). A scan is broken off when a shutdown is requested or when a block
cannot be read, the latter after its `block_begin`; in both cases the node goes on with
the block that waits to be connected. `Failures` says which of crash, shutdown and
unreadable block may happen and `MaxFailures` how often. `broken` and `reparsed` are
auxiliary: whether a scan was ever broken off, and whether `clear_all_state` has ever
left a volume other than that of an empty chain. The checkpoint verification of `block_end` is taken to
succeed; with a wrong one the node removes its files and stops.

### Channels

Variables are `channels_Map` (first and second address and the balances of each
channel), `withdrawal_Map`, the BALANCE of the tally and the fees cache. Blocks
have no height: a withdrawal counts the blocks left to its deadline.

| action | code |
|---|---|
| `CommitChannel` | transaction 108, with `channelSanityChecks`, `createChannel`, `tryAddSecond` |
| `Withdrawal_FromChannel` | 109: checked now, paid later, nothing set aside |
| `Instant_Trade` | 110: two tokens change hands |
| `Transfer` | 112: to another channel, which is created if need be |
| `HandleLtcInstantTrade` | 113 and the payment that carries it, with `Instant_payment` and `Token_LTC_Fees` |
| `closeChannel` | 120 |
| `block_begin`, `makeWithdrawal`, `withdrawalsDone` | `makeWithdrawals`, one withdrawal per step with nothing in between |

Addresses outside the two places can commit and withdraw, as in the code, and
Transfer can create a channel whose first address is the word that stands for
"no second address yet".

A transaction names its amounts as uint64, and payloads on the chain do not pass the
argument checks of the RPC calls, so `WireAmount` may hold any uint64. `ToInt64`,
`ToUInt64` and `Neg64` are the conversions and the negation of the code: a commit, a
trade or a transfer of more than `MAX_INT64` is a negative amount to the balance
check and to the updates, which turns debits into credits. `oversized` is auxiliary and
counts the transactions that named such an amount. Litecoin trades are uint64
throughout; a purchase of more than `MAX_INT64` ends the process
(`ConvertTo64`) and is not modelled, nor is a price of zero, which divides by it.
`SupplyFits` says that the balances at the start do not exceed an int64 in total,
as properties are issued (`tx.cpp:2974` refuses a grant beyond it).

Transaction 114 (`logicMath_Contract_Instant`) changes only a copy of the channel, and
111 (`logicMath_Update_PNL`) credits a profit and touches no channel; both belong to
the contract DEx, which is not modelled.

### MetaDEx

The book is a set of orders; `id` stands for hash, block and position.
`MetaDExTrade` makes the order that is matched (`taker`), each turn of the loop of
`x_Trade` is a step (`x_TradeSkip` or `x_Trade`) and `MetaDEx_INSERT` puts the
rest into the book. No other operation comes in between, as `cs_tally` is held.
`passed` is where the iterators are. Prices are fractions, compared crosswise;
amounts are rounded as `CouldBuy` and `WouldPay` say. `tradelist` is what
`recordMatchedTrade` registers. Cancelling one order and all orders of an
address are modelled; the cancellations by pair and by price never succeed (see
the disagreements below).

### Pending

Each RPC call is a program with four steps (`SendCheck`, `SendCommit`,
`PendingAddDebit`, `PendingAddInsert`), because the balance check, the
broadcast, the tally and the map are under no common lock. The thread that
connects blocks is a program too: `block_begin` takes the transactions out of
the mempool, `handler_txPending` and `handler_tx` run under two separate locks,
then `block_end` with `PendingCheck`, then `save_state`. `Evict` and
`Rebroadcast` are what mempool and wallet of the base node may do. `Restart`
keeps what is in the state file. `loaded` is an auxiliary variable: the PENDING
amounts the last start has read, which no entry of `my_pending` explains.

### NodeReward

All nodes process the same transactions and blocks in the same step; they differ
by `Restart`, which reads the registry as `input_node_reward` does. `hash` is the
set of addresses that end like the hash of the block before, any set; the reward
of a height is a constant function with the minimum of the code. `claims`,
`payments`, `split` and `won` are auxiliary: how often an address has claimed and was
paid, whether the nodes have judged a claim differently, and who has won since the last
paying height.

## 4. Runs

### Passing

| run | states | shows |
|---|---|---|
| `dex_sell` | one seller, two buyers, three transaction hashes, symmetric buyers | reserves are backed by accepts and offers, nothing is oversold, supply is constant, no assertion fails, accepts keep their terms and their window, `TokenLedger` is implemented |
| `dex_buy` | buy offers active, two-output payments, fair | accepts end; a null pointer is dereferenced only when an accept has lost its offer |
| `recovery_reorg` | 64,140; tree of seven blocks, three branches, two grants of one property in a block, vesting | the registry has the properties of the chain over any sequence of reorganisations, and its verdict on a grant does not depend on what was connected before |
| `recovery_crash` | 1,007,370; tree of five blocks, one crash, shutdown or unreadable block, fair | every block of the chain is applied once, volume and `next_spid` follow the chain, after a crash at any point with any flush and any torn file, unless a scan is broken off; every handler call ends |
| `channels_transfer` | 218,226; two traders, two channels, amounts 0, 1 and one above the largest int64 | balances keep their range, the parties of a channel differ, tokens appear or vanish only in two named ways until the large amount is named |
| `channels_withdraw` | 221,212; three traders, one channel, two withdrawals, fair | a withdrawal is paid at its deadline or dropped because the tokens are gone; none waits at a channel that does not exist or for ever |
| `metadex` | 183,232; two traders, three orders of up to four tokens | reserves are what the book offers, the balance covers the order being matched, the assertions of `x_Trade` hold, the register of trades explains the book, what rests crosses by less than a unit, only fees change the supply |
| `pending_race` | 16,858; two calls, one restart, fair | the PENDING tally is what the entries and the calls under way hold, nothing is released while its transaction waits, stale entries and overdrafts end |
| `rewards` | 44,533; two nodes, two addresses, four blocks, one restart | a claim is paid at most once, nodes agree until one rejects a claim for an address it has forgotten |

### Violations: where code and documentation disagree

| run | what the code does |
|---|---|
| `recovery_txlist` | disconnected transactions stay in the transaction list |
| `pending_restart` | a restart keeps the PENDING tally and loses the entries that would give it back |
| `rewards_winners` | the winners of the blocks between two paying heights are cleared at the begin of the next block and never paid, although comments in `sendNodeReward` say that they are saved and share the reward. With a `block_begin` that keeps them the same run passes (65,006 states) |

More disagreements were met while modelling. They are visible in the actions and
have no run of their own. In the DEx:

- An accept whose offer is gone makes `DEx_acceptDestroy` dereference a null
  pointer (`dex.cpp:435`), although its comment says that the reserve goes back to
  the seller; `NullOnlyIfOrphaned` shows that this is the only case but the next.
- `DEx_payment` answers a payment without accept with an error only if DEx
  debugging is on, and dereferences a null pointer otherwise (`dex.cpp:539`).
- With buy offers active, a payment in the wrong direction is taken for a
  payment to a buy offer and debits an empty reserve: tokens are created
  (`dex.cpp:515`). `SupplyConserved` holds without buy offers only.
- `logicMath_AcceptOfferBTC` logs an accept of zero tokens as rejected and goes on
  (`tx.cpp:4137`).

In the handlers and the registry:

- A shutdown request during the rescan after a reorganisation, or a block that cannot
  be read, breaks off the scan, and the block that is being connected is applied to the
  state of an older one and saved under its own hash (`tradelayer.cpp:1342`, `1365`). The
  properties hold until that happens (`broken`).
- `clear_all_state` keeps `globalVolumeALL_LTC`, so a reparse in a running node adds the
  chain's volume to that of the abandoned one (`tradelayer.cpp:3254`).
  `VolumeMatchesChain` holds until that happens (`reparsed`). It keeps
  `nodeRewardsAddrs` and the spot fees too: addresses registered on the abandoned
  branch stay and can be paid. These two are outside `Recovery`.
- Attestations are never rolled back (`tx.cpp:2940` reads them), so a grant, trade or
  send may be accepted by one node and refused by another that had connected another
  branch.
- Two grants of a property in one block share an undo record: a reorganisation
  undoes the second and keeps the first (`sp.cpp:190`). The number of tokens granted
  is therefore not restored; identity, issuer and kind of a property, of which
  `SPMatchesChain` speaks, are.
- A crash in the middle of a block leaves the registry ahead of its watermark; the
  restart undoes nothing of it and the rescan grants again (`sp.cpp:178`).
- A crash between `popBlock` and `setWatermark` (`tradelayer.cpp:2466`), while the
  block popped is still the tip on disk: the restart finds the watermark in the
  active chain, loads that block's state and misses its properties in the registry,
  so that a valid grant is rejected. `RegistryJudgesAlike` holds without crashes.
- If after a crash the block of the watermark is not in the index, the watermark is
  set to another block that has state files (`tradelayer.cpp:2453`) and the registry
  is not rolled back: a grant may then be judged by a property of the other branch.
- The second call of `handler_tx` for a transaction, meant for oracle updates,
  records PKT_ERROR -100 over the first record (`tradelayer.cpp:3822`), although
  `recordTX` says that a record is never overwritten.
- The way back through older saved states looks up `spBlockIndex`, which does
  not move, instead of `curTip` (`tradelayer.cpp:2527`): if the watermark block's
  files are bad, everything is parsed again (`WalkBack`).

In the channels:

- A third address can commit to a channel that has two, although
  `test/functional/tl_tradechannels.py:301` says "it must be rejected"; when the
  channel is closed its tokens are lost (`tradelayer.cpp:7126`).
- A litecoin trade so small that the fee takes all of it books the fee and debits
  nobody (`tradelayer.cpp:1086`).
- A refused transfer still creates the receiving channel, even for an address that
  is only the placeholder (`tx.cpp:4722`).
- The litecoin volume of a channel trade is counted twice.
- An amount above the largest int64 is converted to a negative one without a check
  (`tx.cpp:4438`, `tx.cpp:4622`, `tx.cpp:4734`): a commit leaves a negative balance in a new channel and
  credits the sender; a transfer credits the channel it comes from, the placeholder of an
  open place included, and is then refused by the other one.

In the MetaDEx:

- The fee is taken in the property bought and booked under the property sold
  (`mdex.cpp:1310`). `checkReserve` sets a share of the property sold aside for
  it, which therefore never pays it.
- If the buyer has less than the five parts of the fee, the debit is cut to what
  is there and the maker's four parts are partly new tokens.
- The cancellations by pair and by price are always rejected: the parser sets
  `propertyId`, the handler checks `property` (`tx.cpp:3581`, `tx.cpp:3618`).
- If ALL is sold, the KYC id that the second check uses is not initialised.

In the node rewards:

- The reward is not shared ("after that we share the reward with all winners",
  `tradelayer.cpp:3929`): the k-th winner gets the k-th part, all of them more
  than the reward.
- A registered address without a claim does not survive a restart
  (`tradelayer.cpp:2149`); from its next claim on the nodes disagree.
- Registering an address again, which anybody can do, ends its claim.

### Bounds

- DEx: amounts up to 2 with `COIN = 2` make rounding happen (a price of one for
  two tokens); `MAX_INT64 = 7` is above the supply, as in a real node; a window
  of one or two blocks lets payment and expiry meet; three hashes allow an offer to
  be replaced twice, which is what tells an accept's offer from its successor.
  `MaxVolume` bounds the litecoin paid in a behaviour and only cuts off further
  payments. Deadlock is not checked because a process that has ended, or used up
  the volume, stops.
- Recovery: `MAX_STATE_HISTORY = 1` and `STORE_EVERY_N_BLOCK = 2` on branches of
  three and four blocks make pruning, blocks that are not saved and an exhausted way
  back happen; two branches give one identifier to two properties, and one block grants
  a property twice. Without failures the tree is larger, with one failure smaller; the
  theorems below have no such bound. The registry's run was also made with one
  shutdown (8.5 million states, no violation). The vesting property is created in the
  first block, as on the main and test networks.
- Channels: single tokens of two properties, in `channels_withdraw` one of them
  divisible, are enough
  for every trade, for a withdrawal of what is traded away and, with
  `BASISPOINT = 1`, for a fee that takes the whole trade. `MAX_INT64 = 1` in
  `channels_transfer` makes every credit beyond a single token overflow, and the amount 3
  is the uint64 that converts to -1; one transaction names it (`MaxOversized`). The
  channels are symmetric there. In `channels_withdraw` the delay of two blocks
  (seven in the code) lets closing and reopening come between. `MaxFees` bounds
  what the cache collects and only cuts off further litecoin trades.
- MetaDEx: amounts up to four give fractions that round in both directions; three
  orders are a taker that meets two resting orders, or a resting order that is
  hit twice. The fee is at least one unit of any match, which is the case in
  which it matters.
- Pending: two transactions of up to two tokens over a balance of two overdraw
  it; three transactions were checked once (818,034 states) and show the same.
- NodeReward: `BLOCK_LIMIT = 2` and four heights are two paying blocks, each with a
  block before it that does not pay.

Deadlock is checked in the runs of Recovery, where the node can always go on. It is
not checked in the others, because a behaviour that has used up its bound stops.

### Fairness

- DEx: weak fairness for the loops over outputs and expired accepts (a loop that
  runs goes on) and for the begin of the next block; strong fairness for `BlockEnd`,
  which payment transactions disable for a while: blocks end, whatever their
  number of transactions. `AcceptsEnd` needs it.
- Recovery: weak fairness of the handlers together: a handler that was called goes
  on. `Start` is among them, which assumes that a node that has stopped is started
  again; nothing else is assumed of the user, the base node or failures. `RecoveryEnds`
  allows for the bounded number of failures of the instance.
- Channels: weak fairness of the next block and of the sweep: blocks keep coming
  and a handler that was called goes on. Nothing is assumed of traders.
- Pending: weak fairness of `PendingAdd` once the broadcast is made (the call has
  no exit in between), of blocks and of the handlers. Nothing is assumed of the
  mempool; a transaction that is in it may wait for ever, so the two liveness
  properties allow for that.

## 5. Proofs

Overflow is part of the model (`isOverflow`, with `MAX_INT64` a constant): a
credit that does not fit is refused, and its caller does not always look. Where a
theorem needs that a credit fits, it says so: as an assumption on the constants,
as an invariant that is proved, or as a hypothesis `[]P` about the states of the
behaviour. Each such `P` was checked with TLC to hold in the run of its module,
but for `WatermarkKnown` of `RegistryProofs`, which a crash can break.

`TotalsProofs`: for a finite set of keys, changing one value changes the total by
the difference; how a total splits, shifts between two keys, is renamed, and what
is left of it when keys are dropped. Everything about conservation rests on it.

`DExProofs`, for all addresses, properties, hashes and bounds:

- `TypeCorrect`: `Spec => []TypeOK`, buy offers included.
- With `~DexBuyActive`, `SellInvariant`: the conjunction `SellInv` is inductive.
  The assumption is a real restriction: buy offers can be active (the main
  network's parameters let them start with sell offers), and with them a payment
  may debit an empty reserve, so that conservation is false. The parts need each
  other: supply is conserved because no debit is floored, no debit is floored
  because an accept's claim is in the reserve (`AcceptReserveBacked`), and that
  survives only if cancelling releases exactly the offer's reserve
  (`SellReserveHasOffer`) and all offers sell (`OnlySellOffers`).
- From it `AcceptsBacked`, `SupplyIsConserved`, `AssertionsHold`,
  `ReservesHaveOffers`, and `DExImplementsLedger`: every step is a step of
  `TokenLedger` or leaves everyone's holdings unchanged.

- `WindowRespected`, `TermsAreFixed` and `NullNeedsOrphan` hold with buy offers
  too. The first is inductive with the types: an accept ages only where a block
  begins, after the expired ones are erased. The other two follow from the types
  for every step: the only write to an open accept is a payment's, which lowers
  what remains.
- With `~DexBuyActive`, `NoOfferOversold`: `Spec => []OfferNotOversold`. It needs
  `SellInv`: what an accept takes from the offer it adds to the claims on that
  very offer, and an offer's hash is new, so that no older accept claims on it.

`RecoveryProofs`, for every block tree, content of blocks and number of crashes,
shutdowns and unreadable blocks:

- `RecoveryTypeCorrect`: `Spec => []TypeOK`. `TypeOK` alone is not inductive:
  going back uses a block's parent, so `ControlInv` adds that the handlers pop or
  process only blocks above Genesis and that a block waiting for its connection is
  a child of the tip.
- `MemoryFollowsChain`: `Spec => []ChainAppliedOnce`. The statement, like its invariant,
  is about the time until a scan is broken off: the block that is being connected
  is then handled on a state that lacks the blocks in between. The invariant
  adds `FilesFaithful` (a file named after a block is absent, torn, or holds the
  state of that block) and `MemoryInv` (what the maps hold at each point of the
  handlers). A crash may tear a file but never make it a good file of another
  block; a complete set is therefore always right, and the rescan goes on from a
  block of the active chain.
- `VolumeFollowsChain`: `Spec => []VolumeMatchesChain`, along the same lines with
  `VolumeFiles` and `VolumeInv`, until `clear_all_state` leaves an old volume.
- `SpidFollowsChain`: `Spec => []NextSPIDMatchesChain`. The
  invariant adds `SpidFiles` (the `globals` file of a block holds the identifier
  that block leaves) and `SpidMemory` (the counter at each point of the handlers, in
  the middle of a block too, where it is the identifier the next transaction would
  get). The vesting property is created above the first block, that is
  `MSC_VESTING_CREATION_BLOCK >= 1`, as in all three networks of `rules.cpp`.

The tree is assumed to be one (`BlockTree`), the constants to be of their types;
TLC evaluates both on every run.

`RegistryProofs`, for every block tree, any content of blocks and any reorganisations, until a
scan is broken off. Whether a grant passes the checks that do not read the registry
is open in the model, so the theorems hold for every outcome of them.

- `GrantsAreFounded`: `Spec /\ []WatermarkKnown => GrantsFounded`, with any number of
  crashes. `Owned(d, P, n)`: every entry below the identifier `n` is that of a property
  that the positions `P` create under its identifier; `UndoOwned`: so is every undo
  record, for the branch of its block, however many updates of the block share
  it. A crash in the middle of a block leaves entries from `n` on, which `putSP`
  overwrites, and may lose a block's entries in a rollback, which makes `Owned` no less
  true. `OwnersInv` states it for each point of the handlers; `TrackInv` keeps the
  watermark on the branch of the block being handled, so that a registry right for the
  block is, as far as it goes, right for the watermark a restart reads (`OwnedEarlier`,
  `OwnedBelow`, from the order of identifiers along a branch). The hypothesis
  `WatermarkKnown` (the index on disk holds the block of the watermark) is needed, see
  section 4.
- `RegistryFollowsChain`: `Spec => []SPMatchesChain`, and `GrantsFollowChain`:
  `Spec => RegistryJudgesAlike`, both assuming `"crash" \notin Failures` (a crash leaves
  the registry ahead of its watermark). Their invariant `RegistryInv` adds
  `KnownInv`, which replaces the hypothesis about the watermark, and `PresentInv`, every
  property of the branch has an entry: `PresentPop` shows that a `popBlock` that succeeds
  deletes only what its block created, because by `Owned` the creating block of an entry
  is that of the only position with its identifier (`IdUnique`, `BranchLinear`). An
  entry that is present and owned is the right one (`EntryOfCreated`). Two grants in
  one block spoil the amount a rollback gives back, of which neither speaks.

All three assume `VestingFirst`, no property is created before the vesting tokens: a grant
is refused by the fixed identifier 3, which would otherwise be another property's.
`VestingAtOnce` shows that it holds on the networks that create them in their first
block (`rules.cpp:142`, `rules.cpp:161`). Where they come later, as in regtest, a
reorganisation below that height keeps them, because their entry names no block and
`popBlock` does not find it. TLC evaluates `VestingFirst` on the runs of `MCRecovery`, and it
has checked the invariants on the instance of `recovery_reorg`. Facts about all
ancestors of a block (`BranchOrder`, `BranchLinear`) are proved by a least counterexample:
a set of heights has a least element.

`NodeRewardProofs`, for any nodes, addresses, rewards and number of restarts:

- `RewardTypeCorrect`: `Spec => []TypeOK`. It needs `HeightInv`, a block that is
  being connected has a height with a reward, and that the rank of a winner is at
  least one, so that the prize divides by no zero.
- `OnePaymentPerClaim`: `Spec => []PaidPerClaim`. Counting a claim that is still
  open as one payment to come makes it inductive: paying closes the claim, and a
  restart forgets registered addresses that do not claim and sets no claim.
- `OnlyWinnersOfTheBlock`: `Spec => PaidForThisBlock`. It states what the code does
  where `WinnersPaid`, which the comments promise, is violated. From `WinnersCleared`:
  while the transactions of a block are handled nobody is noted as a winner, so
  that `sendNodeReward` pays only whom it has itself noted.
- `NodesAgree`: `Spec => []AgreeUntilSplit`. Prizes depend only on the claims, the
  winners and the reward, on which nodes agree; only `ClaimNodeReward` reads the
  register of addresses, on which a restarted node may differ, and it sets `split`
  when the nodes judge differently.

`ChannelsProofs`, for any traders, channels, properties and amounts:

- `ChannelsTypeCorrect`: `Spec => []TypeOK`, for every uint64 amount; it is inductive as
  it stands. A tally balance is floored at zero, and `updateChannelBal` refuses what
  overflows, but `createChannel` may store a negative balance.
- `AddressesSound`: `Spec => []PartiesSound`, inductive with the types. The case
  that needs care is `Transfer` from an open place: until an amount above `MAX_INT64` is
  named the placeholder owns nothing, so the debit is refused and the target channel is
  credited with nothing. That the two addresses differ needs no such restriction.
- `WithdrawalsKeepChannel`: `Spec => []WithdrawalsHaveChannel`.
- `ChannelsExplainSupply`: `Spec => SupplyExplained`, until such an amount is named. The
  difficulty is the credits: one that overflows is refused and its tokens are gone.
  `SupplyInv` says that, until then, no withdrawal of such an amount waits
  (`AmountsInv`) and what is owned of a property (balances and channels, without the
  fees cache) fits an int64 (`OwnedFits`). Each action is shown to move what is owned
  between holders or to lower it; so the bound, which `SupplyFits` gives for the
  start, is kept and no credit is refused.
- `WithdrawalsHonoured`: `Spec => WithdrawalHonoured`, from the types alone:
  only `makeWithdrawal` takes a withdrawal out of the list. It holds whatever amounts
  were named before, because it allows for a credit that does not fit.

`MetaDExProofs`, for any traders, properties, amounts and number of orders:

- `MetaDExTypeCorrect` and `MatchAssertionsHold`, from `ShapeInv`: prices are
  positive, identifiers unique and, in the book, older than that of the order being
  matched, which has traded only with orders it has passed. The arithmetic is done
  for all amounts: what is bought is at most what remains, and what is paid for it,
  rounded up, at most what remains of the payer's.
- `RegisterExplainsBook`: inductive together with the same statement about the
  order that is being matched.
- `BookCrossedBelowUnit`: inductive together with the statement for the taker and
  the orders it has passed. A skipped order crosses by less than a unit because
  rounding made it too expensive, a matched one because one of the two is used up
  to less than a unit; later partial fills only lower what could be bought.
- `TakerStaysCovered`: nothing but the matches themselves lowers the balance that an
  order being matched is paid from; its fees are taken in the other property.
- `ReservesBackBook`: `Spec /\ []HoldingsFit => []ReserveBacksOrders`. `HoldingsFit`
  bounds balance plus reserve of one address in one property. Only the credit of
  the reserve in `MetaDEx_INSERT` needs it: the code ignores its answer.
- `SupplyChangedByFeesOnly`: `Spec /\ []RoomForFees => SupplyByFeesOnly`.
  `RoomForFees` bounds the supply of a property plus the maker's part of a fee on all
  of it. It cannot be an invariant for every start, because a fee beyond the
  buyer's balance creates tokens (see the disagreements).

`PendingProofs`, for any number of addresses, calls, transactions and restarts:

- `PendingTypeCorrect`, and `ReleasedAfterMempool` (`Spec => NoEarlyRelease`), from
  `ShapeInv`: a transaction in a block is not in the mempool, and an entry belongs
  to a call that has ended.
- `PendingTallyExplained`: `Spec /\ []DebitFits => []PendingExplained`. The
  PENDING tally is a sum over the transactions: of those with an entry, of those whose
  call is between its two steps, and of what the last start read. Each action moves one
  transaction from one kind to another. `DebitFits` says that no debit of PENDING
  passes the smallest int64.
- `PendingExplainedWhenAmountsFit` replaces that hypothesis by one on the constants:
  the largest amount times the number of transactions fits an int64.

Only model-checked: liveness (`AcceptsEnd`, `RecoveryEnds`, `WithdrawalEnds`,
`StaleEntryEnds`, `OverdraftEnds`), which TLAPS cannot prove.

## 6. Not modelled

- What the plan lists as planned.
- Of the registry: revocation, change of issuer and pegged currencies as
  writers, and the token amounts. Of the databases: contracts, trades and attestations,
  which no code rolls back.
- Reorganisations in `Channels`, `MetaDEx`, `NodeReward` and `Pending`. The maps of
  the first two are part of what `Recovery` calls `maps`. The node rewards are not: their
  registry survives `clear_all_state` and is not read back in full. The PENDING tally
  is read from an older file by a reorganisation while `my_pending` stays.
- Conversions at the edge of int64 outside the channels: an accept of 2^63 or more
  (`tx.cpp:4137` only logs it and goes on), which matters only with buy offers; the
  assertion of `ConvertTo64` in `checkReserve` (`mdex.cpp:2983`), which ends the process for
  an amount just below the largest int64; the early return of `PendingAdd`
  (`pending.cpp:35-37`) for a debit that overflows, which `DebitFits` excludes.
- The wallet view that iterates `my_pending` without its lock
  (`fetchwallettx.cpp:102`), a data race with no effect on the protocol state.
- Volume, VWAP and market price figures of the exchanges: statistics that no
  modelled operation reads.
- Activations loaded at start; checkpoints; `-startclean` and a changed database
  version, which both end in `clear_all_state`.
- Byte-level decoding, RPC, payload creation, wallet views, logging, the GUI: no
  protocol state. Litecoin Core beyond the calls named above. The `.ts` files under
  `src/src/qt/locale` are translations of the GUI's texts, not code.
