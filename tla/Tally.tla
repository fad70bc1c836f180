-------------------------------- MODULE Tally --------------------------------
(***************************************************************************)
(* The token ledger: mp_tally_map, one CMPTally per address, one balance   *)
(* per property and tally type.  A tally is a function from accounts       *)
(* <<address, property, type>> to int64 amounts; the operators are the     *)
(* pure part of CMPTally::updateMoney and update_tally_map, and are used   *)
(* by every component that moves tokens.                                   *)
(***************************************************************************)
EXTENDS Integers

CONSTANT MAX_INT64          \* std::numeric_limits<int64_t>::max()

ASSUME MaxInt64Assumption == MAX_INT64 \in Nat \ {0}

MIN_INT64 == -MAX_INT64 - 1

\* enum TallyType
TallyType == {"BALANCE", "SELLOFFER_RESERVE", "ACCEPT_RESERVE", "PENDING",
              "METADEX_RESERVE", "CONTRACTDEX_RESERVE", "CONTRACT_BALANCE",
              "UNVESTED"}

\* The types whose balance may go below zero.
MayBeNegative == {"PENDING", "CONTRACT_BALANCE"}

isOverflow(a, b) == \/ b > 0 /\ a > MAX_INT64 - b
                    \/ b < 0 /\ a < MIN_INT64 - b

\* What updateMoney answers: a zero amount or an overflow is refused.
updateMoneyOk(now, amount) == amount # 0 /\ ~isOverflow(now, amount)

\* The balance updateMoney leaves.  A debit larger than the balance is not
\* refused: the balance becomes 0 and the call still answers true.
updateMoney(now, amount, ttype) ==
  IF ~updateMoneyOk(now, amount)                          THEN now
  ELSE IF ttype \notin MayBeNegative /\ now + amount < 0  THEN
         IF amount < 0 THEN 0 ELSE now
  ELSE now + amount

\* update_tally_map on the account acc = <<address, property, type>>.
update_tally_map(tally, acc, amount) ==
  [ok    |-> updateMoneyOk(tally[acc], amount),
   tally |-> [tally EXCEPT ![acc] = updateMoney(@, amount, acc[3])]]

\* The pair of calls that moves n tokens from one account to another:
\* assert(update_tally_map(.., -n, ..)); assert(update_tally_map(.., n, ..))
Move(tally, src, dst, n) ==
  LET debit  == update_tally_map(tally, src, -n)
      credit == update_tally_map(debit.tally, dst, n)
  IN  [ok |-> debit.ok /\ credit.ok, tally |-> credit.tally]

=============================================================================
