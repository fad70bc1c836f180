----------------------------- MODULE TokenLedger -----------------------------
(***************************************************************************)
(* What an exchange promises about tokens, and nothing else: every step    *)
(* either leaves what each party owns alone or moves tokens that one party *)
(* owns to another party.  Nothing is created, destroyed or lost in a      *)
(* reserve.                                                                *)
(***************************************************************************)
EXTENDS Integers

CONSTANTS Addr, Prop, InitialBalance

VARIABLE holding           \* what an address owns, in whatever reserve it is

Init == holding = InitialBalance

Transfer(a, b, p, n) ==
  /\ a # b
  /\ n <= holding[<<a, p>>]
  /\ holding' = [holding EXCEPT ![<<a, p>>] = @ - n, ![<<b, p>>] = @ + n]

Next == \E a, b \in Addr, p \in Prop :
          \E n \in 1 .. holding[<<a, p>>] : Transfer(a, b, p, n)

Spec == Init /\ [][Next]_holding
=============================================================================
