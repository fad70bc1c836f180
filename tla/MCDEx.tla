-------------------------------- MODULE MCDEx --------------------------------
(* Small instances of the DEx for TLC. *)
EXTENDS DEx, TLC

CONSTANTS a1, a2, a3, h1, h2, h3, h4

\* Two parties, one of which starts with all the tokens.
TwoParties == {a1, a2}
OneSeller == [k \in TwoParties \X {1} |-> IF k[1] = a1 THEN 2 ELSE 0]
OneToken == [k \in TwoParties \X {1} |-> IF k[1] = a1 THEN 1 ELSE 0]
\* Two buyers compete for the tokens of one seller.
ThreeParties == {a1, a2, a3}
OneSellerOfThree == [k \in ThreeParties \X {1} |-> IF k[1] = a1 THEN 2 ELSE 0]

\* Transaction hashes are only compared for equality.
Hashes == Permutations({h1, h2, h3, h4})
HashesAndBuyers == Hashes \cup Permutations({a2, a3})
=============================================================================
