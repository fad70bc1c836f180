----------------------------- MODULE MCChannels -----------------------------
(* Small instances of the trade channels for TLC. *)
EXTENDS Channels, TLC

CONSTANTS a1, a2, a3, c1, c2, h1, h2

\* Two traders, one of them with a token to commit.
TwoTraders == {a1, a2}
OneStake == [k \in TwoTraders \X {4, 5} |-> IF k = <<a1, 4>> THEN 1 ELSE 0]
TwoEveryone == TwoTraders \X {4, 5}
ChannelSymmetry == Permutations({c1, c2})
\* A third trader, who can come to tokens by trading.
ThreeTraders == {a1, a2, a3}
StakesOfThree == [k \in ThreeTraders \X {4, 5} |->
             IF k \in {<<a1, 4>>, <<a2, 5>>} THEN 1 ELSE 0]
ThreeEveryone == ThreeTraders \X {4, 5}
=============================================================================
