---------------------------- MODULE MCNodeReward ----------------------------
(* A small instance of the node rewards for TLC. *)
EXTENDS NodeReward

\* The reward falls below its minimum at the last height.
Falling == [h \in 1 .. MaxHeight |-> IF h < 4 THEN 5 - h ELSE 0]
=============================================================================
