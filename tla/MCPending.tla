------------------------------ MODULE MCPending ------------------------------
(* Small instances of the pending transactions for TLC. *)
EXTENDS Pending

CONSTANTS a1, h1, h2

TwoTokens == [a \in {a1} |-> 2]
=============================================================================
