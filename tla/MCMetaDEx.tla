------------------------------ MODULE MCMetaDEx ------------------------------
(* Small instances of the MetaDEx for TLC. *)
EXTENDS MetaDEx

CONSTANTS a1, a2

\* Two traders; only the first can pay the fee of a small match in full.
Traders == {a1, a2}
Stakes == [k \in Traders \X {4, 5} |->
             IF k = <<a2, 4>> THEN 0 ELSE 6]
Everyone == Traders \X {4, 5}
=============================================================================
