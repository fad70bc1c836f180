------------------------------- MODULE Totals -------------------------------
(***************************************************************************)
(* The total of a finite family of token amounts, as getTotalTokens        *)
(* (tradelayer.cpp) adds them up over the addresses of mp_tally_map.  A    *)
(* total is defined by counting the single units of the family rather than *)
(* by recursion over its index set, so that what one update does to it can *)
(* be proved for every index set (module TotalsProofs).                    *)
(***************************************************************************)
EXTENDS Naturals, FiniteSets

\* One element <<k, i>> for each of the f[k] units held under index k.
Units(f) == UNION {{k} \X (1 .. f[k]) : k \in DOMAIN f}

\* The sum of f over its domain.
Total(f) == Cardinality(Units(f))
=============================================================================
