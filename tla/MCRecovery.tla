----------------------------- MODULE MCRecovery -----------------------------
(***************************************************************************)
(* Block trees and transactions for the model checker.                     *)
(***************************************************************************)
EXTENDS Recovery

CONSTANTS g, a1, a2, b1, b2, b3, b4, c3, \* blocks
          t1, t2, t3, t4, t5, t6, t7, \* transactions
          alice, bob

create(x, who, managed) ==
  [txid |-> x, type |-> "create", sender |-> who, manual |-> managed, property |-> 0]
grant(x, who, id) ==
  [txid |-> x, type |-> "grant", sender |-> who, manual |-> FALSE, property |-> id]

\* A branch that forks at Genesis and two that fork at b2:
\* g - a1   and   g - b1 - b2 - b3 - b4   and   g - b1 - b2 - c3
Tree == {g, a1, b1, b2, b3, b4, c3}
TreeParent ==
  [b \in Tree \ {g} |->
     CASE b \in {a1, b1} -> g [] b = b2 -> b1 [] b = b4 -> b3 [] OTHER -> b2]
TreeHeight ==
  [b \in Tree |-> CASE b = g -> 0 [] b \in {a1, b1} -> 1 [] b = b2 -> 2
                    [] b = b4 -> 4 [] OTHER -> 3]
TreeBranch ==
  [b \in Tree |->
     CASE b = g -> {g} [] b \in {a1, b1} -> {g, b} [] b = b2 -> {g, b1, b2}
       [] b = b4 -> {g, b1, b2, b3, b4} [] OTHER -> {g, b1, b2, b}]

\* Identifier 4 belongs to alice on one branch and to bob on the others, and 5 to
\* alice after b3 and to bob after c3, where alice tries to grant it all the
\* same.  b4 grants twice what b3 has created: after its rollback the entry
\* is still there.
TreeTxs ==
  [b \in Tree |->
     CASE b = a1 -> <<create(t1, alice, TRUE), grant(t2, alice, 4)>>
       [] b = b1 -> <<create(t5, bob, TRUE)>>
       [] b = b2 -> <<grant(t4, bob, 4), grant(t2, alice, 4)>>
       [] b = b3 -> <<create(t1, alice, TRUE)>>
       [] b = b4 -> <<grant(t3, alice, 5), grant(t6, alice, 5)>>
       [] b = c3 -> <<grant(t3, alice, 5), create(t7, bob, FALSE), grant(t6, bob, 5)>>
       [] OTHER -> <<>>]

\* Two branches that fork after a block with properties:
\* g - a1 - a2   and   g - a1 - b2 - b3
Fork == {g, a1, a2, b2, b3}
ForkParent ==
  [b \in Fork \ {g} |-> CASE b = a1 -> g [] b = b3 -> b2 [] OTHER -> a1]
ForkHeight ==
  [b \in Fork |-> CASE b = g -> 0 [] b = a1 -> 1 [] b = b3 -> 3 [] OTHER -> 2]
ForkBranch ==
  [b \in Fork |-> CASE b = g -> {g} [] b = a1 -> {g, a1} [] b = a2 -> {g, a1, a2}
                    [] b = b2 -> {g, a1, b2} [] OTHER -> {g, a1, b2, b3}]
ForkTxs ==
  [b \in Fork |-> CASE b = a1 -> <<create(t1, alice, TRUE)>>
                    [] b = a2 -> <<grant(t2, alice, 4)>>
                    [] b = b2 -> <<create(t2, alice, TRUE)>>
                    [] OTHER -> <<>>]

\* The blocks are such as the theorems about the registry speak of.
ASSUME RegistryAssumption == VestingFirst
=============================================================================
