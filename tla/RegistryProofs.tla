--------------------------- MODULE RegistryProofs ---------------------------
(***************************************************************************)
(* Proofs about the property registry of Recovery: on a node that does not *)
(* crash it has every property of the active chain under the identifier    *)
(* the chain gives it, however deep the reorganisations before, and what a *)
(* grant asks of it has the answer of the chain.                           *)
(***************************************************************************)
EXTENDS RecoveryProofs, WellFoundedInduction

\* A set of natural numbers has a least element.
LEMMA LeastNatural ==
  ASSUME NEW T, T \subseteq Nat, T # {}
  PROVE  \E n \in T : \A m \in T : n <= m
<1> DEFINE R == OpToRel(<, Nat)
<1>1. IsWellFoundedOn(R, Nat)
  BY NatLessThanWellFounded, Zenon
<1>2. \A m, n \in Nat : m < n => <<m, n>> \in R
  BY DEF OpToRel
<1> HIDE DEF R
<1>3. \E n \in T : \A m \in T : ~(<<m, n>> \in R)
  BY <1>1, WFMin
<1>4. PICK n \in T : \A m \in T : ~(<<m, n>> \in R)
  BY <1>3
<1>5. \A m \in T : ~(m < n)
  BY <1>2, <1>4
<1>6. \A m \in T : n <= m
  BY <1>5
<1> QED
  BY <1>6

\* A block is the highest of its branch, which holds the branches of its blocks.
LEMMA BranchOrder ==
  ASSUME NEW b \in Block, NEW c \in Branch[b]
  PROVE  /\ c \in Block /\ Branch[c] \subseteq Branch[b]
         /\ Height[c] <= Height[b] /\ (Height[c] = Height[b] => c = b)
<1> DEFINE Good(x) == \A y \in Branch[x] :
                        /\ Branch[y] \subseteq Branch[x]
                        /\ Height[y] <= Height[x] /\ (Height[y] = Height[x] => y = x)
           T == {Height[x] : x \in {z \in Block : ~Good(z)}}
<1>1. SUFFICES T = {}
  <2>1. ASSUME T = {} PROVE Good(b)
    BY <2>1
  <2> QED
    BY <2>1, TreeFacts
<1>2. SUFFICES ASSUME T # {} PROVE FALSE
  OBVIOUS
<1>3. T \subseteq Nat
  BY TreeFacts
<1>4. PICK n \in T : \A m \in T : n <= m
  <2> HIDE DEF T
  <2> QED
    BY <1>2, <1>3, LeastNatural
<1>5. PICK x \in Block : n = Height[x] /\ ~Good(x)
  BY <1>4
<1>6. x # Genesis
  BY <1>5, BlockTree
<1>7. /\ Parent[x] \in Block /\ Height[x] = Height[Parent[x]] + 1
      /\ Branch[x] = Branch[Parent[x]] \cup {x}
      /\ Height[x] \in Nat /\ Height[Parent[x]] \in Nat
  BY <1>6, BlockTree
<1>8. Good(Parent[x])
  <2>1. Height[Parent[x]] \notin T
    <3> HIDE DEF T
    <3> QED
      BY <1>4, <1>5, <1>7
  <2> QED
    BY <1>7, <2>1
<1>9. ASSUME NEW y \in Branch[x]
      PROVE  /\ Branch[y] \subseteq Branch[x]
             /\ Height[y] <= Height[x] /\ (Height[y] = Height[x] => y = x)
  <2>1. CASE y = x
    BY <2>1, <1>7
  <2>2. CASE y # x
    <3>1. y \in Branch[Parent[x]]
      BY <1>7, <2>2
    <3>2. Height[y] \in Nat
      BY <1>7, <3>1, TreeFacts
    <3>3. Branch[y] \subseteq Branch[Parent[x]] /\ Height[y] <= Height[Parent[x]]
      BY <1>8, <3>1
    <3> QED
      BY <3>2, <3>3, <1>7
  <2> QED
    BY <2>1, <2>2
<1> QED
  BY <1>5, <1>9

-----------------------------------------------------------------------------
(* Positions of a branch and the identifiers due at them.                  *)

\* What it is to lie before the position i of block b.
LEMMA BeforeAt ==
  ASSUME NEW b \in Block, NEW i \in Nat
  PROVE  /\ Before(<<b, i>>) \subseteq Positions(b)
         /\ \A q \in Before(<<b, i>>) : q = <<q[1], q[2]>>
         /\ \A c, j : <<c, j>> \in Before(<<b, i>>)
                        <=> /\ c \in Branch[b] /\ j \in 1 .. Len(Txs[c])
                            /\ c # b \/ j < i
<1>1. Before(<<b, i>>) = {q \in Positions(b) : q[1] # b \/ q[2] < i}
  BY DEF Before
<1> QED
  BY <1>1, PositionsAt

\* A position is one of a block above Genesis.
LEMMA PositionFacts ==
  ASSUME NEW b \in Block, NEW p \in Positions(b)
  PROVE  /\ p = <<p[1], p[2]>> /\ p[1] \in Branch[b] /\ p[1] \in Block \ {Genesis}
         /\ p[2] \in 1 .. Len(Txs[p[1]]) /\ p[2] \in Nat
         /\ TxAt(p) \in TxRecord /\ TxAt(p) = Txs[p[1]][p[2]]
<1>1. p = <<p[1], p[2]>> /\ p[1] \in Branch[b] /\ p[2] \in 1 .. Len(Txs[p[1]])
  BY PositionsAt
<1>2. p[1] \in Block
  BY <1>1, TreeFacts
<1>3. p[1] # Genesis
  <2>1. Len(Txs[Genesis]) = 0
    BY RecoveryAssumption
  <2> QED
    BY <1>1, <2>1
<1>4. Txs[p[1]] \in Seq(TxRecord)
  BY <1>2, TreeFacts
<1>5. p[2] \in Nat
  BY <1>1, <1>4
<1>6. Txs[p[1]][p[2]] \in TxRecord
  BY <1>1, <1>4
<1> QED
  BY <1>1, <1>2, <1>3, <1>5, <1>6 DEF TxAt

\* A property created earlier on the branch has a smaller identifier.
LEMMA IdOrder ==
  ASSUME NEW b \in Block, NEW i \in Nat, NEW q \in Creates(Before(<<b, i>>))
  PROVE  IdOf(q) < IdOf(<<b, i>>)
<1> DEFINE p == <<b, i>>
<1>1. /\ q \in Before(p) /\ q \in Positions(b) /\ TxAt(q).type = "create"
      /\ Before(p) \subseteq Positions(b)
  BY BeforeAt DEF Creates
<1>2. /\ q = <<q[1], q[2]>> /\ q[1] \in Branch[b] /\ q[1] \in Block
      /\ q[2] \in Nat /\ (q[1] # b \/ q[2] < i)
  <2>1. q[1] # b \/ q[2] < i
    BY <1>1 DEF Before
  <2> QED
    BY <1>1, <2>1, PositionFacts
<1>3. Branch[q[1]] \subseteq Branch[b] /\ Height[q[1]] <= Height[b]
      /\ (q[1] # b => b \notin Branch[q[1]])
  <2>1. Branch[q[1]] \subseteq Branch[b] /\ Height[q[1]] <= Height[b]
        /\ (Height[q[1]] = Height[b] => q[1] = b)
    BY <1>2, BranchOrder
  <2>2. ASSUME b \in Branch[q[1]] PROVE q[1] = b
    <3>1. Height[b] <= Height[q[1]]
      BY <1>2, <2>2, BranchOrder
    <3>2. Height[b] \in Nat /\ Height[q[1]] \in Nat
      BY <1>2, TreeFacts
    <3> QED
      BY <2>1, <3>1, <3>2
  <2> QED
    BY <2>1, <2>2
<1>4. ASSUME NEW r \in Before(q) PROVE r \in Before(p) /\ r # q
  <2>1. /\ r = <<r[1], r[2]>> /\ r[1] \in Branch[q[1]] /\ r[2] \in 1 .. Len(Txs[r[1]])
        /\ (r[1] # q[1] \/ r[2] < q[2])
    <3>1. r \in Positions(q[1]) /\ (r[1] # q[1] \/ r[2] < q[2])
      BY DEF Before
    <3> QED
      BY <1>2, <3>1, PositionFacts
  <2>2. r[1] \in Block /\ r[2] \in Nat
    BY <1>2, <2>1, TreeFacts
  <2>3. r[1] \in Branch[b]
    BY <1>3, <2>1
  <2>4. r[1] # b \/ r[2] < i
    <3>1. CASE q[1] # b
      BY <1>3, <2>1, <3>1
    <3>2. CASE q[1] = b
      BY <1>2, <2>1, <2>2, <3>2
    <3> QED
      BY <3>1, <3>2
  <2>5. r # q
    BY <1>2, <2>1, <2>2
  <2>6. <<r[1], r[2]>> \in Before(<<b, i>>)
    BY <2>1, <2>3, <2>4, BeforeAt
  <2> QED
    BY <2>1, <2>5, <2>6
<1> DEFINE A == Creates(Before(q))
           B == Creates(Before(p))
<1>5. IsFiniteSet(A) /\ IsFiniteSet(B)
  <2>1. Before(q) \subseteq Positions(b)
    BY <1>1, <1>4
  <2> QED
    BY <1>1, <2>1, PositionsFinite
<1>6. A \cup {q} \subseteq B /\ q \notin A
  BY <1>1, <1>4 DEF Creates
<1>7. /\ IdOf(q) = FirstId + Vested(q[1]) + Cardinality(A)
      /\ IdOf(p) = FirstId + Vested(b) + Cardinality(B)
      /\ Vested(q[1]) \in {0, 1} /\ Vested(b) \in {0, 1}
      /\ Cardinality(A) \in Nat /\ Cardinality(B) \in Nat
  <2>1. /\ IdOf(q) = FirstId + Vested(q[1]) + Cardinality(A)
        /\ Vested(q[1]) \in {0, 1} /\ Cardinality(A) \in Nat
    BY <1>2, IdType
  <2>2. /\ IdOf(p) = FirstId + Vested(b) + Cardinality(B)
        /\ Vested(b) \in {0, 1} /\ Cardinality(B) \in Nat
    BY IdType
  <2> QED
    BY <2>1, <2>2
<1>8. Cardinality(A) + 1 <= Cardinality(B)
  <2> HIDE DEF A, B
  <2>1. IsFiniteSet(A \cup {q}) /\ Cardinality(A \cup {q}) = Cardinality(A) + 1
    BY <1>5, <1>6, FS_AddElement
  <2>2. Cardinality(A \cup {q}) <= Cardinality(B)
    BY <1>5, <1>6, FS_Subset
  <2> QED
    BY <2>1, <2>2
<1>9. Vested(q[1]) <= Vested(b)
  <2>1. Height[b] \in Nat /\ Height[q[1]] \in Nat
    BY <1>2, TreeFacts
  <2> QED
    BY <1>3, <2>1, RecoveryAssumption DEF Vested
<1> DEFINE m == Cardinality(A)
           n == Cardinality(B)
           v == Vested(q[1])
           w == Vested(b)
<1> HIDE DEF A, B, p, m, n, v, w
<1>10. FirstId + v + m < FirstId + w + n
  <2>1. m \in Nat /\ n \in Nat /\ v \in {0, 1} /\ w \in {0, 1}
    BY <1>7 DEF m, n, v, w
  <2>2. m + 1 <= n /\ v <= w
    BY <1>8, <1>9 DEF m, n, v, w
  <2> QED
    BY <2>1, <2>2 DEF FirstId
<1> QED
  BY <1>7, <1>10 DEF m, n, v, w, p

\* Of two blocks of a branch one lies on the branch of the other.
LEMMA BranchLinear ==
  ASSUME NEW b \in Block, NEW c \in Branch[b], NEW d \in Branch[b]
  PROVE  c \in Branch[d] \/ d \in Branch[c]
<1> DEFINE Good(x) == \A y, z \in Branch[x] : y \in Branch[z] \/ z \in Branch[y]
           T == {Height[x] : x \in {z \in Block : ~Good(z)}}
<1>1. SUFFICES T = {}
  <2>1. ASSUME T = {} PROVE Good(b)
    BY <2>1
  <2> QED
    BY <2>1
<1>2. SUFFICES ASSUME T # {} PROVE FALSE
  OBVIOUS
<1>3. T \subseteq Nat
  BY TreeFacts
<1>4. PICK n \in T : \A m \in T : n <= m
  <2> HIDE DEF T
  <2> QED
    BY <1>2, <1>3, LeastNatural
<1>5. PICK x \in Block : n = Height[x] /\ ~Good(x)
  BY <1>4
<1>6. x # Genesis
  BY <1>5, BlockTree
<1>7. /\ Parent[x] \in Block /\ Height[x] = Height[Parent[x]] + 1
      /\ Branch[x] = Branch[Parent[x]] \cup {x}
      /\ Height[x] \in Nat /\ Height[Parent[x]] \in Nat
  BY <1>6, BlockTree
<1>8. Good(Parent[x])
  <2>1. Height[Parent[x]] \notin T
    <3> HIDE DEF T
    <3> QED
      BY <1>4, <1>5, <1>7
  <2> QED
    BY <1>7, <2>1
<1>9. ASSUME NEW y \in Branch[x], NEW z \in Branch[x]
      PROVE  y \in Branch[z] \/ z \in Branch[y]
  <2>1. CASE y = x \/ z = x
    BY <2>1
  <2>2. CASE y # x /\ z # x
    BY <1>7, <1>8, <2>2
  <2> QED
    BY <2>1, <2>2
<1> QED
  BY <1>5, <1>9

\* Identifiers are natural numbers from 3 on.
LEMMA IdNat ==
  ASSUME NEW b \in Block, NEW i \in Nat
  PROVE  IdOf(<<b, i>>) \in Nat /\ NextId(b) \in Nat /\ 3 <= IdOf(<<b, i>>)
<1> DEFINE n == Cardinality(Creates(Before(<<b, i>>)))
           k == Cardinality(Creates(Positions(b)))
           v == Vested(b)
<1>1. IdOf(<<b, i>>) = FirstId + v + n /\ n \in Nat /\ k \in Nat /\ v \in {0, 1}
  BY IdType
<1>2. NextId(b) = FirstId + v + k
  BY DEF NextId
<1> HIDE DEF n, k, v
<1> QED
  BY <1>1, <1>2 DEF FirstId

\* What a block leaves is due before every transaction of a later block.
LEMMA DueLater ==
  ASSUME NEW b \in Block, NEW m \in Branch[b], m # b, NEW i \in Nat
  PROVE  /\ Positions(m) \subseteq Before(<<b, i>>)
         /\ NextId(m) <= IdOf(<<b, i>>)
<1> DEFINE A == Creates(Positions(m))
           B == Creates(Before(<<b, i>>))
<1>1. /\ m \in Block /\ Branch[m] \subseteq Branch[b]
      /\ Height[m] <= Height[b] /\ (Height[m] = Height[b] => m = b)
  BY BranchOrder
<1>2. b \notin Branch[m]
  <2>1. ASSUME b \in Branch[m] PROVE Height[b] <= Height[m]
    BY <1>1, <2>1, BranchOrder
  <2>2. Height[b] \in Nat /\ Height[m] \in Nat
    BY <1>1, TreeFacts
  <2> QED
    BY <1>1, <2>1, <2>2
<1>3. ASSUME NEW r \in Positions(m) PROVE r \in Before(<<b, i>>)
  <2>1. r = <<r[1], r[2]>> /\ r[1] \in Branch[m] /\ r[2] \in 1 .. Len(Txs[r[1]])
    BY <1>1, PositionFacts
  <2>2. r[1] \in Branch[b] /\ r[1] # b
    BY <1>1, <1>2, <2>1
  <2>3. <<r[1], r[2]>> \in Before(<<b, i>>)
    BY <2>1, <2>2, BeforeAt
  <2> QED
    BY <2>1, <2>3
<1>4. A \subseteq B
  BY <1>3 DEF Creates
<1>5. IsFiniteSet(A) /\ IsFiniteSet(B)
  BY <1>1, BeforeAt, PositionsFinite
<1> DEFINE k == Cardinality(A)
           n == Cardinality(B)
           v == Vested(m)
           w == Vested(b)
<1>6. k <= n /\ k \in Nat /\ n \in Nat
  <2> HIDE DEF A, B
  <2> QED
    BY <1>4, <1>5, FS_Subset, FS_CardinalityType
<1>7. v <= w /\ v \in {0, 1} /\ w \in {0, 1}
  <2>1. Height[b] \in Nat /\ Height[m] \in Nat
    BY <1>1, TreeFacts
  <2> QED
    BY <1>1, <2>1, RecoveryAssumption DEF Vested
<1>8. NextId(m) = FirstId + v + k /\ IdOf(<<b, i>>) = FirstId + w + n
  BY IdType DEF NextId
<1> HIDE DEF k, n, v, w
<1>9. NextId(m) <= IdOf(<<b, i>>)
  BY <1>6, <1>7, <1>8 DEF FirstId
<1> QED
  BY <1>3, <1>9

\* An identifier below the one a block leaves was given out on its branch.
LEMMA DueBelow ==
  ASSUME NEW b \in Block, NEW m \in Branch[b], NEW q \in Creates(Positions(b)),
         IdOf(q) < NextId(m)
  PROVE  q \in Creates(Positions(m))
<1>1. q \in Positions(b) /\ TxAt(q).type = "create"
  BY DEF Creates
<1>2. /\ q = <<q[1], q[2]>> /\ q[1] \in Branch[b] /\ q[1] \in Block
      /\ q[2] \in 1 .. Len(Txs[q[1]]) /\ q[2] \in Nat
  BY <1>1, PositionFacts
<1>3. m \in Block
  BY TreeFacts
<1>4. CASE q[1] \in Branch[m]
  <2>1. <<q[1], q[2]>> \in Positions(m)
    BY <1>2, <1>3, <1>4, PositionsAt
  <2> QED
    BY <1>1, <1>2, <2>1 DEF Creates
<1>5. CASE q[1] \notin Branch[m]
  <2>1. m \in Branch[q[1]] /\ m # q[1]
    BY <1>2, <1>3, <1>5, BranchLinear, TreeFacts
  <2>2. NextId(m) <= IdOf(<<q[1], q[2]>>)
    BY <1>2, <2>1, DueLater
  <2>3. NextId(m) \in Nat /\ IdOf(<<q[1], q[2]>>) \in Nat
    BY <1>2, <1>3, IdNat
  <2> QED
    BY <1>2, <2>2, <2>3
<1> QED
  BY <1>4, <1>5

\* An identifier is given out once on a branch.
LEMMA IdUnique ==
  ASSUME NEW b \in Block, NEW q \in Creates(Positions(b)), NEW r \in Creates(Positions(b)),
         IdOf(q) = IdOf(r)
  PROVE  q = r
<1>1. ASSUME NEW x \in Creates(Positions(b))
      PROVE  /\ x = <<x[1], x[2]>> /\ x[1] \in Branch[b] /\ x[1] \in Block
             /\ x[2] \in 1 .. Len(Txs[x[1]]) /\ x[2] \in Nat
             /\ TxAt(x).type = "create" /\ IdOf(x) \in Nat
  <2>1. x \in Positions(b) /\ TxAt(x).type = "create"
    BY DEF Creates
  <2>2. /\ x = <<x[1], x[2]>> /\ x[1] \in Branch[b] /\ x[1] \in Block
        /\ x[2] \in 1 .. Len(Txs[x[1]]) /\ x[2] \in Nat
    BY <2>1, PositionFacts
  <2>3. IdOf(<<x[1], x[2]>>) \in Nat
    BY <2>2, IdNat
  <2> QED
    BY <2>1, <2>2, <2>3
<1>2. ASSUME NEW x \in Creates(Positions(b)), NEW y \in Creates(Positions(b)),
             x[1] \in Branch[y[1]], x[1] # y[1] \/ x[2] < y[2]
      PROVE  IdOf(x) < IdOf(y)
  <2>1. <<x[1], x[2]>> \in Before(<<y[1], y[2]>>)
    BY <1>1, <1>2, BeforeAt
  <2>2. x \in Creates(Before(<<y[1], y[2]>>))
    BY <1>1, <2>1 DEF Creates
  <2>3. IdOf(x) < IdOf(<<y[1], y[2]>>)
    BY <1>1, <2>2, IdOrder
  <2> QED
    BY <1>1, <2>3
<1>3. q[1] \in Branch[r[1]] \/ r[1] \in Branch[q[1]]
  BY <1>1, BranchLinear
<1>4. CASE q[1] # r[1]
  BY <1>1, <1>2, <1>3, <1>4
<1>5. CASE q[1] = r[1]
  <2>1. q[2] < r[2] \/ r[2] < q[2] \/ q[2] = r[2]
    BY <1>1
  <2>2. q[1] \in Branch[r[1]] /\ r[1] \in Branch[q[1]]
    BY <1>1, <1>5, TreeFacts
  <2>3. q[2] = r[2]
    BY <1>1, <1>2, <2>1, <2>2
  <2> QED
    BY <1>1, <1>5, <2>3
<1> QED
  BY <1>4, <1>5

-----------------------------------------------------------------------------
(* What the operators of the registry write.                               *)

\* A branch that ends in Genesis has no transactions.
LEMMA GenesisPositions == Positions(Genesis) = {} /\ Creates(Positions(Genesis)) = {}
<1>1. Genesis \in Block /\ Txs[Genesis] = <<>> /\ Branch[Genesis] = {Genesis}
  BY BlockTree, RecoveryAssumption
<1>2. Positions(Genesis) = {}
  BY <1>1 DEF Positions
<1> QED
  BY <1>2 DEF Creates

\* putSP writes one entry and one index record.
LEMMA PutReads ==
  ASSUME NEW d \in Database, NEW id \in Id, NEW e \in Entry
  PROVE  LET n == putSP(d, id, e)
         IN  /\ n.s[id] = e /\ \A k \in Id \ {id} : n.s[k] = d.s[k]
             /\ n.t[e.txid] = id /\ \A x \in TxHash \ {e.txid} : n.t[x] = d.t[x]
             /\ n.b = d.b
<1>1. e.txid \in TxHash
  BY DEF Entry
<1> QED
  BY <1>1 DEF putSP, Database

\* updateSP writes one entry and keeps what it displaces.
LEMMA UpdateReads ==
  ASSUME NEW d \in Database, NEW id \in Id, NEW e \in Entry, e.update_block \in BlockHash
  PROVE  LET n == updateSP(d, id, e)
             k == <<e.update_block, id>>
         IN  /\ n.s[id] = e /\ \A j \in Id \ {id} : n.s[j] = d.s[j]
             /\ n.b[k] = d.s[id] /\ \A j \in (BlockHash \X Id) \ {k} : n.b[j] = d.b[j]
             /\ n.t = d.t
BY DEF updateSP, Database

\* The entries that a block created
CreatedBy(d, blk) == {id \in TouchedBy(d, blk) : d.s[id].creation_block = blk}

\* What popBlock leaves of a registry.
LEMMA PopReads ==
  ASSUME NEW d \in Database, NEW blk \in Block
  PROVE  LET n == popBlock(d, blk)
         IN  /\ \A id \in Id :
                   n.s[id] = IF id \in CreatedBy(d, blk) THEN None
                             ELSE IF id \in TouchedBy(d, blk) THEN d.b[<<blk, id>>]
                             ELSE d.s[id]
             /\ \A x \in TxHash :
                   n.t[x] = IF \E id \in CreatedBy(d, blk) : d.s[id].txid = x
                            THEN None ELSE d.t[x]
             /\ \A k \in BlockHash \X Id : k[1] # blk => n.b[k] = d.b[k]
             /\ \A k \in BlockHash \X Id : n.b[k] \in {None, d.b[k]}
             /\ n.watermark = d.watermark
<1> DEFINE touched == TouchedBy(d, blk)
           created == CreatedBy(d, blk)
           s == [id \in Id |-> IF id \in created THEN None
                               ELSE IF id \in touched THEN d.b[<<blk, id>>]
                               ELSE d.s[id]]
           t == [x \in TxHash |->
                   IF \E id \in created : d.s[id].txid = x THEN None
                   ELSE d.t[x]]
           b == [k \in BlockHash \X Id |->
                   IF k[1] = blk /\ k[2] \in touched \ created THEN None
                   ELSE d.b[k]]
<1>1. popBlock(d, blk) = [d EXCEPT !.s = s, !.t = t, !.b = b]
  BY DEF popBlock, CreatedBy
<1>2. /\ popBlock(d, blk).s = s /\ popBlock(d, blk).t = t
      /\ popBlock(d, blk).b = b /\ popBlock(d, blk).watermark = d.watermark
  <2> HIDE DEF s, t, b
  <2> QED
    BY <1>1 DEF Database
<1>3. \A id \in Id : s[id] = IF id \in created THEN None
                             ELSE IF id \in touched THEN d.b[<<blk, id>>]
                             ELSE d.s[id]
  OBVIOUS
<1>4. \A x \in TxHash : t[x] = IF \E id \in created : d.s[id].txid = x
                               THEN None ELSE d.t[x]
  OBVIOUS
<1>5. \A k \in BlockHash \X Id : (k[1] # blk => b[k] = d.b[k]) /\ b[k] \in {None, d.b[k]}
  OBVIOUS
<1> HIDE DEF s, t, b, touched, created
<1> QED
  BY <1>2, <1>3, <1>4, <1>5 DEF touched, created

\* Only setWatermark and Clear() touch the watermark.
LEMMA WatermarkKept ==
  ASSUME NEW d \in Database
  PROVE  /\ \A id, e : putSP(d, id, e).watermark = d.watermark
         /\ \A id, e : updateSP(d, id, e).watermark = d.watermark
         /\ \A blk \in Block : popBlock(d, blk).watermark = d.watermark
         /\ \A blk : setWatermark(d, blk).watermark = blk
<1>1. \A blk \in Block : popBlock(d, blk).watermark = d.watermark
  BY PopReads
<1>2. \A id, e : putSP(d, id, e).watermark = d.watermark
  BY DEF putSP, Database
<1>3. \A id, e : updateSP(d, id, e).watermark = d.watermark
  BY DEF updateSP, Database
<1>4. \A blk : setWatermark(d, blk).watermark = blk
  BY DEF setWatermark, Database
<1> QED
  BY <1>1, <1>2, <1>3, <1>4

\* The identifiers that can be granted
OwnId == Id \ {TL_PROPERTY_VESTING}

\* VestingTokens writes back the entry it has read, and keeps it under a block
\* of that entry: nothing of another property changes.
LEMMA VestingReads ==
  ASSUME NEW d \in Database
  PROVE  /\ VestingTokens(d).s = d.s
         /\ VestingTokens(d).watermark = d.watermark
         /\ \A b \in Block, id \in OwnId : VestingTokens(d).b[<<b, id>>] = d.b[<<b, id>>]
<1> DEFINE v == TL_PROPERTY_VESTING
<1>1. v \in Id
  BY SPInfoAssumption DEF Id, FirstId, TL_PROPERTY_VESTING
<1>2. CASE d.s[v] = None
  BY <1>2 DEF VestingTokens
<1>3. CASE d.s[v] # None
  <2> DEFINE e == d.s[v]
             n == updateSP(d, v, e)
             k == <<e.update_block, v>>
  <2>1. VestingTokens(d) = n
    BY <1>3 DEF VestingTokens
  <2>2. e \in Entry
    BY <1>1, <1>3 DEF Database
  <2>3. e.update_block \in BlockHash
    BY <2>2 DEF Entry
  <2> HIDE DEF e
  <2>4. /\ n.s[v] = e /\ \A j \in Id \ {v} : n.s[j] = d.s[j]
        /\ n.b[k] = d.s[v] /\ \A j \in (BlockHash \X Id) \ {k} : n.b[j] = d.b[j]
        /\ n.t = d.t
    BY <1>1, <2>2, <2>3, UpdateReads
  <2>5. n \in Database /\ n.watermark = d.watermark
    BY <1>1, <2>2, UpdateType, WatermarkKept
  <2> HIDE DEF n, v
  <2>6. n.s = d.s
    <3>1. \A j \in Id : n.s[j] = d.s[j]
      BY <2>4 DEF e
    <3>2. n.s \in [Id -> Entry \cup {None}] /\ d.s \in [Id -> Entry \cup {None}]
      BY <2>5 DEF Database
    <3> QED
      BY <3>1, <3>2
  <2>7. ASSUME NEW b \in Block, NEW id \in OwnId PROVE n.b[<<b, id>>] = d.b[<<b, id>>]
    <3>1. <<b, id>> \in BlockHash \X Id /\ id # v
      BY DEF OwnId, BlockHash, v
    <3>2. <<b, id>> # k
      BY <3>1
    <3> QED
      BY <2>4, <3>1, <3>2
  <2> QED
    BY <2>1, <2>5, <2>6, <2>7
<1> QED
  BY <1>2, <1>3

\* The positions of a branch are those of the parent's branch and the block's.
LEMMA ParentPositions ==
  ASSUME NEW b \in Block \ {Genesis}
  PROVE  /\ Parent[b] \in Block /\ Positions(Parent[b]) \subseteq Positions(b)
         /\ \A p \in Positions(b) : p \in Positions(Parent[b]) <=> p[1] # b
<1>1. /\ Parent[b] \in Block /\ Branch[b] = Branch[Parent[b]] \cup {b}
      /\ b \notin Branch[Parent[b]]
  BY BlockTree
<1>2. ASSUME NEW p \in Positions(Parent[b]) PROVE p \in Positions(b) /\ p[1] # b
  <2>1. /\ p = <<p[1], p[2]>> /\ p[1] \in Branch[Parent[b]]
        /\ p[2] \in 1 .. Len(Txs[p[1]])
    BY <1>1, PositionFacts
  <2>2. <<p[1], p[2]>> \in Positions(b)
    BY <1>1, <2>1, PositionsAt
  <2> QED
    BY <1>1, <2>1, <2>2
<1>3. ASSUME NEW p \in Positions(b), p[1] # b PROVE p \in Positions(Parent[b])
  <2>1. p = <<p[1], p[2]>> /\ p[1] \in Branch[b] /\ p[2] \in 1 .. Len(Txs[p[1]])
    BY PositionFacts
  <2>2. <<p[1], p[2]>> \in Positions(Parent[b])
    BY <1>1, <1>3, <2>1, PositionsAt
  <2> QED
    BY <2>1, <2>2
<1> QED
  BY <1>1, <1>2, <1>3

-----------------------------------------------------------------------------
(* What the registry says of the properties of a branch.                   *)

\* e is the entry of the property created at q.
Describes(e, q) ==
  /\ e.txid = TxAt(q).txid /\ e.creation_block = q[1]
  /\ e.issuer = TxAt(q).sender /\ e.manual = TxAt(q).manual

\* e is the entry of a property that the positions P create under id.
CreatedAs(e, id, P) ==
  \E q \in Creates(P) : IdOf(q) = id /\ Describes(e, q)

\* The entries below n are those of properties that P creates.  A crash may
\* leave others from n on: putSP overwrites them.
Owned(d, P, n) ==
  \A id \in OwnId : id < n /\ d.s[id] # None => CreatedAs(d.s[id], id, P)

OwnedAt(d, b) == Owned(d, Positions(b), NextId(b))

\* What an undo record gives back was created on the branch of its block.
UndoOwned(d) ==
  \A b \in Block, id \in OwnId :
     d.b[<<b, id>>] # None => CreatedAs(d.b[<<b, id>>], id, Positions(b))

\* Every property that P creates has an entry.
Present(d, P) == \A q \in Creates(P) : IdOf(q) \in Id /\ d.s[IdOf(q)] # None

\* More positions create more.
LEMMA CreatedMore ==
  ASSUME NEW P, NEW Q, P \subseteq Q, NEW e, NEW id, CreatedAs(e, id, P)
  PROVE  CreatedAs(e, id, Q)
BY DEF CreatedAs, Creates

\* What a branch created under an identifier below the one a block on it
\* leaves was created up to that block.
LEMMA CreatedBelow ==
  ASSUME NEW b \in Block, NEW m \in Branch[b], NEW e, NEW id, id < NextId(m),
         CreatedAs(e, id, Positions(b))
  PROVE  CreatedAs(e, id, Positions(m))
<1>1. PICK q \in Creates(Positions(b)) : IdOf(q) = id /\ Describes(e, q)
  BY DEF CreatedAs
<1>2. q \in Creates(Positions(m))
  BY <1>1, DueBelow
<1> QED
  BY <1>1, <1>2 DEF CreatedAs

\* A registry that is right in the middle of a block is right, as far as it
\* goes, for the blocks before it.
LEMMA OwnedEarlier ==
  ASSUME NEW b \in Block, NEW i \in Nat, NEW m \in Branch[b], m # b,
         NEW d, Owned(d, Before(<<b, i>>), IdOf(<<b, i>>))
  PROVE  OwnedAt(d, m)
<1>1. m \in Block /\ NextId(m) <= IdOf(<<b, i>>)
  BY DueLater, TreeFacts
<1>2. NextId(m) \in Nat /\ IdOf(<<b, i>>) \in Nat
  BY <1>1, IdNat
<1>3. ASSUME NEW id \in OwnId, id < NextId(m), d.s[id] # None
      PROVE  CreatedAs(d.s[id], id, Positions(m))
  <2>1. id \in Nat /\ id < IdOf(<<b, i>>)
    BY <1>1, <1>2, <1>3, SPInfoAssumption DEF OwnId, Id, FirstId
  <2>2. CreatedAs(d.s[id], id, Before(<<b, i>>))
    BY <1>3, <2>1 DEF Owned
  <2>3. CreatedAs(d.s[id], id, Positions(b))
    BY <2>2, BeforeAt, CreatedMore
  <2> QED
    BY <1>3, <2>3, CreatedBelow
<1> QED
  BY <1>3 DEF OwnedAt, Owned

\* After the last transaction of a block it is right for the block.
LEMMA OwnedLast ==
  ASSUME NEW b \in Block, NEW i \in Nat, i > Len(Txs[b]), NEW d
  PROVE  Owned(d, Before(<<b, i>>), IdOf(<<b, i>>)) <=> OwnedAt(d, b)
BY BeforeLast, IdLast DEF OwnedAt

\* A registry that is right for a block is right for the blocks of its branch.
LEMMA OwnedBelow ==
  ASSUME NEW b \in Block, NEW m \in Branch[b], NEW d, OwnedAt(d, b)
  PROVE  OwnedAt(d, m)
<1> DEFINE i == Len(Txs[b]) + 1
<1>1. i \in Nat /\ i > Len(Txs[b])
  BY TreeFacts
<1> HIDE DEF i
<1>2. CASE m # b
  BY <1>1, <1>2, OwnedLast, OwnedEarlier
<1> QED
  BY <1>2

\* The empty registry says nothing.
LEMMA OwnedEmpty ==
  ASSUME NEW b
  PROVE  OwnedAt(EmptyDatabase, b) /\ UndoOwned(EmptyDatabase)
BY DEF OwnedAt, Owned, UndoOwned, EmptyDatabase, OwnId, BlockHash

\* The watermark is no part of it.
LEMMA OwnedWatermark ==
  ASSUME NEW d \in Database, NEW blk \in Block
  PROVE  /\ \A b : OwnedAt(d, b) => OwnedAt(setWatermark(d, blk), b)
         /\ UndoOwned(d) => UndoOwned(setWatermark(d, blk))
         /\ \A P : Present(d, P) => Present(setWatermark(d, blk), P)
<1>1. setWatermark(d, blk).s = d.s /\ setWatermark(d, blk).b = d.b
  BY DEF setWatermark, Database
<1> QED
  BY <1>1 DEF OwnedAt, Owned, UndoOwned, Present

\* The vesting tokens have identifier 3, and what is created comes after them.
LEMMA VestingIsFirst ==
  ASSUME VestingFirst, NEW b \in Block
  PROVE  /\ Vested(b) = 0 => NextId(b) = TL_PROPERTY_VESTING
         /\ \A q \in Creates(Positions(b)) : IdOf(q) # TL_PROPERTY_VESTING
<1>1. ASSUME Vested(b) = 0 PROVE NextId(b) = TL_PROPERTY_VESTING
  <2>1. Cardinality(Creates(Positions(b))) = 0
    BY <1>1, FS_EmptySet DEF VestingFirst
  <2> QED
    BY <1>1, <2>1 DEF NextId, FirstId, TL_PROPERTY_VESTING
<1>2. ASSUME NEW q \in Creates(Positions(b)) PROVE IdOf(q) # TL_PROPERTY_VESTING
  <2>1. q \in Positions(b) /\ TxAt(q).type = "create"
    BY DEF Creates
  <2>2. /\ q = <<q[1], q[2]>> /\ q[1] \in Block /\ q[2] \in 1 .. Len(Txs[q[1]])
        /\ q[2] \in Nat /\ q[1] \in Branch[q[1]]
    BY <2>1, PositionFacts, TreeFacts
  <2>3. <<q[1], q[2]>> \in Positions(q[1])
    BY <2>2, PositionsAt
  <2>4. q \in Creates(Positions(q[1]))
    BY <2>1, <2>2, <2>3 DEF Creates
  <2>5. Vested(q[1]) # 0
    BY <2>2, <2>4 DEF VestingFirst
  <2> DEFINE n == Cardinality(Creates(Before(<<q[1], q[2]>>)))
             v == Vested(q[1])
  <2>6. IdOf(<<q[1], q[2]>>) = FirstId + v + n /\ n \in Nat /\ v = 1
    BY <2>2, <2>5, IdType
  <2> HIDE DEF n, v
  <2>7. IdOf(<<q[1], q[2]>>) # TL_PROPERTY_VESTING
    BY <2>6 DEF FirstId, TL_PROPERTY_VESTING
  <2> QED
    BY <2>2, <2>7
<1> QED
  BY <1>1, <1>2

\* Only Genesis has height 0, and so every block above it has vested.
LEMMA AboveGenesis ==
  ASSUME MSC_VESTING_CREATION_BLOCK = 1, NEW b \in Block \ {Genesis}
  PROVE  /\ Vested(b) = 1
         /\ Height[b] = MSC_VESTING_CREATION_BLOCK <=> Parent[b] = Genesis
<1>1. ASSUME NEW c \in Block \ {Genesis}
      PROVE  Height[c] = Height[Parent[c]] + 1 /\ Parent[c] \in Block /\ Height[Parent[c]] \in Nat
  BY BlockTree
<1>2. Vested(b) = 1
  BY <1>1 DEF Vested
<1>3. Height[Genesis] = 0 /\ Height[b] = Height[Parent[b]] + 1
  BY <1>1, BlockTree
<1>4. Parent[b] # Genesis => Height[Parent[b]] # 0
  <2>1. ASSUME Parent[b] # Genesis PROVE Height[Parent[b]] # 0
    <3>1. Parent[b] \in Block \ {Genesis}
      BY <1>1, <2>1
    <3> QED
      BY <1>1, <3>1
  <2> QED
    BY <2>1
<1> QED
  BY <1>1, <1>2, <1>3, <1>4

\* On a network that creates the vesting tokens in its first block, as the main
\* and the test network do, nothing comes before them.
LEMMA VestingAtOnce ==
  ASSUME MSC_VESTING_CREATION_BLOCK = 1
  PROVE  VestingFirst
<1>1. ASSUME NEW b \in Block, Vested(b) = 0 PROVE Creates(Positions(b)) = {}
  <2>1. b = Genesis
    BY <1>1, AboveGenesis
  <2> QED
    BY <2>1, GenesisPositions
<1> QED
  BY <1>1 DEF VestingFirst

\* The creation of the vesting tokens takes a registry that is right for the
\* parent to the block.
LEMMA OwnedBegin ==
  ASSUME VestingFirst, NEW d \in Database, NEW e, NEW b \in Block \ {Genesis},
         OwnedAt(d, Parent[b]), UndoOwned(d),
         IF Height[b] = MSC_VESTING_CREATION_BLOCK
         THEN NextId(Parent[b]) \in Id /\ e = putSP(d, NextId(Parent[b]), CreatedVesting)
         ELSE e = d
  PROVE  Owned(e, Before(<<b, 1>>), IdOf(<<b, 1>>)) /\ UndoOwned(e)
<1>1. Before(<<b, 1>>) = Positions(Parent[b])
  BY BeforeFirst
<1>2. CASE Height[b] # MSC_VESTING_CREATION_BLOCK
  <2>1. e = d /\ IdOf(<<b, 1>>) = NextId(Parent[b])
    BY <1>2, IdFirst
  <2> QED
    BY <1>1, <2>1 DEF OwnedAt
<1>3. CASE Height[b] = MSC_VESTING_CREATION_BLOCK
  <2>1. NextId(Parent[b]) = TL_PROPERTY_VESTING /\ IdOf(<<b, 1>>) = TL_PROPERTY_VESTING + 1
    <3>1. /\ Parent[b] \in Block /\ Height[b] = Height[Parent[b]] + 1
          /\ Height[Parent[b]] \in Nat
      BY BlockTree
    <3>2. Vested(Parent[b]) = 0
      BY <1>3, <3>1, RecoveryAssumption DEF Vested
    <3>3. NextId(Parent[b]) = TL_PROPERTY_VESTING
      BY <3>1, <3>2, VestingIsFirst
    <3> QED
      BY <1>3, <3>3, IdFirst
  <2>2. TL_PROPERTY_VESTING \in Id /\ e = putSP(d, TL_PROPERTY_VESTING, CreatedVesting)
    BY <1>3, <2>1
  <2>3. CreatedVesting \in Entry
    BY RecoveryAssumption DEF CreatedVesting, Entry, TxHash, BlockHash
  <2>4. e.b = d.b
    BY <2>2, <2>3, PutReads
  <2>5. \A id \in OwnId : ~(id < TL_PROPERTY_VESTING + 1)
    BY SPInfoAssumption DEF OwnId, Id, FirstId, TL_PROPERTY_VESTING
  <2>6. Owned(e, Before(<<b, 1>>), IdOf(<<b, 1>>))
    BY <2>1, <2>5 DEF Owned
  <2>7. UndoOwned(e)
    BY <2>4 DEF UndoOwned
  <2> QED
    BY <2>6, <2>7
<1> QED
  BY <1>2, <1>3

\* The creation of a property adds one that the chain creates there.
LEMMA OwnedCreate ==
  ASSUME NEW d \in Database, NEW b \in Block, NEW i \in 1 .. Len(Txs[b]),
         NEW id \in Id, id = IdOf(<<b, i>>), NEW tx, tx = Txs[b][i],
         tx.type = "create", NEW e \in Entry, Describes(e, <<b, i>>),
         Owned(d, Before(<<b, i>>), IdOf(<<b, i>>)), UndoOwned(d)
  PROVE  /\ Owned(putSP(d, id, e), Before(<<b, i + 1>>), IdOf(<<b, i + 1>>))
         /\ UndoOwned(putSP(d, id, e))
<1> DEFINE new == <<b, i>>
           P == Before(new)
           Q == P \cup {new}
           n == putSP(d, id, e)
<1>1. /\ Before(<<b, i + 1>>) = Q /\ IdOf(<<b, i + 1>>) = id + 1 /\ id \in Nat
  <2>1. id \in Nat
    BY SPInfoAssumption DEF Id, FirstId
  <2> QED
    BY <2>1, BeforeNext, IdNext
<1>2. new \in Creates(Q)
  BY DEF TxAt, Creates
<1>3. n.s[id] = e /\ (\A k \in Id \ {id} : n.s[k] = d.s[k]) /\ n.b = d.b
  BY PutReads
<1>4. Owned(d, P, id)
  OBVIOUS
<1>5. IdOf(new) = id
  OBVIOUS
<1>10. Describes(e, new)
  OBVIOUS
<1> HIDE DEF n, new, P, Q
<1>6. CreatedAs(e, id, Q)
  BY <1>2, <1>5, <1>10 DEF CreatedAs
<1>7. ASSUME NEW k \in OwnId, k < id + 1, n.s[k] # None
      PROVE  CreatedAs(n.s[k], k, Q)
  <2>1. k \in Id /\ k \in Nat
    BY SPInfoAssumption DEF OwnId, Id, FirstId
  <2>2. CASE k = id
    BY <1>3, <1>6, <2>2
  <2>3. CASE k # id
    <3>1. k < id /\ n.s[k] = d.s[k]
      BY <1>1, <1>3, <1>7, <2>1, <2>3
    <3>2. CreatedAs(d.s[k], k, P)
      BY <1>4, <1>7, <3>1 DEF Owned
    <3>3. P \subseteq Q
      BY DEF Q
    <3> QED
      BY <3>1, <3>2, <3>3, CreatedMore
  <2> QED
    BY <2>2, <2>3
<1>8. Owned(n, Q, id + 1)
  BY <1>7 DEF Owned
<1>9. UndoOwned(n)
  BY <1>3 DEF UndoOwned
<1> QED
  BY <1>1, <1>8, <1>9 DEF n

\* A transaction that creates nothing leaves a right registry right.
LEMMA OwnedSame ==
  ASSUME NEW d, NEW b \in Block, NEW i \in 1 .. Len(Txs[b]),
         Txs[b][i].type = "grant", Owned(d, Before(<<b, i>>), IdOf(<<b, i>>))
  PROVE  Owned(d, Before(<<b, i + 1>>), IdOf(<<b, i + 1>>))
<1>1. /\ Before(<<b, i>>) \subseteq Before(<<b, i + 1>>)
      /\ IdOf(<<b, i + 1>>) = IdOf(<<b, i>>)
  BY BeforeNext, IdNext
<1> QED
  BY <1>1, CreatedMore DEF Owned

\* A grant keeps what an entry says of its property, and so does what it
\* displaces.
LEMMA OwnedGrant ==
  ASSUME NEW d \in Database, NEW b \in Block, NEW i \in 1 .. Len(Txs[b]),
         NEW id \in OwnId, id < IdOf(<<b, i>>), d.s[id] # None,
         Owned(d, Before(<<b, i>>), IdOf(<<b, i>>)), UndoOwned(d),
         NEW e \in Entry, e.update_block = b,
         \A q : Describes(d.s[id], q) => Describes(e, q)
  PROVE  /\ Owned(updateSP(d, id, e), Before(<<b, i>>), IdOf(<<b, i>>))
         /\ UndoOwned(updateSP(d, id, e))
<1> DEFINE P == Before(<<b, i>>)
           m == IdOf(<<b, i>>)
           n == updateSP(d, id, e)
<1>1. id \in Id /\ i \in Nat
  BY TreeFacts DEF OwnId
<1>2. /\ n.s[id] = e /\ \A j \in Id \ {id} : n.s[j] = d.s[j]
      /\ n.b[<<b, id>>] = d.s[id]
      /\ \A j \in (BlockHash \X Id) \ {<<b, id>>} : n.b[j] = d.b[j]
  BY <1>1, UpdateReads DEF BlockHash
<1>3. CreatedAs(d.s[id], id, P)
  BY DEF Owned
<1>4. P \subseteq Positions(b)
  BY <1>1, BeforeAt
<1>5. Owned(d, P, m)
  OBVIOUS
<1> HIDE DEF n, P, m
<1>6. CreatedAs(e, id, P)
  BY <1>3 DEF CreatedAs
<1>7. Owned(n, P, m)
  <2>1. ASSUME NEW k \in OwnId, k < m, n.s[k] # None PROVE CreatedAs(n.s[k], k, P)
    <3>1. k \in Id
      BY DEF OwnId
    <3>2. CASE k = id
      BY <1>2, <1>6, <3>2
    <3>3. CASE k # id
      BY <1>2, <1>5, <2>1, <3>1, <3>3 DEF Owned
    <3> QED
      BY <3>2, <3>3
  <2> QED
    BY <2>1 DEF Owned
<1>8. UndoOwned(n)
  <2>1. ASSUME NEW c \in Block, NEW k \in OwnId, n.b[<<c, k>>] # None
        PROVE  CreatedAs(n.b[<<c, k>>], k, Positions(c))
    <3>1. <<c, k>> \in BlockHash \X Id
      BY DEF OwnId, BlockHash
    <3>2. CASE c = b /\ k = id
      <4>1. CreatedAs(d.s[id], id, Positions(b))
        BY <1>3, <1>4, CreatedMore
      <4> QED
        BY <1>2, <3>2, <4>1
    <3>3. CASE ~(c = b /\ k = id)
      <4>1. n.b[<<c, k>>] = d.b[<<c, k>>]
        BY <1>2, <3>1, <3>3
      <4> QED
        BY <2>1, <4>1 DEF UndoOwned
    <3> QED
      BY <3>2, <3>3
  <2> QED
    BY <2>1 DEF UndoOwned
<1> QED
  BY <1>7, <1>8 DEF n, P, m

\* popBlock gives back only what was created on the branch.
LEMMA OwnedPop ==
  ASSUME NEW d \in Database, NEW b \in Block, OwnedAt(d, b), UndoOwned(d)
  PROVE  OwnedAt(popBlock(d, b), b) /\ UndoOwned(popBlock(d, b))
<1> DEFINE n == popBlock(d, b)
<1>1. /\ \A id \in Id : n.s[id] \in {None, d.b[<<b, id>>], d.s[id]}
      /\ \A k \in BlockHash \X Id : n.b[k] \in {None, d.b[k]}
  BY PopReads
<1> HIDE DEF n
<1>2. OwnedAt(n, b)
  <2>1. ASSUME NEW id \in OwnId, id < NextId(b), n.s[id] # None
        PROVE  CreatedAs(n.s[id], id, Positions(b))
    <3>1. n.s[id] \in {d.b[<<b, id>>], d.s[id]}
      BY <1>1, <2>1 DEF OwnId
    <3>2. CASE n.s[id] = d.b[<<b, id>>]
      BY <2>1, <3>2 DEF UndoOwned
    <3>3. CASE n.s[id] = d.s[id]
      BY <2>1, <3>3 DEF OwnedAt, Owned
    <3> QED
      BY <3>1, <3>2, <3>3
  <2> QED
    BY <2>1 DEF OwnedAt, Owned
<1>3. UndoOwned(n)
  <2>1. ASSUME NEW c \in Block, NEW k \in OwnId, n.b[<<c, k>>] # None
        PROVE  CreatedAs(n.b[<<c, k>>], k, Positions(c))
    <3>1. <<c, k>> \in BlockHash \X Id
      BY DEF OwnId, BlockHash
    <3>2. n.b[<<c, k>>] = d.b[<<c, k>>]
      BY <1>1, <2>1, <3>1
    <3> QED
      BY <2>1, <3>2 DEF UndoOwned
  <2> QED
    BY <2>1 DEF UndoOwned
<1> QED
  BY <1>2, <1>3 DEF n

-----------------------------------------------------------------------------
(* While no crash interrupts a rollback, the entries are also all there.   *)

\* What a block creates is due before what it leaves.
LEMMA CreatedDue ==
  ASSUME NEW b \in Block, NEW q \in Creates(Positions(b))
  PROVE  IdOf(q) < NextId(b)
<1> DEFINE i == Len(Txs[b]) + 1
<1>1. i \in Nat /\ i > Len(Txs[b])
  BY TreeFacts
<1> HIDE DEF i
<1>2. Before(<<b, i>>) = Positions(b) /\ IdOf(<<b, i>>) = NextId(b)
  BY <1>1, BeforeLast, IdLast
<1> QED
  BY <1>1, <1>2, IdOrder

\* The creation of the vesting tokens keeps the properties of the parent's branch.
LEMMA PresentBegin ==
  ASSUME NEW d \in Database, NEW e, NEW b \in Block \ {Genesis},
         Present(d, Positions(Parent[b])),
         IF Height[b] = MSC_VESTING_CREATION_BLOCK
         THEN NextId(Parent[b]) \in Id /\ e = putSP(d, NextId(Parent[b]), CreatedVesting)
         ELSE e = d
  PROVE  Present(e, Before(<<b, 1>>))
<1>1. Before(<<b, 1>>) = Positions(Parent[b])
  BY BeforeFirst
<1>2. CreatedVesting \in Entry /\ CreatedVesting # None
  <2>1. CreatedVesting \in Entry
    BY RecoveryAssumption DEF CreatedVesting, Entry, TxHash, BlockHash
  <2> QED
    BY <2>1, SPInfoAssumption
<1>3. \A k \in Id : d.s[k] # None => e.s[k] # None
  <2>1. CASE Height[b] # MSC_VESTING_CREATION_BLOCK
    BY <2>1
  <2>2. CASE Height[b] = MSC_VESTING_CREATION_BLOCK
    <3> DEFINE id == NextId(Parent[b])
    <3>1. id \in Id /\ e = putSP(d, id, CreatedVesting)
      BY <2>2
    <3> HIDE DEF id
    <3>2. e.s[id] = CreatedVesting /\ \A k \in Id \ {id} : e.s[k] = d.s[k]
      BY <1>2, <3>1, PutReads
    <3> QED
      BY <1>2, <3>2
  <2> QED
    BY <2>1, <2>2
<1> QED
  BY <1>1, <1>3 DEF Present

\* block_begin takes a registry that is right for the parent to the block,
\* whether tokens vest or not.
LEMMA BeginKeeps ==
  ASSUME VestingFirst, db \in Database, NEW b \in Block \ {Genesis}, BlockBegin(b),
         next_spid = NextId(Parent[b])
  PROVE  /\ OwnedAt(db, Parent[b]) /\ UndoOwned(db) =>
              Owned(db', Before(<<b, 1>>), IdOf(<<b, 1>>)) /\ UndoOwned(db')
         /\ Present(db, Positions(Parent[b])) => Present(db', Before(<<b, 1>>))
         /\ db'.watermark = db.watermark
<1> DEFINE e == IF Height[b] = MSC_VESTING_CREATION_BLOCK
                THEN putSP(db, next_spid, CreatedVesting) ELSE db
<1>1. /\ db' = e \/ db' = VestingTokens(e)
      /\ Height[b] = MSC_VESTING_CREATION_BLOCK => next_spid \in Id
  BY DEF BlockBegin
<1>2. CreatedVesting \in Entry
  BY RecoveryAssumption DEF CreatedVesting, Entry, TxHash, BlockHash
<1>3. IF Height[b] = MSC_VESTING_CREATION_BLOCK
      THEN NextId(Parent[b]) \in Id /\ e = putSP(db, NextId(Parent[b]), CreatedVesting)
      ELSE e = db
  BY <1>1
<1>4. e \in Database /\ e.watermark = db.watermark
  BY <1>1, <1>2, PutType, WatermarkKept
<1> HIDE DEF e
<1>5. /\ OwnedAt(db, Parent[b]) /\ UndoOwned(db) =>
           Owned(e, Before(<<b, 1>>), IdOf(<<b, 1>>)) /\ UndoOwned(e)
      /\ Present(db, Positions(Parent[b])) => Present(e, Before(<<b, 1>>))
  BY <1>3, OwnedBegin, PresentBegin
<1>6. CASE db' = e
  BY <1>4, <1>5, <1>6
<1>7. CASE db' = VestingTokens(e)
  <2>1. /\ db'.s = e.s /\ db'.watermark = e.watermark
        /\ \A c \in Block, id \in OwnId : db'.b[<<c, id>>] = e.b[<<c, id>>]
    BY <1>4, <1>7, VestingReads
  <2>2. \A P, n : Owned(e, P, n) => Owned(db', P, n)
    BY <2>1 DEF Owned
  <2>3. UndoOwned(e) => UndoOwned(db')
    BY <2>1 DEF UndoOwned
  <2>4. \A P : Present(e, P) => Present(db', P)
    BY <2>1 DEF Present
  <2> QED
    BY <1>4, <1>5, <2>1, <2>2, <2>3, <2>4
<1> QED
  BY <1>1, <1>6, <1>7

\* The creation of a property adds its entry.
LEMMA PresentCreate ==
  ASSUME NEW d \in Database, NEW b \in Block, NEW i \in 1 .. Len(Txs[b]),
         NEW id \in Id, id = IdOf(<<b, i>>), NEW e \in Entry,
         Present(d, Before(<<b, i>>))
  PROVE  Present(putSP(d, id, e), Before(<<b, i + 1>>))
<1> DEFINE new == <<b, i>>
           P == Before(new)
           n == putSP(d, id, e)
<1>1. Before(<<b, i + 1>>) = P \cup {new} /\ IdOf(new) = id /\ e # None
  BY BeforeNext, SPInfoAssumption
<1>2. n.s[id] = e /\ \A k \in Id \ {id} : n.s[k] = d.s[k]
  BY PutReads
<1>3. Present(d, P)
  OBVIOUS
<1> HIDE DEF n, new, P
<1>4. ASSUME NEW q \in Creates(P \cup {new}) PROVE IdOf(q) \in Id /\ n.s[IdOf(q)] # None
  <2>1. CASE q = new
    BY <1>1, <1>2, <2>1
  <2>2. CASE q # new
    <3>1. q \in Creates(P)
      BY <2>2 DEF Creates
    <3>2. IdOf(q) \in Id /\ d.s[IdOf(q)] # None
      BY <1>3, <3>1 DEF Present
    <3> QED
      BY <1>1, <1>2, <3>2
  <2> QED
    BY <2>1, <2>2
<1> QED
  BY <1>1, <1>4 DEF Present, n

\* A transaction that creates nothing asks for no entry.
LEMMA PresentSame ==
  ASSUME NEW d, NEW b \in Block, NEW i \in 1 .. Len(Txs[b]),
         Txs[b][i].type = "grant", Present(d, Before(<<b, i>>))
  PROVE  Present(d, Before(<<b, i + 1>>))
<1>1. Before(<<b, i + 1>>) = Before(<<b, i>>) \cup {<<b, i>>}
  BY BeforeNext
<1>2. TxAt(<<b, i>>).type # "create"
  BY DEF TxAt
<1>3. Creates(Before(<<b, i + 1>>)) = Creates(Before(<<b, i>>))
  BY <1>1, <1>2 DEF Creates
<1> QED
  BY <1>3 DEF Present

\* A grant deletes no entry.
LEMMA PresentGrant ==
  ASSUME NEW d \in Database, NEW id \in Id, NEW e \in Entry, e.update_block \in BlockHash,
         NEW P, Present(d, P)
  PROVE  Present(updateSP(d, id, e), P)
<1> DEFINE n == updateSP(d, id, e)
           k == <<e.update_block, id>>
<1>1. /\ n.s[id] = e /\ \A j \in Id \ {id} : n.s[j] = d.s[j]
      /\ n.b[k] = d.s[id] /\ \A j \in (BlockHash \X Id) \ {k} : n.b[j] = d.b[j]
      /\ n.t = d.t
  BY UpdateReads
<1>2. e # None
  BY SPInfoAssumption
<1> HIDE DEF n
<1>3. \A j \in Id : d.s[j] # None => n.s[j] # None
  BY <1>1, <1>2
<1> QED
  BY <1>3 DEF Present, n

\* A popBlock that succeeds deletes only what the block created.
LEMMA PresentPop ==
  ASSUME VestingFirst, NEW d \in Database, NEW b \in Block \ {Genesis},
         OwnedAt(d, b), Present(d, Positions(b)), ~popBlockFails(d, b)
  PROVE  Present(popBlock(d, b), Positions(Parent[b]))
<1> DEFINE n == popBlock(d, b)
<1>1. /\ Parent[b] \in Block /\ Positions(Parent[b]) \subseteq Positions(b)
      /\ \A p \in Positions(b) : p \in Positions(Parent[b]) <=> p[1] # b
  BY ParentPositions
<1>2. \A id \in Id : n.s[id] = IF id \in CreatedBy(d, b) THEN None
                               ELSE IF id \in TouchedBy(d, b) THEN d.b[<<b, id>>]
                               ELSE d.s[id]
  BY PopReads
<1> HIDE DEF n
<1>3. ASSUME NEW q \in Creates(Positions(Parent[b]))
      PROVE  IdOf(q) \in Id /\ n.s[IdOf(q)] # None
  <2> DEFINE id == IdOf(q)
  <2>1. q \in Creates(Positions(b)) /\ q[1] # b
    BY <1>1 DEF Creates
  <2>2. id \in Id /\ d.s[id] # None
    BY <2>1 DEF Present
  <2>3. id \in OwnId /\ id < NextId(b)
    BY <2>1, <2>2, VestingIsFirst, CreatedDue DEF OwnId
  <2>4. CreatedAs(d.s[id], id, Positions(b))
    BY <2>2, <2>3 DEF OwnedAt, Owned
  <2> HIDE DEF id
  <2>5. PICK r \in Creates(Positions(b)) : IdOf(r) = id /\ d.s[id].creation_block = r[1]
    BY <2>4 DEF CreatedAs, Describes
  <2>6. r = q
    BY <2>1, <2>5, IdUnique DEF id
  <2>7. d.s[id].creation_block # b
    BY <2>1, <2>5, <2>6
  <2>8. id \notin CreatedBy(d, b)
    BY <2>7 DEF CreatedBy
  <2>9. id \in TouchedBy(d, b) => d.b[<<b, id>>] # None
    BY <2>7 DEF popBlockFails
  <2>10. n.s[id] # None
    BY <1>2, <2>2, <2>8, <2>9
  <2> QED
    BY <2>2, <2>10 DEF id
<1> QED
  BY <1>3 DEF Present, n

-----------------------------------------------------------------------------
(* How a grant is judged.                                                  *)

\* What RegistryAllows asks, of a registry and a counter
Accepted(d, n, tx) ==
  /\ tx.property \in Id \ {TL_PROPERTY_VESTING} /\ tx.property < n
  /\ d.s[tx.property] # None
  /\ d.s[tx.property].manual /\ d.s[tx.property].issuer = tx.sender

\* What a registry that is right and complete says of a property of the chain.
LEMMA EntryOfCreated ==
  ASSUME VestingFirst, NEW b \in Block, NEW P \in SUBSET Positions(b), NEW n, NEW d,
         NEW q \in Creates(P), IdOf(q) < n, Owned(d, P, n), Present(d, P)
  PROVE  /\ IdOf(q) \in OwnId /\ d.s[IdOf(q)] # None
         /\ Describes(d.s[IdOf(q)], q)
<1> DEFINE id == IdOf(q)
<1>1. q \in Creates(Positions(b))
  BY DEF Creates
<1>2. id \in OwnId /\ d.s[id] # None
  BY <1>1, VestingIsFirst DEF Present, OwnId
<1>3. CreatedAs(d.s[id], id, P)
  BY <1>2 DEF Owned
<1> HIDE DEF id
<1>4. PICK r \in Creates(P) : IdOf(r) = id /\ Describes(d.s[id], r)
  BY <1>3 DEF CreatedAs
<1>5. r \in Creates(Positions(b))
  BY DEF Creates
<1>6. r = q
  BY <1>1, <1>4, <1>5, IdUnique DEF id
<1> QED
  BY <1>2, <1>4, <1>6 DEF id

\* The registry allows a grant only if the chain before it has the property and
\* the sender manages it.
LEMMA OwnedJudges ==
  ASSUME NEW d, NEW b \in Block, NEW i \in 1 .. Len(Txs[b]),
         Txs[b][i].type = "grant", Owned(d, Before(<<b, i>>), IdOf(<<b, i>>)),
         Accepted(d, IdOf(<<b, i>>), Txs[b][i])
  PROVE  \E q \in Creates(Before(<<b, i>>)) : GrantsProperty(<<b, i>>, q)
<1> DEFINE new == <<b, i>>
           P == Before(new)
           tx == Txs[b][i]
           id == tx.property
<1>1. TxAt(new) = tx /\ tx.type = "grant"
  BY DEF TxAt
<1>2. /\ id \in OwnId /\ id < IdOf(new) /\ d.s[id] # None
      /\ d.s[id].manual /\ d.s[id].issuer = tx.sender
  BY DEF Accepted, OwnId
<1>3. CreatedAs(d.s[id], id, P)
  BY <1>2 DEF Owned
<1> HIDE DEF new, P, tx
<1>4. PICK q \in Creates(P) : IdOf(q) = id /\ Describes(d.s[id], q)
  BY <1>3 DEF CreatedAs
<1>5. id # TL_PROPERTY_VESTING
  BY <1>2 DEF OwnId
<1>6. GrantsProperty(new, q)
  BY <1>1, <1>2, <1>4, <1>5 DEF GrantsProperty, Describes, P
<1> QED
  BY <1>4, <1>6 DEF P, new

\* With all the entries there, it then does.
LEMMA PresentJudges ==
  ASSUME VestingFirst, NEW d, NEW b \in Block, NEW i \in 1 .. Len(Txs[b]),
         Owned(d, Before(<<b, i>>), IdOf(<<b, i>>)), Present(d, Before(<<b, i>>)),
         NEW q \in Creates(Before(<<b, i>>)), GrantsProperty(<<b, i>>, q)
  PROVE  Accepted(d, IdOf(<<b, i>>), Txs[b][i])
<1> DEFINE new == <<b, i>>
           P == Before(new)
           tx == Txs[b][i]
           id == IdOf(q)
<1>1. TxAt(new) = tx /\ i \in Nat
  BY TreeFacts DEF TxAt
<1>2. /\ id = tx.property /\ id # TL_PROPERTY_VESTING
      /\ TxAt(q).manual /\ TxAt(q).sender = tx.sender
  BY <1>1 DEF GrantsProperty
<1>3. id < IdOf(new)
  BY <1>1, IdOrder
<1>4. P \subseteq Positions(b) /\ q \in Creates(P)
  BY <1>1, BeforeAt
<1>5. id \in OwnId /\ d.s[id] # None /\ Describes(d.s[id], q)
  <2> DEFINE n == IdOf(new)
  <2>1. IdOf(q) < n /\ Owned(d, P, n) /\ Present(d, P)
    BY <1>3
  <2> HIDE DEF new, P, n
  <2> QED
    BY <1>4, <2>1, EntryOfCreated
<1> HIDE DEF new, P, tx, id
<1> QED
  BY <1>2, <1>3, <1>5 DEF Accepted, Describes, OwnId, new, tx

-----------------------------------------------------------------------------
(* The handlers keep the registry right, crashes included, as long as the  *)
(* index holds the block of the watermark when the node starts.            *)

\* The block whose registry is on disk while no handler runs
Mark == IF db.watermark = None THEN Genesis ELSE db.watermark

WatermarkKnown == db.watermark \in known \cup {None}

\* Where the registry is that of the block `at`, whatever the watermark
Forward == {"save", "prune", "watermark", "next", "idle"}

\* The watermark stays on the branch of the block being handled.
TrackInv ==
  /\ pc \in {"pop", "popmark", "walk", "walkmark"} => db.watermark = at
  /\ pc \in {"read", "txs"} => Mark \in Branch[Parent[at]]
  /\ pc \in Forward => Mark \in Branch[at]
  /\ pc = "idle" /\ reorgRecoveryMode = 0 => at = tip

\* Each entry is that of a property of the branch; between a rollback and the
\* next block, and after a crash, of the branch of the watermark.
OwnersInv ==
  /\ UndoOwned(db)
  /\ pc = "read" => Owned(db, Before(<<at, 1>>), IdOf(<<at, 1>>))
  /\ pc = "txs" => Owned(db, Before(<<at, idx>>), IdOf(<<at, idx>>))
  /\ pc \in Forward => OwnedAt(db, at)
  /\ pc \notin Forward \cup {"read", "txs"} => OwnedAt(db, Mark)

Owning == TypeInv /\ SpidMemory /\ TrackInv /\ OwnersInv

\* What the cases below use of the types.
LEMMA OwningFacts ==
  ASSUME Owning
  PROVE  /\ tip \in Block /\ known \subseteq Block /\ reorgRecoveryMode \in {0, 1}
         /\ db \in Database /\ pc \in Phase /\ at \in Block /\ idx \in Nat \ {0}
         /\ connecting \in Block \cup {None} /\ None \notin Block
         /\ Active \subseteq Block /\ db.watermark \in Block \cup {None}
         /\ Mark \in Block /\ next_spid \in Nat
         /\ SpidMemory /\ TrackInv /\ OwnersInv /\ ControlInv
<1>1. /\ tip \in Block /\ known \subseteq Block /\ reorgRecoveryMode \in {0, 1}
      /\ db \in Database /\ pc \in Phase /\ at \in Block /\ idx \in Nat \ {0}
      /\ connecting \in Block \cup {None} /\ next_spid \in Nat
  BY DEF Owning, TypeInv, TypeOK, ChainOK, MemoryOK, ReorgOK, StoredOK, ControlOK
<1>2. Active \subseteq Block /\ db.watermark \in Block \cup {None}
  BY <1>1, TreeFacts DEF Active, Database, BlockHash
<1> QED
  BY <1>1, <1>2, TreeFacts DEF Mark, Owning, TypeInv

\* A transaction writes one entry at most and no watermark.
LEMMA TxWrites ==
  ASSUME db \in Database, at \in Block, idx \in Nat \ {0}, ProcessTx
  PROVE  /\ pc = "txs" /\ pc' = "txs" /\ at' = at /\ idx' = idx + 1
         /\ idx \in 1 .. Len(Txs[at]) /\ db'.watermark = db.watermark
<1>1. /\ pc = "txs" /\ pc' = "txs" /\ at' = at /\ idx' = idx + 1 /\ idx <= Len(Txs[at])
  BY DEF ProcessTx
<1>2. idx \in 1 .. Len(Txs[at])
  BY <1>1, TreeFacts
<1>3. db'.watermark = db.watermark
  BY WatermarkKept DEF ProcessTx
<1> QED
  BY <1>1, <1>2, <1>3

\* Every step keeps the watermark on the branch.
LEMMA StepTrack ==
  ASSUME Owning, WatermarkKnown, VestingFirst, [Next]_vars, ~broken'
  PROVE  TrackInv'
<1>0. /\ tip \in Block /\ known \subseteq Block /\ reorgRecoveryMode \in {0, 1}
      /\ db \in Database /\ at \in Block /\ idx \in Nat \ {0}
      /\ connecting \in Block \cup {None} /\ None \notin Block
      /\ Active \subseteq Block /\ Mark \in Block /\ SpidMemory /\ TrackInv /\ ControlInv
  BY OwningFacts
<1>1. CASE ProcessTx
  <2>1. pc = "txs" /\ pc' = "txs" /\ at' = at /\ db'.watermark = db.watermark
    BY <1>0, <1>1, TxWrites
  <2>2. Mark' = Mark /\ Mark \in Branch[Parent[at]]
    BY <1>0, <2>1 DEF Mark, TrackInv
  <2> QED
    BY <2>1, <2>2 DEF TrackInv, Forward
<1>2. CASE BlockEnd
  <2>1. pc = "txs" /\ pc' \in {"save", "next"} /\ at' = at /\ db' = db
    BY <1>2 DEF BlockEnd, stored
  <2>2. Mark' = Mark /\ Mark \in Branch[Parent[at]] /\ at # Genesis
    BY <1>0, <2>1 DEF Mark, TrackInv, ControlInv
  <2>3. Branch[at] = Branch[Parent[at]] \cup {at}
    BY <1>0, <2>2, BlockTree
  <2> QED
    BY <2>1, <2>2, <2>3 DEF TrackInv, Forward
<1>3. CASE WriteStateFile \/ PruneStateFiles
  <2>1. /\ pc \in {"save", "prune"} /\ pc' \in {"save", "prune", "watermark"}
        /\ at' = at /\ db' = db
    BY <1>3 DEF WriteStateFile, PruneStateFiles
  <2>2. Mark' = Mark /\ Mark \in Branch[at]
    BY <1>0, <2>1 DEF Mark, TrackInv, Forward
  <2> QED
    BY <2>1, <2>2 DEF TrackInv, Forward
<1>4. CASE SetWatermark
  <2>1. pc' = "next" /\ at' = at /\ db' = setWatermark(db, at)
    BY <1>4 DEF SetWatermark
  <2>2. Mark' = at
    BY <1>0, <2>1, WatermarkKept DEF Mark
  <2> QED
    BY <1>0, <2>1, <2>2, TreeFacts DEF TrackInv, Forward
<1>5. CASE FindWatermark
  <2>1. db' = db /\ (pc' = "clear" \/ (pc' = "pop" /\ at' = db.watermark))
    BY <1>0, <1>5 DEF FindWatermark, WatermarkKnown
  <2> QED
    BY <2>1 DEF TrackInv, Forward
<1>6. CASE PopInactive \/ WalkBack
  <2>1. /\ pc \in {"pop", "walk"} /\ pc' \in {"popmark", "walkmark", "clear"} /\ at' = at
        /\ db' = db \/ db' = popBlock(db, at)
    BY <1>6 DEF PopInactive, WalkBack, PopAnd, stored
  <2>2. db'.watermark = at
    BY <1>0, <2>1, WatermarkKept DEF TrackInv
  <2> QED
    BY <2>1, <2>2 DEF TrackInv, Forward
<1>7. CASE PopMark \/ WalkMark
  <2>1. pc' \in {"pop", "walk", "clear"} /\ at' = Parent[at]
        /\ db' = setWatermark(db, Parent[at])
    BY <1>7 DEF PopMark, WalkMark
  <2>2. db'.watermark = at'
    BY <1>0, <2>1, WatermarkKept
  <2> QED
    BY <2>1, <2>2 DEF TrackInv, Forward
<1>8. CASE LoadStateFiles \/ LoadFails \/ NoFilesFound
  <2>1. pc = "pop" /\ pc' \in {"next", "walk", "clear"} /\ at' = at /\ db' = db
    BY <1>8 DEF LoadStateFiles, LoadFails, NoFilesFound, stored
  <2>2. db.watermark = at /\ Mark = at /\ Mark' = at
    BY <1>0, <2>1 DEF TrackInv, Mark
  <2> QED
    BY <1>0, <2>1, <2>2, TreeFacts DEF TrackInv, Forward
<1>9. CASE ClearAllState
  <2>1. pc' = "next" /\ at' = Genesis /\ db' = EmptyDatabase
    BY <1>9 DEF ClearAllState
  <2>2. Mark' = Genesis
    BY <2>1 DEF Mark, EmptyDatabase
  <2> QED
    BY <2>1, <2>2, TreeFacts DEF TrackInv, Forward
<1>10. ASSUME NEW b \in Block \ {Genesis}, BlockBegin(b), Mark \in Branch[Parent[b]],
              next_spid = NextId(Parent[b]), pc' \in {"read", "txs"}, at' = b
       PROVE  TrackInv'
  <2>1. db'.watermark = db.watermark
    BY <1>0, <1>10, BeginKeeps
  <2>2. Mark' = Mark
    BY <2>1 DEF Mark
  <2> QED
    BY <1>10, <2>2 DEF TrackInv, Forward
<1>11. CASE ScanBlock
  <2>1. pc = "next" /\ Mark \in Branch[at] /\ next_spid = NextId(at)
    BY <1>0, <1>11 DEF ScanBlock, TrackInv, Forward, SpidMemory
  <2>2. PICK b \in Active \ {Genesis} : Parent[b] = at /\ at' = b
    BY <1>11 DEF ScanBlock
  <2>3. b \in Block \ {Genesis} /\ BlockBegin(b) /\ pc' = "read"
    BY <1>0, <1>11, <2>2 DEF ScanBlock
  <2> QED
    BY <1>10, <2>1, <2>2, <2>3
<1>18. CASE ReadBlockFromDisk
  <2>1. pc = "read" /\ pc' = "txs" /\ at' = at /\ db' = db
    BY <1>18 DEF ReadBlockFromDisk, stored
  <2>2. Mark' = Mark /\ Mark \in Branch[Parent[at]]
    BY <1>0, <2>1 DEF Mark, TrackInv
  <2> QED
    BY <2>1, <2>2 DEF TrackInv, Forward
<1>19. CASE ScanEnds
  <2>1. pc = "next" /\ at = tip
    BY <1>19 DEF ScanEnds
  <2>2. Mark \in Branch[at] /\ next_spid = NextId(at)
    BY <1>0, <2>1 DEF TrackInv, Forward, SpidMemory
  <2>3. CASE connecting # None /\ Process(connecting)
    <3>1. connecting \in Block \ {Genesis} /\ Parent[connecting] = at
      BY <1>0, <2>1, <2>3 DEF ControlInv
    <3>2. BlockBegin(connecting) /\ pc' = "txs" /\ at' = connecting
      BY <2>3 DEF Process
    <3> QED
      BY <1>10, <2>2, <3>1, <3>2
  <2>4. CASE pc' = "idle" /\ UNCHANGED <<tip, at, db>>
    BY <2>1, <2>2, <2>4 DEF TrackInv, Forward, Mark
  <2> QED
    BY <1>19, <2>3, <2>4 DEF ScanEnds
<1>12. CASE Start
  BY <1>12 DEF Start, TrackInv, Forward
<1>13. CASE DisconnectTip
  <2>1. pc = "idle" /\ pc' = "idle" /\ at' = at /\ db' = db /\ reorgRecoveryMode' = 1
    BY <1>13 DEF DisconnectTip, disc_begin, stored, control
  <2> QED
    BY <1>0, <2>1 DEF TrackInv, Forward, Mark
<1>14. ASSUME NEW b \in Block, ConnectTip(b) PROVE TrackInv'
  <2>1. pc = "idle" /\ b \in Block \ {Genesis} /\ Parent[b] = tip
    BY <1>14 DEF ConnectTip
  <2>2. CASE reorgRecoveryMode > 0
    <3>1. pc' = "load"
      BY <1>14, <2>2 DEF ConnectTip
    <3> QED
      BY <3>1 DEF TrackInv, Forward
  <2>3. CASE ~(reorgRecoveryMode > 0)
    <3>1. reorgRecoveryMode = 0 /\ BlockBegin(b) /\ pc' = "txs" /\ at' = b
      BY <1>0, <1>14, <2>3 DEF ConnectTip, Process
    <3>2. Mark \in Branch[Parent[b]] /\ next_spid = NextId(Parent[b])
      BY <1>0, <2>1, <3>1 DEF TrackInv, Forward, SpidMemory
    <3> QED
      BY <1>10, <2>1, <3>1, <3>2
  <2> QED
    BY <2>2, <2>3
<1>15. CASE Crash \/ Shutdown
  BY <1>15 DEF Crash, Shutdown, Down, TrackInv, Forward
<1>16. CASE UNCHANGED vars
  BY <1>0, <1>16 DEF vars, chain, reorg, stored, control, TrackInv, Mark
<1>17. CASE RequestShutdown
  <2>1. UNCHANGED <<pc, at, tip, reorgRecoveryMode, db>>
    BY <1>17 DEF RequestShutdown, chain, reorg, stored, control
  <2> QED
    BY <1>0, <2>1 DEF TrackInv, Mark
<1> QED
  BY <1>1, <1>2, <1>3, <1>4, <1>5, <1>6, <1>7, <1>8, <1>9, <1>11, <1>12, <1>13, <1>14,
     <1>15, <1>16, <1>17, <1>18, <1>19 DEF Next, Handlers, Environment

\* What the i-th transaction of block b makes of the registry d, with the
\* identifier the chain determines
TxEffect(d, n, b, i) ==
  LET tx == Txs[b][i]
      due == IdOf(<<b, i>>)
  IN  \/ /\ tx.type = "create" /\ due \in Id
         /\ n = putSP(d, due, [txid |-> tx.txid, issuer |-> tx.sender,
                               manual |-> tx.manual,
                               creation_block |-> b, update_block |-> b])
      \/ /\ tx.type = "grant" /\ Accepted(d, due, tx)
         /\ n = updateSP(d, tx.property,
                  [d.s[tx.property] EXCEPT !.update_block = b])
      \/ tx.type = "grant" /\ n = d

\* It is what ProcessTx does.
LEMMA ProcessTxEffect ==
  ASSUME pc = "txs", SpidMemory, ProcessTx
  PROVE  TxEffect(db, db', at, idx)
<1> DEFINE tx == Txs[at][idx]
<1>1. next_spid = IdOf(<<at, idx>>)
  BY DEF SpidMemory
<1>2. RegistryAllows(tx) <=> Accepted(db, next_spid, tx)
  BY DEF RegistryAllows, Accepted
<1>3. \/ /\ tx.type = "create" /\ next_spid \in Id
         /\ db' = putSP(db, next_spid, [txid |-> tx.txid, issuer |-> tx.sender,
                                        manual |-> tx.manual,
                                        creation_block |-> at, update_block |-> at])
      \/ /\ tx.type = "grant" /\ RegistryAllows(tx)
         /\ db' = updateSP(db, tx.property,
                    [db.s[tx.property] EXCEPT !.update_block = at])
      \/ tx.type = "grant" /\ db' = db
  BY DEF ProcessTx
<1> QED
  BY <1>1, <1>2, <1>3 DEF TxEffect

\* A transaction keeps a right registry right, and all of it there.
LEMMA OwnedTx ==
  ASSUME NEW d \in Database, NEW n, NEW b \in Block, NEW i \in 1 .. Len(Txs[b]),
         TxEffect(d, n, b, i)
  PROVE  /\ UndoOwned(d) /\ Owned(d, Before(<<b, i>>), IdOf(<<b, i>>)) =>
              UndoOwned(n) /\ Owned(n, Before(<<b, i + 1>>), IdOf(<<b, i + 1>>))
         /\ Present(d, Before(<<b, i>>)) => Present(n, Before(<<b, i + 1>>))
<1> DEFINE tx == Txs[b][i]
           due == IdOf(<<b, i>>)
           new == [txid |-> tx.txid, issuer |-> tx.sender, manual |-> tx.manual,
                   creation_block |-> b, update_block |-> b]
           id == tx.property
           e == [d.s[id] EXCEPT !.update_block = b]
<1>1. tx \in TxRecord
  <2>1. Txs[b] \in Seq(TxRecord)
    BY TreeFacts
  <2> QED
    BY <2>1
<1>2. CASE tx.type = "create" /\ due \in Id /\ n = putSP(d, due, new)
  <2>1. new \in Entry
    BY <1>1 DEF Entry, TxRecord, TxHash, BlockHash
  <2>2. Describes(new, <<b, i>>)
    BY DEF Describes, TxAt
  <2> HIDE DEF new
  <2> QED
    BY <1>2, <2>1, <2>2, OwnedCreate, PresentCreate
<1>3. CASE tx.type = "grant" /\ Accepted(d, due, tx) /\ n = updateSP(d, id, e)
  <2>1. id \in OwnId /\ id \in Id /\ id < due /\ d.s[id] # None
    BY <1>3 DEF Accepted, OwnId
  <2>2. d.s[id] \in Entry
    BY <2>1 DEF Database
  <2>3. /\ e \in Entry /\ e.update_block = b
        /\ \A q : Describes(d.s[id], q) => Describes(e, q)
    <3>1. e \in Entry
      BY <2>2, GrantType
    <3>2. /\ e.update_block = b /\ e.txid = d.s[id].txid
          /\ e.issuer = d.s[id].issuer /\ e.manual = d.s[id].manual
          /\ e.creation_block = d.s[id].creation_block
      BY <2>2 DEF Entry
    <3>3. \A q : Describes(d.s[id], q) => Describes(e, q)
      BY <3>2 DEF Describes
    <3> QED
      BY <3>1, <3>2, <3>3
  <2> HIDE DEF e
  <2>4. UndoOwned(d) /\ Owned(d, Before(<<b, i>>), due) =>
          UndoOwned(n) /\ Owned(n, Before(<<b, i>>), due)
    BY <1>3, <2>1, <2>3, OwnedGrant
  <2>5. Present(d, Before(<<b, i>>)) => Present(n, Before(<<b, i>>))
    BY <1>3, <2>1, <2>3, PresentGrant DEF BlockHash
  <2> QED
    BY <1>3, <2>4, <2>5, OwnedSame, PresentSame
<1>4. CASE tx.type = "grant" /\ n = d
  BY <1>4, OwnedSame, PresentSame
<1> QED
  BY <1>2, <1>3, <1>4 DEF TxEffect

\* Every step keeps the entries those of the branch.
LEMMA StepOwners ==
  ASSUME Owning, WatermarkKnown, VestingFirst, [Next]_vars, ~broken'
  PROVE  OwnersInv'
<1>0. /\ tip \in Block /\ known \subseteq Block /\ reorgRecoveryMode \in {0, 1}
      /\ db \in Database /\ pc \in Phase /\ at \in Block /\ idx \in Nat \ {0}
      /\ connecting \in Block \cup {None} /\ None \notin Block
      /\ Active \subseteq Block /\ Mark \in Block
      /\ SpidMemory /\ TrackInv /\ OwnersInv /\ ControlInv
  BY OwningFacts
<1>a. UndoOwned(db)
  BY <1>0 DEF OwnersInv
<1>1. CASE ProcessTx
  <2>1. /\ pc = "txs" /\ pc' = "txs" /\ at' = at /\ idx' = idx + 1
        /\ idx \in 1 .. Len(Txs[at])
    BY <1>0, <1>1, TxWrites
  <2>2. TxEffect(db, db', at, idx)
    BY <1>0, <1>1, <2>1, ProcessTxEffect
  <2>3. Owned(db, Before(<<at, idx>>), IdOf(<<at, idx>>))
    BY <1>0, <2>1 DEF OwnersInv
  <2>4. UndoOwned(db') /\ Owned(db', Before(<<at, idx + 1>>), IdOf(<<at, idx + 1>>))
    BY <1>0, <1>a, <2>1, <2>2, <2>3, OwnedTx
  <2> QED
    BY <2>1, <2>4 DEF OwnersInv, Forward
<1>2. CASE BlockEnd
  <2>1. /\ pc = "txs" /\ idx > Len(Txs[at]) /\ pc' \in {"save", "next"}
        /\ at' = at /\ db' = db
    BY <1>2 DEF BlockEnd, stored
  <2>2. OwnedAt(db, at)
    BY <1>0, <2>1, OwnedLast DEF OwnersInv
  <2> QED
    BY <1>a, <2>1, <2>2 DEF OwnersInv, Forward
<1>3. CASE WriteStateFile \/ PruneStateFiles
  <2>1. /\ pc \in {"save", "prune"} /\ pc' \in {"save", "prune", "watermark"}
        /\ at' = at /\ db' = db
    BY <1>3 DEF WriteStateFile, PruneStateFiles
  <2> QED
    BY <1>0, <2>1 DEF OwnersInv, Forward
<1>4. CASE SetWatermark
  <2>1. pc = "watermark" /\ pc' = "next" /\ at' = at /\ db' = setWatermark(db, at)
    BY <1>4 DEF SetWatermark
  <2>2. OwnedAt(db, at)
    BY <1>0, <2>1 DEF OwnersInv, Forward
  <2>3. OwnedAt(db', at) /\ UndoOwned(db')
    BY <1>0, <1>a, <2>1, <2>2, OwnedWatermark
  <2> QED
    BY <2>1, <2>3 DEF OwnersInv, Forward
<1>5. CASE FindWatermark
  <2>1. pc = "load" /\ db' = db /\ pc' \in {"clear", "pop"}
    BY <1>0, <1>5 DEF FindWatermark, WatermarkKnown
  <2>2. OwnedAt(db, Mark) /\ Mark' = Mark
    BY <1>0, <2>1 DEF OwnersInv, Forward, Mark
  <2> QED
    BY <1>a, <2>1, <2>2 DEF OwnersInv, Forward
<1>6. CASE PopInactive \/ WalkBack
  <2>1. /\ pc \in {"pop", "walk"} /\ pc' \in {"popmark", "walkmark", "clear"}
        /\ db' = db \/ db' = popBlock(db, at)
    BY <1>6 DEF PopInactive, WalkBack, PopAnd, stored
  <2>2. db.watermark = at /\ Mark = at
    BY <1>0, <2>1 DEF TrackInv, Mark
  <2>3. OwnedAt(db, at)
    BY <1>0, <2>1, <2>2 DEF OwnersInv, Forward
  <2>4. OwnedAt(popBlock(db, at), at) /\ UndoOwned(popBlock(db, at))
    BY <1>0, <1>a, <2>3, OwnedPop
  <2>5. OwnedAt(db', at) /\ UndoOwned(db')
    BY <1>a, <2>1, <2>3, <2>4
  <2>6. Mark' = at
    BY <1>0, <2>1, <2>2, WatermarkKept DEF Mark
  <2> QED
    BY <2>1, <2>5, <2>6 DEF OwnersInv, Forward
<1>7. CASE PopMark \/ WalkMark
  <2>1. /\ pc \in {"popmark", "walkmark"} /\ pc' \in {"pop", "walk", "clear"}
        /\ db' = setWatermark(db, Parent[at])
    BY <1>7 DEF PopMark, WalkMark
  <2>2. at # Genesis /\ Mark = at
    BY <1>0, <2>1 DEF TrackInv, Mark, ControlInv
  <2>3. Parent[at] \in Block /\ Parent[at] \in Branch[at]
    BY <1>0, <2>2, TreeFacts
  <2>4. OwnedAt(db, at)
    BY <1>0, <2>1, <2>2 DEF OwnersInv, Forward
  <2>5. OwnedAt(db, Parent[at])
    BY <1>0, <2>3, <2>4, OwnedBelow
  <2>6. OwnedAt(db', Parent[at]) /\ UndoOwned(db')
    BY <1>0, <1>a, <2>1, <2>3, <2>5, OwnedWatermark
  <2>7. Mark' = Parent[at]
    BY <1>0, <2>1, <2>3, WatermarkKept DEF Mark
  <2> QED
    BY <2>1, <2>6, <2>7 DEF OwnersInv, Forward
<1>8. CASE LoadStateFiles \/ LoadFails \/ NoFilesFound
  <2>1. pc = "pop" /\ pc' \in {"next", "walk", "clear"} /\ at' = at /\ db' = db
    BY <1>8 DEF LoadStateFiles, LoadFails, NoFilesFound, stored
  <2>2. Mark = at /\ Mark' = at
    BY <1>0, <2>1 DEF TrackInv, Mark
  <2>3. OwnedAt(db, at)
    BY <1>0, <2>1, <2>2 DEF OwnersInv, Forward
  <2> QED
    BY <1>a, <2>1, <2>2, <2>3 DEF OwnersInv, Forward
<1>9. CASE ClearAllState
  <2>1. pc' = "next" /\ at' = Genesis /\ db' = EmptyDatabase
    BY <1>9 DEF ClearAllState
  <2> QED
    BY <2>1, OwnedEmpty DEF OwnersInv, Forward
<1>10. ASSUME NEW b \in Block \ {Genesis}, BlockBegin(b), OwnedAt(db, Parent[b]),
              next_spid = NextId(Parent[b]), at' = b,
              pc' = "read" \/ (pc' = "txs" /\ idx' = 1)
       PROVE  OwnersInv'
  <2>1. Owned(db', Before(<<b, 1>>), IdOf(<<b, 1>>)) /\ UndoOwned(db')
    BY <1>0, <1>a, <1>10, BeginKeeps
  <2> QED
    BY <1>10, <2>1 DEF OwnersInv, Forward
<1>11. CASE ScanBlock
  <2>1. pc = "next" /\ OwnedAt(db, at) /\ next_spid = NextId(at)
    BY <1>0, <1>11 DEF ScanBlock, OwnersInv, Forward, SpidMemory
  <2>2. PICK b \in Active \ {Genesis} : Parent[b] = at /\ at' = b
    BY <1>11 DEF ScanBlock
  <2>3. b \in Block \ {Genesis} /\ BlockBegin(b) /\ pc' = "read"
    BY <1>0, <1>11, <2>2 DEF ScanBlock
  <2> QED
    BY <1>10, <2>1, <2>2, <2>3
<1>18. CASE ReadBlockFromDisk
  <2>1. pc = "read" /\ pc' = "txs" /\ at' = at /\ idx' = 1 /\ db' = db
    BY <1>18 DEF ReadBlockFromDisk, stored
  <2>2. Owned(db, Before(<<at, 1>>), IdOf(<<at, 1>>))
    BY <1>0, <2>1 DEF OwnersInv
  <2> QED
    BY <1>a, <2>1, <2>2 DEF OwnersInv, Forward
<1>19. CASE ScanEnds
  <2>1. pc = "next" /\ at = tip
    BY <1>19 DEF ScanEnds
  <2>2. OwnedAt(db, at) /\ next_spid = NextId(at)
    BY <1>0, <2>1 DEF OwnersInv, Forward, SpidMemory
  <2>3. CASE connecting # None /\ Process(connecting)
    <3>1. connecting \in Block \ {Genesis} /\ Parent[connecting] = at
      BY <1>0, <2>1, <2>3 DEF ControlInv
    <3>2. BlockBegin(connecting) /\ pc' = "txs" /\ at' = connecting /\ idx' = 1
      BY <2>3 DEF Process
    <3> QED
      BY <1>10, <2>2, <3>1, <3>2
  <2>4. CASE pc' = "idle" /\ at' = at /\ db' = db
    BY <1>a, <2>2, <2>4 DEF OwnersInv, Forward
  <2> QED
    BY <1>19, <2>3, <2>4 DEF ScanEnds
<1>12. ASSUME pc' \notin Forward \cup {"read", "txs"}, db' = db
       PROVE  OwnersInv'
  <2>1. OwnedAt(db, Mark)
    <3>1. CASE pc \in {"read", "txs"}
      <4>1. at # Genesis /\ Mark \in Branch[Parent[at]]
        BY <1>0, <3>1 DEF ControlInv, TrackInv
      <4>2. /\ Branch[at] = Branch[Parent[at]] \cup {at} /\ at \notin Branch[Parent[at]]
        BY <1>0, <4>1, BlockTree
      <4>3. Mark \in Branch[at] /\ Mark # at /\ idx \in Nat
        BY <1>0, <4>1, <4>2
      <4>4. \E i \in Nat : Owned(db, Before(<<at, i>>), IdOf(<<at, i>>))
        BY <1>0, <3>1 DEF OwnersInv
      <4> QED
        BY <1>0, <4>3, <4>4, OwnedEarlier
    <3>2. CASE pc \in Forward
      <4>1. Mark \in Branch[at] /\ OwnedAt(db, at)
        BY <1>0, <3>2 DEF OwnersInv, TrackInv
      <4> QED
        BY <1>0, <4>1, OwnedBelow
    <3>3. CASE pc \notin Forward \cup {"read", "txs"}
      BY <1>0, <3>3 DEF OwnersInv
    <3> QED
      BY <3>1, <3>2, <3>3
  <2>2. Mark' = Mark
    BY <1>12 DEF Mark
  <2> QED
    BY <1>a, <1>12, <2>1, <2>2 DEF OwnersInv, Forward
<1>13. CASE Start \/ Crash \/ Shutdown
  <2>1. pc' \in {"load", "down"} /\ db' = db
    BY <1>13 DEF Start, Crash, Shutdown, Down, stored
  <2> QED
    BY <1>12, <2>1 DEF Forward
<1>14. CASE DisconnectTip
  <2>1. pc = "idle" /\ pc' = "idle" /\ at' = at /\ db' = db
    BY <1>14 DEF DisconnectTip, stored, control
  <2> QED
    BY <1>0, <2>1 DEF OwnersInv, Forward
<1>15. ASSUME NEW b \in Block, ConnectTip(b) PROVE OwnersInv'
  <2>1. pc = "idle" /\ b \in Block \ {Genesis} /\ Parent[b] = tip
    BY <1>15 DEF ConnectTip
  <2>2. CASE reorgRecoveryMode > 0
    <3>1. pc' = "load" /\ db' = db
      BY <1>15, <2>2 DEF ConnectTip
    <3> QED
      BY <1>12, <3>1 DEF Forward
  <2>3. CASE ~(reorgRecoveryMode > 0)
    <3>1. reorgRecoveryMode = 0 /\ BlockBegin(b) /\ pc' = "txs" /\ at' = b /\ idx' = 1
      BY <1>0, <1>15, <2>3 DEF ConnectTip, Process
    <3>2. at = tip /\ next_spid = NextId(tip)
      BY <1>0, <2>1, <3>1 DEF TrackInv, SpidMemory
    <3>3. OwnedAt(db, Parent[b])
      BY <1>0, <2>1, <3>2 DEF OwnersInv, Forward
    <3> QED
      BY <1>10, <2>1, <3>1, <3>2, <3>3
  <2> QED
    BY <2>2, <2>3
<1>16. CASE UNCHANGED vars
  BY <1>0, <1>16 DEF vars, stored, control, OwnersInv, Mark
<1>17. CASE RequestShutdown
  <2>1. UNCHANGED <<pc, at, idx, db>>
    BY <1>17 DEF RequestShutdown, stored, control
  <2> QED
    BY <1>0, <2>1 DEF OwnersInv, Mark
<1> QED
  BY <1>1, <1>2, <1>3, <1>4, <1>5, <1>6, <1>7, <1>8, <1>9, <1>11, <1>13, <1>14, <1>15,
     <1>16, <1>17, <1>18, <1>19 DEF Next, Handlers, Environment

\* While the index on disk is the one in memory, it holds the blocks of the
\* watermark, of the tip and of the one being connected.
KnownInv ==
  /\ tip \in known /\ {db.watermark, connecting} \subseteq known \cup {None}
  /\ \A b \in known : Branch[b] \subseteq known

\* The watermark, the tip and their ancestors stay in the block index.
LEMMA StepKnown ==
  ASSUME Owning, KnownInv, VestingFirst, "crash" \notin Failures, [Next]_vars, ~broken'
  PROVE  KnownInv'
<1>0. /\ tip \in Block /\ known \subseteq Block /\ db \in Database /\ at \in Block
      /\ idx \in Nat \ {0} /\ reorgRecoveryMode \in {0, 1}
      /\ connecting \in Block \cup {None} /\ None \notin Block
      /\ SpidMemory /\ TrackInv /\ ControlInv
  BY OwningFacts
<1>b. Active \subseteq known
  BY DEF KnownInv, Active
<1>1. CASE UNCHANGED <<tip, known, connecting>> /\ db'.watermark \in known \cup {None}
  BY <1>0, <1>1 DEF KnownInv
<1>2. CASE ProcessTx
  <2>1. db'.watermark = db.watermark /\ UNCHANGED <<tip, known, connecting>>
    BY <1>0, <1>2, TxWrites DEF ProcessTx, chain
  <2> QED
    BY <1>0, <1>1, <2>1 DEF KnownInv
<1>3. CASE \/ BlockEnd \/ WriteStateFile \/ PruneStateFiles \/ LoadStateFiles
           \/ LoadFails \/ NoFilesFound \/ Start \/ RequestShutdown
           \/ ReadBlockFromDisk \/ UNCHANGED vars
  <2>1. UNCHANGED <<tip, known, connecting, db>>
    BY <1>3 DEF BlockEnd, WriteStateFile, PruneStateFiles, LoadStateFiles,
       LoadFails, NoFilesFound, Start, RequestShutdown, ReadBlockFromDisk, vars, chain,
       control, stored
  <2> QED
    BY <1>0, <1>1, <2>1 DEF KnownInv
<1>4. CASE SetWatermark
  <2>1. db'.watermark = at /\ at \in Active /\ UNCHANGED <<tip, known, connecting>>
    BY <1>0, <1>4, WatermarkKept DEF SetWatermark, chain, ControlInv
  <2> QED
    BY <1>b, <1>1, <2>1
<1>5. CASE FindWatermark
  <2>1. db' = db /\ UNCHANGED <<tip, known, connecting>>
    BY <1>0, <1>5 DEF FindWatermark, chain, KnownInv
  <2> QED
    BY <1>0, <1>1, <2>1 DEF KnownInv
<1>6. CASE PopInactive \/ WalkBack
  <2>1. db'.watermark = db.watermark /\ UNCHANGED <<tip, known, connecting>>
    BY <1>0, <1>6, WatermarkKept DEF PopInactive, WalkBack, PopAnd, chain, stored
  <2> QED
    BY <1>0, <1>1, <2>1 DEF KnownInv
<1>7. CASE PopMark \/ WalkMark
  <2>1. /\ db'.watermark = Parent[at] /\ UNCHANGED <<tip, known, connecting>>
        /\ pc \in {"popmark", "walkmark"}
    BY <1>0, <1>7, WatermarkKept DEF PopMark, WalkMark, chain
  <2>2. at \in known /\ at # Genesis
    BY <1>0, <2>1 DEF TrackInv, ControlInv, KnownInv
  <2>3. Parent[at] \in known
    BY <1>0, <2>2, TreeFacts DEF KnownInv
  <2> QED
    BY <1>1, <2>1, <2>3
<1>8. CASE ClearAllState
  <2>1. db'.watermark = None /\ UNCHANGED <<tip, known, connecting>>
    BY <1>8 DEF ClearAllState, EmptyDatabase, chain
  <2> QED
    BY <1>1, <2>1
<1>9. ASSUME NEW b \in Block \ {Genesis}, BlockBegin(b), next_spid = NextId(Parent[b])
      PROVE  db'.watermark = db.watermark
  BY <1>0, <1>9, BeginKeeps
<1>10. CASE ScanBlock
  <2>1. pc = "next" /\ next_spid = NextId(at) /\ UNCHANGED <<tip, known, connecting>>
    BY <1>0, <1>10 DEF ScanBlock, SpidMemory, chain
  <2>2. PICK b \in Active \ {Genesis} : Parent[b] = at /\ at' = b
    BY <1>10 DEF ScanBlock
  <2>3. b \in Block \ {Genesis} /\ BlockBegin(b)
    BY <1>0, <1>b, <1>10, <2>2 DEF ScanBlock
  <2>4. db'.watermark = db.watermark
    BY <1>9, <2>1, <2>2, <2>3
  <2> QED
    BY <1>1, <2>1, <2>4 DEF KnownInv
<1>14. CASE ScanEnds
  <2>1. pc = "next" /\ at = tip /\ known' = known /\ next_spid = NextId(at)
    BY <1>0, <1>14 DEF ScanEnds, SpidMemory
  <2>2. CASE connecting # None /\ Process(connecting)
    <3>1. /\ connecting \in Block \ {Genesis} /\ Parent[connecting] = at
          /\ BlockBegin(connecting) /\ tip' = connecting /\ connecting' = None
      BY <1>0, <2>1, <2>2 DEF Process, ControlInv
    <3>2. db'.watermark = db.watermark
      BY <1>9, <2>1, <3>1
    <3> QED
      BY <1>0, <2>1, <2>2, <3>1, <3>2 DEF KnownInv
  <2>3. CASE UNCHANGED <<tip, connecting, db>>
    BY <1>1, <2>1, <2>3 DEF KnownInv
  <2> QED
    BY <1>14, <2>2, <2>3 DEF ScanEnds
<1>15. CASE Shutdown
  BY <1>15 DEF Shutdown, Down, KnownInv
<1>11. CASE DisconnectTip
  <2>1. /\ tip' = Parent[tip] /\ tip # Genesis /\ db' = db
        /\ UNCHANGED <<known, connecting>>
    BY <1>11 DEF DisconnectTip, stored, control
  <2>2. Parent[tip] \in known
    BY <1>0, <2>1, TreeFacts DEF KnownInv
  <2> QED
    BY <1>0, <2>1, <2>2 DEF KnownInv
<1>12. ASSUME NEW b \in Block, ConnectTip(b) PROVE KnownInv'
  <2>1. /\ b # Genesis /\ Parent[b] = tip /\ known' = known \cup {b}
        /\ connecting' \in {b, None} /\ tip' \in {tip, b}
    BY <1>12 DEF ConnectTip, Process
  <2>2. db'.watermark = db.watermark
    <3>1. CASE reorgRecoveryMode > 0
      BY <1>12, <3>1 DEF ConnectTip
    <3>2. CASE ~(reorgRecoveryMode > 0)
      <4>1. BlockBegin(b) /\ next_spid = NextId(tip)
        BY <1>0, <1>12, <3>2 DEF ConnectTip, Process, SpidMemory
      <4> QED
        BY <1>9, <2>1, <4>1
    <3> QED
      BY <3>1, <3>2
  <2>3. Branch[b] = Branch[tip] \cup {b}
    BY <2>1, BlockTree
  <2>4. \A c \in known' : Branch[c] \subseteq known'
    BY <1>0, <2>1, <2>3 DEF KnownInv
  <2> QED
    BY <1>0, <2>1, <2>2, <2>4 DEF KnownInv
<1>13. ~Crash
  BY DEF Crash, MayFail
<1> QED
  BY <1>2, <1>3, <1>4, <1>5, <1>6, <1>7, <1>8, <1>10, <1>11, <1>12, <1>13,
     <1>14, <1>15 DEF Next, Handlers, Environment

\* On a node that does not crash all the entries are there: those of the block
\* being handled, and during a rollback those of the watermark.
PresentInv ==
  /\ pc = "read" => Present(db, Before(<<at, 1>>))
  /\ pc = "txs" => Present(db, Before(<<at, idx>>))
  /\ pc \in Forward => Present(db, Positions(at))
  /\ pc \in {"down", "load", "pop", "walk"} => Present(db, Positions(Mark))
  /\ pc \in {"popmark", "walkmark"} => Present(db, Positions(Parent[at]))

\* A registry that has the entries of a block has those of its branch.
LEMMA PresentBelow ==
  ASSUME NEW b \in Block, NEW m \in Branch[b], NEW d, Present(d, Positions(b))
  PROVE  Present(d, Positions(m))
<1>1. m \in Block /\ Branch[m] \subseteq Branch[b]
  BY BranchOrder
<1>2. Positions(m) \subseteq Positions(b)
  BY <1>1 DEF Positions
<1> QED
  BY <1>2 DEF Present, Creates

\* Without crashes every step keeps them.
LEMMA StepPresent ==
  ASSUME Owning, WatermarkKnown, PresentInv, "crash" \notin Failures,
         VestingFirst, [Next]_vars, ~broken'
  PROVE  PresentInv'
<1>0. /\ tip \in Block /\ known \subseteq Block /\ reorgRecoveryMode \in {0, 1}
      /\ db \in Database /\ at \in Block /\ idx \in Nat \ {0}
      /\ connecting \in Block \cup {None} /\ None \notin Block
      /\ Active \subseteq Block /\ Mark \in Block
      /\ SpidMemory /\ TrackInv /\ OwnersInv /\ ControlInv
  BY OwningFacts
<1>1. CASE ProcessTx
  <2>1. /\ pc = "txs" /\ pc' = "txs" /\ at' = at /\ idx' = idx + 1
        /\ idx \in 1 .. Len(Txs[at])
    BY <1>0, <1>1, TxWrites
  <2>2. TxEffect(db, db', at, idx)
    BY <1>0, <1>1, <2>1, ProcessTxEffect
  <2>3. Present(db, Before(<<at, idx>>))
    BY <2>1 DEF PresentInv
  <2>4. Present(db', Before(<<at, idx + 1>>))
    BY <1>0, <2>1, <2>2, <2>3, OwnedTx
  <2> QED
    BY <2>1, <2>4 DEF PresentInv, Forward
<1>2. CASE BlockEnd
  <2>1. /\ pc = "txs" /\ idx > Len(Txs[at]) /\ pc' \in {"save", "next"}
        /\ at' = at /\ db' = db
    BY <1>2 DEF BlockEnd, stored
  <2>2. Present(db, Positions(at))
    BY <1>0, <2>1, BeforeLast DEF PresentInv
  <2> QED
    BY <2>1, <2>2 DEF PresentInv, Forward
<1>3. CASE WriteStateFile \/ PruneStateFiles
  <2>1. /\ pc \in {"save", "prune"} /\ pc' \in {"save", "prune", "watermark"}
        /\ at' = at /\ db' = db
    BY <1>3 DEF WriteStateFile, PruneStateFiles
  <2> QED
    BY <2>1 DEF PresentInv, Forward
<1>4. CASE SetWatermark
  <2>1. pc = "watermark" /\ pc' = "next" /\ at' = at /\ db' = setWatermark(db, at)
    BY <1>4 DEF SetWatermark
  <2>2. Present(db', Positions(at))
    BY <1>0, <2>1, OwnedWatermark DEF PresentInv, Forward
  <2> QED
    BY <2>1, <2>2 DEF PresentInv, Forward
<1>5. CASE FindWatermark
  <2>1. pc = "load" /\ db' = db /\ pc' \in {"clear", "pop"}
    BY <1>0, <1>5 DEF FindWatermark, WatermarkKnown
  <2>2. Present(db, Positions(Mark)) /\ Mark' = Mark
    BY <2>1 DEF PresentInv, Mark
  <2> QED
    BY <2>1, <2>2 DEF PresentInv, Forward
<1>6. CASE PopInactive \/ WalkBack
  <2>1. /\ pc \in {"pop", "walk"} /\ at' = at
        /\ \/ pc' = "clear"
           \/ /\ pc' \in {"popmark", "walkmark"} /\ db' = popBlock(db, at)
              /\ at # Genesis /\ ~popBlockFails(db, at)
    BY <1>0, <1>6, TreeFacts DEF PopInactive, WalkBack, PopAnd, Active
  <2>2. Mark = at
    BY <1>0, <2>1 DEF TrackInv, Mark
  <2>3. OwnedAt(db, at) /\ Present(db, Positions(at))
    BY <1>0, <2>1, <2>2 DEF OwnersInv, PresentInv, Forward
  <2>4. pc' # "clear" => Present(db', Positions(Parent[at]))
    BY <1>0, <2>1, <2>3, PresentPop
  <2> QED
    BY <2>1, <2>4 DEF PresentInv, Forward
<1>7. CASE PopMark \/ WalkMark
  <2>1. /\ pc \in {"popmark", "walkmark"} /\ pc' \in {"pop", "walk", "clear"}
        /\ db' = setWatermark(db, Parent[at])
    BY <1>7 DEF PopMark, WalkMark
  <2>2. Parent[at] \in Block
    BY <1>0, <2>1, TreeFacts DEF ControlInv
  <2>3. Present(db', Positions(Parent[at]))
    BY <1>0, <2>1, <2>2, OwnedWatermark DEF PresentInv
  <2>4. Mark' = Parent[at]
    BY <1>0, <2>1, <2>2, WatermarkKept DEF Mark
  <2> QED
    BY <2>1, <2>3, <2>4 DEF PresentInv, Forward
<1>8. CASE LoadStateFiles \/ LoadFails \/ NoFilesFound
  <2>1. pc = "pop" /\ pc' \in {"next", "walk", "clear"} /\ at' = at /\ db' = db
    BY <1>8 DEF LoadStateFiles, LoadFails, NoFilesFound, stored
  <2>2. Mark = at /\ Mark' = at
    BY <1>0, <2>1 DEF TrackInv, Mark
  <2>3. Present(db, Positions(at))
    BY <2>1, <2>2 DEF PresentInv
  <2> QED
    BY <2>1, <2>2, <2>3 DEF PresentInv, Forward
<1>9. CASE ClearAllState
  <2>1. pc' = "next" /\ at' = Genesis
    BY <1>9 DEF ClearAllState
  <2> QED
    BY <2>1, GenesisPositions DEF PresentInv, Forward, Present
<1>10. ASSUME NEW b \in Block \ {Genesis}, BlockBegin(b), Present(db, Positions(Parent[b])),
              next_spid = NextId(Parent[b]), at' = b,
              pc' = "read" \/ (pc' = "txs" /\ idx' = 1)
       PROVE  PresentInv'
  <2>1. Present(db', Before(<<b, 1>>))
    BY <1>0, <1>10, BeginKeeps
  <2> QED
    BY <1>10, <2>1 DEF PresentInv, Forward
<1>11. CASE ScanBlock
  <2>1. pc = "next" /\ Present(db, Positions(at)) /\ next_spid = NextId(at)
    BY <1>0, <1>11 DEF ScanBlock, PresentInv, Forward, SpidMemory
  <2>2. PICK b \in Active \ {Genesis} : Parent[b] = at /\ at' = b
    BY <1>11 DEF ScanBlock
  <2>3. b \in Block \ {Genesis} /\ BlockBegin(b) /\ pc' = "read"
    BY <1>0, <1>11, <2>2 DEF ScanBlock
  <2> QED
    BY <1>10, <2>1, <2>2, <2>3
<1>17. CASE ReadBlockFromDisk
  <2>1. pc = "read" /\ pc' = "txs" /\ at' = at /\ idx' = 1 /\ db' = db
    BY <1>17 DEF ReadBlockFromDisk, stored
  <2>2. Present(db, Before(<<at, 1>>))
    BY <2>1 DEF PresentInv
  <2> QED
    BY <2>1, <2>2 DEF PresentInv, Forward
<1>18. CASE ScanEnds
  <2>1. pc = "next" /\ at = tip
    BY <1>18 DEF ScanEnds
  <2>2. Present(db, Positions(at)) /\ next_spid = NextId(at)
    BY <1>0, <2>1 DEF PresentInv, Forward, SpidMemory
  <2>3. CASE connecting # None /\ Process(connecting)
    <3>1. connecting \in Block \ {Genesis} /\ Parent[connecting] = at
      BY <1>0, <2>1, <2>3 DEF ControlInv
    <3>2. BlockBegin(connecting) /\ pc' = "txs" /\ at' = connecting /\ idx' = 1
      BY <2>3 DEF Process
    <3> QED
      BY <1>10, <2>2, <3>1, <3>2
  <2>4. CASE pc' = "idle" /\ at' = at /\ db' = db
    BY <2>2, <2>4 DEF PresentInv, Forward
  <2> QED
    BY <1>18, <2>3, <2>4 DEF ScanEnds
<1>12. CASE Start
  <2>1. db' = db /\ pc' = "load" /\ pc = "down"
    BY <1>12 DEF Start, stored
  <2>2. Present(db, Positions(Mark)) /\ Mark' = Mark
    BY <2>1 DEF PresentInv, Mark
  <2> QED
    BY <2>1, <2>2 DEF PresentInv, Forward
<1>19. CASE Shutdown
  <2>1. pc = "idle" /\ pc' = "down" /\ db' = db
    BY <1>19 DEF Shutdown, Down
  <2>2. Mark \in Branch[at] /\ Present(db, Positions(at))
    BY <1>0, <2>1 DEF TrackInv, PresentInv, Forward
  <2>3. Present(db, Positions(Mark))
    BY <1>0, <2>2, PresentBelow
  <2>4. Mark' = Mark
    BY <2>1 DEF Mark
  <2> QED
    BY <2>1, <2>3, <2>4 DEF PresentInv, Forward
<1>13. CASE DisconnectTip
  <2>1. pc = "idle" /\ pc' = "idle" /\ at' = at /\ db' = db
    BY <1>13 DEF DisconnectTip, stored, control
  <2> QED
    BY <2>1 DEF PresentInv, Forward
<1>14. ASSUME NEW b \in Block, ConnectTip(b) PROVE PresentInv'
  <2>1. /\ pc = "idle" /\ b \in Block \ {Genesis} /\ Parent[b] = tip
        /\ Present(db, Positions(at)) /\ Mark \in Branch[at]
    BY <1>0, <1>14 DEF ConnectTip, PresentInv, TrackInv, Forward
  <2>2. CASE reorgRecoveryMode > 0
    <3>1. pc' = "load" /\ db' = db
      BY <1>14, <2>2 DEF ConnectTip
    <3>2. Mark' = Mark
      BY <3>1 DEF Mark
    <3>3. Present(db, Positions(Mark))
      BY <1>0, <2>1, PresentBelow
    <3> QED
      BY <3>1, <3>2, <3>3 DEF PresentInv, Forward
  <2>3. CASE ~(reorgRecoveryMode > 0)
    <3>1. reorgRecoveryMode = 0 /\ BlockBegin(b) /\ pc' = "txs" /\ at' = b /\ idx' = 1
      BY <1>0, <1>14, <2>3 DEF ConnectTip, Process
    <3>2. at = tip /\ next_spid = NextId(tip)
      BY <1>0, <2>1, <3>1 DEF TrackInv, SpidMemory
    <3> QED
      BY <1>10, <2>1, <3>1, <3>2
  <2> QED
    BY <2>2, <2>3
<1>15. CASE RequestShutdown \/ UNCHANGED vars
  <2>1. UNCHANGED <<pc, at, idx, db>>
    BY <1>15 DEF RequestShutdown, vars, stored, control
  <2> QED
    BY <2>1 DEF PresentInv, Mark
<1>16. ~Crash
  BY DEF Crash, MayFail
<1> QED
  BY <1>1, <1>2, <1>3, <1>4, <1>5, <1>6, <1>7, <1>8, <1>9, <1>11, <1>12, <1>13, <1>14,
     <1>15, <1>16, <1>17, <1>18, <1>19 DEF Next, Handlers, Environment

-----------------------------------------------------------------------------
(* The theorems.                                                           *)

\* The invariant holds before the first start.
LEMMA InitOwning == Init => Owning /\ SpidFiles /\ KnownInv /\ PresentInv
<1> SUFFICES ASSUME Init PROVE Owning /\ SpidFiles /\ KnownInv /\ PresentInv
  OBVIOUS
<1>1. pc = "down" /\ db = EmptyDatabase /\ Mark = Genesis
  BY DEF Init, Mark, EmptyDatabase
<1>2. TypeInv /\ SpidMemory /\ SpidFiles
  BY InitTypeInv DEF Init, SpidMemory, SpidFiles, NoFiles
<1>3. TrackInv
  BY <1>1 DEF TrackInv, Forward
<1>4. PresentInv
  BY <1>1, GenesisPositions DEF PresentInv, Present, Forward
<1>5. OwnersInv
  BY <1>1, OwnedEmpty DEF OwnersInv, Forward
<1>6. KnownInv
  BY BlockTree DEF Init, KnownInv, EmptyDatabase
<1> QED
  BY <1>2, <1>3, <1>4, <1>5, <1>6 DEF Owning

\* Every step keeps it, crashes included, until a scan is broken off.
LEMMA StepOwning ==
  ASSUME VestingFirst, Owning, SpidFiles, WatermarkKnown, [Next]_vars, ~broken'
  PROVE  (Owning /\ SpidFiles)'
<1>1. TypeInv /\ SpidMemory
  BY DEF Owning
<1>2. TypeInv' /\ SpidFiles' /\ SpidMemory'
  BY <1>1, StepTypeInv, StepSpidFiles, StepSpidMemory
<1>3. TrackInv' /\ OwnersInv'
  BY StepTrack, StepOwners
<1> QED
  BY <1>2, <1>3 DEF Owning

\* What a state says of the grant that is next
LEMMA GrantNext ==
  ASSUME VestingFirst, Owning, pc = "txs", idx <= Len(Txs[at]),
         Txs[at][idx].type = "grant"
  PROVE  /\ RegistryAllows(Txs[at][idx]) =>
              \E q \in Creates(Before(<<at, idx>>)) : GrantsProperty(<<at, idx>>, q)
         /\ Present(db, Before(<<at, idx>>)) =>
              \A q \in Creates(Before(<<at, idx>>)) :
                 GrantsProperty(<<at, idx>>, q) => RegistryAllows(Txs[at][idx])
<1>1. at \in Block /\ idx \in Nat \ {0} /\ SpidMemory /\ OwnersInv
  BY OwningFacts
<1>2. idx \in 1 .. Len(Txs[at])
  BY <1>1, TreeFacts
<1>3. Owned(db, Before(<<at, idx>>), IdOf(<<at, idx>>)) /\ next_spid = IdOf(<<at, idx>>)
  BY <1>1 DEF OwnersInv, SpidMemory
<1>4. RegistryAllows(Txs[at][idx]) <=> Accepted(db, IdOf(<<at, idx>>), Txs[at][idx])
  BY <1>3 DEF RegistryAllows, Accepted
<1> QED
  BY <1>1, <1>2, <1>3, <1>4, OwnedJudges, PresentJudges

\* The registry allows a grant only if the chain before it creates a property
\* with that identifier, managed by the sender.
GrantsFounded ==
  [][pc = "txs" /\ idx <= Len(Txs[at]) /\ pc' = "txs" /\ ~broken
       /\ Txs[at][idx].type = "grant" /\ RegistryAllows(Txs[at][idx]) =>
     \E q \in Creates(Before(<<at, idx>>)) : GrantsProperty(<<at, idx>>, q)]_vars

\* However often the node crashes, between whichever writes, and whatever it
\* had connected before, no grant is accepted that the chain does not justify:
\* what an entry says of its property survives updateSP, popBlock and a rollback
\* broken off half way.  The assumptions: the index on disk holds the block of
\* the watermark, or a restart takes another branch for it, and no property is
\* created before the vesting tokens, whose identifier is fixed.
THEOREM GrantsAreFounded ==
  ASSUME VestingFirst
  PROVE  Spec /\ []WatermarkKnown => GrantsFounded
<1> DEFINE Inv == ~broken => Owning /\ SpidFiles
           Judged == pc = "txs" /\ idx <= Len(Txs[at]) /\ ~broken
                       /\ Txs[at][idx].type = "grant" /\ RegistryAllows(Txs[at][idx]) =>
                     \E q \in Creates(Before(<<at, idx>>)) : GrantsProperty(<<at, idx>>, q)
<1>1. Init => Inv
  BY InitOwning
<1>2. Inv /\ WatermarkKnown /\ [Next]_vars => Inv'
  BY StepOwning, HistoryKept
<1>3. Inv => Judged
  BY GrantNext
<1>4. Judged => [pc = "txs" /\ idx <= Len(Txs[at]) /\ pc' = "txs" /\ ~broken
                   /\ Txs[at][idx].type = "grant" /\ RegistryAllows(Txs[at][idx]) =>
                 \E q \in Creates(Before(<<at, idx>>)) :
                    GrantsProperty(<<at, idx>>, q)]_vars
  OBVIOUS
<1> HIDE DEF Inv, Judged
<1> QED
  BY <1>1, <1>2, <1>3, <1>4, PTL DEF Spec, GrantsFounded

\* What holds at every step on a node that does not crash
RegistryInv ==
  ~broken => Owning /\ SpidFiles /\ KnownInv /\ PresentInv

LEMMA StepRegistry ==
  ASSUME VestingFirst, "crash" \notin Failures
  PROVE  RegistryInv /\ [Next]_vars => RegistryInv'
<1> SUFFICES ASSUME RegistryInv, [Next]_vars, ~broken'
             PROVE  (Owning /\ SpidFiles)' /\ KnownInv' /\ PresentInv'
  BY DEF RegistryInv
<1>1. ~broken
  BY HistoryKept
<1>2. Owning /\ SpidFiles /\ KnownInv /\ PresentInv
  BY <1>1 DEF RegistryInv
<1>3. WatermarkKnown
  BY <1>2 DEF KnownInv, WatermarkKnown
<1>4. (Owning /\ SpidFiles)'
  BY <1>2, <1>3, StepOwning
<1>5. KnownInv'
  BY <1>2, StepKnown
<1>6. PresentInv'
  BY <1>2, <1>3, StepPresent
<1> QED
  BY <1>4, <1>5, <1>6

\* On a node that does not crash, whenever the handlers have caught up, every
\* property of the active chain is in the registry under the identifier the
\* chain gives it, with its transaction, issuer, kind and block, however deep
\* the reorganisations before and whenever the node was stopped between them:
\* popBlock deletes and gives back what it should, and block_begin and the
\* grants, refused or not, displace nothing.  Until a scan is broken off; and no
\* property is created before the vesting tokens, whose identifier is fixed.
THEOREM RegistryFollowsChain ==
  ASSUME "crash" \notin Failures, VestingFirst
  PROVE  Spec => []SPMatchesChain
<1>1. Init => RegistryInv
  BY InitOwning DEF RegistryInv
<1>2. RegistryInv /\ [Next]_vars => RegistryInv'
  BY StepRegistry
<1>3. RegistryInv => SPMatchesChain
  <2> SUFFICES ASSUME RegistryInv, Settled, NEW q \in Creates(Positions(tip))
               PROVE  db.s[IdOf(q)] # None /\ Describes(db.s[IdOf(q)], q)
    BY DEF SPMatchesChain, Describes
  <2>1. Owning /\ PresentInv /\ pc = "idle" /\ reorgRecoveryMode = 0
    BY DEF RegistryInv, Settled
  <2>2. tip \in Block /\ at = tip /\ OwnersInv
    BY <2>1, OwningFacts DEF TrackInv
  <2>3. Owned(db, Positions(tip), NextId(tip)) /\ Present(db, Positions(tip))
    BY <2>1, <2>2 DEF OwnersInv, OwnedAt, PresentInv, Forward
  <2>4. IdOf(q) < NextId(tip)
    BY <2>2, CreatedDue
  <2> QED
    BY <2>2, <2>3, <2>4, EntryOfCreated
<1> QED
  BY <1>1, <1>2, <1>3, PTL DEF Spec

\* On such a node the registry allows a grant exactly when the chain before it
\* has the property and the sender manages it: what the node had connected and
\* rolled back before makes no difference to these checks.  Of the others, the
\* attestations are kept in a database that is never rolled back.
THEOREM GrantsFollowChain ==
  ASSUME "crash" \notin Failures, VestingFirst
  PROVE  Spec => RegistryJudgesAlike
<1> DEFINE Judged == pc = "txs" /\ idx <= Len(Txs[at]) /\ Txs[at][idx].type = "grant"
                       /\ ~broken =>
                       (RegistryAllows(Txs[at][idx])
                          <=> \E q \in Creates(Before(<<at, idx>>)) :
                                 GrantsProperty(<<at, idx>>, q))
<1>1. Init => RegistryInv
  BY InitOwning DEF RegistryInv
<1>2. RegistryInv /\ [Next]_vars => RegistryInv'
  BY StepRegistry
<1>3. RegistryInv => Judged
  <2> SUFFICES ASSUME RegistryInv, pc = "txs", idx <= Len(Txs[at]),
                      Txs[at][idx].type = "grant", ~broken
               PROVE  RegistryAllows(Txs[at][idx])
                        <=> \E q \in Creates(Before(<<at, idx>>)) :
                               GrantsProperty(<<at, idx>>, q)
    OBVIOUS
  <2>1. Owning /\ PresentInv
    BY DEF RegistryInv
  <2>2. Present(db, Before(<<at, idx>>))
    BY <2>1 DEF PresentInv
  <2> QED
    BY <2>1, <2>2, GrantNext
<1>4. Judged => [pc = "txs" /\ idx <= Len(Txs[at]) /\ pc' = "txs"
                   /\ Txs[at][idx].type = "grant" /\ ~broken =>
                 (RegistryAllows(Txs[at][idx])
                    <=> \E q \in Creates(Before(<<at, idx>>)) :
                           GrantsProperty(<<at, idx>>, q))]_vars
  OBVIOUS
<1> HIDE DEF Judged
<1> QED
  BY <1>1, <1>2, <1>3, <1>4, PTL DEF Spec, RegistryJudgesAlike
=============================================================================
