---------------------------- MODULE TotalsProofs ----------------------------
(***************************************************************************)
(* What an update of one amount does to a total.  Every conservation       *)
(* argument of the project rests on these facts.                           *)
(***************************************************************************)
EXTENDS Totals, Integers, FiniteSetTheorems, TLAPS

\* The units of a finite family of amounts form a finite set, so its total
\* (getTotalTokens) is a natural number.
LEMMA TotalType ==
  ASSUME NEW K, IsFiniteSet(K), NEW f \in [K -> Nat]
  PROVE  IsFiniteSet(Units(f)) /\ Total(f) \in Nat
<1> DEFINE Row(k) == {k} \X (1 .. f[k])
           T == {Row(k) : k \in K}
           g == [k \in K |-> Row(k)]
<1>1. IsFiniteSet(T)
  <2>1. g \in Surjection(K, T)
    BY DEF Surjection
  <2> QED BY <2>1, FS_Surjection
<1>2. ASSUME NEW R \in T PROVE IsFiniteSet(R)
  <2>1. PICK k \in K : R = {k} \X (1 .. f[k])
    OBVIOUS
  <2>2. IsFiniteSet({k})
    BY FS_Singleton
  <2>3. f[k] \in Int /\ 1 \in Int
    OBVIOUS
  <2>4. IsFiniteSet(1 .. f[k])
    BY <2>3, FS_Interval, Zenon
  <2> QED BY <2>1, <2>2, <2>4, FS_Product
<1>3. Units(f) = UNION T
  BY DEF Units
<1>4. IsFiniteSet(Units(f))
  BY <1>1, <1>2, <1>3, FS_UNION
<1> QED BY <1>4, FS_CardinalityType DEF Total

\* The units held under one index are as many as the amount.
LEMMA RowCardinality ==
  ASSUME NEW k, NEW n \in Nat
  PROVE  /\ IsFiniteSet({k} \X (1 .. n))
         /\ Cardinality({k} \X (1 .. n)) = n
<1>1. IsFiniteSet({k}) /\ Cardinality({k}) = 1
  BY FS_Singleton
<1>2. IsFiniteSet(1 .. n) /\ Cardinality(1 .. n) = n
  BY FS_Interval
<1>3. Cardinality({k} \X (1 .. n)) = Cardinality({k}) * Cardinality(1 .. n)
  BY <1>1, <1>2, FS_Product, Zenon
<1>4. IsFiniteSet({k} \X (1 .. n))
  BY <1>1, <1>2, FS_Product, Zenon
<1> QED BY <1>1, <1>2, <1>3, <1>4

\* Setting one amount to zero takes exactly that amount from the total.
LEMMA TotalWithout ==
  ASSUME NEW K, IsFiniteSet(K), NEW f \in [K -> Nat], NEW k \in K
  PROVE  Total([f EXCEPT ![k] = 0]) = Total(f) - f[k]
<1> DEFINE g == [f EXCEPT ![k] = 0]
           Row == {k} \X (1 .. f[k])
<1>1. g \in [K -> Nat] /\ g[k] = 0 /\ \A j \in K \ {k} : g[j] = f[j]
  OBVIOUS
<1>2. Units(g) = Units(f) \ Row
  <2>1. \A x : x \in Units(g) <=> \E j \in K : x \in {j} \X (1 .. g[j])
    BY <1>1 DEF Units
  <2>2. \A x : x \in Units(f) <=> \E j \in K : x \in {j} \X (1 .. f[j])
    BY DEF Units
  <2>3. {k} \X (1 .. g[k]) = {}
    BY <1>1
  <2>4. \A j \in K \ {k} : {j} \X (1 .. g[j]) = {j} \X (1 .. f[j])
    BY <1>1
  <2>5. \A j \in K \ {k} : ({j} \X (1 .. f[j])) \cap Row = {}
    OBVIOUS
  <2> HIDE DEF g, Row
  <2> QED BY <2>1, <2>2, <2>3, <2>4, <2>5 DEF Row
<1>3. Row \subseteq Units(f)
  BY DEF Units
<1>4. IsFiniteSet(Units(f)) /\ Total(f) \in Nat
  BY TotalType
<1>5. Cardinality(Units(f) \ Row)
        = Cardinality(Units(f)) - Cardinality(Units(f) \cap Row)
  BY <1>4, FS_Difference
<1>6. Units(f) \cap Row = Row /\ Cardinality(Row) = f[k]
  BY <1>3, RowCardinality
<1> QED BY <1>2, <1>5, <1>6 DEF Total

\* Writing v under index k replaces the old amount by v in the total: the
\* effect of one update_tally_map on getTotalTokens.
LEMMA TotalUpdate ==
  ASSUME NEW K, IsFiniteSet(K), NEW f \in [K -> Nat], NEW k \in K,
         NEW v \in Nat
  PROVE  /\ Total(f) \in Nat
         /\ f[k] <= Total(f)
         /\ Total([f EXCEPT ![k] = v]) = Total(f) - f[k] + v
<1> DEFINE g == [f EXCEPT ![k] = v]
           z == [f EXCEPT ![k] = 0]
<1>1. g \in [K -> Nat] /\ z \in [K -> Nat] /\ g[k] = v
  OBVIOUS
<1>2. [g EXCEPT ![k] = 0] = z
  OBVIOUS
<1>3. Total(z) = Total(f) - f[k]
  BY TotalWithout
<1>4. Total([g EXCEPT ![k] = 0]) = Total(g) - g[k]
  BY <1>1, TotalWithout
<1>5. Total(f) \in Nat /\ Total(g) \in Nat /\ Total(z) \in Nat
  BY <1>1, TotalType
<1>6. f[k] \in Nat
  OBVIOUS
<1>7. Total(z) = Total(g) - v
  BY <1>1, <1>2, <1>4, Zenon
<1>8. f[k] <= Total(f) /\ Total(g) = Total(f) - f[k] + v
  <2> HIDE DEF g, z
  <2> QED BY <1>3, <1>5, <1>6, <1>7
<1> QED BY <1>5, <1>8

\* The amounts f are the amounts g, of the holders A, and h, of the holders B.
SplitInto(f, A, g, B, h) ==
  /\ IsFiniteSet(A) /\ IsFiniteSet(B) /\ A \cap B = {}
  /\ f \in [A \cup B -> Nat] /\ g \in [A -> Nat] /\ h \in [B -> Nat]
  /\ \A k \in A : f[k] = g[k]
  /\ \A k \in B : f[k] = h[k]

\* The total over two disjoint sets of indices is the sum of the two totals:
\* one may count some of the holders first and the others after them.
LEMMA TotalSplit ==
  ASSUME NEW A, NEW B, NEW f, NEW g, NEW h, SplitInto(f, A, g, B, h)
  PROVE  Total(f) = Total(g) + Total(h) /\ Total(g) \in Nat /\ Total(h) \in Nat
<1> USE DEF SplitInto
<1>1. IsFiniteSet(Units(g)) /\ IsFiniteSet(Units(h))
      /\ Total(g) \in Nat /\ Total(h) \in Nat
  BY TotalType
<1>2. \A x : x \in Units(f) <=> \E j \in A \cup B : x \in {j} \X (1 .. f[j])
  BY DEF Units
<1>3. \A x : x \in Units(g) <=> \E j \in A : x \in {j} \X (1 .. g[j])
  BY DEF Units
<1>4. \A x : x \in Units(h) <=> \E j \in B : x \in {j} \X (1 .. h[j])
  BY DEF Units
<1>5. Units(f) = Units(g) \cup Units(h)
  BY <1>2, <1>3, <1>4
<1>6. Units(g) \cap Units(h) = {}
  <2>1. \A x \in Units(g) : x[1] \in A
    BY <1>3
  <2>2. \A x \in Units(h) : x[1] \in B
    BY <1>4
  <2> QED BY <2>1, <2>2
<1>7. Cardinality(Units(f))
        = Cardinality(Units(g)) + Cardinality(Units(h)) - Cardinality({})
  BY <1>1, <1>5, <1>6, FS_Union
<1> QED BY <1>1, <1>7, FS_EmptySet DEF Total

\* A family of zeros, an empty one among them, has total 0.
LEMMA TotalZero ==
  ASSUME NEW K, NEW f \in [K -> Nat], \A k \in K : f[k] = 0
  PROVE  Total(f) = 0
<1>1. Units(f) = {}
  BY DEF Units
<1> QED BY <1>1, FS_EmptySet DEF Total

\* A family of one amount has that amount as its total.
LEMMA TotalOne ==
  ASSUME NEW k, NEW f \in [{k} -> Nat]
  PROVE  Total(f) = f[k] /\ IsFiniteSet({k})
<1>1. Units(f) = {k} \X (1 .. f[k])
  BY DEF Units
<1>2. f[k] \in Nat
  OBVIOUS
<1>3. Cardinality(Units(f)) = f[k]
  BY <1>1, <1>2, RowCardinality
<1> QED BY <1>3, FS_Singleton DEF Total

\* A new holder adds its amount to the total.
LEMMA TotalAdd ==
  ASSUME NEW K, IsFiniteSet(K), NEW k, k \notin K,
         NEW f \in [K -> Nat], NEW g \in [K \cup {k} -> Nat],
         \A j \in K : g[j] = f[j]
  PROVE  Total(g) = Total(f) + g[k] /\ Total(f) \in Nat
<1> DEFINE h == [j \in {k} |-> g[j]]
<1>1. h \in [{k} -> Nat] /\ h[k] = g[k]
  OBVIOUS
<1>2. Total(h) = g[k] /\ IsFiniteSet({k})
  BY <1>1, TotalOne
<1> HIDE DEF h
<1>3. Total(g) = Total(f) + Total(h) /\ Total(f) \in Nat
  <2>1. K \cap {k} = {} /\ \A j \in {k} : g[j] = h[j]
    BY <1>1
  <2>2. SplitInto(g, K, f, {k}, h)
    BY <1>1, <1>2, <2>1 DEF SplitInto
  <2> QED BY <2>2, TotalSplit
<1> QED BY <1>2, <1>3

\* Changing two amounts changes the total by both differences: the pair of
\* updates that moves tokens from one holder to another.
LEMMA TotalShift ==
  ASSUME NEW K, IsFiniteSet(K), NEW f \in [K -> Nat], NEW g \in [K -> Nat],
         NEW x \in K, NEW y \in K, x # y,
         \A z \in K \ {x, y} : g[z] = f[z]
  PROVE  /\ Total(f) \in Nat
         /\ f[x] + f[y] <= Total(f)
         /\ Total(g) = Total(f) - f[x] - f[y] + g[x] + g[y]
<1> DEFINE m == [f EXCEPT ![x] = g[x]]
<1>1. f[x] \in Nat /\ f[y] \in Nat /\ g[x] \in Nat /\ g[y] \in Nat
  OBVIOUS
<1>2. m \in [K -> Nat] /\ m[y] = f[y]
  BY <1>1
<1>3. Total(m) = Total(f) - f[x] + g[x] /\ Total(f) \in Nat
  BY <1>1, TotalUpdate
<1>4. Total([m EXCEPT ![y] = g[y]]) = Total(m) - m[y] + g[y]
  <2> HIDE DEF m
  <2>1. \A v \in Nat : Total([m EXCEPT ![y] = v]) = Total(m) - m[y] + v
    BY <1>2, TotalUpdate
  <2> QED BY <1>1, <2>1
<1>5. f[x] + f[y] <= Total(f)
  <2> DEFINE z == [f EXCEPT ![x] = 0]
  <2>1. z \in [K -> Nat] /\ z[y] = f[y]
    OBVIOUS
  <2>2. Total(z) = Total(f) - f[x]
    BY TotalWithout
  <2>3. z[y] <= Total(z)
    <3> HIDE DEF z
    <3> QED BY <2>1, TotalUpdate
  <2> HIDE DEF z
  <2> QED BY <1>1, <1>3, <2>1, <2>2, <2>3
<1>6. g = [m EXCEPT ![y] = g[y]]
  BY <1>1
<1> HIDE DEF m
<1>7. Total(g) = Total(m) - f[y] + g[y]
  BY <1>2, <1>4, <1>6, Zenon
<1>8. Total(m) \in Nat
  BY <1>2, TotalType
<1> QED BY <1>1, <1>3, <1>5, <1>7, <1>8

\* A total does not depend on how the holders are named.
LEMMA TotalRename ==
  ASSUME NEW K, NEW L, IsFiniteSet(K), NEW b \in Bijection(K, L),
         NEW f \in [K -> Nat], NEW g \in [L -> Nat], \A k \in K : g[b[k]] = f[k]
  PROVE  Total(g) = Total(f)
<1> DEFINE h == [u \in Units(f) |-> <<b[u[1]], u[2]>>]
<1>1. /\ b \in [K -> L]
      /\ \A j, k \in K : b[j] = b[k] => j = k
      /\ \A l \in L : \E k \in K : b[k] = l
  BY DEF Bijection, Injection, Surjection, IsInjective
<1>2. \A u : u \in Units(f) <=> \E k \in K : u \in {k} \X (1 .. f[k])
  BY DEF Units
<1>3. \A u : u \in Units(g) <=> \E l \in L : u \in {l} \X (1 .. g[l])
  BY DEF Units
<1>4. \A u \in Units(f) : u[1] \in K /\ u[2] \in 1 .. f[u[1]] /\ u = <<u[1], u[2]>>
  BY <1>2
<1>5. h \in [Units(f) -> Units(g)]
  <2>1. ASSUME NEW u \in Units(f) PROVE <<b[u[1]], u[2]>> \in Units(g)
    <3>1. u[1] \in K /\ u[2] \in 1 .. f[u[1]]
      BY <1>4
    <3>2. b[u[1]] \in L /\ u[2] \in 1 .. g[b[u[1]]]
      BY <1>1, <3>1
    <3> QED BY <1>3, <3>2
  <2> QED BY <2>1
<1>6. \A u, v \in Units(f) : h[u] = h[v] => u = v
  <2> TAKE u, v \in Units(f)
  <2> HAVE h[u] = h[v]
  <2>1. b[u[1]] = b[v[1]] /\ u[2] = v[2]
    OBVIOUS
  <2>2. u[1] = v[1]
    BY <1>1, <1>4, <2>1
  <2> QED BY <1>4, <2>1, <2>2
<1>7. \A v \in Units(g) : \E u \in Units(f) : h[u] = v
  <2> TAKE v \in Units(g)
  <2>1. PICK l \in L : v \in {l} \X (1 .. g[l])
    BY <1>3
  <2>2. PICK k \in K : b[k] = l
    BY <1>1
  <2>3. v = <<l, v[2]>> /\ v[2] \in 1 .. f[k]
    BY <2>1, <2>2
  <2>4. <<k, v[2]>> \in Units(f)
    BY <1>2, <2>3
  <2>5. h[<<k, v[2]>>] = v
    BY <2>2, <2>3, <2>4
  <2> QED BY <2>4, <2>5
<1> HIDE DEF h
<1>8. ExistsBijection(Units(f), Units(g))
  <2>1. h \in Bijection(Units(f), Units(g))
    BY <1>5, <1>6, <1>7 DEF Bijection, Injection, Surjection, IsInjective
  <2> QED BY <2>1 DEF ExistsBijection
<1>9. IsFiniteSet(Units(f))
  BY TotalType
<1> QED BY <1>8, <1>9, FS_Bijection DEF Total

\* Holders that lose all they have take exactly that from the total.
LEMMA TotalDropped ==
  ASSUME NEW K, IsFiniteSet(K), NEW S \in SUBSET K,
         NEW f \in [K -> Nat], NEW g \in [K -> Nat], NEW h \in [S -> Nat],
         \A k \in S : g[k] = 0 /\ h[k] = f[k], \A k \in K \ S : g[k] = f[k]
  PROVE  Total(g) = Total(f) - Total(h) /\ Total(h) \in Nat /\ Total(f) \in Nat
         /\ Total(g) \in Nat
<1> DEFINE R == K \ S
           u == [k \in R |-> f[k]]
           z == [k \in S |-> 0]
<1>1. IsFiniteSet(S) /\ IsFiniteSet(R) /\ S \cap R = {} /\ S \cup R = K
  <2>1. IsFiniteSet(S) /\ IsFiniteSet(R)
    BY FS_Subset
  <2> QED BY <2>1
<1>2. u \in [R -> Nat] /\ z \in [S -> Nat]
  OBVIOUS
<1>3. \A k \in R : f[k] = u[k] /\ g[k] = u[k]
  OBVIOUS
<1>4. \A k \in S : g[k] = z[k]
  OBVIOUS
<1>5. Total(z) = 0
  BY <1>2, TotalZero
<1> HIDE DEF R, u, z
<1>6. f \in [S \cup R -> Nat] /\ g \in [S \cup R -> Nat]
  BY <1>1
<1>7. Total(f) = Total(h) + Total(u) /\ Total(h) \in Nat /\ Total(u) \in Nat
  <2>1. SplitInto(f, S, h, R, u)
    BY <1>1, <1>2, <1>3, <1>6 DEF SplitInto
  <2> QED BY <2>1, TotalSplit
<1>8. Total(g) = Total(z) + Total(u)
  <2>1. SplitInto(g, S, z, R, u)
    BY <1>1, <1>2, <1>3, <1>4, <1>6 DEF SplitInto
  <2> QED BY <2>1, TotalSplit
<1> QED BY <1>5, <1>7, <1>8
=============================================================================
