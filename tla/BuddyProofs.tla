----------------------------- MODULE BuddyProofs -----------------------------
(***************************************************************************)
(* Proofs about Buddy, for every depth of the tree up to the 62 levels a   *)
(* uint64_t can count, every number of reserved pages and every history of *)
(* allocations and releases.                                               *)
(*                                                                         *)
(* The invariant is a law the tree obeys node by node (Lawful): a held     *)
(* node has 0, a free leaf 1, any other node what Merged makes of its two  *)
(* halves.  The nodes held are those of the reserved pages and of the      *)
(* blocks the callers own, and they lie apart.  From the law follow, by    *)
(* induction from the leaves up, that a node is never below what is free   *)
(* under it (LowerBound) nor above it (UpperBound); by induction down the  *)
(* walk, that buddy_alloc ends at the first free block of its size         *)
(* (DescendFinds) and buddy_free at the node that was handed out           *)
(* (HolderFinds); and along the path back to the root, that both leave a   *)
(* lawful tree (TakenLaw, FreedLaw).                                       *)
(*                                                                         *)
(* The inductions run over sets: a set of nodes closed under the step has  *)
(* no least member outside it (WFMin).  Recursion is the fact that the     *)
(* recursive functions of the loops satisfy their equations.               *)
(***************************************************************************)
EXTENDS Buddy, WellFoundedInduction, TLAPS

(* Induction over the naturals, over a set of them.                        *)
LEMMA NatSetInduction ==
  ASSUME NEW S \in SUBSET Nat,
         \A n \in Nat : (\A m \in 0 .. n - 1 : m \in S) => n \in S
  PROVE  S = Nat
<1> DEFINE T == Nat \ S
<1> SUFFICES ASSUME T # {} PROVE FALSE
  OBVIOUS
<1>1. T \subseteq Nat
  OBVIOUS
<1> HIDE DEF T
<1>2. PICK x \in T : \A y \in T : ~ (<<y, x>> \in OpToRel(<, Nat))
  BY <1>1, WFMin, NatLessThanWellFounded, Zenon
<1>3. \A y \in T : ~ (y < x)
  <2> SUFFICES ASSUME NEW y \in T, y < x PROVE FALSE
    OBVIOUS
  <2>1. x \in Nat /\ y \in Nat
    BY <1>1
  <2>2. <<y, x>> \in OpToRel(<, Nat)
    BY <2>1, Zenon DEF OpToRel
  <2> QED
    BY <1>2, <2>2, Zenon
<1>4. x \in Nat /\ x \notin S
  BY DEF T
<1>5. ASSUME NEW m \in 0 .. x - 1 PROVE m \in S
  <2>1. m \in Nat /\ m < x
    BY <1>4
  <2> QED
    BY <1>3, <2>1 DEF T
<1> QED
  BY <1>4, <1>5

(* A function given by recursion over a measure exists: f[i] is b[i] at    *)
(* the base, and computed by h[i] from its values at l[i] and r[i], whose  *)
(* measure is smaller, elsewhere.                                          *)
IsRecursion(D, V, m, M, base, b, l, r, h) ==
  /\ m \in [D -> Nat] /\ M \in Nat /\ \A i \in D : m[i] <= M
  /\ base \in SUBSET D /\ b \in [D -> V] /\ h \in [D -> [V \X V -> V]]
  /\ \A i \in D \ base : l[i] \in D /\ m[l[i]] < m[i] /\ r[i] \in D /\ m[r[i]] < m[i]

LEMMA Recursion ==
  ASSUME NEW D, NEW V, NEW m, NEW M, NEW base, NEW b, NEW l, NEW r, NEW h,
         IsRecursion(D, V, m, M, base, b, l, r, h), V # {}
  PROVE  \E f \in [D -> V] :
           \A i \in D : f[i] = IF i \in base THEN b[i] ELSE h[i][<<f[l[i]], f[r[i]]>>]
<1> DEFINE Rhs(f, i) == IF i \in base THEN b[i] ELSE h[i][<<f[l[i]], f[r[i]]>>]
           Upto(f, k) == \A i \in D : m[i] < k => f[i] = Rhs(f, i)
           S == {k \in Nat : \E f \in [D -> V] : Upto(f, k)}
<1> USE DEF IsRecursion
<1> PICK v0 \in V : TRUE
  OBVIOUS
<1>1. ASSUME NEW f \in [D -> V], NEW i \in D PROVE Rhs(f, i) \in V
  <2>1. CASE i \in base
    BY <2>1
  <2>2. CASE i \notin base
    <3>1. <<f[l[i]], f[r[i]]>> \in V \X V
      BY <2>2
    <3>2. h[i] \in [V \X V -> V]
      OBVIOUS
    <3>3. h[i][<<f[l[i]], f[r[i]]>>] \in V
      BY <3>1, <3>2
    <3> QED
      BY <2>2, <3>3
  <2> QED
    BY <2>1, <2>2
<1>2. 0 \in S
  <2>1. [i \in D |-> v0] \in [D -> V]
    OBVIOUS
  <2>2. \A i \in D : ~(m[i] < 0)
    OBVIOUS
  <2>3. Upto([i \in D |-> v0], 0)
    BY <2>2
  <2> HIDE DEF Upto
  <2> QED
    BY <2>1, <2>3
<1>3. ASSUME NEW k \in Nat, k \in S PROVE k + 1 \in S
  <2>1. PICK f \in [D -> V] : Upto(f, k)
    BY <1>3
  <2> HIDE DEF Rhs
  <2> DEFINE g == [i \in D |-> IF m[i] < k THEN f[i] ELSE Rhs(f, i)]
  <2>2. g \in [D -> V]
    BY <1>1
  <2>3. ASSUME NEW i \in D PROVE g[i] = Rhs(f, i)
    BY <2>1
  <2>4. ASSUME NEW i \in D, m[i] < k + 1 PROVE g[i] = Rhs(g, i)
    <3>1. CASE i \in base
      BY <2>3, <3>1 DEF Rhs
    <3>2. CASE i \notin base
      <4>1. l[i] \in D /\ r[i] \in D /\ m[l[i]] < m[i] /\ m[r[i]] < m[i]
        BY <3>2
      <4>2. m[l[i]] < k /\ m[r[i]] < k
        BY <2>4, <4>1
      <4>3. g[l[i]] = f[l[i]] /\ g[r[i]] = f[r[i]]
        BY <4>1, <4>2
      <4> HIDE DEF g
      <4> QED
        BY <2>3, <3>2, <4>3 DEF Rhs
    <3> QED
      BY <3>1, <3>2
  <2> HIDE DEF g
  <2>5. Upto(g, k + 1)
    BY <2>4
  <2> HIDE DEF Upto
  <2> QED
    BY <2>2, <2>5
<1>4. S = Nat
  <2>1. S \in SUBSET Nat
    OBVIOUS
  <2>2. ASSUME NEW n \in Nat, \A k \in 0 .. n - 1 : k \in S PROVE n \in S
    <3> HIDE DEF S
    <3>1. CASE n = 0
      BY <1>2, <3>1
    <3>2. CASE n # 0
      <4>1. n - 1 \in 0 .. n - 1 /\ n - 1 \in Nat /\ (n - 1) + 1 = n
        BY <3>2
      <4>2. n - 1 \in S
        BY <2>2, <4>1
      <4>3. (n - 1) + 1 \in S
        BY <1>3, <4>1, <4>2
      <4> QED
        BY <4>1, <4>3
    <3> QED
      BY <3>1, <3>2
  <2> HIDE DEF S
  <2> QED
    BY <2>1, <2>2, NatSetInduction
<1>5. PICK f \in [D -> V] : Upto(f, M + 1)
  <2> HIDE DEF S
  <2>1. M + 1 \in Nat /\ M + 1 \in S
    BY <1>4
  <2> QED
    BY <2>1 DEF S
<1>6. \A i \in D : m[i] < M + 1
  OBVIOUS
<1> QED
  BY <1>5, <1>6

(* Induction over a measure.                                               *)
LEMMA MeasureInduction ==
  ASSUME NEW D, NEW m \in [D -> Nat], NEW T \in SUBSET D,
         \A i \in D : (\A j \in D : m[j] < m[i] => j \in T) => i \in T
  PROVE  T = D
<1> DEFINE S == {k \in Nat : \A i \in D : m[i] = k => i \in T}
<1>1. ASSUME NEW n \in Nat, \A k \in 0 .. n - 1 : k \in S PROVE n \in S
  <2>1. ASSUME NEW i \in D, m[i] = n PROVE i \in T
    <3>1. ASSUME NEW j \in D, m[j] < m[i] PROVE j \in T
      <4>1. m[j] \in 0 .. n - 1
        BY <2>1, <3>1
      <4> QED
        BY <1>1, <4>1
    <3> QED
      BY <3>1
  <2> QED
    BY <2>1
<1>2. S \in SUBSET Nat
  OBVIOUS
<1> HIDE DEF S
<1>3. S = Nat
  BY <1>1, <1>2, NatSetInduction
<1>4. \A i \in D : m[i] \in Nat
  OBVIOUS
<1> QED
  BY <1>3, <1>4 DEF S

-----------------------------------------------------------------------------
(* Powers of two.                                                          *)

LEMMA Pow2Def ==
  /\ Pow2 = [k \in 0 .. DEPTH + 2 |-> IF k = 0 THEN 1 ELSE 2 * Pow2[k - 1]]
  /\ Pow2 \in [0 .. DEPTH + 2 -> Nat]
<1> DEFINE D == 0 .. DEPTH + 2
           m == [k \in D |-> k]
           b == [k \in D |-> 1]
           p == [k \in D |-> k - 1]
           h == [k \in D |-> [v \in Nat \X Nat |-> 2 * v[1]]]
<1>1. DEPTH + 2 \in Nat
  BY DepthAssumption
<1>2. m \in [D -> Nat] /\ \A i \in D : m[i] <= DEPTH + 2
  OBVIOUS
<1>3. b \in [D -> Nat] /\ {0} \in SUBSET D /\ h \in [D -> [Nat \X Nat -> Nat]] /\ 1 \in Nat
  BY <1>1
<1>4. \A i \in D \ {0} : p[i] \in D /\ m[p[i]] < m[i]
  BY <1>1
<1> HIDE DEF D, m, b, p, h
<1>5. PICK f \in [D -> Nat] :
        \A i \in D : f[i] = IF i \in {0} THEN b[i] ELSE h[i][<<f[p[i]], f[p[i]]>>]
  <2>1. IsRecursion(D, Nat, m, DEPTH + 2, {0}, b, p, p, h)
    BY <1>1, <1>2, <1>3, <1>4 DEF IsRecursion
  <2>2. Nat # {}
    OBVIOUS
  <2> QED
    BY <2>1, <2>2, Recursion
<1>6. ASSUME NEW i \in D
      PROVE  f[i] = IF i = 0 THEN 1 ELSE 2 * f[i - 1]
  <2>1. CASE i = 0
    BY <1>5, <2>1 DEF b
  <2>2. CASE i # 0
    <3>1. p[i] = i - 1 /\ f[p[i]] \in Nat
      BY <1>4, <2>2 DEF p
    <3>2. f[i] = h[i][<<f[p[i]], f[p[i]]>>]
      BY <1>5, <2>2
    <3>3. h[i][<<f[p[i]], f[p[i]]>>] = 2 * f[p[i]]
      BY <3>1 DEF h
    <3> QED
      BY <2>2, <3>1, <3>2, <3>3
  <2> QED
    BY <2>1, <2>2
<1>7. f = [k \in 0 .. DEPTH + 2 |-> IF k = 0 THEN 1 ELSE 2 * f[k - 1]]
  BY <1>6 DEF D
<1>8. Pow2 = [k \in 0 .. DEPTH + 2 |-> IF k = 0 THEN 1 ELSE 2 * Pow2[k - 1]]
  BY <1>7 DEF Pow2
<1> DEFINE T == {i \in D : Pow2[i] \in Nat}
<1>9. ASSUME NEW i \in D, \A j \in D : m[j] < m[i] => j \in T PROVE i \in T
  <2>1. CASE i = 0
    BY <1>8, <2>1 DEF D
  <2>2. CASE i # 0
    <3>1. i - 1 \in T
      BY <1>4, <1>9, <2>2 DEF p
    <3> QED
      BY <1>8, <2>2, <3>1 DEF D
  <2> QED
    BY <2>1, <2>2
<1>11. T \in SUBSET D
  OBVIOUS
<1> HIDE DEF T
<1>10. T = D
  BY <1>2, <1>9, <1>11, MeasureInduction
<1> QED
  BY <1>8, <1>10 DEF D, T

LEMMA Pow2Facts ==
  /\ Pow2[0] = 1
  /\ \A k \in 0 .. DEPTH + 1 : Pow2[k + 1] = 2 * Pow2[k]
  /\ \A k \in 0 .. DEPTH + 2 : Pow2[k] \in Nat /\ Pow2[k] > 0
<1>1. DEPTH \in Nat
  BY DepthAssumption
<1>2. Pow2[0] = 1 /\ \A k \in 0 .. DEPTH + 2 : Pow2[k] \in Nat
  BY <1>1, Pow2Def
<1>3. ASSUME NEW k \in 0 .. DEPTH + 1 PROVE Pow2[k + 1] = 2 * Pow2[k]
  <2>1. k + 1 \in 0 .. DEPTH + 2 /\ k + 1 # 0 /\ (k + 1) - 1 = k
    BY <1>1
  <2> QED
    BY <2>1, Pow2Def
<1> DEFINE D == 0 .. DEPTH + 2
           m == [k \in D |-> k]
           T == {k \in D : Pow2[k] > 0}
<1>4. m \in [D -> Nat] /\ T \in SUBSET D
  BY <1>1
<1>5. ASSUME NEW i \in D, \A j \in D : m[j] < m[i] => j \in T PROVE i \in T
  <2>1. CASE i = 0
    BY <1>2, <2>1
  <2>2. CASE i # 0
    <3>1. i - 1 \in 0 .. DEPTH + 1 /\ (i - 1) + 1 = i /\ i - 1 \in T
      BY <1>1, <1>5, <2>2
    <3> QED
      BY <1>2, <1>3, <3>1
  <2> QED
    BY <2>1, <2>2
<1> HIDE DEF m, T
<1>6. T = D
  BY <1>4, <1>5, MeasureInduction
<1> QED
  BY <1>2, <1>3, <1>6 DEF T

(* A power of two is at least twice, and a multiple of, each smaller one.  *)
LEMMA Pow2Order ==
  ASSUME NEW j \in 0 .. DEPTH + 2, NEW k \in 0 .. DEPTH + 2
  PROVE  /\ j < k => 2 * Pow2[j] <= Pow2[k]
         /\ j <= k => Pow2[j] <= Pow2[k] /\ \E a \in Nat : Pow2[k] = a * Pow2[j]
         /\ Pow2[j] = Pow2[k] => j = k
<1>1. DEPTH \in Nat
  BY DepthAssumption
<1> DEFINE D == 0 .. DEPTH + 2
           m == [i \in D |-> i]
           Good(i) == \A n \in D : n <= i => \E a \in Nat : a > 0 /\ Pow2[i] = a * Pow2[n]
                                                 /\ (n < i => a > 1)
           T == {i \in D : Good(i)}
<1>2. m \in [D -> Nat] /\ T \in SUBSET D
  BY <1>1
<1>3. ASSUME NEW i \in D, \A x \in D : m[x] < m[i] => x \in T PROVE Good(i)
  <2> SUFFICES ASSUME NEW n \in D, n <= i
               PROVE  \E a \in Nat : a > 0 /\ Pow2[i] = a * Pow2[n] /\ (n < i => a > 1)
    OBVIOUS
  <2>1. CASE n = i
    <3>1. Pow2[i] = 1 * Pow2[n]
      BY <2>1, Pow2Facts
    <3> QED
      BY <2>1, <3>1
  <2>2. CASE n # i
    <3>1. i - 1 \in 0 .. DEPTH + 1 /\ (i - 1) + 1 = i /\ i - 1 \in T /\ n <= i - 1
      BY <1>1, <1>3, <2>2
    <3>2. PICK a \in Nat : a > 0 /\ Pow2[i - 1] = a * Pow2[n]
      BY <3>1
    <3>3. Pow2[i] = 2 * Pow2[i - 1]
      BY <3>1, Pow2Facts
    <3>4. Pow2[n] \in Nat
      BY Pow2Facts
    <3>5. Pow2[i] = (2 * a) * Pow2[n] /\ 2 * a \in Nat /\ 2 * a > 1
      BY <3>2, <3>3, <3>4
    <3> QED
      BY <3>5
  <2> QED
    BY <2>1, <2>2
<1> HIDE DEF m, Good
<1>4. T = D
  <2> HIDE DEF D
  <2>1. ASSUME NEW i \in D, \A x \in D : m[x] < m[i] => x \in T PROVE i \in T
    BY <1>3, <2>1
  <2> HIDE DEF T
  <2> QED
    BY <1>2, <2>1, MeasureInduction
<1>5. ASSUME NEW x \in D, NEW y \in D, x <= y
      PROVE  /\ Pow2[x] <= Pow2[y] /\ \E a \in Nat : Pow2[y] = a * Pow2[x]
             /\ x < y => 2 * Pow2[x] <= Pow2[y]
  <2>1. PICK a \in Nat : a > 0 /\ Pow2[y] = a * Pow2[x] /\ (x < y => a > 1)
    BY <1>4, <1>5 DEF Good
  <2>2. Pow2[x] \in Nat
    BY Pow2Facts
  <2> DEFINE p == Pow2[x]
  <2>3. p \in Nat /\ Pow2[y] = a * p
    BY <2>1, <2>2
  <2> HIDE DEF p
  <2>4. p <= a * p /\ (a > 1 => 2 * p <= a * p)
    BY <2>1, <2>3
  <2> QED
    BY <2>1, <2>3, <2>4 DEF p
<1>6. Pow2[j] \in Nat /\ Pow2[j] > 0 /\ Pow2[k] \in Nat /\ Pow2[k] > 0
  BY Pow2Facts
<1>7. ASSUME Pow2[j] = Pow2[k] PROVE j = k
  <2>1. ~(j < k)
    BY <1>5, <1>6, <1>7
  <2>2. ~(k < j)
    BY <1>5, <1>6, <1>7
  <2> QED
    BY <1>1, <2>1, <2>2
<1> QED
  BY <1>5, <1>7

(* Multiples and remainders.                                               *)
LEMMA Division ==
  ASSUME NEW x \in Nat, NEW n \in Nat, n > 0
  PROVE  \E a \in Nat : \E c \in 0 .. n - 1 : x = a * n + c
<1> DEFINE S == {y \in Nat : \E a \in Nat : \E c \in 0 .. n - 1 : y = a * n + c}
<1>1. ASSUME NEW y \in Nat, \A z \in 0 .. y - 1 : z \in S PROVE y \in S
  <2>1. CASE y < n
    <3>1. y = 0 * n + y /\ y \in 0 .. n - 1
      BY <2>1
    <3> QED
      BY <3>1
  <2>2. CASE y >= n
    <3>1. y - n \in 0 .. y - 1
      BY <2>2
    <3>2. PICK a \in Nat, c \in 0 .. n - 1 : y - n = a * n + c
      BY <1>1, <3>1
    <3>3. y = (a + 1) * n + c /\ a + 1 \in Nat
      BY <3>2
    <3> QED
      BY <3>3
  <2> QED
    BY <2>1, <2>2
<1>2. S \in SUBSET Nat
  OBVIOUS
<1> HIDE DEF S
<1>3. S = Nat
  BY <1>1, <1>2, NatSetInduction
<1> QED
  BY <1>3 DEF S

LEMMA Remainder ==
  ASSUME NEW x \in Nat, NEW n \in Nat, n > 0
  PROVE  x % n = 0 <=> \E a \in Nat : x = a * n
<1>1. PICK a \in Nat, c \in 0 .. n - 1 : x = a * n + c
  BY Division
<1>2. x % n = c
  BY <1>1
<1>3. ASSUME NEW d \in Nat, x = d * n PROVE x % n = 0
  BY <1>3
<1> QED
  BY <1>1, <1>2, <1>3

-----------------------------------------------------------------------------
(* The tree.                                                               *)

LEMMA SizeFacts == SIZE \in Nat /\ SIZE > 0 /\ DEPTH \in Nat
BY DepthAssumption, Pow2Facts DEF SIZE

LEMMA ParentFacts ==
  ASSUME NEW i \in Nodes
  PROVE  /\ i \in Nat
         /\ i # 0 => PARENT(i) \in Nodes /\ PARENT(i) < i /\ PARENT(i) < SIZE - 1
         /\ i # 0 => i = LEFT_LEAF(PARENT(i)) \/ i = RIGHT_LEAF(PARENT(i))
         /\ i < SIZE - 1 => /\ LEFT_LEAF(i) \in Nodes /\ RIGHT_LEAF(i) \in Nodes
                            /\ LEFT_LEAF(i) > i /\ RIGHT_LEAF(i) > i
                            /\ LEFT_LEAF(i) # 0 /\ RIGHT_LEAF(i) # 0
                            /\ LEFT_LEAF(i) # RIGHT_LEAF(i)
                            /\ PARENT(LEFT_LEAF(i)) = i /\ PARENT(RIGHT_LEAF(i)) = i
BY SizeFacts DEF Nodes, PARENT, LEFT_LEAF, RIGHT_LEAF

LEMMA NodesFacts == 0 \in Nodes /\ Nodes \subseteq Nat /\ \A i \in Nodes : i <= 2 * SIZE
BY SizeFacts DEF Nodes

LEMMA NodeSizeDef ==
  NodeSize = [i \in Nodes |-> IF i = 0 THEN SIZE ELSE NodeSize[PARENT(i)] \div 2]
<1> DEFINE m == [i \in Nodes |-> i]
           b == [i \in Nodes |-> SIZE]
           p == [i \in Nodes |-> PARENT(i)]
           h == [i \in Nodes |-> [v \in Nat \X Nat |-> v[1] \div 2]]
<1>1. m \in [Nodes -> Nat] /\ 2 * SIZE \in Nat /\ \A i \in Nodes : m[i] <= 2 * SIZE
  BY NodesFacts, SizeFacts
<1>2. {0} \in SUBSET Nodes /\ b \in [Nodes -> Nat] /\ h \in [Nodes -> [Nat \X Nat -> Nat]]
  BY NodesFacts, SizeFacts
<1>3. \A i \in Nodes \ {0} : p[i] \in Nodes /\ m[p[i]] < m[i]
  BY ParentFacts
<1> HIDE DEF m, b, p, h
<1>4. IsRecursion(Nodes, Nat, m, 2 * SIZE, {0}, b, p, p, h)
  BY <1>1, <1>2, <1>3 DEF IsRecursion
<1> Nat # {}
  OBVIOUS
<1>5. PICK f \in [Nodes -> Nat] :
        \A i \in Nodes : f[i] = IF i \in {0} THEN b[i] ELSE h[i][<<f[p[i]], f[p[i]]>>]
  BY <1>4, Recursion
<1>6. ASSUME NEW i \in Nodes
      PROVE  f[i] = IF i = 0 THEN SIZE ELSE f[PARENT(i)] \div 2
  <2>1. CASE i = 0
    BY <1>5, <2>1 DEF b
  <2>2. CASE i # 0
    <3>1. p[i] = PARENT(i) /\ f[p[i]] \in Nat
      BY <1>3, <2>2 DEF p
    <3>2. f[i] = h[i][<<f[p[i]], f[p[i]]>>]
      BY <1>5, <2>2
    <3>3. h[i][<<f[p[i]], f[p[i]]>>] = f[p[i]] \div 2
      BY <3>1 DEF h
    <3> QED
      BY <2>2, <3>1, <3>2, <3>3
  <2> QED
    BY <2>1, <2>2
<1>7. f = [i \in Nodes |-> IF i = 0 THEN SIZE ELSE f[PARENT(i)] \div 2]
  BY <1>6
<1> QED
  BY <1>7 DEF NodeSize

LEMMA AboveDef ==
  Above = [i \in Nodes |-> IF i = 0 THEN {} ELSE {PARENT(i)} \cup Above[PARENT(i)]]
<1> DEFINE V == SUBSET Nodes
           m == [i \in Nodes |-> i]
           b == [i \in Nodes |-> {}]
           p == [i \in Nodes |-> PARENT(i)]
           h == [i \in Nodes |-> [v \in V \X V |-> IF i = 0 THEN {} ELSE {PARENT(i)} \cup v[1]]]
<1>1. m \in [Nodes -> Nat] /\ 2 * SIZE \in Nat /\ \A i \in Nodes : m[i] <= 2 * SIZE
  BY NodesFacts, SizeFacts
<1>2. {0} \in SUBSET Nodes /\ b \in [Nodes -> V] /\ h \in [Nodes -> [V \X V -> V]]
  <2>1. ASSUME NEW i \in Nodes, NEW v \in V \X V
        PROVE  (IF i = 0 THEN {} ELSE {PARENT(i)} \cup v[1]) \in V
    BY ParentFacts
  <2> QED
    BY <2>1, NodesFacts
<1>3. \A i \in Nodes \ {0} : p[i] \in Nodes /\ m[p[i]] < m[i]
  BY ParentFacts
<1>4. V # {}
  OBVIOUS
<1> HIDE DEF m, b, p, h, V
<1>5. IsRecursion(Nodes, V, m, 2 * SIZE, {0}, b, p, p, h)
  BY <1>1, <1>2, <1>3 DEF IsRecursion
<1>6. PICK f \in [Nodes -> V] :
        \A i \in Nodes : f[i] = IF i \in {0} THEN b[i] ELSE h[i][<<f[p[i]], f[p[i]]>>]
  BY <1>4, <1>5, Recursion
<1>7. ASSUME NEW i \in Nodes
      PROVE  f[i] = IF i = 0 THEN {} ELSE {PARENT(i)} \cup f[PARENT(i)]
  <2>1. CASE i = 0
    BY <1>6, <2>1 DEF b
  <2>2. CASE i # 0
    <3>1. p[i] = PARENT(i) /\ f[p[i]] \in V
      BY <1>3, <2>2 DEF p
    <3>2. f[i] = h[i][<<f[p[i]], f[p[i]]>>]
      BY <1>6, <2>2
    <3>3. h[i][<<f[p[i]], f[p[i]]>>] = {PARENT(i)} \cup f[p[i]]
      BY <2>2, <3>1 DEF h
    <3> QED
      BY <2>2, <3>1, <3>2, <3>3
  <2> QED
    BY <2>1, <2>2
<1>8. f = [i \in Nodes |-> IF i = 0 THEN {} ELSE {PARENT(i)} \cup f[PARENT(i)]]
  BY <1>7
<1> QED
  BY <1>8 DEF Above

(* Node i spans the pages from Lo(i) up to, and without, Hi(i).            *)
Lo(i) == (i + 1) * NodeSize[i] - SIZE
Hi(i) == Lo(i) + NodeSize[i]

(* The levels of the tree: on level d, counted from the root, the numbers  *)
(* from Pow2[d] - 1 up, and nodes of Pow2[DEPTH - d] pages.                *)
LEMMA Levels ==
  ASSUME NEW i \in Nodes
  PROVE  \E d \in 0 .. DEPTH : /\ Pow2[d] <= i + 1 /\ i + 1 < 2 * Pow2[d]
                               /\ NodeSize[i] = Pow2[DEPTH - d]
<1> DEFINE Level(j, d) == /\ Pow2[d] <= j + 1 /\ j + 1 < 2 * Pow2[d]
                          /\ NodeSize[j] = Pow2[DEPTH - d]
           m == [j \in Nodes |-> j]
           T == {j \in Nodes : \E d \in 0 .. DEPTH : Level(j, d)}
<1>1. DEPTH \in Nat /\ Pow2[0] = 1 /\ SIZE = Pow2[DEPTH]
  BY SizeFacts, Pow2Facts DEF SIZE
<1>2. ASSUME NEW j \in Nodes, \A x \in Nodes : m[x] < m[j] => x \in T PROVE j \in T
  <2>1. CASE j = 0
    <3>1. 0 \in 0 .. DEPTH /\ DEPTH - 0 = DEPTH
      BY <1>1
    <3>2. NodeSize[0] = SIZE
      BY NodesFacts, NodeSizeDef
    <3> QED
      BY <1>1, <2>1, <3>1, <3>2
  <2>2. CASE j # 0
    <3> DEFINE x == PARENT(j)
    <3>1. x \in Nodes /\ x < j /\ x \in Nat /\ j \in Nat
          /\ (j = 2 * x + 1 \/ j = 2 * x + 2)
      BY <2>2, ParentFacts DEF LEFT_LEAF, RIGHT_LEAF
    <3>2. NodeSize[j] = NodeSize[x] \div 2
      BY <2>2, NodeSizeDef
    <3> HIDE DEF x
    <3>3. PICK d \in 0 .. DEPTH : Level(x, d)
      BY <1>2, <3>1
    <3>4. Pow2[d] \in Nat /\ Pow2[d + 1] = 2 * Pow2[d] /\ d + 1 \in 0 .. DEPTH + 1
      BY <1>1, Pow2Facts
    <3>5. Pow2[d + 1] <= j + 1 /\ j + 1 < 2 * Pow2[d + 1]
      BY <3>1, <3>3, <3>4
    <3>6. d + 1 # DEPTH + 1
      <4>1. SUFFICES ASSUME d + 1 = DEPTH + 1 PROVE FALSE
        OBVIOUS
      <4>2. Pow2[d + 1] = 2 * SIZE
        BY <1>1, <3>4, <4>1
      <4>3. j <= 2 * SIZE - 2
        BY SizeFacts DEF Nodes
      <4> QED
        BY <3>1, <3>5, <4>2, <4>3, SizeFacts
    <3>7. d + 1 \in 0 .. DEPTH /\ DEPTH - (d + 1) \in 0 .. DEPTH + 1
          /\ (DEPTH - (d + 1)) + 1 = DEPTH - d
      BY <1>1, <3>4, <3>6
    <3>8. Pow2[DEPTH - d] = 2 * Pow2[DEPTH - (d + 1)] /\ Pow2[DEPTH - (d + 1)] \in Nat
      BY <1>1, <3>7, Pow2Facts
    <3>9. NodeSize[j] = Pow2[DEPTH - (d + 1)]
      BY <3>2, <3>3, <3>8
    <3> QED
      BY <3>5, <3>7, <3>9
  <2> QED
    BY <2>1, <2>2
<1>3. m \in [Nodes -> Nat] /\ T \in SUBSET Nodes
  BY NodesFacts
<1> HIDE DEF T, m, Level
<1>4. T = Nodes
  BY <1>2, <1>3, MeasureInduction
<1> QED
  BY <1>4 DEF T, Level

LEMMA SizeOfNode ==
  ASSUME NEW i \in Nodes
  PROVE  /\ \E k \in 0 .. DEPTH : NodeSize[i] = Pow2[k]
         /\ NodeSize[i] \in Nat /\ NodeSize[i] > 0
         /\ i >= SIZE - 1 => NodeSize[i] = 1
         /\ i < SIZE - 1 => NodeSize[i] = 2 * NodeSize[LEFT_LEAF(i)]
                            /\ NodeSize[RIGHT_LEAF(i)] = NodeSize[LEFT_LEAF(i)]
<1>1. PICK d \in 0 .. DEPTH : /\ Pow2[d] <= i + 1 /\ i + 1 < 2 * Pow2[d]
                              /\ NodeSize[i] = Pow2[DEPTH - d]
  BY Levels
<1>2. DEPTH \in Nat /\ SIZE = Pow2[DEPTH] /\ i \in Nat /\ DEPTH - d \in 0 .. DEPTH
  BY SizeFacts, NodesFacts DEF SIZE
<1>3. NodeSize[i] \in Nat /\ NodeSize[i] > 0
  BY <1>1, <1>2, Pow2Facts
<1>4. ASSUME i >= SIZE - 1 PROVE NodeSize[i] = 1
  <2>1. ~(d < DEPTH)
    <3>1. d < DEPTH => 2 * Pow2[d] <= Pow2[DEPTH]
      BY <1>2, Pow2Order
    <3>2. Pow2[d] \in Nat
      BY <1>2, Pow2Facts
    <3> QED
      BY <1>1, <1>2, <1>4, <3>1, <3>2, SizeFacts
  <2>2. DEPTH - d = 0
    BY <1>2, <2>1
  <2> QED
    BY <1>1, <2>2, Pow2Facts
<1>5. ASSUME i < SIZE - 1
      PROVE  NodeSize[i] = 2 * NodeSize[LEFT_LEAF(i)]
             /\ NodeSize[RIGHT_LEAF(i)] = NodeSize[LEFT_LEAF(i)]
  <2>1. d # DEPTH
    <3>1. i + 1 < SIZE
      BY <1>2, <1>5, SizeFacts
    <3>2. ~(SIZE <= i + 1)
      BY <1>2, <3>1, SizeFacts
    <3> QED
      BY <1>1, <1>2, <3>2
  <2>2. DEPTH - d - 1 \in 0 .. DEPTH + 1 /\ (DEPTH - d - 1) + 1 = DEPTH - d
    BY <1>2, <2>1
  <2>3. Pow2[DEPTH - d] = 2 * Pow2[DEPTH - d - 1] /\ Pow2[DEPTH - d - 1] \in Nat
    BY <1>2, <2>2, Pow2Facts
  <2>4. /\ LEFT_LEAF(i) \in Nodes /\ RIGHT_LEAF(i) \in Nodes
        /\ LEFT_LEAF(i) # 0 /\ RIGHT_LEAF(i) # 0
        /\ PARENT(LEFT_LEAF(i)) = i /\ PARENT(RIGHT_LEAF(i)) = i
    BY <1>5, ParentFacts
  <2>5. NodeSize[LEFT_LEAF(i)] = NodeSize[i] \div 2 /\ NodeSize[RIGHT_LEAF(i)] = NodeSize[i] \div 2
    BY <2>4, NodeSizeDef
  <2> QED
    BY <1>1, <2>3, <2>5
<1> QED
  BY <1>1, <1>2, <1>3, <1>4, <1>5

(* Where the two halves of a node lie.                                     *)
LEMMA Halves ==
  ASSUME NEW i \in Nodes, i < SIZE - 1
  PROVE  /\ Lo(LEFT_LEAF(i)) = Lo(i)
         /\ Hi(LEFT_LEAF(i)) = Lo(RIGHT_LEAF(i))
         /\ Hi(RIGHT_LEAF(i)) = Hi(i)
<1>1. i \in Nat /\ SIZE \in Nat
  BY NodesFacts, SizeFacts
<1>2. LEFT_LEAF(i) \in Nodes
  BY ParentFacts
<1> DEFINE s == NodeSize[LEFT_LEAF(i)]
<1>3. s \in Nat
  BY <1>2, SizeOfNode
<1>4. NodeSize[i] = 2 * s /\ NodeSize[RIGHT_LEAF(i)] = s /\ NodeSize[LEFT_LEAF(i)] = s
  BY SizeOfNode
<1> HIDE DEF s
<1>5. (LEFT_LEAF(i) + 1) * s = (i + 1) * (2 * s)
      /\ (RIGHT_LEAF(i) + 1) * s = (i + 1) * (2 * s) + s
      /\ (i + 1) * (2 * s) \in Int
  BY <1>1, <1>3 DEF LEFT_LEAF, RIGHT_LEAF
<1> QED
  BY <1>1, <1>3, <1>4, <1>5 DEF Lo, Hi

LEMMA Places ==
  ASSUME NEW i \in Nodes
  PROVE  /\ Lo(i) \in Nat /\ Hi(i) \in Nat /\ Hi(i) = Lo(i) + NodeSize[i] /\ Hi(i) <= SIZE
         /\ \E a \in Nat : Lo(i) = a * NodeSize[i]
         /\ i >= SIZE - 1 => Lo(i) = i - (SIZE - 1)
<1> DEFINE Good(j) == /\ Lo(j) \in Nat /\ Hi(j) <= SIZE
                      /\ \E a \in Nat : Lo(j) = a * NodeSize[j]
           m == [j \in Nodes |-> j]
           T == {j \in Nodes : Good(j)}
<1>1. ASSUME NEW j \in Nodes, \A x \in Nodes : m[x] < m[j] => x \in T PROVE Good(j)
  <2>1. CASE j = 0
    <3>1. NodeSize[0] = SIZE
      BY NodesFacts, NodeSizeDef
    <3>2. Lo(0) = 0 /\ Hi(0) = SIZE
      BY <3>1, SizeFacts DEF Lo, Hi
    <3>3. Lo(0) = 0 * NodeSize[0]
      BY <3>1, <3>2, SizeFacts
    <3> QED
      BY <2>1, <3>2, <3>3, SizeFacts
  <2>2. CASE j # 0
    <3> DEFINE x == PARENT(j)
    <3>1. x \in Nodes /\ m[x] < m[j] /\ x < SIZE - 1 /\ (j = LEFT_LEAF(x) \/ j = RIGHT_LEAF(x))
      BY <2>2, ParentFacts
    <3> HIDE DEF x
    <3>2. Good(x)
      BY <1>1, <3>1
    <3> HIDE DEF m, T
    <3>3. PICK a \in Nat : Lo(x) = a * NodeSize[x]
      BY <3>2
    <3> DEFINE s == NodeSize[j]
    <3>4. s \in Nat /\ NodeSize[x] = 2 * s /\ NodeSize[x] = NodeSize[LEFT_LEAF(x)] * 2
          /\ NodeSize[LEFT_LEAF(x)] = s
      BY <3>1, SizeOfNode
    <3>5. Lo(j) = Lo(x) \/ Lo(j) = Lo(x) + s
      BY <3>1, <3>4, Halves DEF Hi
    <3> HIDE DEF s
    <3>6. Lo(x) = (2 * a) * s /\ Lo(x) + s = (2 * a + 1) * s
      BY <3>3, <3>4
    <3>7. \E c \in Nat : Lo(j) = c * s
      <4>1. 2 * a \in Nat /\ 2 * a + 1 \in Nat
        OBVIOUS
      <4> QED
        BY <3>5, <3>6, <4>1
    <3>8. Lo(j) \in Nat /\ Hi(j) <= SIZE
      <4>1. Lo(x) \in Nat /\ Hi(x) <= SIZE
        BY <3>2
      <4>2. Hi(x) = Lo(x) + 2 * s /\ Hi(j) = Lo(j) + s
        BY <3>4 DEF Hi, s
      <4> QED
        BY <3>4, <3>5, <4>1, <4>2, SizeFacts
    <3> QED
      BY <3>7, <3>8 DEF s
  <2> QED
    BY <2>1, <2>2
<1>2. m \in [Nodes -> Nat] /\ T \in SUBSET Nodes
  BY NodesFacts
<1> HIDE DEF m, Good
<1>3. T = Nodes
  <2>1. ASSUME NEW j \in Nodes, \A x \in Nodes : m[x] < m[j] => x \in T PROVE j \in T
    BY <1>1, <2>1
  <2> HIDE DEF T
  <2> QED
    BY <1>2, <2>1, MeasureInduction
<1>4. Good(i)
  BY <1>3
<1>5. Hi(i) \in Nat /\ Hi(i) = Lo(i) + NodeSize[i]
  BY <1>4, SizeOfNode DEF Good, Hi
<1>6. i >= SIZE - 1 => Lo(i) = i - (SIZE - 1)
  BY SizeOfNode, SizeFacts, NodesFacts DEF Lo
<1> QED
  BY <1>4, <1>5, <1>6 DEF Good

LEMMA SamePlace ==
  ASSUME NEW i \in Nodes, NEW j \in Nodes, NodeSize[i] = NodeSize[j], Lo(i) = Lo(j)
  PROVE  i = j
<1> DEFINE s == NodeSize[i]
<1>1. s \in Nat /\ s > 0 /\ i \in Nat /\ j \in Nat
  BY SizeOfNode, NodesFacts
<1>2. (i + 1) * s = (j + 1) * s
  <2>1. Lo(i) = (i + 1) * s - SIZE /\ Lo(j) = (j + 1) * s - SIZE
    BY DEF Lo
  <2> HIDE DEF s
  <2>2. (i + 1) * s \in Int /\ (j + 1) * s \in Int /\ SIZE \in Int
    BY <1>1, SizeFacts
  <2> DEFINE a == (i + 1) * s
             c == (j + 1) * s
  <2> HIDE DEF a, c
  <2>3. a = c
    <3>1. a \in Int /\ c \in Int /\ SIZE \in Int
      BY <2>2 DEF a, c
    <3>2. a - SIZE = c - SIZE
      BY <2>1 DEF a, c
    <3> QED
      BY <3>1, <3>2
  <2> QED
    BY <2>3 DEF a, c
<1> HIDE DEF s
<1>3. (i - j) * s = 0
  BY <1>1, <1>2
<1> QED
  BY <1>1, <1>3

(* Blocks at multiples of their sizes are nested or apart.                 *)
Aligned(x, n) == \E a \in Nat : x = a * n

LEMMA OrdersFacts ==
  /\ \A n \in Orders : n \in Nat /\ n > 0
  /\ \A i \in Nodes : NodeSize[i] \in Orders /\ Aligned(Lo(i), NodeSize[i])
  /\ \A n, s \in Orders : /\ n <= s => \E c \in Nat : c > 0 /\ s = c * n
                          /\ n < s => 2 * n <= s
<1>1. ASSUME NEW n \in Orders PROVE n \in Nat /\ n > 0
  <2>1. PICK k \in 0 .. DEPTH + 1 : n = Pow2[k]
    BY DEF Orders
  <2>2. k \in 0 .. DEPTH + 2
    BY SizeFacts
  <2> QED
    BY <2>1, <2>2, Pow2Facts
<1>2. ASSUME NEW i \in Nodes PROVE NodeSize[i] \in Orders /\ Aligned(Lo(i), NodeSize[i])
  <2>1. PICK k \in 0 .. DEPTH : NodeSize[i] = Pow2[k]
    BY SizeOfNode
  <2>2. k \in 0 .. DEPTH + 1
    BY SizeFacts
  <2> QED
    BY <2>1, <2>2, Places DEF Orders, Aligned
<1>3. ASSUME NEW n \in Orders, NEW s \in Orders
      PROVE  /\ n <= s => \E c \in Nat : c > 0 /\ s = c * n
             /\ n < s => 2 * n <= s
  <2>1. PICK j \in 0 .. DEPTH + 1, k \in 0 .. DEPTH + 1 : n = Pow2[j] /\ s = Pow2[k]
    BY DEF Orders
  <2>2. j \in 0 .. DEPTH + 2 /\ k \in 0 .. DEPTH + 2
    BY SizeFacts
  <2>3. n \in Nat /\ n > 0 /\ s \in Nat /\ s > 0
    BY <1>1
  <2>4. ASSUME n <= s PROVE \E c \in Nat : c > 0 /\ s = c * n
    <3>1. ~(k < j)
      <4>1. k < j => 2 * s <= n
        BY <2>1, <2>2, Pow2Order
      <4> QED
        BY <2>3, <2>4, <4>1
    <3>2. j <= k
      BY <2>2, <3>1, SizeFacts
    <3>3. PICK c \in Nat : s = c * n
      BY <2>1, <2>2, <3>2, Pow2Order
    <3>4. c # 0
      BY <2>3, <3>3
    <3> QED
      BY <3>3, <3>4
  <2>5. ASSUME n < s PROVE 2 * n <= s
    <3>1. ~(k < j) /\ ~(k = j)
      <4>1. k < j => 2 * s <= n
        BY <2>1, <2>2, Pow2Order
      <4> QED
        BY <2>1, <2>3, <2>5, <4>1
    <3>2. j < k
      BY <2>2, <3>1, SizeFacts
    <3> QED
      BY <2>1, <2>2, <3>2, Pow2Order
  <2> QED
    BY <2>4, <2>5
<1> QED
  BY <1>1, <1>2, <1>3

LEMMA Nesting ==
  ASSUME NEW n \in Orders, NEW s \in Orders, n <= s,
         NEW x \in Nat, NEW y \in Nat, Aligned(x, n), Aligned(y, s)
  PROVE  (y <= x /\ x + n <= y + s) \/ x + n <= y \/ y + s <= x
<1>1. n \in Nat /\ n > 0 /\ s \in Nat /\ s > 0
  BY OrdersFacts
<1>2. PICK c \in Nat : c > 0 /\ s = c * n
  BY OrdersFacts
<1>3. PICK a \in Nat : x = a * n
  BY DEF Aligned
<1>4. PICK b \in Nat : y = b * s
  BY DEF Aligned
<1> DEFINE e == b * c
<1>5. e \in Nat /\ y = e * n
  BY <1>1, <1>2, <1>4
<1> HIDE DEF e
<1>6. y + s = (e + c) * n /\ x + n = (a + 1) * n /\ e + c \in Nat
  BY <1>1, <1>2, <1>3, <1>5
<1>7. \A u, v \in Nat : u <= v => u * n <= v * n
  BY <1>1
<1>8. CASE a < e
  BY <1>3, <1>5, <1>6, <1>7, <1>8
<1>9. CASE e + c <= a
  BY <1>3, <1>5, <1>6, <1>7, <1>9
<1>10. CASE e <= a /\ a + 1 <= e + c
  BY <1>3, <1>5, <1>6, <1>7, <1>10
<1> QED
  BY <1>2, <1>5, <1>8, <1>9, <1>10

-----------------------------------------------------------------------------
(* What the bitmap bm says of the nodes H that are handed out: 0 there, 1  *)
(* at another leaf, and at another inner node what buddy_free would        *)
(* compute from its halves.                                                *)
Lawful(bm, H) ==
  /\ H \subseteq Nodes
  /\ \A i \in Nodes :
       bm[i] = IF i \in H THEN 0
               ELSE IF i >= SIZE - 1 THEN 1
               ELSE Merged(NodeSize[i], bm[LEFT_LEAF(i)], bm[RIGHT_LEAF(i)])

Inside(j, i) == Lo(i) <= Lo(j) /\ Hi(j) <= Hi(i)

(* The n pages from q on are apart from H.                                 *)
FreeOf(q, n, H) == \A i \in H : q + n <= Lo(i) \/ Hi(i) <= q

(* No node of H strictly contains i.                                       *)
Open(i, H) == \A j \in H : Inside(i, j) => NodeSize[j] <= NodeSize[i]

(* Induction from the leaves up.                                           *)
LEMMA BottomUp ==
  ASSUME NEW T \in SUBSET Nodes,
         \A i \in Nodes :
           (i < SIZE - 1 => LEFT_LEAF(i) \in T /\ RIGHT_LEAF(i) \in T) => i \in T
  PROVE  T = Nodes
<1> DEFINE m == [i \in Nodes |-> 2 * SIZE - i]
<1>1. m \in [Nodes -> Nat]
  BY NodesFacts, SizeFacts
<1>2. ASSUME NEW i \in Nodes, \A j \in Nodes : m[j] < m[i] => j \in T PROVE i \in T
  <2>1. ASSUME i < SIZE - 1 PROVE LEFT_LEAF(i) \in T /\ RIGHT_LEAF(i) \in T
    <3>1. /\ LEFT_LEAF(i) \in Nodes /\ RIGHT_LEAF(i) \in Nodes
          /\ LEFT_LEAF(i) > i /\ RIGHT_LEAF(i) > i
      BY <2>1, ParentFacts
    <3>2. ASSUME NEW j \in Nodes, j > i PROVE m[j] < m[i]
      BY <3>2, NodesFacts, SizeFacts
    <3> QED
      BY <1>2, <3>1, <3>2
  <2> QED
    BY <2>1
<1> HIDE DEF m
<1> QED
  BY <1>1, <1>2, MeasureInduction

LEMMA Bounds ==
  ASSUME NEW bm, NEW H, Lawful(bm, H)
  PROVE  \A i \in Nodes : bm[i] \in Nat /\ bm[i] <= NodeSize[i]
<1> DEFINE T == {i \in Nodes : bm[i] \in Nat /\ bm[i] <= NodeSize[i]}
<1>1. ASSUME NEW i \in Nodes, i < SIZE - 1 => LEFT_LEAF(i) \in T /\ RIGHT_LEAF(i) \in T
      PROVE  i \in T
  <2>1. bm[i] = IF i \in H THEN 0
               ELSE IF i >= SIZE - 1 THEN 1
               ELSE Merged(NodeSize[i], bm[LEFT_LEAF(i)], bm[RIGHT_LEAF(i)])
    BY DEF Lawful
  <2>2. NodeSize[i] \in Nat /\ NodeSize[i] > 0 /\ i \in Nat /\ SIZE \in Nat
    BY SizeOfNode, NodesFacts, SizeFacts
  <2>3. CASE i \in H \/ i >= SIZE - 1
    BY <2>1, <2>2, <2>3
  <2>4. CASE i \notin H /\ i < SIZE - 1
    <3>1. bm[i] = Merged(NodeSize[i], bm[LEFT_LEAF(i)], bm[RIGHT_LEAF(i)])
      BY <2>1, <2>2, <2>4
    <3>2. /\ bm[LEFT_LEAF(i)] \in Nat /\ bm[LEFT_LEAF(i)] <= NodeSize[LEFT_LEAF(i)]
          /\ bm[RIGHT_LEAF(i)] \in Nat /\ bm[RIGHT_LEAF(i)] <= NodeSize[RIGHT_LEAF(i)]
      BY <1>1, <2>4
    <3>3. /\ NodeSize[i] = 2 * NodeSize[LEFT_LEAF(i)]
          /\ NodeSize[RIGHT_LEAF(i)] = NodeSize[LEFT_LEAF(i)]
          /\ NodeSize[LEFT_LEAF(i)] \in Nat
      BY <2>4, SizeOfNode, ParentFacts
    <3> QED
      BY <2>2, <3>1, <3>2, <3>3 DEF Merged, MAX
  <2> QED
    BY <2>2, <2>3, <2>4
<1>2. T \in SUBSET Nodes
  OBVIOUS
<1>3. T = Nodes
  <2> HIDE DEF T
  <2> QED
    BY <1>1, <1>2, BottomUp
<1> QED
  BY <1>3

(* A subtree without a node of H is free altogether.                       *)
LEMMA Full ==
  ASSUME NEW bm, NEW H, Lawful(bm, H)
  PROVE  \A i \in Nodes : (\A j \in H : ~Inside(j, i)) => bm[i] = NodeSize[i]
<1> DEFINE T == {i \in Nodes : (\A j \in H : ~Inside(j, i)) => bm[i] = NodeSize[i]}
<1>1. ASSUME NEW i \in Nodes, i < SIZE - 1 => LEFT_LEAF(i) \in T /\ RIGHT_LEAF(i) \in T,
             \A j \in H : ~Inside(j, i)
      PROVE  bm[i] = NodeSize[i]
  <2>1. i \notin H
    BY <1>1, Places DEF Inside
  <2>2. i \in Nat /\ SIZE \in Nat
    BY NodesFacts, SizeFacts
  <2>3. CASE i >= SIZE - 1
    BY <2>1, <2>2, <2>3, SizeOfNode DEF Lawful
  <2>4. CASE i < SIZE - 1
    <3>1. LEFT_LEAF(i) \in Nodes /\ RIGHT_LEAF(i) \in Nodes
      BY <2>4, ParentFacts
    <3>2. ASSUME NEW j \in H PROVE ~Inside(j, LEFT_LEAF(i)) /\ ~Inside(j, RIGHT_LEAF(i))
      <4>1. /\ Lo(LEFT_LEAF(i)) = Lo(i) /\ Hi(RIGHT_LEAF(i)) = Hi(i)
            /\ Hi(LEFT_LEAF(i)) <= Hi(i) /\ Lo(i) <= Lo(RIGHT_LEAF(i))
        BY <2>4, <3>1, Halves, Places, SizeOfNode
      <4>2. j \in Nodes
        BY DEF Lawful
      <4>3. Lo(j) \in Nat /\ Hi(j) \in Nat /\ Lo(i) \in Nat /\ Hi(i) \in Nat
            /\ Lo(RIGHT_LEAF(i)) \in Nat /\ Hi(LEFT_LEAF(i)) \in Nat
        BY <3>1, <4>2, Places
      <4>4. ~Inside(j, i)
        BY <1>1
      <4> QED
        BY <4>1, <4>3, <4>4 DEF Inside
    <3>3. bm[LEFT_LEAF(i)] = NodeSize[LEFT_LEAF(i)] /\ bm[RIGHT_LEAF(i)] = NodeSize[RIGHT_LEAF(i)]
      BY <1>1, <2>4, <3>2
    <3>4. NodeSize[i] = NodeSize[LEFT_LEAF(i)] + NodeSize[RIGHT_LEAF(i)]
      BY <2>4, <3>1, SizeOfNode
    <3>5. bm[i] = Merged(NodeSize[i], bm[LEFT_LEAF(i)], bm[RIGHT_LEAF(i)])
      BY <2>1, <2>2, <2>4 DEF Lawful
    <3> QED
      BY <3>3, <3>4, <3>5 DEF Merged
  <2> QED
    BY <2>2, <2>3, <2>4
<1>2. T \in SUBSET Nodes
  OBVIOUS
<1>3. T = Nodes
  <2>1. ASSUME NEW i \in Nodes, i < SIZE - 1 => LEFT_LEAF(i) \in T /\ RIGHT_LEAF(i) \in T
        PROVE  i \in T
    BY <1>1, <2>1
  <2> HIDE DEF T
  <2> QED
    BY <1>2, <2>1, BottomUp
<1> QED
  BY <1>3

(* A node offers at least every block below it that is free.               *)
LEMMA LowerBound ==
  ASSUME NEW bm, NEW H, Lawful(bm, H),
         NEW n \in Orders, NEW q \in Nat, Aligned(q, n), FreeOf(q, n, H)
  PROVE  \A i \in Nodes : Lo(i) <= q /\ q + n <= Hi(i) => n <= bm[i]
<1> DEFINE Good(i) == Lo(i) <= q /\ q + n <= Hi(i) => n <= bm[i]
           T == {i \in Nodes : Good(i)}
<1>1. ASSUME NEW i \in Nodes, i < SIZE - 1 => LEFT_LEAF(i) \in T /\ RIGHT_LEAF(i) \in T,
             Lo(i) <= q, q + n <= Hi(i)
      PROVE  n <= bm[i]
  <2>1. /\ i \in Nat /\ SIZE \in Nat /\ n \in Nat /\ n > 0 /\ Lo(i) \in Nat /\ Hi(i) \in Nat
        /\ NodeSize[i] \in Nat /\ Hi(i) = Lo(i) + NodeSize[i] /\ NodeSize[i] \in Orders
    BY NodesFacts, SizeFacts, OrdersFacts, Places, SizeOfNode
  <2>2. i \notin H
    BY <1>1, <2>1 DEF FreeOf
  <2>3. n <= NodeSize[i]
    BY <1>1, <2>1
  <2>4. CASE i >= SIZE - 1
    <3>1. bm[i] = 1 /\ NodeSize[i] = 1
      BY <2>1, <2>2, <2>4, SizeOfNode DEF Lawful
    <3> QED
      BY <2>3, <3>1
  <2>5. CASE i < SIZE - 1 /\ n = NodeSize[i]
    <3>1. q = Lo(i) /\ q + n = Hi(i)
      BY <1>1, <2>1, <2>5
    <3>2. ASSUME NEW j \in H, Inside(j, i) PROVE FALSE
      <4>1. j \in Nodes
        BY DEF Lawful
      <4>2. Lo(j) \in Nat /\ Hi(j) \in Nat /\ NodeSize[j] \in Nat /\ NodeSize[j] > 0
            /\ Hi(j) = Lo(j) + NodeSize[j]
        BY <4>1, Places, SizeOfNode
      <4>3. q + n <= Lo(j) \/ Hi(j) <= q
        BY DEF FreeOf
      <4> QED
        BY <2>1, <3>1, <3>2, <4>2, <4>3 DEF Inside
    <3>3. bm[i] = NodeSize[i]
      BY <3>2, Full
    <3> QED
      BY <2>1, <2>5, <3>3
  <2>6. CASE i < SIZE - 1 /\ n < NodeSize[i]
    <3> DEFINE l == LEFT_LEAF(i)
               r == RIGHT_LEAF(i)
    <3>1. /\ l \in Nodes /\ r \in Nodes /\ NodeSize[i] = 2 * NodeSize[l] /\ NodeSize[r] = NodeSize[l]
          /\ Lo(l) = Lo(i) /\ Hi(l) = Lo(r) /\ Hi(r) = Hi(i)
      BY <2>6, ParentFacts, SizeOfNode, Halves
    <3>2. l \in T /\ r \in T /\ bm[i] = Merged(NodeSize[i], bm[l], bm[r])
      BY <1>1, <2>1, <2>2, <2>6 DEF Lawful
    <3> HIDE DEF l, r
    <3>3. /\ NodeSize[l] \in Nat /\ NodeSize[l] \in Orders /\ bm[l] \in Nat /\ bm[r] \in Nat
          /\ Lo(r) \in Nat /\ Aligned(Lo(r), NodeSize[l]) /\ Hi(r) = Lo(r) + NodeSize[l]
      BY <3>1, SizeOfNode, OrdersFacts, Places, Bounds
    <3>4. n <= NodeSize[l]
      <4>1. 2 * n <= NodeSize[i]
        BY <2>1, <2>6, OrdersFacts
      <4> QED
        BY <2>1, <3>1, <3>3, <4>1
    <3>5. Lo(r) <= q \/ q + n <= Lo(r)
      <4>1. (Lo(r) <= q /\ q + n <= Lo(r) + NodeSize[l]) \/ q + n <= Lo(r)
            \/ Lo(r) + NodeSize[l] <= q
        BY <3>3, <3>4, Nesting
      <4> QED
        BY <2>1, <3>3, <4>1
    <3>6. n <= bm[l] \/ n <= bm[r]
      BY <1>1, <3>1, <3>2, <3>5
    <3>7. bm[l] <= bm[i] /\ bm[r] <= bm[i]
      BY <2>1, <3>2, <3>3 DEF Merged, MAX
    <3>8. bm[i] \in Nat
      BY Bounds
    <3> QED
      BY <2>1, <3>3, <3>6, <3>7, <3>8
  <2> QED
    BY <2>1, <2>3, <2>4, <2>5, <2>6
<1>2. T \in SUBSET Nodes
  OBVIOUS
<1>3. T = Nodes
  <2>1. ASSUME NEW i \in Nodes, i < SIZE - 1 => LEFT_LEAF(i) \in T /\ RIGHT_LEAF(i) \in T
        PROVE  i \in T
    BY <1>1, <2>1
  <2> HIDE DEF T
  <2> QED
    BY <1>2, <2>1, BottomUp
<1> QED
  BY <1>3

(* The halves of an open node that is not handed out are open.             *)
LEMMA OpenHalves ==
  ASSUME NEW H \in SUBSET Nodes, NEW i \in Nodes, i < SIZE - 1, i \notin H, Open(i, H),
         NEW c \in {LEFT_LEAF(i), RIGHT_LEAF(i)}
  PROVE  Open(c, H)
<1>1. /\ c \in Nodes /\ NodeSize[i] = 2 * NodeSize[c] /\ Lo(i) <= Lo(c) /\ Hi(c) <= Hi(i)
  <2>1. /\ LEFT_LEAF(i) \in Nodes /\ RIGHT_LEAF(i) \in Nodes
        /\ NodeSize[i] = 2 * NodeSize[LEFT_LEAF(i)]
        /\ NodeSize[RIGHT_LEAF(i)] = NodeSize[LEFT_LEAF(i)]
        /\ Lo(LEFT_LEAF(i)) = Lo(i) /\ Hi(LEFT_LEAF(i)) = Lo(RIGHT_LEAF(i))
        /\ Hi(RIGHT_LEAF(i)) = Hi(i)
    BY ParentFacts, SizeOfNode, Halves
  <2>2. /\ Hi(RIGHT_LEAF(i)) = Lo(RIGHT_LEAF(i)) + NodeSize[LEFT_LEAF(i)]
        /\ Hi(LEFT_LEAF(i)) = Lo(LEFT_LEAF(i)) + NodeSize[LEFT_LEAF(i)]
        /\ Lo(LEFT_LEAF(i)) \in Nat /\ NodeSize[LEFT_LEAF(i)] \in Nat
        /\ Lo(RIGHT_LEAF(i)) \in Nat
    BY <2>1, SizeOfNode, Places
  <2>3. CASE c = LEFT_LEAF(i)
    <3>1. Lo(c) = Lo(i) /\ Hi(c) <= Hi(i) /\ Lo(i) \in Nat
      BY <2>1, <2>2, <2>3
    <3> QED
      BY <2>1, <2>3, <3>1
  <2>4. CASE c = RIGHT_LEAF(i)
    <3>1. Hi(c) = Hi(i) /\ Lo(i) <= Lo(c) /\ Hi(i) \in Nat
      BY <2>1, <2>2, <2>4, Places
    <3> QED
      BY <2>1, <2>4, <3>1
  <2> QED
    BY <2>3, <2>4
<1> SUFFICES ASSUME NEW j \in H, Inside(c, j), NodeSize[c] < NodeSize[j] PROVE FALSE
  <2>1. \A j \in H : NodeSize[j] \in Nat /\ NodeSize[c] \in Nat
    BY <1>1, SizeOfNode
  <2> QED
    BY <2>1 DEF Open
<1>2. /\ NodeSize[c] \in Nat /\ NodeSize[c] > 0 /\ NodeSize[j] \in Nat /\ NodeSize[i] \in Nat
      /\ NodeSize[c] \in Orders /\ NodeSize[j] \in Orders /\ NodeSize[i] \in Orders
      /\ Lo(c) \in Nat /\ Lo(j) \in Nat /\ Lo(i) \in Nat
      /\ Hi(c) = Lo(c) + NodeSize[c] /\ Hi(j) = Lo(j) + NodeSize[j] /\ Hi(i) = Lo(i) + NodeSize[i]
      /\ Aligned(Lo(i), NodeSize[i]) /\ Aligned(Lo(j), NodeSize[j])
  BY <1>1, SizeOfNode, OrdersFacts, Places
<1>3. NodeSize[i] <= NodeSize[j]
  <2>1. 2 * NodeSize[c] <= NodeSize[j]
    BY <1>2, OrdersFacts
  <2> QED
    BY <1>1, <2>1
<1>4. Inside(i, j)
  <2>1. \/ Lo(j) <= Lo(i) /\ Lo(i) + NodeSize[i] <= Lo(j) + NodeSize[j]
        \/ Lo(i) + NodeSize[i] <= Lo(j) \/ Lo(j) + NodeSize[j] <= Lo(i)
    BY <1>2, <1>3, Nesting
  <2>2. Lo(j) <= Lo(c) /\ Hi(c) <= Hi(j)
    BY DEF Inside
  <2> QED
    BY <1>1, <1>2, <2>1, <2>2 DEF Inside
<1>5. NodeSize[j] = NodeSize[i]
  BY <1>2, <1>3, <1>4 DEF Open
<1>6. Lo(j) = Lo(i)
  BY <1>2, <1>4, <1>5 DEF Inside
<1> QED
  BY <1>5, <1>6, SamePlace

(* What an open node offers is free below it.                              *)
LEMMA UpperBound ==
  ASSUME NEW bm, NEW H, Lawful(bm, H)
  PROVE  \A i \in Nodes : Open(i, H) /\ bm[i] > 0 =>
           /\ bm[i] \in Orders
           /\ \E q \in Nat : /\ Aligned(q, bm[i]) /\ FreeOf(q, bm[i], H)
                             /\ Lo(i) <= q /\ q + bm[i] <= Hi(i)
<1> DEFINE Found(i) == \E q \in Nat : /\ Aligned(q, bm[i]) /\ FreeOf(q, bm[i], H)
                                      /\ Lo(i) <= q /\ q + bm[i] <= Hi(i)
           Good(i) == Open(i, H) /\ bm[i] > 0 => bm[i] \in Orders /\ Found(i)
           T == {i \in Nodes : Good(i)}
<1>1. ASSUME NEW i \in Nodes, i < SIZE - 1 => LEFT_LEAF(i) \in T /\ RIGHT_LEAF(i) \in T,
             Open(i, H), bm[i] > 0
      PROVE  bm[i] \in Orders /\ Found(i)
  <2>1. /\ i \in Nat /\ SIZE \in Nat /\ Lo(i) \in Nat /\ Hi(i) \in Nat /\ bm[i] \in Nat
        /\ NodeSize[i] \in Nat /\ NodeSize[i] > 0 /\ Hi(i) = Lo(i) + NodeSize[i]
        /\ NodeSize[i] \in Orders /\ Aligned(Lo(i), NodeSize[i])
    BY NodesFacts, SizeFacts, OrdersFacts, Places, SizeOfNode, Bounds
  <2>2. i \notin H
    BY <1>1 DEF Lawful
  <2>3. ASSUME NEW j \in H
        PROVE  /\ Lo(j) \in Nat /\ NodeSize[j] \in Nat /\ NodeSize[j] > 0
               /\ Hi(j) = Lo(j) + NodeSize[j] /\ NodeSize[j] \in Orders
               /\ Aligned(Lo(j), NodeSize[j]) /\ j \in Nodes
    BY Places, SizeOfNode, OrdersFacts DEF Lawful
  <2>4. CASE bm[i] = NodeSize[i] /\ \A j \in H : ~Inside(j, i)
    <3>1. ASSUME NEW j \in H PROVE Hi(i) <= Lo(j) \/ Hi(j) <= Lo(i)
      <4>1. CASE NodeSize[j] <= NodeSize[i]
        <5>1. \/ Lo(i) <= Lo(j) /\ Lo(j) + NodeSize[j] <= Lo(i) + NodeSize[i]
              \/ Lo(j) + NodeSize[j] <= Lo(i) \/ Lo(i) + NodeSize[i] <= Lo(j)
          BY <2>1, <2>3, <4>1, Nesting
        <5> QED
          BY <2>1, <2>3, <2>4, <5>1 DEF Inside
      <4>2. CASE NodeSize[i] < NodeSize[j]
        <5>1. \/ Lo(j) <= Lo(i) /\ Lo(i) + NodeSize[i] <= Lo(j) + NodeSize[j]
              \/ Lo(i) + NodeSize[i] <= Lo(j) \/ Lo(j) + NodeSize[j] <= Lo(i)
          BY <2>1, <2>3, <4>2, Nesting
        <5>2. ~Inside(i, j)
          BY <1>1, <2>1, <2>3, <4>2 DEF Open
        <5> QED
          BY <2>1, <2>3, <5>1, <5>2 DEF Inside
      <4> QED
        BY <2>1, <2>3, <4>1, <4>2
    <3>2. FreeOf(Lo(i), bm[i], H)
      BY <2>1, <2>4, <3>1 DEF FreeOf
    <3> QED
      BY <2>1, <2>4, <3>2
  <2>5. CASE i >= SIZE - 1
    <3>1. bm[i] = 1 /\ NodeSize[i] = 1
      BY <2>1, <2>2, <2>5, SizeOfNode DEF Lawful
    <3>2. ASSUME NEW j \in H, Inside(j, i) PROVE FALSE
      <4>1. Lo(j) = Lo(i) /\ NodeSize[j] = NodeSize[i]
        BY <2>1, <2>3, <3>1, <3>2 DEF Inside
      <4> QED
        BY <2>2, <2>3, <4>1, SamePlace
    <3> QED
      BY <2>4, <3>1, <3>2
  <2>6. CASE i < SIZE - 1
    <3> DEFINE l == LEFT_LEAF(i)
               r == RIGHT_LEAF(i)
    <3>1. /\ l \in Nodes /\ r \in Nodes /\ NodeSize[i] = 2 * NodeSize[l] /\ NodeSize[r] = NodeSize[l]
          /\ Lo(l) = Lo(i) /\ Hi(l) = Lo(r) /\ Hi(r) = Hi(i)
          /\ Open(l, H) /\ Open(r, H)
      BY <1>1, <2>2, <2>6, ParentFacts, SizeOfNode, Halves, OpenHalves DEF Lawful
    <3>2. Good(l) /\ Good(r)
      BY <1>1, <2>6
    <3>3. bm[i] = Merged(NodeSize[i], bm[l], bm[r])
      BY <2>1, <2>2, <2>6 DEF Lawful
    <3> HIDE DEF l, r
    <3>4. /\ NodeSize[l] \in Nat /\ NodeSize[l] > 0 /\ bm[l] \in Nat /\ bm[r] \in Nat
          /\ bm[l] <= NodeSize[l] /\ bm[r] <= NodeSize[l]
          /\ Lo(r) \in Nat /\ Hi(r) = Lo(r) + NodeSize[l] /\ Hi(l) = Lo(l) + NodeSize[l]
      BY <3>1, SizeOfNode, Places, Bounds
    <3>5. CASE bm[l] + bm[r] = NodeSize[i]
      <4>1. bm[l] = NodeSize[l] /\ bm[r] = NodeSize[l] /\ bm[i] = NodeSize[i]
        BY <3>1, <3>3, <3>4, <3>5 DEF Merged
      <4>2. /\ \E q \in Nat : FreeOf(q, NodeSize[l], H) /\ Lo(l) <= q /\ q + NodeSize[l] <= Hi(l)
            /\ \E q \in Nat : FreeOf(q, NodeSize[l], H) /\ Lo(r) <= q /\ q + NodeSize[l] <= Hi(r)
        BY <3>1, <3>2, <3>4, <4>1
      <4>3. FreeOf(Lo(l), NodeSize[l], H) /\ FreeOf(Lo(r), NodeSize[l], H)
        <5>1. \A q \in Nat : Lo(l) <= q /\ q + NodeSize[l] <= Hi(l) => q = Lo(l)
          BY <2>1, <3>1, <3>4
        <5>2. \A q \in Nat : Lo(r) <= q /\ q + NodeSize[l] <= Hi(r) => q = Lo(r)
          BY <3>4
        <5> QED
          BY <4>2, <5>1, <5>2
      <4>4. ASSUME NEW j \in H, Inside(j, i) PROVE FALSE
        <5>1. /\ Lo(l) + NodeSize[l] <= Lo(j) \/ Hi(j) <= Lo(l)
              /\ Lo(r) + NodeSize[l] <= Lo(j) \/ Hi(j) <= Lo(r)
          BY <4>3 DEF FreeOf
        <5> QED
          BY <2>1, <2>3, <3>1, <3>4, <4>4, <5>1 DEF Inside
      <4> QED
        BY <2>4, <4>1, <4>4
    <3>6. CASE bm[l] + bm[r] # NodeSize[i]
      <4>1. bm[i] = bm[l] \/ bm[i] = bm[r]
        BY <3>3, <3>6 DEF Merged, MAX
      <4>2. /\ Lo(i) <= Lo(r) /\ Hi(r) <= Hi(i) /\ Lo(r) \in Nat /\ Hi(r) \in Nat
            /\ Lo(i) <= Lo(l) /\ Hi(l) <= Hi(i) /\ Lo(l) \in Nat /\ Hi(l) \in Nat
        BY <2>1, <3>1, <3>4
      <4>3. ASSUME NEW c \in {l, r}, bm[i] = bm[c] PROVE bm[i] \in Orders /\ Found(i)
        <5>1. Good(c) /\ Open(c, H) /\ bm[c] > 0
          BY <1>1, <3>1, <3>2, <4>3
        <5>2. PICK q \in Nat : /\ Aligned(q, bm[i]) /\ FreeOf(q, bm[i], H)
                               /\ Lo(c) <= q /\ q + bm[i] <= Hi(c)
          BY <4>3, <5>1
        <5>3. Lo(i) <= Lo(c) /\ Hi(c) <= Hi(i) /\ Lo(c) \in Nat /\ Hi(c) \in Nat
          BY <4>2
        <5>4. Lo(i) <= q /\ q + bm[i] <= Hi(i)
          BY <2>1, <5>2, <5>3
        <5> QED
          BY <4>3, <5>1, <5>2, <5>4
      <4> QED
        BY <4>1, <4>3
    <3> QED
      BY <3>5, <3>6
  <2> QED
    BY <2>1, <2>5, <2>6
<1>2. T \in SUBSET Nodes
  OBVIOUS
<1>3. T = Nodes
  <2>1. ASSUME NEW i \in Nodes, i < SIZE - 1 => LEFT_LEAF(i) \in T /\ RIGHT_LEAF(i) \in T
        PROVE  i \in T
    BY <1>1, <2>1
  <2> HIDE DEF T
  <2> QED
    BY <1>2, <2>1, BottomUp
<1> QED
  BY <1>3

-----------------------------------------------------------------------------
(* The walk of buddy_alloc.                                                *)

LEMMA DescendDef ==
  ASSUME NEW bm, NEW n \in Orders
  PROVE  \E w : /\ Descend(bm, n) = w[0]
                /\ \A i \in NodesFrom(n) :
                     w[i] = IF NodeSize[i] = n THEN i
                            ELSE IF bm[LEFT_LEAF(i)] >= n THEN w[LEFT_LEAF(i)]
                            ELSE w[RIGHT_LEAF(i)]
<1> DEFINE D == NodesFrom(n)
           m == [i \in D |-> 2 * SIZE - i]
           base == {i \in D : NodeSize[i] = n}
           b == [i \in D |-> i]
           p == [i \in D |-> IF bm[LEFT_LEAF(i)] >= n THEN LEFT_LEAF(i) ELSE RIGHT_LEAF(i)]
           h == [i \in D |-> [v \in Nodes \X Nodes |-> v[1]]]
<1>1. D \subseteq Nodes /\ \A i \in D : NodeSize[i] >= n
  BY DEF NodesFrom
<1> HIDE DEF D
<1>2. m \in [D -> Nat] /\ 2 * SIZE \in Nat /\ \A i \in D : m[i] <= 2 * SIZE
  BY <1>1, NodesFacts, SizeFacts
<1>3. base \in SUBSET D /\ b \in [D -> Nodes] /\ h \in [D -> [Nodes \X Nodes -> Nodes]]
  BY <1>1
<1>4. ASSUME NEW i \in D \ base
      PROVE  /\ LEFT_LEAF(i) \in D /\ m[LEFT_LEAF(i)] < m[i]
             /\ RIGHT_LEAF(i) \in D /\ m[RIGHT_LEAF(i)] < m[i]
  <2>1. i \in Nodes /\ NodeSize[i] >= n /\ NodeSize[i] # n
    BY <1>1
  <2>2. n \in Nat /\ n > 0 /\ NodeSize[i] \in Nat /\ NodeSize[i] \in Orders
        /\ i \in Nat /\ SIZE \in Nat
    BY <2>1, OrdersFacts, SizeOfNode, NodesFacts, SizeFacts
  <2>3. 2 * n <= NodeSize[i]
    BY <2>1, <2>2, OrdersFacts
  <2>4. i < SIZE - 1
    <3>1. i >= SIZE - 1 => NodeSize[i] = 1
      BY <2>1, SizeOfNode
    <3> QED
      BY <2>2, <2>3, <3>1
  <2>5. /\ LEFT_LEAF(i) \in Nodes /\ RIGHT_LEAF(i) \in Nodes
        /\ LEFT_LEAF(i) > i /\ RIGHT_LEAF(i) > i
    BY <2>1, <2>4, ParentFacts
  <2>6. NodeSize[LEFT_LEAF(i)] >= n /\ NodeSize[RIGHT_LEAF(i)] >= n
    <3> DEFINE s == NodeSize[LEFT_LEAF(i)]
    <3>1. s \in Nat /\ NodeSize[i] = 2 * s /\ NodeSize[RIGHT_LEAF(i)] = s
      BY <2>1, <2>4, <2>5, SizeOfNode
    <3> HIDE DEF s
    <3>2. s >= n
      BY <2>2, <2>3, <3>1
    <3> QED
      BY <3>1, <3>2 DEF s
  <2>7. LEFT_LEAF(i) \in D /\ RIGHT_LEAF(i) \in D
    BY <2>5, <2>6 DEF D, NodesFrom
  <2>8. ASSUME NEW j \in D, j > i PROVE m[j] < m[i]
    BY <1>1, <2>8, NodesFacts, SizeFacts
  <2> QED
    BY <2>5, <2>7, <2>8
<1>5. \A i \in D \ base : p[i] \in D /\ m[p[i]] < m[i]
  BY <1>4
<1>6. Nodes # {}
  BY NodesFacts
<1> HIDE DEF m, base, b, p, h
<1>7. IsRecursion(D, Nodes, m, 2 * SIZE, base, b, p, p, h)
  BY <1>2, <1>3, <1>5 DEF IsRecursion
<1>8. PICK f \in [D -> Nodes] :
        \A i \in D : f[i] = IF i \in base THEN b[i] ELSE h[i][<<f[p[i]], f[p[i]]>>]
  BY <1>6, <1>7, Recursion
<1>9. ASSUME NEW i \in D
      PROVE  f[i] = IF NodeSize[i] = n THEN i
                    ELSE IF bm[LEFT_LEAF(i)] >= n THEN f[LEFT_LEAF(i)]
                    ELSE f[RIGHT_LEAF(i)]
  <2>1. CASE i \in base
    BY <1>8, <2>1 DEF b, base
  <2>2. CASE i \notin base
    <3>1. f[p[i]] \in Nodes
      BY <1>5, <2>2
    <3>2. f[i] = h[i][<<f[p[i]], f[p[i]]>>]
      BY <1>8, <2>2
    <3>3. h[i][<<f[p[i]], f[p[i]]>>] = f[p[i]]
      BY <3>1 DEF h
    <3>4. NodeSize[i] # n
      BY <2>2 DEF base
    <3> QED
      BY <3>2, <3>3, <3>4 DEF p
  <2> QED
    BY <2>1, <2>2
<1> DEFINE walk == CHOOSE w : w = [i \in NodesFrom(n) |->
                     IF NodeSize[i] = n THEN i
                     ELSE IF bm[LEFT_LEAF(i)] >= n THEN w[LEFT_LEAF(i)]
                     ELSE w[RIGHT_LEAF(i)]]
<1>10. f = [i \in NodesFrom(n) |-> IF NodeSize[i] = n THEN i
                     ELSE IF bm[LEFT_LEAF(i)] >= n THEN f[LEFT_LEAF(i)]
                     ELSE f[RIGHT_LEAF(i)]]
  BY <1>9 DEF D
<1>11. walk = [i \in NodesFrom(n) |-> IF NodeSize[i] = n THEN i
                     ELSE IF bm[LEFT_LEAF(i)] >= n THEN walk[LEFT_LEAF(i)]
                     ELSE walk[RIGHT_LEAF(i)]]
  BY <1>10
<1>12. Descend(bm, n) = walk[0]
  BY DEF Descend
<1> HIDE DEF walk
<1> QED
  BY <1>11, <1>12

(* It ends at the first free block of n pages.                             *)
FirstFree(H, n, i) ==
  /\ i \in Nodes /\ NodeSize[i] = n /\ i \notin H /\ FreeOf(Lo(i), n, H)
  /\ \A q \in Nat : q < Lo(i) /\ Aligned(q, n) => ~FreeOf(q, n, H)

LEMMA DescendFinds ==
  ASSUME NEW bm, NEW H, Lawful(bm, H), NEW n \in Orders, n <= bm[0]
  PROVE  FirstFree(H, n, Descend(bm, n))
<1>1. PICK w : /\ Descend(bm, n) = w[0]
               /\ \A i \in NodesFrom(n) :
                     w[i] = IF NodeSize[i] = n THEN i
                            ELSE IF bm[LEFT_LEAF(i)] >= n THEN w[LEFT_LEAF(i)]
                            ELSE w[RIGHT_LEAF(i)]
  BY DescendDef
<1> DEFINE None(a) == \A q \in Nat : q < a /\ Aligned(q, n) => ~FreeOf(q, n, H)
           Good(i) == Open(i, H) /\ n <= bm[i] /\ None(Lo(i)) => FirstFree(H, n, w[i])
           T == {i \in Nodes : Good(i)}
<1>2. n \in Nat /\ n > 0
  BY OrdersFacts
<1>3. ASSUME NEW i \in Nodes, i < SIZE - 1 => LEFT_LEAF(i) \in T /\ RIGHT_LEAF(i) \in T,
             Open(i, H), n <= bm[i], None(Lo(i))
      PROVE  FirstFree(H, n, w[i])
  <2>1. /\ i \in Nat /\ SIZE \in Nat /\ Lo(i) \in Nat /\ bm[i] \in Nat /\ bm[i] <= NodeSize[i]
        /\ NodeSize[i] \in Nat /\ Hi(i) = Lo(i) + NodeSize[i] /\ NodeSize[i] \in Orders
    BY NodesFacts, SizeFacts, OrdersFacts, Places, SizeOfNode, Bounds
  <2>2. i \in NodesFrom(n)
    BY <1>2, <1>3, <2>1 DEF NodesFrom
  <2>3. i \notin H
    BY <1>2, <1>3 DEF Lawful
  <2>4. CASE NodeSize[i] = n
    <3>1. w[i] = i
      BY <1>1, <2>2, <2>4
    <3>2. bm[i] = n
      BY <1>2, <1>3, <2>1, <2>4
    <3>3. PICK q \in Nat : FreeOf(q, n, H) /\ Lo(i) <= q /\ q + n <= Hi(i)
      BY <1>2, <1>3, <3>2, UpperBound
    <3>4. q = Lo(i)
      BY <1>2, <2>1, <2>4, <3>3
    <3> QED
      BY <1>3, <2>3, <2>4, <3>1, <3>3, <3>4 DEF FirstFree
  <2>5. CASE NodeSize[i] # n
    <3> DEFINE l == LEFT_LEAF(i)
               r == RIGHT_LEAF(i)
    <3>1. 2 * n <= NodeSize[i]
      BY <1>2, <1>3, <2>1, <2>5, OrdersFacts
    <3>2. i < SIZE - 1
      <4>1. i >= SIZE - 1 => NodeSize[i] = 1
        BY SizeOfNode
      <4> QED
        BY <1>2, <2>1, <3>1, <4>1
    <3>3. /\ l \in Nodes /\ r \in Nodes /\ NodeSize[i] = 2 * NodeSize[l] /\ NodeSize[r] = NodeSize[l]
          /\ Lo(l) = Lo(i) /\ Hi(l) = Lo(r) /\ Hi(r) = Hi(i)
          /\ Open(l, H) /\ Open(r, H)
      BY <1>3, <2>3, <3>2, ParentFacts, SizeOfNode, Halves, OpenHalves DEF Lawful
    <3>4. Good(l) /\ Good(r)
      BY <1>3, <3>2
    <3>5. bm[i] = Merged(NodeSize[i], bm[l], bm[r])
      BY <2>1, <2>3, <3>2 DEF Lawful
    <3>6. w[i] = IF bm[l] >= n THEN w[l] ELSE w[r]
      BY <1>1, <2>2, <2>5
    <3> HIDE DEF l, r
    <3>7. /\ NodeSize[l] \in Nat /\ NodeSize[l] \in Orders /\ bm[l] \in Nat /\ bm[r] \in Nat
          /\ bm[l] <= NodeSize[l] /\ bm[r] <= NodeSize[l]
          /\ Lo(l) \in Nat /\ Lo(r) \in Nat /\ Hi(l) = Lo(l) + NodeSize[l]
          /\ Aligned(Lo(l), NodeSize[l])
      BY <3>3, SizeOfNode, OrdersFacts, Places, Bounds
    <3>8. CASE bm[l] >= n
      BY <1>2, <1>3, <3>3, <3>4, <3>6, <3>7, <3>8
    <3>9. CASE ~(bm[l] >= n)
      <4>1. n <= bm[r]
        BY <1>2, <1>3, <2>1, <3>1, <3>3, <3>5, <3>7, <3>9 DEF Merged, MAX
      <4>2. ASSUME NEW q \in Nat, q < Lo(r), Aligned(q, n), FreeOf(q, n, H) PROVE FALSE
        <5>1. ~(q < Lo(l))
          BY <1>3, <3>3, <4>2
        <5>2. n <= NodeSize[l]
          BY <1>2, <3>1, <3>3, <3>7
        <5>3. \/ Lo(l) <= q /\ q + n <= Lo(l) + NodeSize[l]
              \/ q + n <= Lo(l) \/ Lo(l) + NodeSize[l] <= q
          BY <3>7, <4>2, <5>2, Nesting
        <5>4. Lo(l) <= q /\ q + n <= Hi(l)
          BY <1>2, <3>3, <3>7, <4>2, <5>1, <5>3
        <5>5. n <= bm[l]
          BY <3>3, <4>2, <5>4, LowerBound
        <5> QED
          BY <1>2, <3>7, <3>9, <5>5
      <4> QED
        BY <3>3, <3>4, <3>6, <3>9, <4>1, <4>2
    <3> QED
      BY <3>8, <3>9
  <2> QED
    BY <2>4, <2>5
<1>4. T \in SUBSET Nodes
  OBVIOUS
<1>5. T = Nodes
  <2>1. ASSUME NEW i \in Nodes, i < SIZE - 1 => LEFT_LEAF(i) \in T /\ RIGHT_LEAF(i) \in T
        PROVE  i \in T
    BY <1>3, <2>1
  <2> HIDE DEF T
  <2> QED
    BY <1>4, <2>1, BottomUp
<1>6. Open(0, H) /\ None(Lo(0))
  <2>1. NodeSize[0] = SIZE /\ Lo(0) = 0
    BY NodesFacts, NodeSizeDef, SizeFacts DEF Lo
  <2>2. \A j \in H : NodeSize[j] <= SIZE
    BY Places, SizeOfNode, SizeFacts DEF Lawful
  <2> QED
    BY <2>1, <2>2 DEF Open
<1>7. Good(0)
  BY <1>5, NodesFacts
<1> QED
  BY <1>1, <1>6, <1>7

-----------------------------------------------------------------------------
(* The way back to the root.                                               *)

LEMMA AboveFacts ==
  \A i \in Nodes :
    /\ Above[i] \subseteq Nodes
    /\ \A j \in Above[i] : /\ j < SIZE - 1 /\ j # i
                           /\ Inside(i, j) /\ NodeSize[i] < NodeSize[j]
    /\ \A j \in Nodes : j # 0 /\ (j = i \/ j \in Above[i]) => PARENT(j) \in Above[i]
    /\ \A j \in Above[i] : \E c \in {LEFT_LEAF(j), RIGHT_LEAF(j)} : c = i \/ c \in Above[i]
<1> DEFINE Good(i) ==
      /\ Above[i] \subseteq Nodes
      /\ \A j \in Above[i] : j < SIZE - 1 /\ j # i /\ Inside(i, j) /\ NodeSize[i] < NodeSize[j]
      /\ \A j \in Nodes : j # 0 /\ (j = i \/ j \in Above[i]) => PARENT(j) \in Above[i]
      /\ \A j \in Above[i] : \E c \in {LEFT_LEAF(j), RIGHT_LEAF(j)} : c = i \/ c \in Above[i]
           m == [i \in Nodes |-> i]
           T == {i \in Nodes : Good(i)}
<1>1. ASSUME NEW i \in Nodes, \A j \in Nodes : m[j] < m[i] => j \in T PROVE Good(i)
  <2>1. CASE i = 0
    <3>1. Above[0] = {}
      BY NodesFacts, AboveDef
    <3> QED
      BY <2>1, <3>1
  <2>2. CASE i # 0
    <3> DEFINE p == PARENT(i)
    <3>1. p \in Nodes /\ m[p] < m[i] /\ p < SIZE - 1 /\ (i = LEFT_LEAF(p) \/ i = RIGHT_LEAF(p))
      BY <2>2, ParentFacts
    <3>2. Above[i] = {p} \cup Above[p]
      BY <2>2, AboveDef
    <3>3. Good(p)
      BY <1>1, <3>1
    <3>4. Inside(i, p) /\ NodeSize[i] < NodeSize[p] /\ i # p
      <4>1. /\ NodeSize[p] = 2 * NodeSize[i] /\ NodeSize[i] \in Nat /\ NodeSize[i] > 0
        BY <3>1, SizeOfNode
      <4>2. /\ Lo(LEFT_LEAF(p)) = Lo(p) /\ Hi(LEFT_LEAF(p)) = Lo(RIGHT_LEAF(p))
            /\ Hi(RIGHT_LEAF(p)) = Hi(p)
        BY <3>1, Halves
      <4>3. /\ Lo(p) \in Nat /\ Hi(p) = Lo(p) + NodeSize[p] /\ Lo(i) \in Nat
            /\ Hi(i) = Lo(i) + NodeSize[i] /\ Hi(i) \in Nat
        BY <3>1, Places
      <4>4. Lo(i) = Lo(p) \/ Hi(i) = Hi(p)
        BY <3>1, <4>2
      <4>5. Inside(i, p)
        BY <4>1, <4>3, <4>4 DEF Inside
      <4> QED
        BY <4>1, <4>5
    <3> HIDE DEF p, m, T
    <3>5. \A j \in Above[i] : j < SIZE - 1 /\ j # i /\ Inside(i, j) /\ NodeSize[i] < NodeSize[j]
      <4>1. SUFFICES ASSUME NEW j \in Above[p]
                     PROVE  j < SIZE - 1 /\ j # i /\ Inside(i, j) /\ NodeSize[i] < NodeSize[j]
        BY <3>1, <3>2, <3>4
      <4>2. j \in Nodes /\ j < SIZE - 1 /\ Inside(p, j) /\ NodeSize[p] < NodeSize[j]
        BY <3>3
      <4>3. /\ NodeSize[i] \in Nat /\ NodeSize[p] \in Nat /\ NodeSize[j] \in Nat
            /\ Lo(i) \in Nat /\ Lo(p) \in Nat /\ Lo(j) \in Nat
            /\ Hi(i) \in Nat /\ Hi(p) \in Nat /\ Hi(j) \in Nat
        BY <3>1, <4>2, SizeOfNode, Places
      <4>4. Inside(i, j) /\ NodeSize[i] < NodeSize[j]
        BY <3>4, <4>2, <4>3 DEF Inside
      <4> QED
        BY <4>2, <4>3, <4>4
    <3>6. \A j \in Nodes : j # 0 /\ (j = i \/ j \in Above[i]) => PARENT(j) \in Above[i]
      BY <3>2, <3>3 DEF p
    <3>7. \A j \in Above[i] : \E c \in {LEFT_LEAF(j), RIGHT_LEAF(j)} : c = i \/ c \in Above[i]
      BY <3>1, <3>2, <3>3
    <3> QED
      BY <3>1, <3>2, <3>3, <3>5, <3>6, <3>7
  <2> QED
    BY <2>1, <2>2
<1>2. m \in [Nodes -> Nat] /\ T \in SUBSET Nodes
  BY NodesFacts
<1> HIDE DEF m, Good
<1>3. T = Nodes
  <2>1. ASSUME NEW i \in Nodes, \A j \in Nodes : m[j] < m[i] => j \in T PROVE i \in T
    BY <1>1, <2>1
  <2> HIDE DEF T
  <2> QED
    BY <1>2, <2>1, MeasureInduction
<1> QED
  BY <1>3 DEF Good

(* Both functions change one node and recompute those above it.            *)
IsRebuild(bm, i, v, h) ==
  /\ \A j \in Nodes : bm[j] \in Nat
  /\ i \in Nodes /\ v \in Nat /\ h \in [Nodes -> [Nat \X Nat -> Nat]]

LEMMA Rebuild ==
  ASSUME NEW bm, NEW i, NEW v, NEW h, IsRebuild(bm, i, v, h)
  PROVE  \E f \in [Nodes -> Nat] : \A j \in Nodes :
           f[j] = IF j = i THEN v
                  ELSE IF j \in Above[i] THEN h[j][<<f[LEFT_LEAF(j)], f[RIGHT_LEAF(j)]>>]
                  ELSE bm[j]
<1> DEFINE m == [j \in Nodes |-> 2 * SIZE - j]
           base == {j \in Nodes : j = i \/ j \notin Above[i]}
           b == [j \in Nodes |-> IF j = i THEN v ELSE bm[j]]
           l == [j \in Nodes |-> LEFT_LEAF(j)]
           r == [j \in Nodes |-> RIGHT_LEAF(j)]
<1> USE DEF IsRebuild
<1>1. m \in [Nodes -> Nat] /\ 2 * SIZE \in Nat /\ \A j \in Nodes : m[j] <= 2 * SIZE
  BY NodesFacts, SizeFacts
<1>2. base \in SUBSET Nodes /\ b \in [Nodes -> Nat]
  OBVIOUS
<1> Nat # {}
  OBVIOUS
<1>3. ASSUME NEW j \in Nodes \ base
      PROVE  l[j] \in Nodes /\ m[l[j]] < m[j] /\ r[j] \in Nodes /\ m[r[j]] < m[j]
  <2>1. j < SIZE - 1
    BY AboveFacts
  <2>2. /\ LEFT_LEAF(j) \in Nodes /\ RIGHT_LEAF(j) \in Nodes
        /\ LEFT_LEAF(j) > j /\ RIGHT_LEAF(j) > j
    BY <2>1, ParentFacts
  <2>3. ASSUME NEW k \in Nodes, k > j PROVE m[k] < m[j]
    BY <2>3, NodesFacts, SizeFacts
  <2> QED
    BY <2>2, <2>3
<1> HIDE DEF m, base, b, l, r
<1>4. IsRecursion(Nodes, Nat, m, 2 * SIZE, base, b, l, r, h)
  BY <1>1, <1>2, <1>3 DEF IsRecursion
<1>5. PICK f \in [Nodes -> Nat] :
        \A j \in Nodes : f[j] = IF j \in base THEN b[j] ELSE h[j][<<f[l[j]], f[r[j]]>>]
  <2> HIDE DEF IsRebuild
  <2> QED
    BY <1>4, Recursion
<1>6. ASSUME NEW j \in Nodes
      PROVE  f[j] = IF j = i THEN v
                    ELSE IF j \in Above[i] THEN h[j][<<f[LEFT_LEAF(j)], f[RIGHT_LEAF(j)]>>]
                    ELSE bm[j]
  BY <1>5 DEF b, base, l, r
<1> QED
  BY <1>6

LEMMA TakenDef ==
  ASSUME NEW bm, \A j \in Nodes : bm[j] \in Nat, NEW i \in Nodes
  PROVE  LET N == Taken(bm, i)
         IN  /\ DOMAIN N = Nodes
             /\ \A j \in Nodes :
                  N[j] = IF j = i THEN 0
                         ELSE IF j \in Above[i] THEN MAX(N[LEFT_LEAF(j)], N[RIGHT_LEAF(j)])
                         ELSE bm[j]
<1> DEFINE h == [j \in Nodes |-> [v \in Nat \X Nat |-> MAX(v[1], v[2])]]
<1>1. h \in [Nodes -> [Nat \X Nat -> Nat]]
  BY DEF MAX
<1>2. PICK f \in [Nodes -> Nat] : \A j \in Nodes :
        f[j] = IF j = i THEN 0
               ELSE IF j \in Above[i] THEN h[j][<<f[LEFT_LEAF(j)], f[RIGHT_LEAF(j)]>>]
               ELSE bm[j]
  <2>1. IsRebuild(bm, i, 0, h)
    BY <1>1 DEF IsRebuild
  <2> HIDE DEF h
  <2> QED
    BY <2>1, Rebuild
<1>3. ASSUME NEW j \in Above[i]
      PROVE  h[j][<<f[LEFT_LEAF(j)], f[RIGHT_LEAF(j)]>>]
               = MAX(f[LEFT_LEAF(j)], f[RIGHT_LEAF(j)])
  <2>1. j \in Nodes /\ LEFT_LEAF(j) \in Nodes /\ RIGHT_LEAF(j) \in Nodes
    BY AboveFacts, ParentFacts
  <2>2. f[LEFT_LEAF(j)] \in Nat /\ f[RIGHT_LEAF(j)] \in Nat
    BY <2>1
  <2> QED
    BY <2>1, <2>2
<1> HIDE DEF h
<1> DEFINE new == CHOOSE g : g = [j \in Nodes |->
                    IF j = i THEN 0
                    ELSE IF j \in Above[i] THEN MAX(g[LEFT_LEAF(j)], g[RIGHT_LEAF(j)])
                    ELSE bm[j]]
<1>4. f = [j \in Nodes |-> IF j = i THEN 0
                           ELSE IF j \in Above[i] THEN MAX(f[LEFT_LEAF(j)], f[RIGHT_LEAF(j)])
                           ELSE bm[j]]
  BY <1>2, <1>3
<1>5. new = [j \in Nodes |-> IF j = i THEN 0
                           ELSE IF j \in Above[i] THEN MAX(new[LEFT_LEAF(j)], new[RIGHT_LEAF(j)])
                           ELSE bm[j]]
  BY <1>4
<1>6. Taken(bm, i) = new
  BY DEF Taken
<1> HIDE DEF new
<1> QED
  BY <1>5, <1>6

LEMMA BuddyFreeDef ==
  ASSUME NEW bm, \A j \in Nodes : bm[j] \in Nat, NEW p, NEW i \in Nodes, i = Holder(bm, p),
         HolderSize(bm, i) \in Nat
  PROVE  LET N == BuddyFree(bm, p)
         IN  /\ DOMAIN N = Nodes
             /\ \A j \in Nodes :
                  N[j] = IF j = i THEN HolderSize(bm, i)
                         ELSE IF j \in Above[i]
                              THEN Merged(NodeSize[j], N[LEFT_LEAF(j)], N[RIGHT_LEAF(j)])
                         ELSE bm[j]
<1> DEFINE h == [j \in Nodes |-> [v \in Nat \X Nat |-> Merged(NodeSize[j], v[1], v[2])]]
<1>1. h \in [Nodes -> [Nat \X Nat -> Nat]]
  BY SizeOfNode DEF Merged, MAX
<1>2. PICK f \in [Nodes -> Nat] : \A j \in Nodes :
        f[j] = IF j = i THEN HolderSize(bm, i)
               ELSE IF j \in Above[i] THEN h[j][<<f[LEFT_LEAF(j)], f[RIGHT_LEAF(j)]>>]
               ELSE bm[j]
  <2>1. IsRebuild(bm, i, HolderSize(bm, i), h)
    BY <1>1 DEF IsRebuild
  <2> HIDE DEF h
  <2> QED
    BY <2>1, Rebuild
<1>3. ASSUME NEW j \in Above[i]
      PROVE  h[j][<<f[LEFT_LEAF(j)], f[RIGHT_LEAF(j)]>>]
               = Merged(NodeSize[j], f[LEFT_LEAF(j)], f[RIGHT_LEAF(j)])
  <2>1. j \in Nodes /\ LEFT_LEAF(j) \in Nodes /\ RIGHT_LEAF(j) \in Nodes
    BY AboveFacts, ParentFacts
  <2>2. f[LEFT_LEAF(j)] \in Nat /\ f[RIGHT_LEAF(j)] \in Nat
    BY <2>1
  <2> QED
    BY <2>1, <2>2
<1> HIDE DEF h
<1> DEFINE new == CHOOSE g : g = [j \in Nodes |->
                    IF j = i THEN HolderSize(bm, i)
                    ELSE IF j \in Above[i]
                         THEN Merged(NodeSize[j], g[LEFT_LEAF(j)], g[RIGHT_LEAF(j)])
                    ELSE bm[j]]
<1>4. f = [j \in Nodes |-> IF j = i THEN HolderSize(bm, i)
                           ELSE IF j \in Above[i]
                                THEN Merged(NodeSize[j], f[LEFT_LEAF(j)], f[RIGHT_LEAF(j)])
                           ELSE bm[j]]
  BY <1>2, <1>3
<1>5. new = [j \in Nodes |-> IF j = i THEN HolderSize(bm, i)
                             ELSE IF j \in Above[i]
                                  THEN Merged(NodeSize[j], new[LEFT_LEAF(j)], new[RIGHT_LEAF(j)])
                             ELSE bm[j]]
  BY <1>4
<1>6. BuddyFree(bm, p) = new
  BY DEF BuddyFree
<1> HIDE DEF new
<1> QED
  BY <1>5, <1>6

(* Handing out a free node keeps the law: no sum on the way up is whole.   *)
LEMMA TakenLaw ==
  ASSUME NEW bm, NEW H, Lawful(bm, H), NEW i \in Nodes, FreeOf(Lo(i), NodeSize[i], H)
  PROVE  DOMAIN Taken(bm, i) = Nodes /\ Lawful(Taken(bm, i), H \cup {i})
<1> DEFINE N == Taken(bm, i)
           path == {i} \cup Above[i]
<1>1. \A j \in Nodes : bm[j] \in Nat /\ bm[j] <= NodeSize[j]
  BY Bounds
<1>2. /\ DOMAIN N = Nodes
      /\ \A j \in Nodes :
           N[j] = IF j = i THEN 0
                  ELSE IF j \in Above[i] THEN MAX(N[LEFT_LEAF(j)], N[RIGHT_LEAF(j)])
                  ELSE bm[j]
  BY <1>1, TakenDef
<1> HIDE DEF N
<1> DEFINE T == {j \in Nodes : /\ N[j] \in Nat /\ N[j] <= NodeSize[j]
                               /\ j \in path => N[j] < NodeSize[j]}
<1>3. ASSUME NEW j \in Above[i]
      PROVE  /\ j \in Nodes /\ j < SIZE - 1 /\ j # i /\ j \notin H
             /\ N[j] = MAX(N[LEFT_LEAF(j)], N[RIGHT_LEAF(j)])
             /\ LEFT_LEAF(j) \in Nodes /\ RIGHT_LEAF(j) \in Nodes
             /\ NodeSize[j] = 2 * NodeSize[LEFT_LEAF(j)]
             /\ NodeSize[RIGHT_LEAF(j)] = NodeSize[LEFT_LEAF(j)]
             /\ NodeSize[LEFT_LEAF(j)] \in Nat /\ NodeSize[LEFT_LEAF(j)] > 0
  <2>1. j \in Nodes /\ j < SIZE - 1 /\ j # i /\ Inside(i, j)
    BY AboveFacts
  <2>2. j \notin H
    <3>1. SUFFICES ASSUME j \in H PROVE FALSE
      OBVIOUS
    <3>2. Lo(i) + NodeSize[i] <= Lo(j) \/ Hi(j) <= Lo(i)
      BY <3>1 DEF FreeOf
    <3>3. /\ Lo(i) \in Nat /\ NodeSize[i] \in Nat /\ NodeSize[i] > 0
          /\ Hi(i) = Lo(i) + NodeSize[i] /\ Lo(j) \in Nat /\ Hi(j) \in Nat
      BY <2>1, Places, SizeOfNode
    <3> QED
      BY <2>1, <3>2, <3>3 DEF Inside
  <2>3. LEFT_LEAF(j) \in Nodes /\ RIGHT_LEAF(j) \in Nodes
    BY <2>1, ParentFacts
  <2> QED
    BY <1>2, <2>1, <2>2, <2>3, SizeOfNode
<1>4. ASSUME NEW j \in Nodes, j < SIZE - 1 => LEFT_LEAF(j) \in T /\ RIGHT_LEAF(j) \in T
      PROVE  j \in T
  <2>1. NodeSize[j] \in Nat /\ NodeSize[j] > 0
    BY SizeOfNode
  <2>2. CASE j = i
    BY <1>2, <2>1, <2>2
  <2>3. CASE j \in Above[i]
    <3>1. /\ N[LEFT_LEAF(j)] \in Nat /\ N[LEFT_LEAF(j)] <= NodeSize[LEFT_LEAF(j)]
          /\ N[RIGHT_LEAF(j)] \in Nat /\ N[RIGHT_LEAF(j)] <= NodeSize[RIGHT_LEAF(j)]
      BY <1>3, <1>4, <2>3
    <3>2. N[j] = N[LEFT_LEAF(j)] \/ N[j] = N[RIGHT_LEAF(j)]
      BY <1>3, <2>3 DEF MAX
    <3> DEFINE s == NodeSize[LEFT_LEAF(j)]
    <3>3. s \in Nat /\ s > 0 /\ NodeSize[j] = 2 * s /\ NodeSize[RIGHT_LEAF(j)] = s
          /\ NodeSize[LEFT_LEAF(j)] = s
      BY <1>3, <2>3
    <3> HIDE DEF s
    <3>4. N[j] \in Nat /\ N[j] <= s
      BY <3>1, <3>2, <3>3
    <3> QED
      BY <3>3, <3>4
  <2>4. CASE j \notin path
    BY <1>1, <1>2, <2>4
  <2> QED
    BY <2>2, <2>3, <2>4
<1>5. T = Nodes
  <2>1. T \in SUBSET Nodes
    OBVIOUS
  <2> HIDE DEF T
  <2> QED
    BY <1>4, <2>1, BottomUp
<1>6. ASSUME NEW j \in Nodes
      PROVE  N[j] = IF j \in H \cup {i} THEN 0
                    ELSE IF j >= SIZE - 1 THEN 1
                    ELSE Merged(NodeSize[j], N[LEFT_LEAF(j)], N[RIGHT_LEAF(j)])
  <2>1. j \in Nat /\ SIZE \in Nat
    BY NodesFacts, SizeFacts
  <2>2. CASE j = i
    BY <1>2, <2>2
  <2>3. CASE j \in Above[i]
    <3> DEFINE l == LEFT_LEAF(j)
               r == RIGHT_LEAF(j)
    <3>1. l \in T /\ r \in T /\ (l \in path \/ r \in path)
      BY <1>3, <1>5, <2>3, AboveFacts
    <3>2. /\ NodeSize[j] = 2 * NodeSize[l] /\ NodeSize[r] = NodeSize[l] /\ NodeSize[l] \in Nat
          /\ N[j] = MAX(N[l], N[r]) /\ j \notin H \cup {i} /\ ~(j >= SIZE - 1)
      BY <1>3, <2>1, <2>3
    <3> HIDE DEF l, r, path
    <3>3. N[l] + N[r] # NodeSize[j]
      BY <3>1, <3>2
    <3>4. N[j] = Merged(NodeSize[j], N[l], N[r])
      BY <3>2, <3>3 DEF Merged
    <3> QED
      BY <3>2, <3>4 DEF l, r
  <2>4. CASE j \notin path
    <3>1. N[j] = bm[j] /\ (j \in H \cup {i} <=> j \in H)
      BY <1>2, <2>4
    <3>2. bm[j] = IF j \in H THEN 0
                  ELSE IF j >= SIZE - 1 THEN 1
                  ELSE Merged(NodeSize[j], bm[LEFT_LEAF(j)], bm[RIGHT_LEAF(j)])
      BY DEF Lawful
    <3>3. ASSUME j < SIZE - 1
          PROVE  N[LEFT_LEAF(j)] = bm[LEFT_LEAF(j)] /\ N[RIGHT_LEAF(j)] = bm[RIGHT_LEAF(j)]
      <4>1. /\ LEFT_LEAF(j) \in Nodes /\ RIGHT_LEAF(j) \in Nodes
            /\ LEFT_LEAF(j) # 0 /\ RIGHT_LEAF(j) # 0
            /\ PARENT(LEFT_LEAF(j)) = j /\ PARENT(RIGHT_LEAF(j)) = j
        BY <3>3, ParentFacts
      <4>2. LEFT_LEAF(j) \notin path /\ RIGHT_LEAF(j) \notin path
        BY <2>4, <4>1, AboveFacts
      <4> QED
        BY <1>2, <4>1, <4>2
    <3> QED
      BY <2>1, <3>1, <3>2, <3>3
  <2> QED
    BY <2>2, <2>3, <2>4
<1>7. H \cup {i} \subseteq Nodes
  BY DEF Lawful
<1>8. Lawful(N, H \cup {i})
  BY <1>6, <1>7 DEF Lawful
<1> QED
  BY <1>2, <1>8 DEF N

(* Node i is handed out and apart from the others.                         *)
Alone(i, H) == i \in H /\ \A j \in H \ {i} : Hi(j) <= Lo(i) \/ Hi(i) <= Lo(j)

LEMMA HolderDef ==
  ASSUME NEW bm, NEW p
  PROVE  \E w : /\ Holder(bm, p) = w[Leaf(p)]
                /\ \A i \in Nodes : w[i] = IF bm[i] = 0 \/ i = 0 THEN i ELSE w[PARENT(i)]
<1> DEFINE m == [i \in Nodes |-> i]
           base == {i \in Nodes : bm[i] = 0 \/ i = 0}
           b == [i \in Nodes |-> i]
           q == [i \in Nodes |-> PARENT(i)]
           h == [i \in Nodes |-> [v \in Nodes \X Nodes |-> v[1]]]
<1>1. m \in [Nodes -> Nat] /\ 2 * SIZE \in Nat /\ \A i \in Nodes : m[i] <= 2 * SIZE
  BY NodesFacts, SizeFacts
<1>2. base \in SUBSET Nodes /\ b \in [Nodes -> Nodes] /\ h \in [Nodes -> [Nodes \X Nodes -> Nodes]]
  OBVIOUS
<1>3. \A i \in Nodes \ base : q[i] \in Nodes /\ m[q[i]] < m[i]
  BY ParentFacts
<1> Nodes # {}
  BY NodesFacts
<1> HIDE DEF m, base, b, q, h
<1>4. IsRecursion(Nodes, Nodes, m, 2 * SIZE, base, b, q, q, h)
  BY <1>1, <1>2, <1>3 DEF IsRecursion
<1>5. PICK f \in [Nodes -> Nodes] :
        \A i \in Nodes : f[i] = IF i \in base THEN b[i] ELSE h[i][<<f[q[i]], f[q[i]]>>]
  BY <1>4, Recursion
<1>6. ASSUME NEW i \in Nodes
      PROVE  f[i] = IF bm[i] = 0 \/ i = 0 THEN i ELSE f[PARENT(i)]
  <2>1. CASE i \in base
    BY <1>5, <2>1 DEF b, base
  <2>2. CASE i \notin base
    <3>1. f[q[i]] \in Nodes
      BY <1>3, <2>2
    <3>2. f[i] = h[i][<<f[q[i]], f[q[i]]>>]
      BY <1>5, <2>2
    <3>3. h[i][<<f[q[i]], f[q[i]]>>] = f[q[i]]
      BY <3>1 DEF h
    <3>4. ~(bm[i] = 0 \/ i = 0)
      BY <2>2 DEF base
    <3> QED
      BY <3>2, <3>3, <3>4 DEF q
  <2> QED
    BY <2>1, <2>2
<1> DEFINE walk == CHOOSE w : w = [i \in Nodes |-> IF bm[i] = 0 \/ i = 0 THEN i ELSE w[PARENT(i)]]
<1>7. f = [i \in Nodes |-> IF bm[i] = 0 \/ i = 0 THEN i ELSE f[PARENT(i)]]
  BY <1>6
<1>8. walk = [i \in Nodes |-> IF bm[i] = 0 \/ i = 0 THEN i ELSE walk[PARENT(i)]]
  BY <1>7
<1>9. Holder(bm, p) = walk[Leaf(p)]
  BY DEF Holder
<1> HIDE DEF walk
<1> QED
  BY <1>8, <1>9

(* The walk of buddy_free ends at the node that was handed out: all below  *)
(* it still offer their whole size.                                        *)
LEMMA HolderFinds ==
  ASSUME NEW bm, NEW H, Lawful(bm, H), NEW i \in Nodes, Alone(i, H)
  PROVE  Holder(bm, Lo(i)) = i
<1>1. PICK w : /\ Holder(bm, Lo(i)) = w[Leaf(Lo(i))]
               /\ \A j \in Nodes : w[j] = IF bm[j] = 0 \/ j = 0 THEN j ELSE w[PARENT(j)]
  BY HolderDef
<1> DEFINE Good(j) == Lo(j) = Lo(i) /\ NodeSize[j] <= NodeSize[i] => w[j] = i
           m == [j \in Nodes |-> j]
           T == {j \in Nodes : Good(j)}
<1>2. /\ i \in H /\ bm[i] = 0 /\ Lo(i) \in Nat /\ NodeSize[i] \in Nat /\ NodeSize[i] > 0
      /\ Hi(i) = Lo(i) + NodeSize[i] /\ NodeSize[i] \in Orders /\ Aligned(Lo(i), NodeSize[i])
  BY Places, SizeOfNode, OrdersFacts DEF Alone, Lawful
<1>3. ASSUME NEW j \in Nodes, \A k \in Nodes : m[k] < m[j] => k \in T,
             Lo(j) = Lo(i), NodeSize[j] <= NodeSize[i]
      PROVE  w[j] = i
  <2>1. /\ Lo(j) \in Nat /\ NodeSize[j] \in Nat /\ NodeSize[j] > 0
        /\ Hi(j) = Lo(j) + NodeSize[j] /\ NodeSize[j] \in Orders
    BY Places, SizeOfNode, OrdersFacts
  <2>2. CASE j = i
    BY <1>1, <1>2, <2>2
  <2>3. CASE j # i
    <3>1. NodeSize[j] < NodeSize[i]
      BY <1>2, <1>3, <2>1, <2>3, SamePlace
    <3>2. ASSUME NEW k \in H, Inside(k, j) PROVE FALSE
      <4>1. /\ k \in Nodes /\ Lo(k) \in Nat /\ NodeSize[k] \in Nat /\ NodeSize[k] > 0
            /\ Hi(k) = Lo(k) + NodeSize[k]
        BY Places, SizeOfNode DEF Lawful
      <4>2. k = i \/ Hi(k) <= Lo(i) \/ Hi(i) <= Lo(k)
        BY DEF Alone
      <4> QED
        BY <1>2, <1>3, <2>1, <3>1, <3>2, <4>1, <4>2 DEF Inside
    <3>3. bm[j] # 0
      BY <2>1, <3>2, Full
    <3>4. j # 0
      <4>1. NodeSize[0] = SIZE
        BY NodesFacts, NodeSizeDef
      <4>2. NodeSize[i] <= SIZE
        BY <1>2, Places, SizeFacts
      <4> QED
        BY <1>2, <3>1, <4>1, <4>2, SizeFacts
    <3> DEFINE p == PARENT(j)
    <3>5. p \in Nodes /\ m[p] < m[j] /\ p < SIZE - 1 /\ (j = LEFT_LEAF(p) \/ j = RIGHT_LEAF(p))
      BY <3>4, ParentFacts
    <3>6. w[j] = w[p]
      BY <1>1, <3>3, <3>4
    <3>7. Good(p)
      BY <1>3, <3>5
    <3> HIDE DEF p, m, T
    <3>8. /\ NodeSize[p] = 2 * NodeSize[j] /\ Lo(p) \in Nat /\ NodeSize[p] \in Orders
          /\ Aligned(Lo(p), NodeSize[p]) /\ NodeSize[p] \in Nat
      BY <3>5, SizeOfNode, Places, OrdersFacts
    <3>9. Lo(j) = Lo(p) \/ Lo(j) = Lo(p) + NodeSize[j]
      <4>1. /\ Lo(LEFT_LEAF(p)) = Lo(p) /\ Hi(LEFT_LEAF(p)) = Lo(RIGHT_LEAF(p))
            /\ NodeSize[LEFT_LEAF(p)] = NodeSize[j]
        BY <3>5, Halves, SizeOfNode
      <4> QED
        BY <3>5, <4>1 DEF Hi
    <3>10. NodeSize[p] <= NodeSize[i]
      BY <1>2, <2>1, <3>1, <3>8, OrdersFacts
    <3>11. Lo(p) = Lo(i)
      <4>1. \/ Lo(i) <= Lo(p) /\ Lo(p) + NodeSize[p] <= Lo(i) + NodeSize[i]
            \/ Lo(p) + NodeSize[p] <= Lo(i) \/ Lo(i) + NodeSize[i] <= Lo(p)
        BY <1>2, <3>8, <3>10, Nesting
      <4> QED
        BY <1>2, <1>3, <2>1, <3>8, <3>9, <4>1
    <3> QED
      BY <3>6, <3>7, <3>10, <3>11
  <2> QED
    BY <2>2, <2>3
<1>4. m \in [Nodes -> Nat] /\ T \in SUBSET Nodes
  BY NodesFacts
<1>5. T = Nodes
  <2>1. ASSUME NEW j \in Nodes, \A k \in Nodes : m[k] < m[j] => k \in T PROVE j \in T
    BY <1>3, <2>1
  <2> HIDE DEF T, m
  <2> QED
    BY <1>4, <2>1, MeasureInduction
<1>6. /\ Leaf(Lo(i)) \in Nodes /\ Lo(Leaf(Lo(i))) = Lo(i) /\ NodeSize[Leaf(Lo(i))] = 1
  <2>1. Lo(i) \in Nat /\ Lo(i) < SIZE /\ SIZE \in Nat
    <3>1. Hi(i) <= SIZE
      BY Places
    <3> QED
      BY <1>2, <3>1, SizeFacts
  <2>2. Leaf(Lo(i)) \in Nodes /\ Leaf(Lo(i)) >= SIZE - 1 /\ Leaf(Lo(i)) - (SIZE - 1) = Lo(i)
    BY <2>1 DEF Leaf, Nodes
  <2> QED
    BY <2>2, Places, SizeOfNode
<1>7. Good(Leaf(Lo(i)))
  BY <1>5, <1>6
<1> QED
  BY <1>1, <1>2, <1>6, <1>7

(* Giving it back keeps the law.                                           *)
LEMMA FreedLaw ==
  ASSUME NEW bm, NEW H, Lawful(bm, H), NEW i \in Nodes, Alone(i, H)
  PROVE  DOMAIN BuddyFree(bm, Lo(i)) = Nodes /\ Lawful(BuddyFree(bm, Lo(i)), H \ {i})
<1> DEFINE N == BuddyFree(bm, Lo(i))
           path == {i} \cup Above[i]
<1>1. \A j \in Nodes : bm[j] \in Nat /\ bm[j] <= NodeSize[j]
  BY Bounds
<1>2. i \in H /\ bm[i] = 0 /\ Holder(bm, Lo(i)) = i /\ HolderSize(bm, i) = NodeSize[i]
      /\ NodeSize[i] \in Nat /\ NodeSize[i] > 0
  BY HolderFinds, SizeOfNode DEF Alone, Lawful, HolderSize
<1>3. /\ DOMAIN N = Nodes
      /\ \A j \in Nodes :
           N[j] = IF j = i THEN NodeSize[i]
                  ELSE IF j \in Above[i]
                       THEN Merged(NodeSize[j], N[LEFT_LEAF(j)], N[RIGHT_LEAF(j)])
                  ELSE bm[j]
  BY <1>1, <1>2, BuddyFreeDef
<1> HIDE DEF N
<1>4. ASSUME NEW j \in Nodes, j \notin path, j < SIZE - 1
      PROVE  /\ N[LEFT_LEAF(j)] = bm[LEFT_LEAF(j)] /\ N[RIGHT_LEAF(j)] = bm[RIGHT_LEAF(j)]
  <2>1. /\ LEFT_LEAF(j) \in Nodes /\ RIGHT_LEAF(j) \in Nodes
        /\ LEFT_LEAF(j) # 0 /\ RIGHT_LEAF(j) # 0
        /\ PARENT(LEFT_LEAF(j)) = j /\ PARENT(RIGHT_LEAF(j)) = j
    BY <1>4, ParentFacts
  <2>2. LEFT_LEAF(j) \notin path /\ RIGHT_LEAF(j) \notin path
    BY <1>4, <2>1, AboveFacts
  <2> QED
    BY <1>3, <2>1, <2>2
<1>5. ASSUME i < SIZE - 1
      PROVE  N[i] = Merged(NodeSize[i], N[LEFT_LEAF(i)], N[RIGHT_LEAF(i)])
  <2> DEFINE l == LEFT_LEAF(i)
             r == RIGHT_LEAF(i)
  <2>1. /\ l \in Nodes /\ r \in Nodes /\ l # 0 /\ r # 0 /\ PARENT(l) = i /\ PARENT(r) = i
        /\ NodeSize[i] = 2 * NodeSize[l] /\ NodeSize[r] = NodeSize[l]
        /\ Lo(l) = Lo(i) /\ Hi(l) = Lo(r) /\ Hi(r) = Hi(i)
    BY <1>5, ParentFacts, SizeOfNode, Halves
  <2>2. l \notin path /\ r \notin path
    <3>1. i \notin Above[i]
      BY AboveFacts
    <3>2. l # i /\ r # i
      BY <1>2, <2>1
    <3> QED
      BY <2>1, <3>1, <3>2, AboveFacts
  <2>3. N[l] = bm[l] /\ N[r] = bm[r]
    BY <1>3, <2>1, <2>2
  <2> HIDE DEF l, r
  <2>4. /\ NodeSize[l] \in Nat /\ NodeSize[l] > 0 /\ Lo(l) \in Nat /\ Lo(r) \in Nat
        /\ Hi(l) = Lo(l) + NodeSize[l] /\ Hi(r) = Lo(r) + NodeSize[l] /\ Lo(i) \in Nat
    BY <2>1, SizeOfNode, Places
  <2>5. ASSUME NEW k \in H PROVE ~Inside(k, l) /\ ~Inside(k, r)
    <3>1. /\ k \in Nodes /\ Lo(k) \in Nat /\ NodeSize[k] \in Nat /\ NodeSize[k] > 0
          /\ Hi(k) = Lo(k) + NodeSize[k]
      BY Places, SizeOfNode DEF Lawful
    <3>2. k = i \/ Hi(k) <= Lo(i) \/ Hi(i) <= Lo(k)
      BY DEF Alone
    <3>3. Hi(i) = Lo(i) + NodeSize[i]
      BY Places
    <3>4. CASE k = i
      <4>1. NodeSize[k] = 2 * NodeSize[l]
        BY <2>1, <3>4
      <4> QED
        BY <2>1, <2>4, <3>1, <4>1 DEF Inside
    <3>5. CASE Hi(k) <= Lo(i) \/ Hi(i) <= Lo(k)
      BY <1>2, <2>1, <2>4, <3>1, <3>3, <3>5 DEF Inside
    <3> QED
      BY <3>2, <3>4, <3>5
  <2>6. bm[l] = NodeSize[l] /\ bm[r] = NodeSize[l]
    BY <2>1, <2>5, Full
  <2>7. N[i] = Merged(NodeSize[i], N[l], N[r])
    BY <1>3, <2>1, <2>3, <2>4, <2>6 DEF Merged
  <2> QED
    BY <2>7 DEF l, r
<1>6. ASSUME NEW j \in Above[i] PROVE j \in Nodes /\ j < SIZE - 1 /\ j # i /\ j \notin H
  <2>1. j \in Nodes /\ j < SIZE - 1 /\ j # i /\ Inside(i, j)
    BY AboveFacts
  <2>2. /\ Lo(i) \in Nat /\ Hi(i) = Lo(i) + NodeSize[i] /\ Lo(j) \in Nat /\ Hi(j) \in Nat
    BY <2>1, Places
  <2>3. j \in H => Hi(j) <= Lo(i) \/ Hi(i) <= Lo(j)
    BY <2>1 DEF Alone
  <2> QED
    BY <1>2, <2>1, <2>2, <2>3 DEF Inside
<1>7. ASSUME NEW j \in Nodes
      PROVE  N[j] = IF j \in H \ {i} THEN 0
                    ELSE IF j >= SIZE - 1 THEN 1
                    ELSE Merged(NodeSize[j], N[LEFT_LEAF(j)], N[RIGHT_LEAF(j)])
  <2>1. j \in Nat /\ SIZE \in Nat
    BY NodesFacts, SizeFacts
  <2>2. CASE j = i
    BY <1>3, <1>5, <2>1, <2>2, SizeOfNode
  <2>3. CASE j \in Above[i]
    BY <1>3, <1>6, <2>1, <2>3
  <2>4. CASE j \notin path
    <3>1. N[j] = bm[j] /\ (j \in H \ {i} <=> j \in H)
      BY <1>3, <2>4
    <3>2. bm[j] = IF j \in H THEN 0
                  ELSE IF j >= SIZE - 1 THEN 1
                  ELSE Merged(NodeSize[j], bm[LEFT_LEAF(j)], bm[RIGHT_LEAF(j)])
      BY DEF Lawful
    <3> QED
      BY <1>4, <2>1, <2>4, <3>1, <3>2
  <2> QED
    BY <2>2, <2>3, <2>4
<1>8. Lawful(N, H \ {i})
  <2>1. H \ {i} \subseteq Nodes
    BY DEF Lawful
  <2> QED
    BY <1>7, <2>1 DEF Lawful
<1> QED
  BY <1>3, <1>8 DEF N

-----------------------------------------------------------------------------
(* Rounding up to a power of two.                                          *)

(* The highest bit of x.                                                   *)
Highest(x, h) == h \in BitPositions /\ Pow2[h] <= x /\ x < 2 * Pow2[h]

LEMMA HighestExists ==
  ASSUME NEW x \in 1 .. SIZE + 1
  PROVE  \E h \in BitPositions : Highest(x, h)
<1> DEFINE D == 0 .. DEPTH + 2
           m == [k \in D |-> k]
           T == {k \in D : x < Pow2[k] => \E h \in BitPositions : Highest(x, h)}
<1>1. DEPTH \in Nat /\ SIZE \in Nat /\ SIZE > 0 /\ x \in Nat /\ x > 0
  BY SizeFacts
<1>2. ASSUME NEW k \in D, \A j \in D : m[j] < m[k] => j \in T PROVE k \in T
  <2>1. CASE k = 0
    BY <1>1, <2>1, Pow2Facts
  <2>2. CASE k # 0
    <3>1. k - 1 \in BitPositions /\ k - 1 \in D /\ m[k - 1] < m[k] /\ (k - 1) + 1 = k
      BY <1>1, <2>2 DEF BitPositions
    <3>2. Pow2[k] = 2 * Pow2[k - 1] /\ Pow2[k - 1] \in Nat
      BY <3>1, Pow2Facts DEF BitPositions
    <3>3. CASE x < Pow2[k - 1]
      BY <1>2, <3>1, <3>3
    <3>4. CASE ~(x < Pow2[k - 1])
      <4>1. Pow2[k - 1] <= x
        BY <1>1, <3>2, <3>4
      <4> QED
        BY <3>1, <3>2, <4>1 DEF Highest
    <3> QED
      BY <3>3, <3>4
  <2> QED
    BY <2>1, <2>2
<1>3. m \in [D -> Nat] /\ T \in SUBSET D
  BY <1>1
<1>4. T = D
  <2> HIDE DEF m, T, D
  <2> QED
    BY <1>2, <1>3, MeasureInduction
<1>5. DEPTH + 2 \in D /\ x < Pow2[DEPTH + 2]
  <2>1. Pow2[DEPTH + 1] = 2 * SIZE
    BY <1>1, Pow2Facts DEF SIZE
  <2>2. Pow2[DEPTH + 2] = 2 * Pow2[DEPTH + 1]
    <3>1. DEPTH + 1 \in 0 .. DEPTH + 1 /\ (DEPTH + 1) + 1 = DEPTH + 2
      BY <1>1
    <3> QED
      BY <3>1, Pow2Facts
  <2> QED
    BY <1>1, <2>1, <2>2
<1> QED
  BY <1>4, <1>5

LEMMA HighestBit ==
  ASSUME NEW x \in Nat, NEW h, Highest(x, h)
  PROVE  h \in Bits(x) /\ Bits(x) \subseteq 0 .. h
<1>1. h \in 0 .. DEPTH + 1 /\ h \in Nat /\ DEPTH \in Nat
  BY SizeFacts DEF Highest, BitPositions
<1>2. Pow2[h] \in Nat /\ Pow2[h] > 0
  BY <1>1, Pow2Facts
<1>3. x \div Pow2[h] = 1
  BY <1>2 DEF Highest
<1>4. h \in Bits(x)
  BY <1>1, <1>3 DEF Bits, BitPositions
<1>5. ASSUME NEW k \in BitPositions, k > h PROVE k \notin Bits(x)
  <2>1. k \in 0 .. DEPTH + 2 /\ h \in 0 .. DEPTH + 2
    BY <1>1 DEF BitPositions
  <2>2. Pow2[k] \in Nat /\ Pow2[k] > 0 /\ 2 * Pow2[h] <= Pow2[k]
    BY <1>5, <2>1, Pow2Facts, Pow2Order
  <2>3. x < Pow2[k]
    BY <1>2, <2>2 DEF Highest
  <2>4. x \div Pow2[k] = 0
    BY <2>2, <2>3
  <2> QED
    BY <2>4 DEF Bits
<1>6. Bits(x) \subseteq 0 .. h
  BY <1>1, <1>5 DEF Bits, BitPositions
<1> QED
  BY <1>4, <1>6

LEMMA SmearStep ==
  ASSUME NEW h \in BitPositions, NEW B \in SUBSET (0 .. h), NEW k \in Nat,
         \A b \in 0 .. h : b > h - k => b \in B
  PROVE  /\ OrShifted(B, k) \in SUBSET (0 .. h)
         /\ \A b \in 0 .. h : b > h - 2 * k => b \in OrShifted(B, k)
<1>1. DEPTH \in Nat /\ h \in 0 .. DEPTH + 1
  BY SizeFacts DEF BitPositions
<1>2. ASSUME NEW b \in OrShifted(B, k) PROVE b \in 0 .. h
  BY <1>1 DEF OrShifted, BitPositions
<1>3. ASSUME NEW b \in 0 .. h, b > h - 2 * k PROVE b \in OrShifted(B, k)
  <2>1. CASE b > h - k
    BY <2>1 DEF OrShifted
  <2>2. CASE ~(b > h - k)
    <3>1. b + k \in 0 .. h /\ b + k > h - k /\ b \in BitPositions
      BY <1>1, <1>3, <2>2 DEF BitPositions
    <3> QED
      BY <3>1 DEF OrShifted
  <2> QED
    BY <2>1, <2>2
<1> QED
  BY <1>2, <1>3

LEMMA SmearedBits ==
  ASSUME NEW h \in BitPositions, NEW B \in SUBSET (0 .. h), h \in B
  PROVE  Smeared(B) = 0 .. h
<1> DEFINE Ones(S, k) == S \in SUBSET (0 .. h) /\ \A b \in 0 .. h : b > h - k => b \in S
<1>1. DEPTH \in 0 .. 62 /\ h \in 0 .. DEPTH + 1
  BY DepthAssumption DEF BitPositions
<1>2. Ones(B, 1)
  BY <1>1
<1>3. ASSUME NEW S, NEW k \in Nat, Ones(S, k) PROVE Ones(OrShifted(S, k), 2 * k)
  BY <1>3, SmearStep
<1> HIDE DEF Ones
<1>4. Ones(OrShifted(B, 1), 2)
  <2>1. 1 \in Nat /\ 2 * 1 = 2
    OBVIOUS
  <2> QED
    BY <1>2, <1>3, <2>1
<1> DEFINE S1 == OrShifted(B, 1)
           S2 == OrShifted(S1, 2)
           S3 == OrShifted(S2, 4)
           S4 == OrShifted(S3, 8)
           S5 == OrShifted(S4, 16)
           S6 == OrShifted(S5, 32)
<1>5. Ones(S2, 2 * 2)
  BY <1>3, <1>4
<1>6. Ones(S3, 2 * 4)
  BY <1>3, <1>5
<1>7. Ones(S4, 2 * 8)
  BY <1>3, <1>6
<1>8. Ones(S5, 2 * 16)
  BY <1>3, <1>7
<1>9. Ones(S6, 2 * 32)
  BY <1>3, <1>8
<1>10. Smeared(B) = S6
  BY DEF Smeared
<1> HIDE DEF S6
<1>11. \A b \in 0 .. h : b > h - 64
  BY <1>1
<1>12. S6 = 0 .. h
  <2>1. S6 \in SUBSET (0 .. h) /\ \A b \in 0 .. h : b > h - 2 * 32 => b \in S6
    BY <1>9 DEF Ones
  <2>2. 2 * 32 = 64
    OBVIOUS
  <2>3. \A b \in 0 .. h : b \in S6
    BY <1>11, <2>1, <2>2
  <2> QED
    BY <2>1, <2>3
<1> QED
  BY <1>10, <1>12

LEMMA ValueDef ==
  ASSUME NEW B
  PROVE  \E sum : /\ Value(B) = sum[DEPTH + 2]
                  /\ \A k \in 0 .. DEPTH + 2 :
                       sum[k] = IF k = 0 THEN 0
                                ELSE sum[k - 1] + IF k - 1 \in B THEN Pow2[k - 1] ELSE 0
<1> DEFINE D == 0 .. DEPTH + 2
           m == [k \in D |-> k]
           b == [k \in D |-> 0]
           p == [k \in D |-> k - 1]
           bit(k) == IF k - 1 \in B THEN Pow2[k - 1] ELSE 0
           h == [k \in D |-> [v \in Nat \X Nat |-> IF k = 0 THEN 0 ELSE v[1] + bit(k)]]
<1>1. DEPTH + 2 \in Nat /\ DEPTH \in Nat
  BY SizeFacts
<1>2. m \in [D -> Nat] /\ \A i \in D : m[i] <= DEPTH + 2
  OBVIOUS
<1>3. b \in [D -> Nat] /\ {0} \in SUBSET D
  BY <1>1
<1>4. \A i \in D \ {0} : p[i] \in D /\ m[p[i]] < m[i]
  BY <1>1
<1>5. ASSUME NEW k \in D, k # 0 PROVE bit(k) \in Nat
  <2>1. k - 1 \in 0 .. DEPTH + 2
    BY <1>1, <1>5
  <2> QED
    BY <2>1, Pow2Facts
<1> HIDE DEF bit
<1>6. h \in [D -> [Nat \X Nat -> Nat]]
  <2>1. ASSUME NEW k \in D, NEW v \in Nat \X Nat
        PROVE  (IF k = 0 THEN 0 ELSE v[1] + bit(k)) \in Nat
    BY <1>5
  <2> QED
    BY <2>1
<1> Nat # {}
  OBVIOUS
<1> HIDE DEF D, m, b, p, h
<1>7. IsRecursion(D, Nat, m, DEPTH + 2, {0}, b, p, p, h)
  BY <1>1, <1>2, <1>3, <1>4, <1>6 DEF IsRecursion
<1>8. PICK f \in [D -> Nat] :
        \A i \in D : f[i] = IF i \in {0} THEN b[i] ELSE h[i][<<f[p[i]], f[p[i]]>>]
  BY <1>7, Recursion
<1>9. ASSUME NEW k \in D PROVE f[k] = IF k = 0 THEN 0 ELSE f[k - 1] + bit(k)
  <2>1. CASE k = 0
    BY <1>8, <2>1 DEF b
  <2>2. CASE k # 0
    <3>1. p[k] = k - 1 /\ f[p[k]] \in Nat
      BY <1>4, <2>2 DEF p
    <3>2. f[k] = h[k][<<f[p[k]], f[p[k]]>>]
      BY <1>8, <2>2
    <3>3. h[k][<<f[p[k]], f[p[k]]>>] = f[p[k]] + bit(k)
      BY <2>2, <3>1 DEF h
    <3> QED
      BY <2>2, <3>1, <3>2, <3>3
  <2> QED
    BY <2>1, <2>2
<1> DEFINE sum == CHOOSE s : s = [k \in 0 .. DEPTH + 2 |->
                    IF k = 0 THEN 0
                    ELSE s[k - 1] + IF k - 1 \in B THEN Pow2[k - 1] ELSE 0]
<1>10. f = [k \in 0 .. DEPTH + 2 |-> IF k = 0 THEN 0
                    ELSE f[k - 1] + IF k - 1 \in B THEN Pow2[k - 1] ELSE 0]
  BY <1>9 DEF D, bit
<1>11. sum = [k \in 0 .. DEPTH + 2 |-> IF k = 0 THEN 0
                    ELSE sum[k - 1] + IF k - 1 \in B THEN Pow2[k - 1] ELSE 0]
  BY <1>10
<1>12. Value(B) = sum[DEPTH + 2]
  BY DEF Value
<1> HIDE DEF sum
<1> QED
  BY <1>11, <1>12

LEMMA ValueOfOnes ==
  ASSUME NEW h \in BitPositions
  PROVE  Value(0 .. h) + 1 = 2 * Pow2[h]
<1>1. PICK sum : /\ Value(0 .. h) = sum[DEPTH + 2]
                 /\ \A k \in 0 .. DEPTH + 2 :
                       sum[k] = IF k = 0 THEN 0
                                ELSE sum[k - 1] + IF k - 1 \in 0 .. h THEN Pow2[k - 1] ELSE 0
  BY ValueDef
<1>2. DEPTH \in Nat /\ h \in 0 .. DEPTH + 1 /\ h + 1 \in 0 .. DEPTH + 2
  BY SizeFacts DEF BitPositions
<1>3. Pow2[h + 1] = 2 * Pow2[h] /\ Pow2[h + 1] \in Nat
  BY <1>2, Pow2Facts
<1> DEFINE D == 0 .. DEPTH + 2
           m == [k \in D |-> k]
           Good(k) == sum[k] = IF k <= h THEN Pow2[k] - 1 ELSE Pow2[h + 1] - 1
           T == {k \in D : Good(k)}
<1>4. ASSUME NEW k \in D, \A j \in D : m[j] < m[k] => j \in T PROVE Good(k)
  <2>1. CASE k = 0
    BY <1>1, <1>2, <2>1, Pow2Facts
  <2>2. CASE k # 0
    <3>1. k - 1 \in 0 .. DEPTH + 1 /\ k - 1 \in D /\ m[k - 1] < m[k] /\ (k - 1) + 1 = k
      BY <1>2, <2>2
    <3>2. Good(k - 1)
      BY <1>4, <3>1
    <3>3. sum[k] = sum[k - 1] + IF k - 1 \in 0 .. h THEN Pow2[k - 1] ELSE 0
      BY <1>1, <2>2
    <3>4. Pow2[k] = 2 * Pow2[k - 1] /\ Pow2[k - 1] \in Nat /\ Pow2[k] \in Nat
      BY <3>1, Pow2Facts
    <3>5. CASE k - 1 <= h
      <4>1. sum[k] = (Pow2[k - 1] - 1) + Pow2[k - 1]
        BY <1>2, <3>1, <3>2, <3>3, <3>5
      <4>2. sum[k] = Pow2[k] - 1
        BY <3>4, <4>1
      <4>3. k <= h \/ k = h + 1
        BY <1>2, <3>5
      <4>4. CASE k <= h
        BY <4>2, <4>4
      <4>5. CASE k = h + 1
        <5>1. ~(k <= h)
          BY <1>2, <4>5
        <5> QED
          BY <4>2, <4>5, <5>1
      <4> QED
        BY <4>3, <4>4, <4>5
    <3>6. CASE ~(k - 1 <= h)
      <4>1. ~(k <= h) /\ k - 1 \notin 0 .. h
        BY <1>2, <3>6
      <4> QED
        BY <1>3, <3>2, <3>3, <3>6, <4>1
    <3> QED
      BY <3>5, <3>6
  <2> QED
    BY <2>1, <2>2
<1>5. m \in [D -> Nat] /\ T \in SUBSET D
  BY <1>2
<1>6. T = D
  <2>1. ASSUME NEW k \in D, \A j \in D : m[j] < m[k] => j \in T PROVE k \in T
    BY <1>4, <2>1
  <2> HIDE DEF m, T, D
  <2> QED
    BY <1>5, <2>1, MeasureInduction
<1>7. Good(DEPTH + 2) /\ ~(DEPTH + 2 <= h)
  BY <1>2, <1>6
<1> QED
  BY <1>1, <1>3, <1>7

(* buddy_alloc serves a request by the least power of two that holds it,   *)
(* for every depth of the tree (fixsize and IS_POWER_OF_2).                *)
THEOREM RoundsUp ==
  ASSUME NEW nrpages \in 0 .. SIZE + 1
  PROVE  /\ RoundedUp(nrpages) \in Orders /\ nrpages <= RoundedUp(nrpages)
         /\ \A n \in Orders : nrpages <= n => RoundedUp(nrpages) <= n
<1>1. DEPTH \in Nat /\ SIZE \in Nat /\ SIZE > 0 /\ SIZE = Pow2[DEPTH]
  BY SizeFacts DEF SIZE
<1>2. \A n \in Orders : n \in Nat /\ n > 0
  BY OrdersFacts
<1>3. CASE nrpages <= 0
  <2>1. 1 \in Orders
    <3>1. 0 \in 0 .. DEPTH + 1 /\ Pow2[0] = 1
      BY <1>1, Pow2Facts
    <3> QED
      BY <3>1 DEF Orders
  <2> QED
    BY <1>2, <1>3, <2>1 DEF RoundedUp
<1>4. CASE nrpages > 0 /\ IS_POWER_OF_2(nrpages)
  <2>1. PICK h \in BitPositions : Highest(nrpages, h)
    BY <1>1, <1>4, HighestExists
  <2>2. h \in 0 .. DEPTH + 1 /\ Pow2[h] \in Nat /\ Pow2[h] > 0
    BY <1>1, Pow2Facts DEF BitPositions
  <2>3. nrpages = Pow2[h]
    <3>1. SUFFICES ASSUME nrpages # Pow2[h] PROVE FALSE
      OBVIOUS
    <3>2. nrpages - 1 \in Nat /\ Highest(nrpages - 1, h)
      BY <1>1, <1>4, <2>1, <2>2, <3>1 DEF Highest
    <3>3. h \in Bits(nrpages) /\ h \in Bits(nrpages - 1)
      BY <1>1, <2>1, <3>2, HighestBit
    <3> QED
      BY <1>4, <3>3 DEF IS_POWER_OF_2
  <2>4. nrpages \in Orders
    BY <2>2, <2>3 DEF Orders
  <2> QED
    BY <1>1, <1>4, <2>4 DEF RoundedUp
<1>5. CASE nrpages > 0 /\ ~IS_POWER_OF_2(nrpages)
  <2>1. nrpages # 1
    <3>1. ASSUME NEW k \in BitPositions PROVE k \notin Bits(0)
      <4>1. Pow2[k] \in Nat /\ Pow2[k] > 0
        BY <1>1, Pow2Facts DEF BitPositions
      <4>2. 0 \div Pow2[k] = 0
        BY <4>1
      <4> QED
        BY <4>2 DEF Bits
    <3>2. Bits(0) = {}
      BY <3>1 DEF Bits
    <3>3. IS_POWER_OF_2(1)
      BY <3>2 DEF IS_POWER_OF_2
    <3> QED
      BY <1>5, <3>3
  <2> DEFINE y == nrpages - 1
  <2>2. y \in 1 .. SIZE + 1 /\ y <= SIZE /\ y \in Nat /\ nrpages = y + 1
    BY <1>1, <1>5, <2>1
  <2> HIDE DEF y
  <2>3. PICK h \in BitPositions : Highest(y, h)
    BY <2>2, HighestExists
  <2>4. h \in 0 .. DEPTH + 1 /\ Pow2[h] \in Nat /\ Pow2[h] > 0 /\ Pow2[h + 1] = 2 * Pow2[h]
        /\ Pow2[h] <= y /\ y < 2 * Pow2[h]
    BY <1>1, <2>3, Pow2Facts DEF BitPositions, Highest
  <2>5. fixsize(nrpages) = Pow2[h + 1]
    <3>1. Smeared(Bits(y)) = 0 .. h
      BY <2>2, <2>3, HighestBit, SmearedBits
    <3>2. fixsize(nrpages) = Value(Smeared(Bits(y))) + 1
      BY DEF fixsize, y
    <3> QED
      BY <2>4, <3>1, <3>2, ValueOfOnes
  <2>6. h <= DEPTH
    <3>1. DEPTH < h => 2 * Pow2[DEPTH] <= Pow2[h]
      BY <1>1, <2>4, Pow2Order
    <3> QED
      BY <1>1, <2>2, <2>4, <3>1
  <2>7. h + 1 \in 0 .. DEPTH + 1
    BY <1>1, <2>4, <2>6
  <2>8. fixsize(nrpages) \in Orders /\ nrpages <= fixsize(nrpages)
    BY <2>2, <2>4, <2>5, <2>7 DEF Orders
  <2>9. ASSUME NEW n \in Orders, nrpages <= n PROVE fixsize(nrpages) <= n
    <3>1. Pow2[h] \in Orders /\ Pow2[h] < n
      BY <1>2, <2>2, <2>4, <2>9 DEF Orders
    <3>2. 2 * Pow2[h] <= n
      BY <3>1, OrdersFacts
    <3> QED
      BY <2>4, <2>5, <3>2
  <2>10. RoundedUp(nrpages) = fixsize(nrpages)
    BY <1>5 DEF RoundedUp
  <2> QED
    BY <2>8, <2>9, <2>10
<1> QED
  BY <1>1, <1>3, <1>4, <1>5

-----------------------------------------------------------------------------
(* The invariant.                                                          *)

(* The nodes handed out: the reserved pages' leaves and the owned blocks.  *)
HeldNodes ==
  {i \in Nodes : \/ i >= SIZE - 1 /\ i - (SIZE - 1) < reserved
                 \/ \E b \in owned : Lo(i) = b.pfn /\ NodeSize[i] = b.n}

BlocksApart ==
  /\ \A b, c \in owned : b # c => b.pfn + b.n <= c.pfn \/ c.pfn + c.n <= b.pfn
  /\ \A b \in owned : reserved <= b.pfn

(* What the tree says is lawful for the nodes held; a block is a node's    *)
(* pages; blocks and reserved pages are apart.                             *)
IInv ==
  /\ DOMAIN bitmap = Nodes /\ Lawful(bitmap, HeldNodes)
  /\ reserved \in 0 .. RESERVED /\ (reserved < RESERVED => owned = {})
  /\ owned \subseteq [pfn : 1 .. SIZE - 1, n : Orders]
  /\ \A b \in owned : \E i \in Nodes : Lo(i) = b.pfn /\ NodeSize[i] = b.n
  /\ BlocksApart
  /\ got \in 0 .. SIZE - 1

LEMMA ReservedFacts == RESERVED \in Nat /\ RESERVED > 0 /\ RESERVED <= SIZE
BY DepthAssumption, SizeFacts

(* The leaf of a page.                                                     *)
LEMMA LeafFacts ==
  ASSUME NEW p \in 0 .. SIZE - 1
  PROVE  /\ Leaf(p) \in Nodes /\ Leaf(p) >= SIZE - 1 /\ Leaf(p) - (SIZE - 1) = p
         /\ NodeSize[Leaf(p)] = 1 /\ Lo(Leaf(p)) = p /\ Hi(Leaf(p)) = p + 1
<1>1. SIZE \in Nat /\ p \in Nat /\ p < SIZE
  BY SizeFacts
<1>2. Leaf(p) \in Nodes /\ Leaf(p) >= SIZE - 1 /\ Leaf(p) - (SIZE - 1) = p
  BY <1>1 DEF Leaf, Nodes
<1> QED
  BY <1>2, Places, SizeOfNode

(* What PageAlloc calls a fitting block, in terms of the nodes.            *)
LEMMA FitsIff ==
  ASSUME IInv, NEW p \in Nat, NEW n \in Orders
  PROVE  Abstract!Fits(p, n) <=> Aligned(p, n) /\ p + n <= SIZE /\ FreeOf(p, n, HeldNodes)
<1>1. n \in Nat /\ n > 0 /\ SIZE \in Nat /\ reserved \in Nat /\ reserved <= SIZE
  BY OrdersFacts, SizeFacts, ReservedFacts DEF IInv
<1>2. p % n = 0 <=> Aligned(p, n)
  BY <1>1, Remainder DEF Aligned
<1>3. \A b \in owned : b.pfn \in Nat /\ b.n \in Orders /\ b.n \in Nat /\ b.n > 0
  BY OrdersFacts DEF IInv
<1> DEFINE Used == 0 .. reserved - 1 \cup UNION {b.pfn .. b.pfn + b.n - 1 : b \in owned}
<1>4. Abstract!Fits(p, n) <=> /\ p % n = 0 /\ p + n <= SIZE
                              /\ (p .. p + n - 1) \cap Used = {}
  BY DEF Abstract!Fits, Abstract!PagesOf, Abstract!Block, Abstract!Used
<1>5. ASSUME (p .. p + n - 1) \cap Used = {}, NEW i \in HeldNodes
      PROVE  p + n <= Lo(i) \/ Hi(i) <= p
  <2>1. i \in Nodes /\ Lo(i) \in Nat /\ NodeSize[i] \in Nat /\ NodeSize[i] > 0
        /\ Hi(i) = Lo(i) + NodeSize[i]
    BY Places, SizeOfNode DEF HeldNodes
  <2>2. Lo(i) .. Lo(i) + NodeSize[i] - 1 \subseteq Used
    <3>1. CASE i >= SIZE - 1 /\ i - (SIZE - 1) < reserved
      <4>1. Lo(i) < reserved /\ NodeSize[i] = 1
        BY <2>1, <3>1, Places, SizeOfNode
      <4> QED
        BY <1>1, <2>1, <4>1
    <3>2. CASE \E b \in owned : Lo(i) = b.pfn /\ NodeSize[i] = b.n
      BY <3>2
    <3> QED
      BY <3>1, <3>2 DEF HeldNodes
  <2>3. \A u \in p .. p + n - 1 : u \notin Lo(i) .. Lo(i) + NodeSize[i] - 1
    BY <1>5, <2>2
  <2> HIDE DEF Used
  <2>4. p \notin Lo(i) .. Lo(i) + NodeSize[i] - 1
    BY <1>1, <2>3
  <2>5. Lo(i) \notin p .. p + n - 1
    BY <2>1, <2>3
  <2> QED
    BY <1>1, <2>1, <2>4, <2>5
<1>6. ASSUME FreeOf(p, n, HeldNodes), NEW u \in p .. p + n - 1, p + n <= SIZE PROVE u \notin Used
  <2>1. u \in Nat /\ u \in 0 .. SIZE - 1
    BY <1>1, <1>6
  <2>2. ~(u < reserved)
    <3>1. SUFFICES ASSUME u < reserved PROVE FALSE
      OBVIOUS
    <3>2. Leaf(u) \in HeldNodes /\ Lo(Leaf(u)) = u /\ Hi(Leaf(u)) = u + 1
      BY <2>1, <3>1, LeafFacts DEF HeldNodes
    <3>3. p + n <= u \/ u + 1 <= p
      BY <1>6, <3>2 DEF FreeOf
    <3> QED
      BY <1>1, <1>6, <2>1, <3>3
  <2>3. ASSUME NEW b \in owned, u \in b.pfn .. b.pfn + b.n - 1 PROVE FALSE
    <3>1. PICK i \in Nodes : Lo(i) = b.pfn /\ NodeSize[i] = b.n
      BY DEF IInv
    <3>2. i \in HeldNodes /\ Hi(i) = b.pfn + b.n
      BY <3>1, Places DEF HeldNodes
    <3>3. p + n <= b.pfn \/ b.pfn + b.n <= p
      BY <1>6, <3>1, <3>2 DEF FreeOf
    <3> QED
      BY <1>1, <1>3, <1>6, <2>3, <3>3
  <2> QED
    BY <1>1, <2>1, <2>2, <2>3
<1> HIDE DEF Used
<1>7. FreeOf(p, n, HeldNodes) /\ p + n <= SIZE => (p .. p + n - 1) \cap Used = {}
  BY <1>6
<1>8. (p .. p + n - 1) \cap Used = {} => FreeOf(p, n, HeldNodes)
  BY <1>5 DEF FreeOf
<1> QED
  BY <1>2, <1>4, <1>7, <1>8

LEMMA RootFacts == 0 \in Nodes /\ NodeSize[0] = SIZE /\ Lo(0) = 0 /\ Hi(0) = SIZE
<1>1. NodeSize[0] = SIZE
  BY NodesFacts, NodeSizeDef
<1> QED
  BY <1>1, NodesFacts, SizeFacts DEF Lo, Hi

(* What buddy_alloc does with a block of n pages.                          *)
LEMMA AllocFacts ==
  ASSUME IInv, NEW n \in Orders, NEW r, r = BuddyAlloc(bitmap, n)
  PROVE  /\ bitmap[0] \in Nat /\ n \in Nat /\ n > 0
         /\ bitmap[0] < n => /\ r.bitmap = bitmap /\ r.pfn = 0
                             /\ \A p \in 0 .. SIZE - 1 : ~Abstract!Fits(p, n)
         /\ ~(bitmap[0] < n) =>
              \E i \in Nodes : /\ FirstFree(HeldNodes, n, i) /\ r.pfn = Lo(i)
                               /\ r.bitmap = Taken(bitmap, i)
                               /\ Abstract!FirstFit(Lo(i), n)
<1>1. Lawful(bitmap, HeldNodes) /\ n \in Nat /\ n > 0 /\ bitmap[0] \in Nat /\ SIZE \in Nat
  BY OrdersFacts, Bounds, NodesFacts, SizeFacts DEF IInv
<1>2. CASE bitmap[0] < n
  <2>1. r.bitmap = bitmap /\ r.pfn = 0
    BY <1>2 DEF BuddyAlloc
  <2>2. ASSUME NEW p \in 0 .. SIZE - 1, Abstract!Fits(p, n) PROVE FALSE
    <3>1. p \in Nat /\ Aligned(p, n) /\ p + n <= SIZE /\ FreeOf(p, n, HeldNodes)
      BY <2>2, FitsIff
    <3>2. n <= bitmap[0]
      BY <1>1, <3>1, RootFacts, LowerBound
    <3> QED
      BY <1>1, <1>2, <3>2
  <2> QED
    BY <1>1, <1>2, <2>1, <2>2
<1>3. CASE ~(bitmap[0] < n)
  <2> DEFINE i == Descend(bitmap, n)
  <2>1. n <= bitmap[0]
    BY <1>1, <1>3
  <2>2. FirstFree(HeldNodes, n, i)
    BY <1>1, <2>1, DescendFinds
  <2>3. r.bitmap = Taken(bitmap, i) /\ r.pfn = Lo(i)
    BY <1>3 DEF BuddyAlloc, Lo
  <2> HIDE DEF i
  <2>4. i \in Nodes /\ NodeSize[i] = n /\ FreeOf(Lo(i), n, HeldNodes)
    BY <2>2 DEF FirstFree
  <2>5. Abstract!Fits(Lo(i), n)
    BY <2>4, Places, OrdersFacts, FitsIff
  <2>6. ASSUME NEW q \in 0 .. Lo(i) - 1 PROVE ~Abstract!Fits(q, n)
    <3>1. q \in Nat /\ q < Lo(i)
      BY <2>4, Places
    <3> QED
      BY <2>2, <3>1, FitsIff DEF FirstFree
  <2>7. Abstract!FirstFit(Lo(i), n)
    BY <2>5, <2>6 DEF Abstract!FirstFit
  <2> QED
    BY <1>1, <1>3, <2>2, <2>3, <2>4, <2>7
<1> QED
  BY <1>1, <1>2, <1>3

LEMMA InitIInv == Init => IInv
<1> SUFFICES ASSUME Init PROVE IInv
  OBVIOUS
<1>1. HeldNodes = {}
  BY NodesFacts, SizeFacts DEF Init, HeldNodes
<1>2. bitmap = NodeSize /\ DOMAIN NodeSize = Nodes
  BY NodeSizeDef DEF Init
<1>3. ASSUME NEW i \in Nodes
      PROVE  NodeSize[i] = IF i >= SIZE - 1 THEN 1
                           ELSE Merged(NodeSize[i], NodeSize[LEFT_LEAF(i)], NodeSize[RIGHT_LEAF(i)])
  <2>1. i \in Nat /\ SIZE \in Nat
    BY NodesFacts, SizeFacts
  <2>2. CASE i >= SIZE - 1
    BY <2>2, SizeOfNode
  <2>3. CASE i < SIZE - 1
    <3>1. NodeSize[i] = NodeSize[LEFT_LEAF(i)] + NodeSize[RIGHT_LEAF(i)]
      BY <2>3, SizeOfNode, ParentFacts
    <3> QED
      BY <2>1, <2>3, <3>1 DEF Merged
  <2> QED
    BY <2>1, <2>2, <2>3
<1>4. Lawful(bitmap, HeldNodes)
  BY <1>1, <1>2, <1>3 DEF Lawful
<1> QED
  BY <1>2, <1>4, SizeFacts, ReservedFacts DEF Init, IInv, BlocksApart

(* A step of boot: the page reserved is the first free one.                *)
LEMMA ReserveStep ==
  ASSUME IInv, ReservePage
  PROVE  IInv' /\ Abstract!Reserve
<1> DEFINE r == BuddyAlloc(bitmap, 1)
<1>1. /\ reserved < RESERVED /\ bitmap' = r.bitmap /\ got' = r.pfn
      /\ reserved' = reserved + 1 /\ owned' = owned /\ owned = {}
  BY DEF ReservePage, IInv
<1>2. reserved \in 0 .. SIZE - 1 /\ reserved \in Nat /\ SIZE \in Nat
  BY <1>1, ReservedFacts, SizeFacts DEF IInv
<1>3. 1 \in Orders
  <2>1. 0 \in 0 .. DEPTH + 1 /\ Pow2[0] = 1
    BY SizeFacts, Pow2Facts
  <2> QED
    BY <2>1 DEF Orders
<1> HIDE DEF r
<1>4. /\ bitmap[0] \in Nat
      /\ bitmap[0] < 1 => \A p \in 0 .. SIZE - 1 : ~Abstract!Fits(p, 1)
      /\ ~(bitmap[0] < 1) =>
              \E i \in Nodes : /\ FirstFree(HeldNodes, 1, i) /\ r.pfn = Lo(i)
                               /\ r.bitmap = Taken(bitmap, i)
                               /\ Abstract!FirstFit(Lo(i), 1)
  BY <1>3, AllocFacts DEF r
<1>5. FreeOf(reserved, 1, HeldNodes) /\ Aligned(reserved, 1)
  <2>1. reserved = reserved * 1
    BY <1>2
  <2>2. ASSUME NEW i \in HeldNodes PROVE Hi(i) <= reserved
    <3>1. i \in Nodes /\ i >= SIZE - 1 /\ i - (SIZE - 1) < reserved
      BY <1>1 DEF HeldNodes
    <3>2. Lo(i) < reserved /\ Hi(i) = Lo(i) + 1 /\ Lo(i) \in Nat
      BY <3>1, Places, SizeOfNode
    <3> QED
      BY <1>2, <3>2
  <2> QED
    BY <1>2, <2>1, <2>2 DEF FreeOf, Aligned
<1>6. Abstract!Fits(reserved, 1)
  BY <1>2, <1>3, <1>5, FitsIff
<1>7. PICK i \in Nodes : /\ FirstFree(HeldNodes, 1, i) /\ r.pfn = Lo(i)
                         /\ r.bitmap = Taken(bitmap, i)
                         /\ Abstract!FirstFit(Lo(i), 1)
  BY <1>2, <1>4, <1>6
<1>8. Lo(i) = reserved /\ i = Leaf(reserved)
  <2>1. NodeSize[i] = 1 /\ FreeOf(Lo(i), 1, HeldNodes) /\ Lo(i) \in Nat /\ Hi(i) = Lo(i) + 1
        /\ Hi(i) <= SIZE
    BY <1>7, Places DEF FirstFree
  <2>2. ~(reserved < Lo(i))
    BY <1>2, <1>5, <1>7 DEF FirstFree
  <2>3. ~(Lo(i) < reserved)
    <3>1. SUFFICES ASSUME Lo(i) < reserved PROVE FALSE
      OBVIOUS
    <3>2. Lo(i) \in 0 .. SIZE - 1
      BY <1>2, <2>1
    <3>3. Leaf(Lo(i)) \in HeldNodes /\ Lo(Leaf(Lo(i))) = Lo(i) /\ Hi(Leaf(Lo(i))) = Lo(i) + 1
      BY <3>1, <3>2, LeafFacts DEF HeldNodes
    <3> QED
      BY <2>1, <3>3 DEF FreeOf
  <2>4. Lo(i) = reserved
    BY <1>2, <2>1, <2>2, <2>3
  <2> QED
    BY <1>2, <2>1, <2>4, LeafFacts, SamePlace
<1>9. HeldNodes' = HeldNodes \cup {i}
  <2>1. ASSUME NEW j \in Nodes
        PROVE  j >= SIZE - 1 /\ j - (SIZE - 1) < reserved + 1
                 <=> (j >= SIZE - 1 /\ j - (SIZE - 1) < reserved) \/ j = i
    <3>1. j \in Nat
      BY NodesFacts
    <3>2. i \in Nat /\ i >= SIZE - 1 /\ i - (SIZE - 1) = reserved
      BY <1>2, <1>8, LeafFacts, NodesFacts
    <3> QED
      BY <1>2, <3>1, <3>2
  <2> QED
    BY <1>1, <2>1 DEF HeldNodes
<1>10. DOMAIN bitmap' = Nodes /\ Lawful(bitmap', HeldNodes')
  BY <1>1, <1>7, <1>9, TakenLaw DEF IInv, FirstFree
<1>11. got' = reserved /\ got' \in 0 .. SIZE - 1
  BY <1>1, <1>2, <1>7, <1>8
<1>12. IInv'
  BY <1>1, <1>2, <1>10, <1>11, ReservedFacts DEF IInv, BlocksApart
<1>13. Abstract!Reserve
  BY <1>1, <1>7, <1>8, <1>11 DEF Abstract!Reserve
<1> QED
  BY <1>12, <1>13

(* A request is refused, or served by the first block that fits.           *)
LEMMA AllocStep ==
  ASSUME IInv, NEW nrpages \in 0 .. SIZE + 1, Alloc(nrpages)
  PROVE  /\ IInv'
         /\ \E n \in Orders : \/ Abstract!Refuse(n)
                              \/ \E p \in 0 .. SIZE - 1 : Abstract!Grant(p, n)
<1> DEFINE n == RoundedUp(nrpages)
           r == BuddyAlloc(bitmap, n)
<1>1. /\ reserved = RESERVED /\ bitmap' = r.bitmap /\ got' = r.pfn /\ reserved' = reserved
      /\ owned' = IF r.pfn = 0 THEN owned ELSE owned \cup {[pfn |-> r.pfn, n |-> n]}
  BY DEF Alloc
<1>2. n \in Orders
  BY RoundsUp
<1> HIDE DEF n
<1>3. /\ bitmap[0] \in Nat /\ n \in Nat /\ n > 0
      /\ bitmap[0] < n => /\ r.bitmap = bitmap /\ r.pfn = 0
                          /\ \A p \in 0 .. SIZE - 1 : ~Abstract!Fits(p, n)
      /\ ~(bitmap[0] < n) =>
              \E i \in Nodes : /\ FirstFree(HeldNodes, n, i) /\ r.pfn = Lo(i)
                               /\ r.bitmap = Taken(bitmap, i)
                               /\ Abstract!FirstFit(Lo(i), n)
  BY <1>2, AllocFacts
<1> HIDE DEF r
<1>4. RESERVED \in Nat /\ RESERVED > 0 /\ RESERVED <= SIZE /\ SIZE \in Nat
  BY ReservedFacts, SizeFacts
<1>5. CASE bitmap[0] < n
  <2>1. bitmap' = bitmap /\ got' = 0 /\ owned' = owned /\ reserved' = reserved
    BY <1>1, <1>3, <1>5
  <2>2. IInv'
    <3>1. HeldNodes' = HeldNodes
      BY <2>1 DEF HeldNodes
    <3> QED
      BY <1>4, <2>1, <3>1 DEF IInv, BlocksApart
  <2>3. Abstract!Refuse(n)
    BY <1>1, <1>3, <1>5, <2>1 DEF Abstract!Refuse
  <2> QED
    BY <1>2, <2>2, <2>3
<1>6. CASE ~(bitmap[0] < n)
  <2>1. PICK i \in Nodes : /\ FirstFree(HeldNodes, n, i) /\ r.pfn = Lo(i)
                           /\ r.bitmap = Taken(bitmap, i)
                           /\ Abstract!FirstFit(Lo(i), n)
    BY <1>3, <1>6
  <2>2. /\ NodeSize[i] = n /\ FreeOf(Lo(i), n, HeldNodes) /\ Lo(i) \in Nat
        /\ Hi(i) = Lo(i) + n /\ Hi(i) <= SIZE /\ Lo(i) < SIZE
    BY <1>3, <1>4, <2>1, Places DEF FirstFree
  <2>3. ASSUME NEW p \in 0 .. RESERVED - 1 PROVE Lo(i) + n <= p \/ p + 1 <= Lo(i)
    <3>1. p \in 0 .. SIZE - 1
      BY <1>4
    <3>2. Leaf(p) \in HeldNodes /\ Lo(Leaf(p)) = p /\ Hi(Leaf(p)) = p + 1
      BY <1>1, <1>4, <3>1, LeafFacts DEF HeldNodes
    <3> QED
      BY <2>2, <3>2 DEF FreeOf
  <2>4. RESERVED <= Lo(i)
    <3>1. SUFFICES ASSUME Lo(i) < RESERVED PROVE FALSE
      BY <1>4, <2>2
    <3>2. Lo(i) + n <= Lo(i) \/ Lo(i) + 1 <= Lo(i)
      BY <1>4, <2>2, <2>3, <3>1
    <3> QED
      BY <1>3, <2>2, <3>2
  <2>5. /\ bitmap' = Taken(bitmap, i) /\ got' = Lo(i)
        /\ owned' = owned \cup {[pfn |-> Lo(i), n |-> n]}
    BY <1>1, <1>4, <2>1, <2>2, <2>4
  <2>6. HeldNodes' = HeldNodes \cup {i}
    <3>1. ASSUME NEW j \in Nodes, Lo(j) = Lo(i), NodeSize[j] = n PROVE j = i
      BY <2>2, <3>1, SamePlace
    <3>2. ASSUME NEW j \in Nodes
          PROVE  (\E b \in owned' : Lo(j) = b.pfn /\ NodeSize[j] = b.n)
                   <=> (\E b \in owned : Lo(j) = b.pfn /\ NodeSize[j] = b.n) \/ j = i
      <4> DEFINE new == [pfn |-> Lo(i), n |-> n]
      <4>1. owned' = owned \cup {new} /\ new.pfn = Lo(i) /\ new.n = n
        BY <2>5
      <4> HIDE DEF new
      <4>2. Lo(j) = new.pfn /\ NodeSize[j] = new.n <=> j = i
        BY <2>2, <3>1, <4>1
      <4> QED
        BY <4>1, <4>2
    <3>3. i \in Nodes /\ reserved' = reserved
      BY <1>1
    <3> QED
      BY <3>2, <3>3 DEF HeldNodes
  <2>7. DOMAIN bitmap' = Nodes /\ Lawful(bitmap', HeldNodes')
    BY <2>2, <2>5, <2>6, TakenLaw DEF IInv
  <2>8. owned' \subseteq [pfn : 1 .. SIZE - 1, n : Orders]
    BY <1>2, <1>4, <2>2, <2>4, <2>5 DEF IInv
  <2>9. BlocksApart'
    <3>1. ASSUME NEW b \in owned PROVE b.pfn + b.n <= Lo(i) \/ Lo(i) + n <= b.pfn
      <4>1. PICK j \in Nodes : Lo(j) = b.pfn /\ NodeSize[j] = b.n
        BY DEF IInv
      <4>2. j \in HeldNodes /\ Hi(j) = b.pfn + b.n
        BY <4>1, Places DEF HeldNodes
      <4> QED
        BY <2>2, <4>1, <4>2 DEF FreeOf
    <3>2. \A b \in owned : reserved <= b.pfn
      BY DEF IInv, BlocksApart
    <3> QED
      BY <1>1, <2>4, <2>5, <3>1, <3>2 DEF IInv, BlocksApart
  <2>10. IInv'
    BY <1>1, <1>4, <2>2, <2>5, <2>7, <2>8, <2>9 DEF IInv
  <2>11. Abstract!Grant(Lo(i), n)
    BY <1>1, <2>1, <2>5 DEF Abstract!Grant, Abstract!Block
  <2>12. Lo(i) \in 0 .. SIZE - 1
    BY <1>4, <2>2
  <2> QED
    BY <1>2, <2>10, <2>11, <2>12
<1> QED
  BY <1>5, <1>6

(* The address a caller hands back leads to the page number it came from.  *)
LEMMA AddressRoundTrip ==
  ASSUME NEW p \in 1 .. SIZE - 1
  PROVE  PHYS2PFN(VA2PA(AllocAddr(p))) = p
<1>1. /\ SIZE \in Nat /\ PHY_START \in Nat /\ VM_START \in Nat /\ ADDR_PAGES \in Nat
      /\ PHY_START + SIZE <= VM_START /\ VM_START + SIZE <= ADDR_PAGES
      /\ p \in Nat /\ p > 0 /\ p < SIZE
  BY AddrAssumption, SizeFacts
<1>2. \A x \in Nat : x < ADDR_PAGES => x % ADDR_PAGES = x
  BY <1>1
<1>3. AllocAddr(p) = (p + PHY_START + (VM_START - PHY_START)) % ADDR_PAGES
  BY <1>1 DEF AllocAddr, PA2VA, PFN2PHYS, PA2VA_OFFSET
<1>4. AllocAddr(p) = p + VM_START
  <2>1. p + PHY_START + (VM_START - PHY_START) = p + VM_START
        /\ p + VM_START \in Nat /\ p + VM_START < ADDR_PAGES
    BY <1>1
  <2> QED
    BY <1>2, <1>3, <2>1
<1>5. VA2PA(p + VM_START) = p + PHY_START
  <2>1. (p + VM_START) - (VM_START - PHY_START) = p + PHY_START
        /\ p + PHY_START \in Nat /\ p + PHY_START < ADDR_PAGES
    BY <1>1
  <2>2. VA2PA(p + VM_START) = ((p + VM_START) - (VM_START - PHY_START)) % ADDR_PAGES
    BY DEF VA2PA, PA2VA_OFFSET
  <2>3. (p + PHY_START) % ADDR_PAGES = p + PHY_START
    BY <1>2, <2>1
  <2> QED
    BY <2>1, <2>2, <2>3
<1>6. PHYS2PFN(p + PHY_START) = p
  <2>1. p + PHY_START - PHY_START = p /\ p < ADDR_PAGES
    BY <1>1
  <2> QED
    BY <1>1, <1>2, <2>1 DEF PHYS2PFN
<1> QED
  BY <1>4, <1>5, <1>6

LEMMA FreeStep ==
  ASSUME IInv, NEW b \in owned, Free(b)
  PROVE  IInv' /\ Abstract!Release(b)
<1>1. b.pfn \in 1 .. SIZE - 1 /\ b.n \in Orders
  BY DEF IInv
<1>2. /\ bitmap' = BuddyFree(bitmap, b.pfn) /\ owned' = owned \ {b}
      /\ reserved' = reserved /\ got' = got
  BY <1>1, AddressRoundTrip DEF Free
<1>3. PICK i \in Nodes : Lo(i) = b.pfn /\ NodeSize[i] = b.n
  BY DEF IInv
<1>4. /\ Lo(i) \in Nat /\ NodeSize[i] \in Nat /\ NodeSize[i] > 0 /\ Hi(i) = Lo(i) + NodeSize[i]
      /\ reserved \in Nat /\ reserved <= Lo(i)
  BY <1>3, Places, SizeOfNode, ReservedFacts DEF IInv, BlocksApart
<1>5. Alone(i, HeldNodes)
  <2>1. i \in HeldNodes
    BY <1>3 DEF HeldNodes
  <2>2. ASSUME NEW j \in HeldNodes \ {i} PROVE Hi(j) <= Lo(i) \/ Hi(i) <= Lo(j)
    <3>1. j \in Nodes
      BY DEF HeldNodes
    <3>2. /\ Lo(j) \in Nat /\ NodeSize[j] \in Nat /\ Hi(j) = Lo(j) + NodeSize[j]
      BY <3>1, Places, SizeOfNode
    <3>3. CASE j >= SIZE - 1 /\ j - (SIZE - 1) < reserved
      <4>1. Lo(j) < reserved /\ NodeSize[j] = 1
        BY <3>1, <3>3, Places, SizeOfNode
      <4> QED
        BY <1>4, <3>2, <4>1
    <3>4. CASE \E c \in owned : Lo(j) = c.pfn /\ NodeSize[j] = c.n
      <4>1. PICK c \in owned : Lo(j) = c.pfn /\ NodeSize[j] = c.n
        BY <3>4
      <4>2. c # b
        BY <1>3, <3>1, <4>1, SamePlace
      <4>3. b.pfn + b.n <= c.pfn \/ c.pfn + c.n <= b.pfn
        BY <4>2 DEF IInv, BlocksApart
      <4> QED
        BY <1>3, <1>4, <3>2, <4>1, <4>3
    <3> QED
      BY <3>3, <3>4 DEF HeldNodes
  <2> QED
    BY <2>1, <2>2 DEF Alone
<1>6. HeldNodes' = HeldNodes \ {i}
  <2>1. ASSUME NEW j \in Nodes
        PROVE  (\E c \in owned' : Lo(j) = c.pfn /\ NodeSize[j] = c.n)
                 <=> j # i /\ \E c \in owned : Lo(j) = c.pfn /\ NodeSize[j] = c.n
    <3>1. ASSUME NEW c \in owned \ {b}, Lo(i) = c.pfn, NodeSize[i] = c.n PROVE FALSE
      <4>1. b = [pfn |-> b.pfn, n |-> b.n] /\ c = [pfn |-> c.pfn, n |-> c.n]
        BY DEF IInv
      <4>2. b.pfn = c.pfn /\ b.n = c.n
        BY <1>3, <3>1
      <4> QED
        BY <4>1, <4>2
    <3>2. ASSUME Lo(j) = b.pfn, NodeSize[j] = b.n PROVE j = i
      BY <1>3, <3>2, SamePlace
    <3> QED
      BY <1>2, <3>1, <3>2
  <2>2. ~(i >= SIZE - 1 /\ i - (SIZE - 1) < reserved)
    <3>1. i >= SIZE - 1 => Lo(i) = i - (SIZE - 1)
      BY Places
    <3> QED
      BY <1>4, <3>1
  <2> QED
    BY <1>2, <2>1, <2>2 DEF HeldNodes
<1>7. DOMAIN bitmap' = Nodes /\ Lawful(bitmap', HeldNodes')
  BY <1>2, <1>3, <1>5, <1>6, FreedLaw DEF IInv
<1>8. IInv'
  BY <1>2, <1>7 DEF IInv, BlocksApart
<1>9. Abstract!Release(b)
  BY <1>2 DEF Abstract!Release
<1> QED
  BY <1>8, <1>9

LEMMA NextIInv == IInv /\ [Next]_vars => IInv' /\ [Abstract!AbsNext]_(Abstract!absvars)
<1> SUFFICES ASSUME IInv, [Next]_vars PROVE IInv' /\ [Abstract!AbsNext]_(Abstract!absvars)
  OBVIOUS
<1>1. CASE ReservePage
  BY <1>1, ReserveStep DEF Abstract!AbsNext
<1>2. CASE \E nrpages \in 0 .. SIZE + 1 : Alloc(nrpages)
  BY <1>2, AllocStep DEF Abstract!AbsNext
<1>3. CASE \E b \in owned : Free(b)
  BY <1>3, FreeStep DEF Abstract!AbsNext
<1>4. CASE UNCHANGED vars
  <2>1. bitmap' = bitmap /\ reserved' = reserved /\ owned' = owned /\ got' = got
    BY <1>4 DEF vars
  <2>2. HeldNodes' = HeldNodes
    BY <2>1 DEF HeldNodes
  <2> QED
    BY <2>1, <2>2 DEF IInv, BlocksApart, Abstract!absvars
<1> QED
  BY <1>1, <1>2, <1>3, <1>4 DEF Next

LEMMA IInvariance == Spec => []IInv
BY InitIInv, NextIInv, PTL DEF Spec

(* Every variable keeps its type, and no node of the tree claims more free *)
(* pages than it spans.                                                    *)
THEOREM TypeCorrect == Spec => []TypeOK
<1>1. IInv => TypeOK
  <2> SUFFICES ASSUME IInv PROVE TypeOK
    OBVIOUS
  <2>1. ASSUME NEW i \in Nodes PROVE bitmap[i] \in 0 .. NodeSize[i]
    BY Bounds, SizeOfNode DEF IInv
  <2> QED
    BY <2>1 DEF IInv, TypeOK
<1> QED
  BY <1>1, IInvariance, PTL

LEMMA SpanOf == ASSUME NEW i \in Nodes PROVE Span(i) = Lo(i) .. Hi(i) - 1
<1>1. i \in Nat /\ NodeSize[i] \in Nat /\ SIZE \in Nat
  BY NodesFacts, SizeOfNode, SizeFacts
<1>2. (i + 2) * NodeSize[i] = (i + 1) * NodeSize[i] + NodeSize[i]
  BY <1>1
<1> QED
  BY <1>1, <1>2 DEF Span, Lo, Hi

(* The aligned free blocks below a node, in terms of the nodes held.       *)
LEMMA FreeBelow ==
  ASSUME IInv, NEW i \in Nodes, NEW n \in Orders
  PROVE  (\E p \in Span(i) : Abstract!Fits(p, n) /\ p .. p + n - 1 \subseteq Span(i))
           <=> \E q \in Nat : /\ Aligned(q, n) /\ FreeOf(q, n, HeldNodes)
                              /\ Lo(i) <= q /\ q + n <= Hi(i)
<1>1. /\ Lo(i) \in Nat /\ Hi(i) \in Nat /\ Hi(i) <= SIZE /\ n \in Nat /\ n > 0
      /\ SIZE \in Nat
  BY Places, OrdersFacts, SizeFacts
<1>2. Span(i) = Lo(i) .. Hi(i) - 1
  BY SpanOf
<1>3. ASSUME NEW p \in Nat
      PROVE  p \in Span(i) /\ p .. p + n - 1 \subseteq Span(i) <=> Lo(i) <= p /\ p + n <= Hi(i)
  <2>1. p \in p .. p + n - 1 /\ p + n - 1 \in p .. p + n - 1
    BY <1>1, <1>3
  <2>2. p + n - 1 \in Span(i) /\ p \in Span(i) => Lo(i) <= p /\ p + n <= Hi(i)
    BY <1>1, <1>2, <1>3
  <2>3. Lo(i) <= p /\ p + n <= Hi(i) => p \in Span(i) /\ p .. p + n - 1 \subseteq Span(i)
    BY <1>1, <1>2, <1>3
  <2> QED
    BY <2>1, <2>2, <2>3
<1>4. Span(i) \subseteq Nat
  BY <1>1, <1>2
<1>5. ASSUME NEW p \in Nat, p + n <= Hi(i)
      PROVE  Abstract!Fits(p, n) <=> Aligned(p, n) /\ FreeOf(p, n, HeldNodes)
  BY <1>1, <1>5, FitsIff
<1> QED
  BY <1>3, <1>4, <1>5

(* Outside the blocks handed out every node knows the size of the largest  *)
(* aligned free block below it, whatever the history of buddy_alloc and    *)
(* buddy_free: no merge is missed and no ancestor is stale.                *)
THEOREM TreeIsExact == Spec => []BitmapExact
<1>1. IInv => BitmapExact
  <2> SUFFICES ASSUME IInv, NEW i \in Nodes
               PROVE  \/ \E b \in owned : /\ Span(i) \subseteq Abstract!PagesOf(b)
                                          /\ NodeSize[i] < b.n
                      \/ LET free == {n \in Orders :
                                        \E p \in Span(i) : /\ Abstract!Fits(p, n)
                                                           /\ p .. p + n - 1 \subseteq Span(i)}
                         IN  IF free = {} THEN bitmap[i] = 0
                             ELSE bitmap[i] \in free /\ \A n \in free : n <= bitmap[i]
    BY DEF BitmapExact
  <2> DEFINE free == {n \in Orders : \E p \in Span(i) : /\ Abstract!Fits(p, n)
                                                        /\ p .. p + n - 1 \subseteq Span(i)}
  <2>1. Lawful(bitmap, HeldNodes)
    BY DEF IInv
  <2>2. CASE Open(i, HeldNodes)
    <3>1. bitmap[i] \in Nat
      BY <2>1, Bounds
    <3>2. ASSUME NEW n \in free PROVE n \in Nat /\ n > 0 /\ n <= bitmap[i]
      <4>1. PICK q \in Nat : /\ Aligned(q, n) /\ FreeOf(q, n, HeldNodes)
                             /\ Lo(i) <= q /\ q + n <= Hi(i)
        BY FreeBelow
      <4> QED
        BY <2>1, <4>1, LowerBound, OrdersFacts
    <3>3. bitmap[i] > 0 => bitmap[i] \in free
      <4> SUFFICES ASSUME bitmap[i] > 0 PROVE bitmap[i] \in free
        OBVIOUS
      <4>1. /\ bitmap[i] \in Orders
            /\ \E q \in Nat : /\ Aligned(q, bitmap[i]) /\ FreeOf(q, bitmap[i], HeldNodes)
                              /\ Lo(i) <= q /\ q + bitmap[i] <= Hi(i)
        BY <2>1, <2>2, UpperBound
      <4> QED
        BY <4>1, FreeBelow
    <3> HIDE DEF free
    <3>4. IF free = {} THEN bitmap[i] = 0
          ELSE bitmap[i] \in free /\ \A n \in free : n <= bitmap[i]
      BY <3>1, <3>2, <3>3
    <3> QED
      BY <3>4 DEF free
  <2>3. CASE ~Open(i, HeldNodes)
    <3>1. PICK j \in HeldNodes : Inside(i, j) /\ ~(NodeSize[j] <= NodeSize[i])
      BY <2>3 DEF Open
    <3>2. /\ j \in Nodes /\ NodeSize[i] \in Nat /\ NodeSize[i] > 0 /\ NodeSize[j] \in Nat
          /\ NodeSize[i] < NodeSize[j]
      BY <3>1, SizeOfNode DEF HeldNodes
    <3>3. j < SIZE - 1
      <4>1. j \in Nat /\ SIZE \in Nat /\ (j >= SIZE - 1 => NodeSize[j] = 1)
        BY <3>2, SizeOfNode, NodesFacts, SizeFacts
      <4> QED
        BY <3>2, <4>1
    <3>4. PICK b \in owned : Lo(j) = b.pfn /\ NodeSize[j] = b.n
      <4>1. j \in Nat /\ SIZE \in Nat
        BY <3>2, NodesFacts, SizeFacts
      <4> QED
        BY <3>3, <4>1 DEF HeldNodes
    <3>5. /\ Lo(i) \in Nat /\ Hi(i) \in Nat /\ Lo(j) \in Nat /\ Hi(j) = Lo(j) + NodeSize[j]
          /\ Lo(j) <= Lo(i) /\ Hi(i) <= Hi(j)
      BY <3>1, <3>2, Places DEF Inside
    <3>6. Span(i) = Lo(i) .. Hi(i) - 1
      BY SpanOf
    <3>7. Span(i) \subseteq Lo(j) .. Lo(j) + NodeSize[j] - 1
      BY <3>2, <3>5, <3>6
    <3>8. Abstract!PagesOf(b) = Lo(j) .. Lo(j) + NodeSize[j] - 1
      BY <3>4 DEF Abstract!PagesOf
    <3> QED
      BY <3>2, <3>4, <3>7, <3>8
  <2> QED
    BY <2>2, <2>3
<1> QED
  BY <1>1, IInvariance, PTL

(* buddy_alloc and buddy_free keep the promise of PageAlloc: every step of *)
(* the tree is a step of first fit over the blocks handed out, and a       *)
(* request is refused only when no block fits.                             *)
THEOREM TreeImplementsPageAlloc == Spec => ImplementsPageAlloc
<1>1. Init => Abstract!AbsInit
  BY DEF Init, Abstract!AbsInit
<1> QED
  BY <1>1, InitIInv, NextIInv, PTL DEF Spec, ImplementsPageAlloc, Abstract!AbsSpec

(* What the callers of alloc_pages rely on, for the tree itself: no page   *)
(* belongs to two blocks or to a block and to what boot reserved, and      *)
(* every block lies in memory at a multiple of its own size.               *)
THEOREM TreeBlocksAreExclusive == Spec => []Abstract!NoOverlap /\ []Abstract!BlocksAligned
<1>1. IInv => Abstract!NoOverlap
  <2> SUFFICES ASSUME IInv PROVE Abstract!NoOverlap
    OBVIOUS
  <2>1. \A b \in owned : b.pfn \in Nat /\ b.n \in Nat /\ reserved \in Nat
    BY OrdersFacts, ReservedFacts, SizeFacts DEF IInv
  <2>2. ASSUME NEW b \in owned, NEW c \in owned, b # c
        PROVE  Abstract!PagesOf(b) \cap Abstract!PagesOf(c) = {}
    <3>1. b.pfn + b.n <= c.pfn \/ c.pfn + c.n <= b.pfn
      BY <2>2 DEF IInv, BlocksApart
    <3> QED
      BY <2>1, <3>1 DEF Abstract!PagesOf
  <2>3. ASSUME NEW b \in owned
        PROVE  Abstract!PagesOf(b) \cap 0 .. reserved - 1 = {}
    <3>1. reserved <= b.pfn
      BY DEF IInv, BlocksApart
    <3> QED
      BY <2>1, <3>1 DEF Abstract!PagesOf
  <2> QED
    BY <2>2, <2>3 DEF Abstract!NoOverlap
<1>2. IInv => Abstract!BlocksAligned
  <2> SUFFICES ASSUME IInv, NEW b \in owned PROVE b.pfn % b.n = 0 /\ b.pfn + b.n <= SIZE
    BY DEF Abstract!BlocksAligned
  <2>1. PICK i \in Nodes : Lo(i) = b.pfn /\ NodeSize[i] = b.n
    BY DEF IInv
  <2>2. Lo(i) \in Nat /\ Hi(i) = Lo(i) + NodeSize[i] /\ Hi(i) <= SIZE
    BY Places
  <2>3. NodeSize[i] \in Nat /\ NodeSize[i] > 0 /\ Aligned(Lo(i), NodeSize[i])
    BY SizeOfNode, OrdersFacts
  <2>4. Lo(i) % NodeSize[i] = 0
    BY <2>2, <2>3, Remainder DEF Aligned
  <2> QED
    BY <2>1, <2>2, <2>4
<1> QED
  BY <1>1, <1>2, IInvariance, PTL

=============================================================================
