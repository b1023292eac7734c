--------------------------- MODULE LibraryProofs ---------------------------
(***************************************************************************)
(* Proofs about the functions of the library, Console's and Rand's, for    *)
(* every width of an int and a long that is a multiple of 4, every size of *)
(* the buffer and every size of rand's table.                              *)
(*                                                                         *)
(* A call of printk or printf is any sequence of pieces.  While it runs,   *)
(* the rest of the format is that of the pieces that are left, and what is *)
(* shown so far with the text they promise is the text of the call (Flow); *)
(* inside a conversion longarg stands for the l that was seen, IsLong for  *)
(* the one that is still ahead.  For a conversion this needs that the loop *)
(* over decchar gives the decimal digits of its number and the shifts of a *)
(* %x the hexadecimal ones, whatever the number.                           *)
(*                                                                         *)
(* rand: the entries that are written are a prefix of the table, and from  *)
(* 34 on each is the sum of the two it was made of (Sums): what is         *)
(* computed again is what is there.                                        *)
(***************************************************************************)
EXTENDS Console, Rand, WellFoundedInduction, SequenceTheorems, TLAPS

-----------------------------------------------------------------------------
(* Recursion.                                                              *)

(* Induction over the naturals, over a set of them.                        *)
LEMMA NatSetInduction ==
  ASSUME NEW S \in SUBSET Nat,
         \A n \in Nat : (\A m \in 0 .. n - 1 : m \in S) => n \in S
  PROVE  S = Nat
<1> DEFINE T == Nat \ S
<1> SUFFICES ASSUME T # {} PROVE FALSE
  OBVIOUS
<1>1. T \subseteq Nat
  OBVIOUS
<1> HIDE DEF T
<1>2. PICK x \in T : \A y \in T : ~ (<<y, x>> \in OpToRel(<, Nat))
  BY <1>1, WFMin, NatLessThanWellFounded, Zenon
<1>3. \A y \in T : ~ (y < x)
  <2> SUFFICES ASSUME NEW y \in T, y < x PROVE FALSE
    OBVIOUS
  <2>1. x \in Nat /\ y \in Nat
    BY <1>1
  <2>2. <<y, x>> \in OpToRel(<, Nat)
    BY <2>1, Zenon DEF OpToRel
  <2> QED
    BY <1>2, <2>2, Zenon
<1>4. x \in Nat /\ x \notin S
  BY DEF T
<1>5. ASSUME NEW m \in 0 .. x - 1 PROVE m \in S
  <2>1. m \in Nat /\ m < x
    BY <1>4
  <2> QED
    BY <1>3, <2>1 DEF T
<1> QED
  BY <1>4, <1>5

LEMMA UpTo ==
  ASSUME NEW n \in Nat, NEW T, 0 \in T, \A k \in 1 .. n : k - 1 \in T => k \in T
  PROVE  \A k \in 0 .. n : k \in T
<1> DEFINE S == {k \in Nat : k <= n => k \in T}
<1>1. ASSUME NEW k \in Nat, \A m \in 0 .. k - 1 : m \in S PROVE k \in S
  <2>1. CASE k = 0
    BY <2>1
  <2>2. CASE k > 0 /\ k <= n
    <3>1. k - 1 \in S /\ k - 1 <= n /\ k \in 1 .. n
      BY <1>1, <2>2
    <3> QED
      BY <3>1
  <2> QED
    BY <2>1, <2>2
<1>2. S \in SUBSET Nat
  OBVIOUS
<1> HIDE DEF S
<1>3. S = Nat
  BY <1>1, <1>2, NatSetInduction
<1> QED
  BY <1>3 DEF S

(* The values f of a variable of a loop of n turns.                        *)
IsLoop(f, n, v0, h) == \A k \in 0 .. n : f[k] = IF k = 0 THEN v0 ELSE h[k][f[k - 1]]

LEMMA Iteration ==
  ASSUME NEW V, NEW v0 \in V, NEW n \in Nat, NEW h \in [1 .. n -> [V -> V]]
  PROVE  \E f \in [0 .. n -> V] : IsLoop(f, n, v0, h)
<1> DEFINE Rhs(f, k) == IF k = 0 THEN v0 ELSE h[k][f[k - 1]]
           S == {u \in 0 .. n : \E f \in [0 .. n -> V] : \A k \in 0 .. u : f[k] = Rhs(f, k)}
<1>1. 0 \in S
  <2> DEFINE f == [k \in 0 .. n |-> v0]
  <2>1. f \in [0 .. n -> V] /\ f[0] = v0 /\ 0 \in 0 .. n /\ 0 .. 0 = {0}
    OBVIOUS
  <2> HIDE DEF f
  <2>2. \A k \in 0 .. 0 : f[k] = Rhs(f, k)
    BY <2>1
  <2> HIDE DEF Rhs
  <2> QED
    BY <2>1, <2>2
<1>2. ASSUME NEW u \in 1 .. n, u - 1 \in S PROVE u \in S
  <2>1. PICK f \in [0 .. n -> V] : \A k \in 0 .. u - 1 : f[k] = Rhs(f, k)
    BY <1>2
  <2>2. h[u][f[u - 1]] \in V
    <3>1. h[u] \in [V -> V] /\ u - 1 \in 0 .. n
      OBVIOUS
    <3>2. f[u - 1] \in V
      BY <3>1
    <3> QED
      BY <3>1, <3>2
  <2> DEFINE g == [k \in 0 .. n |-> IF k = u THEN h[u][f[u - 1]] ELSE f[k]]
  <2>3. g \in [0 .. n -> V]
    BY <2>2
  <2>4. ASSUME NEW k \in 0 .. u PROVE g[k] = Rhs(g, k)
    <3>1. CASE k = u
      <4>1. g[u] = h[u][f[u - 1]] /\ u # 0 /\ u - 1 \in 0 .. n /\ u - 1 # u
        OBVIOUS
      <4>2. g[u - 1] = f[u - 1]
        BY <4>1
      <4> HIDE DEF g
      <4> QED
        BY <3>1, <4>1, <4>2
    <3>2. CASE k # u
      <4>1. k \in 0 .. u - 1 /\ k \in 0 .. n
        BY <3>2
      <4>2. g[k] = f[k] /\ f[k] = Rhs(f, k)
        BY <2>1, <3>2, <4>1
      <4>3. k # 0 => g[k - 1] = f[k - 1]
        BY <4>1
      <4> HIDE DEF g
      <4> QED
        BY <4>2, <4>3
    <3> QED
      BY <3>1, <3>2
  <2> HIDE DEF g, Rhs
  <2> QED
    BY <2>3, <2>4
<1> HIDE DEF S
<1>3. n \in S
  <2>1. \A u \in 1 .. n : u - 1 \in S => u \in S
    BY <1>2
  <2>2. \A u \in 0 .. n : u \in S
    BY <1>1, <2>1, UpTo
  <2> QED
    BY <2>2
<1> QED
  BY <1>3 DEF S, IsLoop

-----------------------------------------------------------------------------
(* Division.                                                               *)

LEMMA Times ==
  ASSUME NEW a \in Int, NEW b \in Int, NEW n \in Nat
  PROVE  /\ a * n \in Int /\ (a + 1) * n = a * n + n /\ (a + b) * n = a * n + b * n
         /\ a < b => a * n + n <= b * n
         /\ a <= b => a * n <= b * n
         /\ a >= 0 => a * n >= 0
<1>1. a * n \in Int /\ (a + 1) * n = a * n + n /\ (a + b) * n = a * n + b * n
  OBVIOUS
<1>2. ASSUME a < b PROVE a * n + n <= b * n
  <2> DEFINE d == b - a - 1
  <2>1. d \in Nat /\ b = a + 1 + d
    BY <1>2
  <2> HIDE DEF d
  <2>2. b * n = a * n + n + d * n
    BY <2>1
  <2>3. d * n >= 0
    BY <2>1
  <2>4. d * n \in Int /\ a * n \in Int /\ b * n \in Int
    BY <2>1
  <2> QED
    BY <2>2, <2>3, <2>4
<1>3. ASSUME a <= b PROVE a * n <= b * n
  BY <1>2, <1>3
<1>4. a >= 0 => a * n >= 0
  OBVIOUS
<1> QED
  BY <1>1, <1>2, <1>3, <1>4

LEMMA DivMod ==
  ASSUME NEW a \in Int, NEW n \in Nat, n > 0
  PROVE  /\ a \div n \in Int /\ (a % n) \in 0 .. n - 1 /\ a = (a \div n) * n + (a % n)
         /\ a >= 0 => a \div n \in Nat
<1>1. a \div n \in Int /\ (a % n) \in 0 .. n - 1 /\ a = (a \div n) * n + (a % n)
  OBVIOUS
<1> DEFINE d == a \div n
           m == a % n
<1>2. d \in Int /\ m \in 0 .. n - 1 /\ a = d * n + m
  BY <1>1
<1> HIDE DEF d, m
<1>3. ASSUME a >= 0 PROVE d >= 0
  <2>1. SUFFICES ASSUME d < 0 PROVE FALSE
    BY <1>2
  <2>2. d * n + n <= 0 * n
    BY <1>2, <2>1, Times
  <2>3. d * n \in Int
    BY <1>2
  <2> QED
    BY <1>2, <1>3, <2>2, <2>3
<1>4. a >= 0 => d \in Nat
  BY <1>2, <1>3
<1> QED
  BY <1>1, <1>4 DEF d

LEMMA Parts ==
  ASSUME NEW a \in Nat, NEW n \in Nat, n > 0
  PROVE  \E q \in Nat, c \in 0 .. n - 1 : a = q * n + c
<1> DEFINE q == a \div n
           c == a % n
<1>1. q \in Nat /\ c \in 0 .. n - 1 /\ a = q * n + c
  BY DivMod
<1> HIDE DEF q, c
<1> QED
  BY <1>1

LEMMA DivUnique ==
  ASSUME NEW n \in Nat, n > 0, NEW q \in Int, NEW c \in 0 .. n - 1
  PROVE  (q * n + c) \div n = q /\ (q * n + c) % n = c
<1> DEFINE a == q * n + c
           d == a \div n
           m == a % n
<1>1. a \in Int
  BY Times
<1>2. d \in Int /\ m \in 0 .. n - 1 /\ a = d * n + m
  BY <1>1, DivMod
<1> HIDE DEF d, m
<1>3. q * n \in Int /\ d * n \in Int
  BY <1>2
<1>4. ~(d < q)
  <2>1. d < q => d * n + n <= q * n
    BY <1>2, Times
  <2> QED
    BY <1>2, <1>3, <2>1
<1>5. ~(q < d)
  <2>1. q < d => q * n + n <= d * n
    BY <1>2, Times
  <2> QED
    BY <1>2, <1>3, <2>1
<1>6. d = q
  BY <1>2, <1>4, <1>5
<1>7. m = c
  BY <1>2, <1>3, <1>6
<1> QED
  BY <1>6, <1>7 DEF d, m

(* A function given by recursion over a measure exists: f[i] is b[i] at    *)
(* the base, and computed by h[i] from its values at l[i] and rr[i], whose  *)
(* measure is smaller, elsewhere.                                          *)
IsRecursion(D, V, m, M, base, b, l, rr, h) ==
  /\ m \in [D -> Nat] /\ M \in Nat /\ \A i \in D : m[i] <= M
  /\ base \in SUBSET D /\ b \in [D -> V] /\ h \in [D -> [V \X V -> V]]
  /\ \A i \in D \ base : l[i] \in D /\ m[l[i]] < m[i] /\ rr[i] \in D /\ m[rr[i]] < m[i]

LEMMA Recursion ==
  ASSUME NEW D, NEW V, NEW m, NEW M, NEW base, NEW b, NEW l, NEW rr, NEW h,
         IsRecursion(D, V, m, M, base, b, l, rr, h), V # {}
  PROVE  \E f \in [D -> V] :
           \A i \in D : f[i] = IF i \in base THEN b[i] ELSE h[i][<<f[l[i]], f[rr[i]]>>]
<1> DEFINE Rhs(f, i) == IF i \in base THEN b[i] ELSE h[i][<<f[l[i]], f[rr[i]]>>]
           Upto(f, k) == \A i \in D : m[i] < k => f[i] = Rhs(f, i)
           S == {k \in Nat : \E f \in [D -> V] : Upto(f, k)}
<1> USE DEF IsRecursion
<1> PICK v0 \in V : TRUE
  OBVIOUS
<1>1. ASSUME NEW f \in [D -> V], NEW i \in D PROVE Rhs(f, i) \in V
  <2>1. CASE i \in base
    BY <2>1
  <2>2. CASE i \notin base
    <3>1. <<f[l[i]], f[rr[i]]>> \in V \X V
      BY <2>2
    <3>2. h[i] \in [V \X V -> V]
      OBVIOUS
    <3>3. h[i][<<f[l[i]], f[rr[i]]>>] \in V
      BY <3>1, <3>2
    <3> QED
      BY <2>2, <3>3
  <2> QED
    BY <2>1, <2>2
<1>2. 0 \in S
  <2>1. [i \in D |-> v0] \in [D -> V]
    OBVIOUS
  <2>2. \A i \in D : ~(m[i] < 0)
    OBVIOUS
  <2>3. Upto([i \in D |-> v0], 0)
    BY <2>2
  <2> HIDE DEF Upto
  <2> QED
    BY <2>1, <2>3
<1>3. ASSUME NEW k \in Nat, k \in S PROVE k + 1 \in S
  <2>1. PICK f \in [D -> V] : Upto(f, k)
    BY <1>3
  <2> HIDE DEF Rhs
  <2> DEFINE g == [i \in D |-> IF m[i] < k THEN f[i] ELSE Rhs(f, i)]
  <2>2. g \in [D -> V]
    BY <1>1
  <2>3. ASSUME NEW i \in D PROVE g[i] = Rhs(f, i)
    BY <2>1
  <2>4. ASSUME NEW i \in D, m[i] < k + 1 PROVE g[i] = Rhs(g, i)
    <3>1. CASE i \in base
      BY <2>3, <3>1 DEF Rhs
    <3>2. CASE i \notin base
      <4>1. l[i] \in D /\ rr[i] \in D /\ m[l[i]] < m[i] /\ m[rr[i]] < m[i]
        BY <3>2
      <4>2. m[l[i]] < k /\ m[rr[i]] < k
        BY <2>4, <4>1
      <4>3. g[l[i]] = f[l[i]] /\ g[rr[i]] = f[rr[i]]
        BY <4>1, <4>2
      <4> HIDE DEF g
      <4> QED
        BY <2>3, <3>2, <4>3 DEF Rhs
    <3> QED
      BY <3>1, <3>2
  <2> HIDE DEF g
  <2>5. Upto(g, k + 1)
    BY <2>4
  <2> HIDE DEF Upto
  <2> QED
    BY <2>2, <2>5
<1>4. S = Nat
  <2>1. S \in SUBSET Nat
    OBVIOUS
  <2>2. ASSUME NEW n \in Nat, \A k \in 0 .. n - 1 : k \in S PROVE n \in S
    <3> HIDE DEF S
    <3>1. CASE n = 0
      BY <1>2, <3>1
    <3>2. CASE n # 0
      <4>1. n - 1 \in 0 .. n - 1 /\ n - 1 \in Nat /\ (n - 1) + 1 = n
        BY <3>2
      <4>2. n - 1 \in S
        BY <2>2, <4>1
      <4>3. (n - 1) + 1 \in S
        BY <1>3, <4>1, <4>2
      <4> QED
        BY <4>1, <4>3
    <3> QED
      BY <3>1, <3>2
  <2> HIDE DEF S
  <2> QED
    BY <2>1, <2>2, NatSetInduction
<1>5. PICK f \in [D -> V] : Upto(f, M + 1)
  <2> HIDE DEF S
  <2>1. M + 1 \in Nat /\ M + 1 \in S
    BY <1>4
  <2> QED
    BY <2>1 DEF S
<1>6. \A i \in D : m[i] < M + 1
  OBVIOUS
<1> QED
  BY <1>5, <1>6

(* Induction over a measure.                                               *)
LEMMA MeasureInduction ==
  ASSUME NEW D, NEW m \in [D -> Nat], NEW T \in SUBSET D,
         \A i \in D : (\A j \in D : m[j] < m[i] => j \in T) => i \in T
  PROVE  T = D
<1> DEFINE S == {k \in Nat : \A i \in D : m[i] = k => i \in T}
<1>1. ASSUME NEW n \in Nat, \A k \in 0 .. n - 1 : k \in S PROVE n \in S
  <2>1. ASSUME NEW i \in D, m[i] = n PROVE i \in T
    <3>1. ASSUME NEW j \in D, m[j] < m[i] PROVE j \in T
      <4>1. m[j] \in 0 .. n - 1
        BY <2>1, <3>1
      <4> QED
        BY <1>1, <4>1
    <3> QED
      BY <3>1
  <2> QED
    BY <2>1
<1>2. S \in SUBSET Nat
  OBVIOUS
<1> HIDE DEF S
<1>3. S = Nat
  BY <1>1, <1>2, NatSetInduction
<1>4. \A i \in D : m[i] \in Nat
  OBVIOUS
<1> QED
  BY <1>3, <1>4 DEF S

-----------------------------------------------------------------------------
(* Powers.                                                                 *)

LEMMA PowersExist ==
  ASSUME NEW n \in Nat, NEW e \in Nat
  PROVE  \E f \in [0 .. n -> Nat] : \A k \in 0 .. n : f[k] = IF k = 0 THEN 1 ELSE e * f[k - 1]
<1> DEFINE h == [k \in 1 .. n |-> [x \in Nat |-> e * x]]
<1>1. h \in [1 .. n -> [Nat -> Nat]]
  BY Times
<1>2. PICK f \in [0 .. n -> Nat] : IsLoop(f, n, 1, h)
  BY <1>1, Iteration
<1>3. \A k \in 0 .. n : k # 0 => k \in 1 .. n /\ k - 1 \in 0 .. n /\ f[k - 1] \in Nat
  OBVIOUS
<1>4. \A k \in 0 .. n : f[k] = IF k = 0 THEN 1 ELSE e * f[k - 1]
  BY <1>2, <1>3 DEF IsLoop
<1> QED
  BY <1>4

LEMMA Powers ==
  ASSUME NEW n \in Nat, NEW e \in Nat, e > 0, NEW g,
         \A k \in 0 .. n : g[k] = IF k = 0 THEN 1 ELSE e * g[k - 1]
  PROVE  /\ g[0] = 1
         /\ \A k \in 1 .. n : g[k] = e * g[k - 1]
         /\ \A k \in 0 .. n : g[k] \in Nat /\ g[k] > 0
<1>1. 0 \in 0 .. n /\ \A k \in 1 .. n : k \in 0 .. n /\ k # 0
  OBVIOUS
<1>2. g[0] = 1 /\ \A k \in 1 .. n : g[k] = e * g[k - 1]
  BY <1>1
<1> DEFINE T == {k \in 0 .. n : g[k] \in Nat /\ g[k] > 0}
<1>3. 0 \in T
  BY <1>2
<1>4. ASSUME NEW k \in 1 .. n, k - 1 \in T PROVE k \in T
  <2>1. g[k - 1] \in Nat /\ g[k - 1] > 0
    BY <1>4
  <2> DEFINE x == g[k - 1]
  <2>2. x \in Nat /\ x > 0 /\ g[k] = e * x
    BY <1>2, <2>1
  <2> HIDE DEF x
  <2>3. e * x \in Nat /\ e * x > 0
    <3>1. 0 * x + x <= e * x /\ e * x \in Int /\ 0 * x = 0
      BY <2>2, Times
    <3> QED
      BY <2>2, <3>1
  <2> QED
    BY <2>2, <2>3
<1> HIDE DEF T
<1>5. \A k \in 0 .. n : k \in T
  BY <1>3, <1>4, UpTo
<1> QED
  BY <1>2, <1>5 DEF T

LEMMA Bounds == INT_BITS \in Nat /\ INT_BITS > 0 /\ LONG_BITS \in Nat /\ LONG_BITS > INT_BITS
BY BitsAssumption

LEMMA PowerFacts ==
  ASSUME NEW e \in Nat, e > 0
  PROVE  /\ Power(e)[0] = 1
         /\ \A k \in 1 .. LONG_BITS : Power(e)[k] = e * Power(e)[k - 1]
         /\ \A k \in 0 .. LONG_BITS : Power(e)[k] \in Nat /\ Power(e)[k] > 0
<1>1. LONG_BITS \in Nat
  BY Bounds
<1>2. PICK f \in [0 .. LONG_BITS -> Nat] :
        \A k \in 0 .. LONG_BITS : f[k] = IF k = 0 THEN 1 ELSE e * f[k - 1]
  BY <1>1, PowersExist, Zenon
<1>3. f = [k \in 0 .. LONG_BITS |-> IF k = 0 THEN 1 ELSE e * f[k - 1]]
  BY <1>2
<1> DEFINE P[k \in 0 .. LONG_BITS] == IF k = 0 THEN 1 ELSE e * P[k - 1]
<1>4. P = [k \in 0 .. LONG_BITS |-> IF k = 0 THEN 1 ELSE e * P[k - 1]]
  BY <1>3
<1>5. Power(e) = [k \in 0 .. LONG_BITS |-> P[k]]
  BY DEF Power
<1> HIDE DEF P
<1>6. \A k \in 0 .. LONG_BITS : P[k] = IF k = 0 THEN 1 ELSE e * P[k - 1]
  BY <1>4
<1>7. /\ P[0] = 1
      /\ \A k \in 1 .. LONG_BITS : P[k] = e * P[k - 1]
      /\ \A k \in 0 .. LONG_BITS : P[k] \in Nat /\ P[k] > 0
  BY <1>1, <1>6, Powers, Zenon
<1>8. \A k \in 0 .. LONG_BITS : Power(e)[k] = P[k]
  BY <1>5
<1>9. 0 \in 0 .. LONG_BITS /\ \A k \in 1 .. LONG_BITS : k \in 0 .. LONG_BITS /\ k - 1 \in 0 .. LONG_BITS
  BY <1>1
<1> QED
  BY <1>7, <1>8, <1>9

LEMMA Pow2Facts ==
  /\ Pow2[0] = 1
  /\ \A k \in 1 .. LONG_BITS : Pow2[k] = 2 * Pow2[k - 1]
  /\ \A k \in 0 .. LONG_BITS : Pow2[k] \in Nat /\ Pow2[k] > 0
<1>1. 2 \in Nat /\ 2 > 0
  OBVIOUS
<1> QED
  BY <1>1, PowerFacts DEF Pow2

LEMMA Pow10Facts ==
  /\ Pow10[0] = 1
  /\ \A k \in 1 .. LONG_BITS : Pow10[k] = 10 * Pow10[k - 1]
  /\ \A k \in 0 .. LONG_BITS : Pow10[k] \in Nat /\ Pow10[k] > 0
<1>1. 10 \in Nat /\ 10 > 0
  OBVIOUS
<1> QED
  BY <1>1, PowerFacts DEF Pow10

LEMMA Pow10Order ==
  ASSUME NEW j \in 0 .. LONG_BITS, NEW k \in 0 .. LONG_BITS, j <= k
  PROVE  Pow10[j] <= Pow10[k]
<1> DEFINE T == {i \in 0 .. LONG_BITS : j <= i => Pow10[j] <= Pow10[i]}
<1>1. LONG_BITS \in Nat
  BY Bounds
<1>2. 0 \in T
  BY <1>1, Pow10Facts
<1>3. ASSUME NEW i \in 1 .. LONG_BITS, i - 1 \in T PROVE i \in T
  <2>1. Pow10[i] = 10 * Pow10[i - 1] /\ Pow10[i - 1] \in Nat /\ Pow10[j] \in Nat
    BY <1>1, Pow10Facts
  <2>2. j <= i - 1 => Pow10[j] <= Pow10[i - 1]
    BY <1>3
  <2> QED
    BY <1>1, <2>1, <2>2
<1> HIDE DEF T
<1>4. \A i \in 0 .. LONG_BITS : i \in T
  BY <1>1, <1>2, <1>3, UpTo
<1> QED
  BY <1>4 DEF T

LEMMA Pow2Order ==
  ASSUME NEW j \in 0 .. LONG_BITS, NEW k \in 0 .. LONG_BITS, j <= k
  PROVE  Pow2[j] <= Pow2[k]
<1> DEFINE T == {i \in 0 .. LONG_BITS : j <= i => Pow2[j] <= Pow2[i]}
<1>1. LONG_BITS \in Nat
  BY Bounds
<1>2. 0 \in T
  BY <1>1, Pow2Facts
<1>3. ASSUME NEW i \in 1 .. LONG_BITS, i - 1 \in T PROVE i \in T
  <2>1. Pow2[i] = 2 * Pow2[i - 1] /\ Pow2[i - 1] \in Nat /\ Pow2[j] \in Nat
    BY <1>1, Pow2Facts
  <2>2. j <= i - 1 => Pow2[j] <= Pow2[i - 1]
    BY <1>3
  <2> QED
    BY <1>1, <2>1, <2>2
<1> HIDE DEF T
<1>4. \A i \in 0 .. LONG_BITS : i \in T
  BY <1>1, <1>2, <1>3, UpTo
<1> QED
  BY <1>4 DEF T

LEMMA Pow2Below == \A k \in 0 .. LONG_BITS : Pow2[k] <= Pow10[k]
<1> DEFINE T == {k \in 0 .. LONG_BITS : Pow2[k] <= Pow10[k]}
<1>1. LONG_BITS \in Nat
  BY Bounds
<1>2. 0 \in T
  BY <1>1, Pow10Facts, Pow2Facts
<1>3. ASSUME NEW k \in 1 .. LONG_BITS, k - 1 \in T PROVE k \in T
  <2>1. /\ Pow10[k] = 10 * Pow10[k - 1] /\ Pow10[k - 1] \in Nat
        /\ Pow2[k] = 2 * Pow2[k - 1] /\ Pow2[k - 1] \in Nat
    BY <1>1, Pow10Facts, Pow2Facts
  <2> QED
    BY <1>3, <2>1
<1> HIDE DEF T
<1>4. \A k \in 0 .. LONG_BITS : k \in T
  BY <1>1, <1>2, <1>3, UpTo
<1> QED
  BY <1>4 DEF T

(* Dividing twice.                                                         *)
LEMMA DivDiv ==
  ASSUME NEW n \in Nat, NEW d \in Nat, d > 0, NEW p \in Nat, p > 0
  PROVE  (n \div d) \div p = n \div (d * p)
<1>1. PICK q \in Nat, x \in 0 .. d - 1 : n = q * d + x
  BY Parts
<1>2. PICK u \in Nat, y \in 0 .. p - 1 : q = u * p + y
  BY Parts
<1>3. n \div d = q
  BY <1>1, DivUnique
<1>4. q \div p = u
  BY <1>2, DivUnique
<1>5. /\ n = u * (d * p) + (y * d + x)
      /\ d * p \in Nat /\ y * d + x \in Nat
  <2>1. n = (u * p + y) * d + x
    BY <1>1, <1>2
  <2>2. (u * p + y) * d = (u * p) * d + y * d /\ u * p \in Nat /\ y * d \in Nat
    BY <1>2, Times
  <2>3. (u * p) * d = u * (d * p)
    OBVIOUS
  <2>4. d * p \in Nat
    BY Times
  <2> QED
    BY <1>1, <2>1, <2>2, <2>3, <2>4
<1>6. y * d + x < d * p
  <2>1. y * d + d <= p * d
    BY <1>2, Times
  <2>2. p * d = d * p /\ y * d \in Int
    BY <1>2, Times
  <2> QED
    BY <1>1, <1>5, <2>1, <2>2
<1>7. d * p > 0 /\ y * d + x \in 0 .. d * p - 1
  BY <1>5, <1>6
<1>8. n \div (d * p) = u
  <2> DEFINE z == d * p
             c == y * d + x
  <2>1. z \in Nat /\ z > 0 /\ c \in 0 .. z - 1 /\ n = u * z + c
    BY <1>5, <1>7
  <2> HIDE DEF z, c
  <2>2. n \div z = u
    BY <2>1, DivUnique
  <2> QED
    BY <2>2 DEF z
<1> QED
  BY <1>3, <1>4, <1>8

-----------------------------------------------------------------------------
(* Decimal numbers.                                                        *)

Top == Pow2[LONG_BITS - 1]

LEMMA LongFacts ==
  /\ Top \in Nat /\ Top > 0
  /\ \A n : n \in Long <=> n \in Int /\ -Top <= n /\ n < Top
<1>1. LONG_BITS - 1 \in 0 .. LONG_BITS
  BY Bounds
<1>2. Top \in Nat /\ Top > 0
  BY <1>1, Pow2Facts DEF Top
<1>3. Long = -Top .. Top - 1
  BY DEF Long, Top
<1> HIDE DEF Top
<1> QED
  BY <1>2, <1>3

LEMMA QuotientFacts ==
  ASSUME NEW n \in Int
  PROVE  /\ Quotient(n, 10) \in Int
         /\ n >= 0 => Quotient(n, 10) = n \div 10 /\ Remainder(n, 10) = (n % 10)
         /\ n > 0 => 0 <= Quotient(n, 10) /\ Quotient(n, 10) < n
         /\ n < 0 => n < Quotient(n, 10) /\ Quotient(n, 10) <= 0
BY DEF Quotient, Remainder

Strings == Seq(Int)

LEMMA StringFacts ==
  /\ <<>> \in Strings
  /\ \A c \in Int, s \in Strings :
       <<c>> \o s \in Strings /\ Len(<<c>> \o s) = Len(s) + 1 /\ (<<c>> \o s)[1] = c
BY DEF Strings

Digit(n) == Zero + Remainder(n, 10)
Abs(n)   == IF n < 0 THEN -n ELSE n

LEMMA DecCharDef ==
  \A n \in Long : /\ DecChar[n] \in Strings
                  /\ DecChar[n] = IF n = 0 THEN <<>> ELSE <<Digit(n)>> \o DecChar[Quotient(n, 10)]
<1> DEFINE m  == [n \in Long |-> Abs(n)]
           b  == [n \in Long |-> <<>>]
           l  == [n \in Long |-> Quotient(n, 10)]
           h  == [n \in Long |-> [w \in Strings \X Strings |-> <<Digit(n)>> \o w[1]]]
<1>1. ASSUME NEW n \in Long PROVE n \in Int /\ Digit(n) \in Int /\ Abs(n) \in Nat /\ Abs(n) <= Top
  <2>1. n \in Int /\ -Top <= n /\ n < Top /\ Top \in Nat
    BY LongFacts
  <2>2. Digit(n) \in Int
    BY <2>1, QuotientFacts DEF Digit, Remainder, Zero
  <2> QED
    BY <2>1, <2>2 DEF Abs
<1>2. ASSUME NEW n \in Long, n # 0
      PROVE  Quotient(n, 10) \in Long /\ Abs(Quotient(n, 10)) < Abs(n)
  <2> DEFINE q == Quotient(n, 10)
  <2>1. n \in Int /\ -Top <= n /\ n < Top /\ Top \in Nat
    BY LongFacts
  <2>2. q \in Int /\ (n > 0 => 0 <= q /\ q < n) /\ (n < 0 => n < q /\ q <= 0)
    BY <2>1, QuotientFacts
  <2> HIDE DEF q
  <2>3. -Top <= q /\ q < Top /\ Abs(q) < Abs(n)
    BY <1>2, <2>1, <2>2 DEF Abs
  <2> QED
    BY <2>2, <2>3, LongFacts DEF q
<1>3. ASSUME NEW n \in Long PROVE h[n] \in [Strings \X Strings -> Strings]
  BY <1>1 DEF Strings
<1>4. IsRecursion(Long, Strings, m, Top, {0}, b, l, l, h)
  <2>1. m \in [Long -> Nat] /\ Top \in Nat /\ \A n \in Long : m[n] <= Top
    BY <1>1, LongFacts
  <2>2. 0 \in Long /\ <<>> \in Strings
    BY LongFacts DEF Strings
  <2>3. b \in [Long -> Strings]
    BY <2>2
  <2>4. h \in [Long -> [Strings \X Strings -> Strings]]
    <3> HIDE DEF h
    <3> SUFFICES h = [n \in Long |-> h[n]]
      BY <1>3
    <3> QED
      BY DEF h
  <2>5. \A n \in Long \ {0} : l[n] \in Long /\ m[l[n]] < m[n]
    BY <1>2
  <2> HIDE DEF m, b, l, h
  <2> QED
    BY <2>1, <2>2, <2>3, <2>4, <2>5 DEF IsRecursion
<1>5. Strings # {}
  BY StringFacts
<1> HIDE DEF m
<1>6. PICK f \in [Long -> Strings] :
        \A n \in Long : f[n] = IF n \in {0} THEN b[n] ELSE h[n][<<f[l[n]], f[l[n]]>>]
  <2> HIDE DEF b, l, h
  <2> QED
    BY <1>4, <1>5, Recursion
<1>7. ASSUME NEW n \in Long
      PROVE  f[n] = IF n = 0 THEN <<>> ELSE <<Digit(n)>> \o f[Quotient(n, 10)]
  <2>1. n # 0 => f[Quotient(n, 10)] \in Strings
    BY <1>2
  <2> QED
    BY <1>6, <2>1
<1>8. f = [n \in Long |-> IF n = 0 THEN <<>> ELSE <<Zero + Remainder(n, 10)>> \o f[Quotient(n, 10)]]
  BY <1>7 DEF Digit
<1>9. DecChar = [n \in Long |-> IF n = 0 THEN <<>> ELSE <<Zero + Remainder(n, 10)>> \o DecChar[Quotient(n, 10)]]
  BY <1>8 DEF DecChar
<1> DEFINE T == {n \in Long : DecChar[n] \in Strings}
<1>10. ASSUME NEW n \in Long
       PROVE  DecChar[n] = IF n = 0 THEN <<>> ELSE <<Digit(n)>> \o DecChar[Quotient(n, 10)]
  BY <1>9 DEF Digit
<1>11. ASSUME NEW n \in Long, \A k \in Long : m[k] < m[n] => k \in T PROVE n \in T
  <2>1. CASE n = 0
    BY <1>10, <2>1, StringFacts
  <2>2. CASE n # 0
    <3>1. Quotient(n, 10) \in T
      BY <1>2, <1>11, <2>2 DEF m
    <3>2. Digit(n) \in Int /\ DecChar[Quotient(n, 10)] \in Strings
      BY <1>1, <3>1
    <3>3. DecChar[n] = <<Digit(n)>> \o DecChar[Quotient(n, 10)]
      BY <1>10, <2>2
    <3>4. <<Digit(n)>> \o DecChar[Quotient(n, 10)] \in Strings
      BY <3>2, StringFacts
    <3> QED
      BY <3>3, <3>4
  <2> QED
    BY <2>1, <2>2
<1>12. T \in SUBSET Long /\ m \in [Long -> Nat]
  BY <1>1 DEF m
<1> HIDE DEF T
<1>13. T = Long
  BY <1>11, <1>12, MeasureInduction
<1> QED
  BY <1>10, <1>13 DEF T

(* The digits of n > 0, the lowest first.                                  *)
HasDigits(n, s) ==
  LET w == Len(s)
  IN  /\ s \in Strings /\ w \in 1 .. LONG_BITS - 1
      /\ Pow10[w - 1] <= n /\ n < Pow10[w]
      /\ \A i \in 1 .. w : s[i] = Zero + ((n \div Pow10[i - 1]) % 10)

LEMMA DecCharDigits == \A n \in Long : n > 0 => HasDigits(n, DecChar[n])
<1> DEFINE S == {n \in Nat : n > 0 /\ n < Top => HasDigits(n, DecChar[n])}
<1>1. LONG_BITS \in Nat /\ LONG_BITS > 1 /\ LONG_BITS - 1 \in 0 .. LONG_BITS /\ Top \in Nat
      /\ Top <= Pow10[LONG_BITS - 1]
  <2>1. LONG_BITS \in Nat /\ LONG_BITS > 1 /\ LONG_BITS - 1 \in 0 .. LONG_BITS
    BY Bounds
  <2> QED
    BY <2>1, Pow2Below, LongFacts DEF Top
<1>2. ASSUME NEW n \in Nat, \A k \in 0 .. n - 1 : k \in S PROVE n \in S
  <2> SUFFICES ASSUME n > 0, n < Top PROVE HasDigits(n, DecChar[n])
    OBVIOUS
  <2> DEFINE q == n \div 10
             s == DecChar[n]
             y == DecChar[q]
  <2>1. n \in Long /\ n # 0
    BY <1>1, LongFacts
  <2>2. q \in Nat /\ q < n /\ 10 * q <= n /\ n < 10 * q + 10 /\ Quotient(n, 10) = q /\ Remainder(n, 10) = (n % 10)
    BY QuotientFacts
  <2>3. q \in Long
    BY <1>1, <2>2, LongFacts
  <2>4. s = <<Zero + (n % 10)>> \o y /\ y \in Strings
    BY <2>1, <2>2, <2>3, DecCharDef DEF Digit
  <2>5. (n % 10) \in Int /\ Zero \in Int
    BY DEF Zero
  <2> DEFINE w == Len(y)
  <2>6. /\ s \in Strings /\ Len(s) = w + 1 /\ s[1] = Zero + (n % 10)
        /\ w \in Nat /\ \A i \in 2 .. w + 1 : s[i] = y[i - 1]
    BY <2>4, <2>5 DEF Strings
  <2> HIDE DEF s, y
  <2>7. n \div Pow10[0] = n
    BY Pow10Facts
  <2>8. CASE q = 0
    <3>1. y = <<>> /\ w = 0
      <4>1. DecChar[q] = <<>>
        BY <2>3, <2>8, DecCharDef
      <4> QED
        BY <4>1 DEF y
    <3>2. n < 10 /\ Pow10[1] = 10 * Pow10[0] /\ Pow10[0] = 1
      BY <1>1, <2>2, <2>8, Pow10Facts
    <3>3. \A i \in 1 .. w + 1 : i = 1
      BY <3>1
    <3> QED
      BY <1>1, <2>6, <2>7, <3>1, <3>2, <3>3 DEF HasDigits, s
  <2>9. CASE q > 0
    <3>1. HasDigits(q, y)
      <4>1. q \in S
        BY <1>2, <2>2
      <4>2. q < Top
        BY <1>1, <2>2
      <4>3. HasDigits(q, DecChar[q])
        BY <2>9, <4>1, <4>2
      <4> QED
        BY <4>3 DEF y
    <3>2. /\ w \in 1 .. LONG_BITS - 1 /\ Pow10[w - 1] <= q /\ q < Pow10[w]
          /\ \A i \in 1 .. w : y[i] = Zero + ((q \div Pow10[i - 1]) % 10)
      BY <3>1 DEF HasDigits
    <3>3. /\ w \in 1 .. LONG_BITS /\ w + 1 \in 1 .. LONG_BITS /\ w - 1 \in 0 .. LONG_BITS /\ w \in 0 .. LONG_BITS
          /\ (w + 1) - 1 = w
      BY <1>1, <3>2
    <3>4. /\ Pow10[w] = 10 * Pow10[w - 1] /\ Pow10[w + 1] = 10 * Pow10[w]
          /\ Pow10[w] \in Nat /\ Pow10[w - 1] \in Nat /\ Pow10[w + 1] \in Nat
      BY <3>3, Pow10Facts
    <3>5. Pow10[w] <= n /\ n < Pow10[w + 1]
      BY <2>2, <3>2, <3>4
    <3>6. w + 1 \in 1 .. LONG_BITS - 1
      <4>1. LONG_BITS - 1 <= w => Pow10[LONG_BITS - 1] <= Pow10[w]
        BY <1>1, <3>3, Pow10Order
      <4>2. Pow10[LONG_BITS - 1] \in Nat
        BY <1>1, Pow10Facts
      <4>3. ~(LONG_BITS - 1 <= w)
        <5> DEFINE a == Pow10[LONG_BITS - 1]
                   c == Pow10[w]
        <5>1. a \in Nat /\ c \in Nat /\ (LONG_BITS - 1 <= w => a <= c)
          BY <3>4, <4>1, <4>2
        <5>2. Top <= a /\ Top \in Nat /\ n < Top /\ c <= n
          BY <1>1, <3>5
        <5> HIDE DEF a, c
        <5> QED
          BY <5>1, <5>2
      <4> QED
        BY <1>1, <3>2, <4>3
    <3>7. ASSUME NEW i \in 2 .. w + 1 PROVE s[i] = Zero + ((n \div Pow10[i - 1]) % 10)
      <4>1. i - 1 \in 1 .. w /\ (i - 1) - 1 \in 0 .. LONG_BITS /\ i - 1 \in 1 .. LONG_BITS
        BY <1>1, <2>6, <3>2
      <4> DEFINE p == Pow10[(i - 1) - 1]
      <4>2. p \in Nat /\ p > 0 /\ Pow10[i - 1] = 10 * p
        BY <4>1, Pow10Facts
      <4>3. s[i] = Zero + ((q \div p) % 10)
        BY <2>6, <3>2, <4>1
      <4> HIDE DEF p
      <4>4. q \div p = n \div (10 * p)
        BY <4>2, DivDiv
      <4> QED
        BY <4>2, <4>3, <4>4
    <3>8. \A i \in 1 .. w + 1 : i = 1 \/ i \in 2 .. w + 1
      BY <2>6
    <3>9. \A i \in 1 .. w + 1 : s[i] = Zero + ((n \div Pow10[i - 1]) % 10)
      BY <2>6, <2>7, <3>7, <3>8
    <3> HIDE DEF w
    <3>10. (w + 1) - 1 = w
      BY <2>6
    <3> QED
      BY <2>6, <3>5, <3>6, <3>9, <3>10 DEF HasDigits, s
  <2> QED
    BY <2>2, <2>8, <2>9
<1>3. S \in SUBSET Nat
  OBVIOUS
<1> HIDE DEF S
<1>4. S = Nat
  BY <1>2, <1>3, NatSetInduction
<1>5. ASSUME NEW n \in Long, n > 0 PROVE n \in Nat /\ n < Top
  BY <1>1, <1>5, LongFacts
<1> QED
  BY <1>4, <1>5 DEF S


Bits(long) == IF long THEN LONG_BITS ELSE INT_BITS
Half(bits) == Pow2[bits - 1]

LEMMA HalfFacts ==
  ASSUME NEW bits \in {INT_BITS, LONG_BITS}
  PROVE  /\ bits \in 1 .. LONG_BITS /\ bits - 1 \in 0 .. LONG_BITS
         /\ Half(bits) \in Nat /\ Half(bits) > 0 /\ Pow2[bits] = 2 * Half(bits)
         /\ Half(bits) <= Top
<1>1. bits \in 1 .. LONG_BITS /\ bits - 1 \in 0 .. LONG_BITS
  BY Bounds
<1>2. Half(bits) \in Nat /\ Half(bits) > 0 /\ Pow2[bits] = 2 * Half(bits)
  BY <1>1, Pow2Facts DEF Half
<1>3. Half(bits) <= Top
  <2>1. LONG_BITS - 1 \in 0 .. LONG_BITS /\ bits - 1 <= LONG_BITS - 1
    BY <1>1, Bounds
  <2> QED
    BY <1>1, <2>1, Pow2Order DEF Half, Top
<1> QED
  BY <1>1, <1>2, <1>3

(* A word, read as a signed number of so many bits.                        *)
LEMMA WrapFacts ==
  ASSUME NEW bits \in {INT_BITS, LONG_BITS}, NEW n \in Int
  PROVE  /\ Wrap(n, bits) \in Long
         /\ -Half(bits) <= Wrap(n, bits) /\ Wrap(n, bits) < Half(bits)
         /\ Wrap(n, bits) \in {(n % Pow2[bits]), (n % Pow2[bits]) - Pow2[bits]}
         /\ -Half(bits) <= n /\ n < Half(bits) => Wrap(n, bits) = n
<1> DEFINE h == Half(bits)
           p == Pow2[bits]
           u == n % Pow2[bits]
           w == Wrap(n, bits)
<1>1. h \in Nat /\ h > 0 /\ p = 2 * h /\ h <= Top /\ p \in Nat /\ p > 0
  BY HalfFacts
<1>2. w = IF u < h THEN u ELSE u - p
  BY DEF Wrap, Half
<1>3. u \in 0 .. p - 1
  BY <1>1, DivMod
<1>4. ASSUME -h <= n, n < h PROVE u = IF n >= 0 THEN n ELSE n + p
  <2>1. CASE n >= 0
    <3>1. n \in 0 .. p - 1 /\ n = 0 * p + n
      BY <1>1, <1>4, <2>1
    <3> HIDE DEF p
    <3>2. (0 * p + n) % p = n
      BY <1>1, <3>1, DivUnique
    <3> QED
      BY <2>1, <3>1, <3>2 DEF p
  <2>2. CASE n < 0
    <3> DEFINE q == -1
               c == n + p
    <3>1. q \in Int /\ c \in 0 .. p - 1 /\ n = q * p + c
      BY <1>1, <1>4, <2>2
    <3> HIDE DEF p, q, c
    <3>2. (q * p + c) % p = c
      BY <1>1, <3>1, DivUnique
    <3> QED
      BY <2>2, <3>1, <3>2 DEF p, c
  <2> QED
    BY <2>1, <2>2
<1>5. u \in Int
  BY <1>1, <1>3
<1> HIDE DEF h, p, u, w
<1>6. -h <= w /\ w < h /\ w \in Int /\ w \in {u, u - p}
  BY <1>1, <1>2, <1>3, <1>5
<1>7. -h <= n /\ n < h => w = n
  BY <1>1, <1>2, <1>4, <1>5
<1>8. -Top <= w /\ w < Top
  BY <1>1, <1>6, LongFacts
<1>9. w \in Long
  BY <1>6, <1>8, LongFacts
<1> QED
  BY <1>6, <1>7, <1>9 DEF h, p, u, w

Chars == Seq(1 .. 127)

(* The digits the loop collects are those of the number, back to front.    *)
LEMMA DecimalIsReversed ==
  ASSUME NEW n \in Nat, n > 0, NEW s, HasDigits(n, s)
  PROVE  Decimal(n) = Reverse(s) /\ Decimal(n) \in Chars /\ Len(Decimal(n)) = Len(s)
<1> DEFINE w == Len(s)
           P(v) == v \in 1 .. LONG_BITS /\ n < Pow10[v] /\ (v > 1 => n >= Pow10[v - 1])
<1>1. /\ s \in Strings /\ w \in 1 .. LONG_BITS - 1
      /\ Pow10[w - 1] <= n /\ n < Pow10[w]
      /\ \A i \in 1 .. w : s[i] = Zero + ((n \div Pow10[i - 1]) % 10)
  BY DEF HasDigits
<1> HIDE DEF w
<1>2. LONG_BITS \in Nat
  BY Bounds
<1>3. P(w)
  BY <1>1, <1>2
<1>4. ASSUME NEW v, P(v) PROVE v = w
  <2>1. /\ v \in 1 .. LONG_BITS /\ v - 1 \in 0 .. LONG_BITS /\ w \in 1 .. LONG_BITS
        /\ w - 1 \in 0 .. LONG_BITS /\ v \in 0 .. LONG_BITS /\ w \in 0 .. LONG_BITS
    BY <1>1, <1>2, <1>4
  <2>2. /\ Pow10[v] \in Nat /\ Pow10[w] \in Nat /\ Pow10[v - 1] \in Nat /\ Pow10[w - 1] \in Nat
    BY <2>1, Pow10Facts
  <2>3. ~(v < w)
    <3>1. v < w => Pow10[v] <= Pow10[w - 1]
      BY <2>1, Pow10Order
    <3> QED
      BY <1>1, <1>4, <2>2, <3>1
  <2>4. ~(w < v)
    <3>1. w < v => Pow10[w] <= Pow10[v - 1]
      BY <2>1, Pow10Order
    <3> QED
      BY <1>1, <1>4, <2>1, <2>2, <3>1
  <2> QED
    BY <2>1, <2>3, <2>4
<1>5. Width(n) = w
  BY <1>3, <1>4 DEF Width
<1> DEFINE d == [k \in 1 .. w |-> Zero + ((n \div Pow10[w - k]) % 10)]
<1>6. Decimal(n) = d
  BY <1>5 DEF Decimal
<1>7. ASSUME NEW k \in 1 .. w
      PROVE  d[k] \in 1 .. 127 /\ d[k] = s[(Len(s) - k) + 1]
  <2>1. w - k \in 0 .. LONG_BITS /\ (w - k) + 1 \in 1 .. w /\ ((w - k) + 1) - 1 = w - k
    BY <1>1, <1>2
  <2>2. Pow10[w - k] \in Nat /\ Pow10[w - k] > 0
    BY <2>1, Pow10Facts
  <2> DEFINE x == n \div Pow10[w - k]
  <2>3. x \in Int
    BY <2>2, DivMod
  <2> HIDE DEF x
  <2>4. Zero + (x % 10) \in 1 .. 127
    BY <2>3 DEF Zero
  <2>5. d[k] = Zero + (x % 10)
    BY DEF x
  <2>6. s[(w - k) + 1] = Zero + (x % 10)
    BY <1>1, <2>1 DEF x
  <2> QED
    BY <2>4, <2>5, <2>6 DEF w
<1>8. w \in Nat
  BY <1>1
<1> HIDE DEF d
<1>9. d \in Chars /\ Len(d) = w
  BY <1>7, <1>8 DEF d, Chars
<1>10. d = Reverse(s)
  BY <1>7 DEF Reverse, d, w
<1> QED
  BY <1>6, <1>9, <1>10 DEF w

LEMMA DecimalZero == Decimal(0) = <<Zero>>
<1> DEFINE P(v) == v \in 1 .. LONG_BITS /\ 0 < Pow10[v] /\ (v > 1 => 0 >= Pow10[v - 1])
<1>1. LONG_BITS \in Nat /\ 1 \in 1 .. LONG_BITS
  BY Bounds
<1>2. P(1)
  BY <1>1, Pow10Facts
<1>3. ASSUME NEW v, P(v) PROVE v = 1
  <2>1. v \in 1 .. LONG_BITS /\ v - 1 \in 0 .. LONG_BITS
    BY <1>1, <1>3
  <2>2. Pow10[v - 1] \in Nat /\ Pow10[v - 1] > 0
    BY <2>1, Pow10Facts
  <2> QED
    BY <1>3, <2>1, <2>2
<1>4. Width(0) = 1
  BY <1>2, <1>3 DEF Width
<1>5. Decimal(0) = [k \in 1 .. 1 |-> Zero + ((0 \div Pow10[1 - k]) % 10)]
  BY <1>4 DEF Decimal
<1>6. ASSUME NEW k \in 1 .. 1 PROVE Zero + ((0 \div Pow10[1 - k]) % 10) = Zero
  <2>1. 1 - k = 0 /\ Pow10[0] = 1
    BY Pow10Facts
  <2>2. Zero + ((0 \div 1) % 10) = Zero
    BY DEF Zero
  <2> QED
    BY <2>1, <2>2
<1>7. Decimal(0) = [k \in 1 .. 1 |-> Zero]
  BY <1>5, <1>6
<1> QED
  BY <1>7

(* What can be told of the digits of a number from 0 on.                   *)
LEMMA DecimalFacts ==
  ASSUME NEW n \in Long, n >= 0
  PROVE  /\ Decimal(n) \in Chars /\ Len(Decimal(n)) > 0
         /\ DecChar[n] \in Strings
         /\ n = 0 => DecChar[n] = <<>> /\ Decimal(n) = <<Zero>>
         /\ n > 0 => /\ DecChar[n] # <<>> /\ Decimal(n) = Reverse(DecChar[n])
                     /\ Len(DecChar[n]) > 0 /\ Len(Decimal(n)) = Len(DecChar[n])
<1>1. n \in Int
  BY LongFacts
<1>2. CASE n = 0
  <2>1. Decimal(n) = <<Zero>> /\ DecChar[n] = <<>>
    BY <1>2, DecimalZero, DecCharDef
  <2>2. <<Zero>> \in Chars /\ Len(<<Zero>>) = 1 /\ <<>> \in Strings
    BY StringFacts DEF Chars, Zero
  <2> QED
    BY <1>2, <2>1, <2>2
<1>3. CASE n > 0
  <2> DEFINE s == DecChar[n]
  <2>1. HasDigits(n, s)
    BY <1>3, DecCharDigits
  <2> HIDE DEF s
  <2>2. s \in Strings /\ Len(s) > 0 /\ s # <<>>
    BY <2>1, Bounds DEF HasDigits, Strings
  <2>3. Decimal(n) = Reverse(s) /\ Decimal(n) \in Chars /\ Len(Decimal(n)) = Len(s)
    BY <1>1, <1>3, <2>1, DecimalIsReversed
  <2> QED
    BY <1>3, <2>2, <2>3 DEF s
<1> QED
  BY <1>1, <1>2, <1>3

-----------------------------------------------------------------------------
(* Flattening.                                                             *)

(* f[k] is what the first k of ss flatten to.                              *)
IsFlat(f, ss, S) ==
  /\ f \in [0 .. Len(ss) -> Seq(S)]
  /\ f[0] = <<>>
  /\ \A k \in 1 .. Len(ss) : f[k] = f[k - 1] \o ss[k]

LEMMA FlatExists ==
  ASSUME NEW S, NEW ss \in Seq(Seq(S))
  PROVE  \E f : IsFlat(f, ss, S) /\ FlattenSeq(ss) = f[Len(ss)]
<1> DEFINE n == Len(ss)
           V == Seq(S)
           h == [k \in 1 .. n |-> [v \in V |-> v \o ss[k]]]
<1>1. n \in Nat /\ \A k \in 1 .. n : ss[k] \in V
  BY ElementOfSeq
<1>2. \A v \in V, k \in 1 .. n : v \o ss[k] \in V
  BY <1>1, ConcatProperties
<1>3. h \in [1 .. n -> [V -> V]]
  BY <1>2
<1>4. <<>> \in V
  BY EmptySeq
<1> HIDE DEF V
<1>5. PICK f \in [0 .. n -> V] : IsLoop(f, n, <<>>, h)
  BY <1>1, <1>3, <1>4, Iteration
<1>6. \A k \in 0 .. n : f[k] = IF k = 0 THEN <<>> ELSE h[k][f[k - 1]]
  BY <1>1, <1>5 DEF IsLoop
<1>7. ASSUME NEW k \in 1 .. n PROVE k \in 0 .. n /\ k # 0 /\ f[k - 1] \in V
  <2>1. k \in 0 .. n /\ k - 1 \in 0 .. n /\ k # 0
    BY <1>1
  <2> QED
    BY <1>5, <2>1
<1>8. \A k \in 1 .. n : f[k] = f[k - 1] \o ss[k]
  BY <1>6, <1>7
<1>9. f[0] = <<>>
  BY <1>1, <1>6
<1>10. IsFlat(f, ss, S)
  BY <1>5, <1>8, <1>9 DEF IsFlat, V
<1>11. CASE n = 0
  <2>1. FlattenSeq(ss) = ss /\ ss = <<>>
    BY <1>11 DEF FlattenSeq
  <2> QED
    BY <1>9, <1>10, <1>11, <2>1
<1>12. CASE n > 0
  <2> DEFINE g == [i \in 1 .. Len(ss) |-> f[i]]
  <2>1. \A k \in 1 .. n : ss[k] \in V /\ <<>> \o ss[k] = ss[k]
    BY <1>1, ConcatEmptySeq DEF V
  <2>2. g = [i \in 1 .. Len(ss) |-> IF i = 1 THEN ss[i] ELSE g[i - 1] \o ss[i]]
    <3>1. ASSUME NEW i \in 1 .. Len(ss)
          PROVE  f[i] = IF i = 1 THEN ss[i] ELSE g[i - 1] \o ss[i]
      <4>1. CASE i = 1
        <5>1. f[i] = f[i - 1] \o ss[i]
          BY <1>8, Zenon
        <5>2. i - 1 = 0
          BY <4>1
        <5> QED
          BY <1>9, <2>1, <4>1, <5>1, <5>2
      <4>2. CASE i # 1
        <5>1. i - 1 \in 1 .. Len(ss) /\ g[i - 1] = f[i - 1]
          BY <1>1, <4>2
        <5> QED
          BY <1>8, <4>2, <5>1
      <4> QED
        BY <4>1, <4>2
    <3> QED
      BY <3>1
  <2> DEFINE flatten == CHOOSE e : e = [i \in 1 .. Len(ss) |-> IF i = 1 THEN ss[i] ELSE e[i - 1] \o ss[i]]
  <2> HIDE DEF g
  <2>3. flatten = [i \in 1 .. Len(ss) |-> IF i = 1 THEN ss[i] ELSE flatten[i - 1] \o ss[i]]
    BY <2>2
  <2>4. FlattenSeq(ss) = flatten[Len(ss)]
    BY <1>12 DEF FlattenSeq
  <2> HIDE DEF flatten
  <2> DEFINE T == {k \in 0 .. n : k > 0 => flatten[k] = f[k]}
  <2>5. 0 \in T
    BY <1>1
  <2>6. ASSUME NEW k \in 1 .. n, k - 1 \in T PROVE k \in T
    <3>1. flatten[k] = IF k = 1 THEN ss[k] ELSE flatten[k - 1] \o ss[k]
      BY <2>3
    <3>2. CASE k = 1
      <4>1. f[k] = f[k - 1] \o ss[k]
        BY <1>8, Zenon
      <4>2. k - 1 = 0
        BY <3>2
      <4>3. f[k] = ss[k]
        BY <1>9, <2>1, <4>1, <4>2, Zenon
      <4> QED
        BY <1>1, <3>1, <3>2, <4>3
    <3>3. CASE k # 1
      <4>1. flatten[k - 1] = f[k - 1]
        BY <1>1, <2>6, <3>3
      <4>2. f[k] = f[k - 1] \o ss[k]
        BY <1>8, Zenon
      <4>3. k \in 0 .. n
        BY <1>1
      <4> QED
        BY <3>1, <3>3, <4>1, <4>2, <4>3
    <3> QED
      BY <3>2, <3>3
  <2> HIDE DEF T
  <2>7. \A k \in 0 .. n : k \in T
    BY <1>1, <2>5, <2>6, UpTo
  <2>8. flatten[n] = f[n]
    BY <1>1, <1>12, <2>7 DEF T
  <2> QED
    BY <1>10, <2>4, <2>8
<1> QED
  BY <1>1, <1>11, <1>12

LEMMA FlattenFacts ==
  ASSUME NEW S
  PROVE  /\ \A ss \in Seq(Seq(S)) : FlattenSeq(ss) \in Seq(S)
         /\ FlattenSeq(<<>>) = <<>>
         /\ \A s \in Seq(S) : FlattenSeq(<<s>>) = s
<1>1. ASSUME NEW ss \in Seq(Seq(S)) PROVE FlattenSeq(ss) \in Seq(S)
  <2>1. PICK f : IsFlat(f, ss, S) /\ FlattenSeq(ss) = f[Len(ss)]
    BY FlatExists
  <2>2. Len(ss) \in 0 .. Len(ss)
    BY LenProperties
  <2> QED
    BY <2>1, <2>2 DEF IsFlat
<1>2. FlattenSeq(<<>>) = <<>>
  BY DEF FlattenSeq
<1>3. ASSUME NEW s \in Seq(S) PROVE FlattenSeq(<<s>>) = s
  <2>1. <<s>> \in Seq(Seq(S)) /\ Len(<<s>>) = 1 /\ <<s>>[1] = s
    OBVIOUS
  <2> DEFINE ss == <<s>>
  <2> HIDE DEF ss
  <2>2. PICK f : IsFlat(f, ss, S) /\ FlattenSeq(ss) = f[Len(ss)]
    BY <2>1, FlatExists DEF ss
  <2>3. f[0] = <<>> /\ \A k \in 1 .. 1 : f[k] = f[k - 1] \o ss[k]
    BY <2>1, <2>2 DEF IsFlat, ss
  <2>4. 1 \in 1 .. 1 /\ 1 - 1 = 0
    OBVIOUS
  <2>5. f[1] = f[1 - 1] \o ss[1]
    BY <2>3, <2>4, Zenon
  <2>6. <<>> \o s = s
    BY ConcatEmptySeq
  <2> QED
    BY <2>1, <2>2, <2>3, <2>4, <2>5, <2>6 DEF ss
<1> QED
  BY <1>1, <1>2, <1>3

LEMMA FlattenConcat ==
  ASSUME NEW S, NEW ss \in Seq(Seq(S)), NEW tt \in Seq(Seq(S))
  PROVE  FlattenSeq(ss \o tt) = FlattenSeq(ss) \o FlattenSeq(tt)
<1> DEFINE uu == ss \o tt
           n == Len(ss)
           m == Len(tt)
<1>1. /\ uu \in Seq(Seq(S)) /\ n \in Nat /\ m \in Nat /\ Len(uu) = n + m
      /\ \A i \in 1 .. n + m : uu[i] = IF i <= n THEN ss[i] ELSE tt[i - n]
  BY ConcatProperties, LenProperties
<1>2. \A k \in 1 .. m : tt[k] \in Seq(S)
  BY ElementOfSeq
<1> HIDE DEF uu
<1>3. PICK f : IsFlat(f, ss, S) /\ FlattenSeq(ss) = f[n]
  BY FlatExists
<1>4. PICK g : IsFlat(g, tt, S) /\ FlattenSeq(tt) = g[m]
  BY FlatExists
<1>5. PICK h : IsFlat(h, uu, S) /\ FlattenSeq(uu) = h[n + m]
  BY <1>1, FlatExists
<1>6. f[0] = <<>> /\ f \in [0 .. n -> Seq(S)] /\ \A k \in 1 .. n : f[k] = f[k - 1] \o ss[k]
  BY <1>3 DEF IsFlat
<1>7. g[0] = <<>> /\ g \in [0 .. m -> Seq(S)] /\ \A k \in 1 .. m : g[k] = g[k - 1] \o tt[k]
  BY <1>4 DEF IsFlat
<1>8. h[0] = <<>> /\ \A k \in 1 .. n + m : h[k] = h[k - 1] \o uu[k]
  BY <1>1, <1>5 DEF IsFlat
<1> HIDE DEF n, m
<1> DEFINE T == {k \in 0 .. n : h[k] = f[k]}
<1>9. 0 \in T
  BY <1>1, <1>6, <1>8
<1>10. ASSUME NEW k \in 1 .. n, k - 1 \in T PROVE k \in T
  <2>1. k \in 1 .. n + m /\ k \in 0 .. n /\ uu[k] = ss[k]
    BY <1>1
  <2>2. h[k - 1] = f[k - 1]
    BY <1>10
  <2>3. h[k] = h[k - 1] \o uu[k]
    BY <1>8, <2>1, Zenon
  <2>4. f[k] = f[k - 1] \o ss[k]
    BY <1>6, Zenon
  <2>5. h[k] = f[k]
    BY <2>1, <2>2, <2>3, <2>4, Zenon
  <2> QED
    BY <2>1, <2>5
<1> DEFINE U == {k \in 0 .. m : h[n + k] = f[n] \o g[k]}
<1>11. 0 \in U
  <2> HIDE DEF T
  <2>1. n \in T
    <3>1. \A k \in 0 .. n : k \in T
      BY <1>1, <1>9, <1>10, UpTo
    <3> QED
      BY <1>1, <3>1
  <2>2. h[n] = f[n] /\ f[n] \in Seq(S)
    BY <1>1, <1>6, <2>1 DEF T
  <2>3. f[n] \o <<>> = f[n]
    BY <2>2, ConcatEmptySeq
  <2>4. n + 0 = n /\ 0 \in 0 .. m
    BY <1>1
  <2> QED
    BY <1>7, <2>2, <2>3, <2>4
<1>12. ASSUME NEW k \in 1 .. m, k - 1 \in U PROVE k \in U
  <2>1. /\ n + k \in 1 .. n + m /\ k \in 0 .. m /\ k - 1 \in 0 .. m /\ ~(n + k <= n)
        /\ (n + k) - n = k /\ (n + k) - 1 = n + (k - 1) /\ n \in 0 .. n
    BY <1>1
  <2>2. uu[n + k] = tt[k]
    BY <1>1, <2>1
  <2>3. h[n + (k - 1)] = f[n] \o g[k - 1]
    BY <1>12
  <2>4. h[n + k] = h[(n + k) - 1] \o uu[n + k]
    BY <1>8, <2>1, Zenon
  <2>5. g[k] = g[k - 1] \o tt[k]
    BY <1>7, Zenon
  <2>6. f[n] \in Seq(S) /\ g[k - 1] \in Seq(S) /\ tt[k] \in Seq(S)
    BY <1>2, <1>6, <1>7, <2>1 DEF m
  <2>7. (f[n] \o g[k - 1]) \o tt[k] = f[n] \o (g[k - 1] \o tt[k])
    <3> DEFINE x == f[n]
               y == g[k - 1]
               z == tt[k]
    <3>1. x \in Seq(S) /\ y \in Seq(S) /\ z \in Seq(S)
      BY <2>6
    <3> HIDE DEF x, y, z
    <3>2. (x \o y) \o z = x \o (y \o z)
      BY <3>1, SMTT(60)
    <3> QED
      BY <3>2 DEF x, y, z
  <2>8. h[n + k] = f[n] \o g[k]
    BY <2>1, <2>2, <2>3, <2>4, <2>5, <2>7, Zenon
  <2> QED
    BY <2>1, <2>8
<1> HIDE DEF U, T
<1>13. m \in U
  <2>1. \A k \in 0 .. m : k \in U
    BY <1>1, <1>11, <1>12, UpTo
  <2> QED
    BY <1>1, <2>1
<1> QED
  BY <1>3, <1>4, <1>5, <1>13 DEF U, uu

-----------------------------------------------------------------------------
(* What is shown.                                                          *)

Visible(s) == [i \in DOMAIN s |-> IF s[i] = NUL THEN <<>> ELSE <<s[i]>>]

LEMMA VisibleFacts ==
  ASSUME NEW s \in Strings
  PROVE  /\ Visible(s) \in Seq(Strings) /\ Len(Visible(s)) = Len(s)
         /\ \A i \in 1 .. Len(s) : Visible(s)[i] = IF s[i] = NUL THEN <<>> ELSE <<s[i]>>
<1>1. Len(s) \in Nat /\ DOMAIN s = 1 .. Len(s) /\ \A i \in 1 .. Len(s) : s[i] \in Int
  BY LenProperties, ElementOfSeq DEF Strings
<1>2. \A x \in Int : <<x>> \in Strings
  BY DEF Strings
<1>3. <<>> \in Strings
  BY StringFacts
<1>4. Visible(s) = [i \in 1 .. Len(s) |-> IF s[i] = NUL THEN <<>> ELSE <<s[i]>>]
  BY <1>1 DEF Visible
<1>5. \A i \in 1 .. Len(s) : (IF s[i] = NUL THEN <<>> ELSE <<s[i]>>) \in Strings
  BY <1>1, <1>2, <1>3
<1> QED
  BY <1>1, <1>4, <1>5

LEMMA ShownConcat ==
  ASSUME NEW s \in Strings, NEW u \in Strings
  PROVE  s \o u \in Strings /\ Shown(s) \in Strings /\ Shown(s \o u) = Shown(s) \o Shown(u)
<1> DEFINE x == Visible(s)
           y == Visible(u)
           z == Visible(s \o u)
<1>1. /\ s \o u \in Strings /\ Len(s \o u) = Len(s) + Len(u) /\ Len(s) \in Nat /\ Len(u) \in Nat
      /\ \A i \in 1 .. Len(s) + Len(u) : (s \o u)[i] = IF i <= Len(s) THEN s[i] ELSE u[i - Len(s)]
  BY ConcatProperties, LenProperties DEF Strings
<1>2. /\ x \in Seq(Strings) /\ Len(x) = Len(s)
      /\ \A i \in 1 .. Len(s) : x[i] = IF s[i] = NUL THEN <<>> ELSE <<s[i]>>
  BY VisibleFacts
<1>3. /\ y \in Seq(Strings) /\ Len(y) = Len(u)
      /\ \A i \in 1 .. Len(u) : y[i] = IF u[i] = NUL THEN <<>> ELSE <<u[i]>>
  BY VisibleFacts
<1>4. /\ z \in Seq(Strings) /\ Len(z) = Len(s \o u)
      /\ \A i \in 1 .. Len(s \o u) : z[i] = IF (s \o u)[i] = NUL THEN <<>> ELSE <<(s \o u)[i]>>
  BY <1>1, VisibleFacts
<1> HIDE DEF x, y, z
<1>5. /\ x \o y \in Seq(Strings) /\ Len(x \o y) = Len(x) + Len(y)
      /\ \A i \in 1 .. Len(x) + Len(y) : (x \o y)[i] = IF i <= Len(x) THEN x[i] ELSE y[i - Len(x)]
  BY <1>2, <1>3
<1>6. ASSUME NEW i \in 1 .. Len(s) + Len(u) PROVE z[i] = (x \o y)[i]
  <2>1. CASE i <= Len(s)
    <3>1. i \in 1 .. Len(s)
      BY <1>1, <2>1
    <3>2. z[i] = IF s[i] = NUL THEN <<>> ELSE <<s[i]>>
      BY <1>1, <1>4, <2>1
    <3>3. (x \o y)[i] = x[i]
      BY <1>2, <1>3, <1>5, <2>1
    <3> QED
      BY <1>2, <3>1, <3>2, <3>3
  <2>2. CASE ~(i <= Len(s))
    <3>1. i - Len(s) \in 1 .. Len(u)
      BY <1>1, <2>2
    <3>2. z[i] = IF u[i - Len(s)] = NUL THEN <<>> ELSE <<u[i - Len(s)]>>
      BY <1>1, <1>4, <2>2
    <3>3. (x \o y)[i] = y[i - Len(s)]
      BY <1>2, <1>3, <1>5, <2>2
    <3> QED
      BY <1>3, <3>1, <3>2, <3>3
  <2> QED
    BY <2>1, <2>2
<1>7. z = x \o y
  BY <1>1, <1>2, <1>3, <1>4, <1>5, <1>6, SeqEqual
<1>8. FlattenSeq(x \o y) = FlattenSeq(x) \o FlattenSeq(y)
  BY <1>2, <1>3, FlattenConcat DEF Strings
<1>9. FlattenSeq(x) \in Strings
  BY <1>2, FlattenFacts DEF Strings
<1>10. Shown(s) = FlattenSeq(x) /\ Shown(u) = FlattenSeq(y) /\ Shown(s \o u) = FlattenSeq(z)
  BY DEF Shown, Visible, x, y, z
<1> QED
  BY <1>1, <1>7, <1>8, <1>9, <1>10

LEMMA CharsFacts ==
  /\ Chars \subseteq Strings
  /\ \A s \in Chars : \A i \in 1 .. Len(s) : s[i] # NUL
<1>1. \A s \in Chars : s \in Strings
  BY SeqMonotonic, 1 .. 127 \subseteq Int DEF Chars, Strings
<1>2. \A s \in Chars : \A i \in 1 .. Len(s) : s[i] \in 1 .. 127
  BY ElementOfSeq DEF Chars
<1>3. \A c \in 1 .. 127 : c # NUL
  BY DEF NUL
<1> QED
  BY <1>1, <1>2, <1>3

(* Without a NUL all is shown.                                             *)
LEMMA ShownChars == \A s \in Chars : Shown(s) = s
<1> SUFFICES ASSUME NEW s \in Chars PROVE Shown(s) = s
  OBVIOUS
<1> DEFINE x == Visible(s)
           n == Len(s)
<1>1. s \in Strings /\ n \in Nat
  BY CharsFacts, LenProperties DEF Strings
<1>2. x \in Seq(Strings) /\ Len(x) = n /\ \A i \in 1 .. n : x[i] = <<s[i]>>
  BY <1>1, VisibleFacts, CharsFacts
<1>3. Shown(s) = FlattenSeq(x)
  BY DEF Shown, Visible
<1> HIDE DEF x
<1>4. PICK f : IsFlat(f, x, Int) /\ FlattenSeq(x) = f[n]
  BY <1>2, FlatExists DEF Strings
<1>5. f[0] = <<>> /\ \A k \in 1 .. n : f[k] = f[k - 1] \o x[k]
  BY <1>2, <1>4 DEF IsFlat
<1> DEFINE T == {k \in 0 .. n : f[k] = SubSeq(s, 1, k)}
<1>6. 0 \in T
  <2>1. SubSeq(s, 1, 0) = <<>>
    BY SubSeqEmpty, 0 < 1, 0 \in Int, 1 \in Int
  <2>2. f[0] = SubSeq(s, 1, 0)
    BY <1>5, <2>1, Zenon
  <2>3. 0 \in 0 .. n
    BY <1>1
  <2> QED
    BY <2>2, <2>3
<1>7. ASSUME NEW k \in 1 .. n, k - 1 \in T PROVE k \in T
  <2>1. f[k] = f[k - 1] \o x[k]
    BY <1>5, Zenon
  <2>2. f[k - 1] = SubSeq(s, 1, k - 1)
    BY <1>7
  <2>3. SubSeq(s, 1, k) = SubSeq(s, 1, k - 1) \o <<s[k]>>
    BY <1>1, SubSeqRecursiveSecond DEF Strings
  <2>4. x[k] = <<s[k]>>
    BY <1>2, Zenon
  <2>5. f[k] = SubSeq(s, 1, k)
    BY <2>1, <2>2, <2>3, <2>4, Zenon
  <2> QED
    BY <1>1, <2>5
<1> HIDE DEF T
<1>8. \A k \in 0 .. n : k \in T
  BY <1>1, <1>6, <1>7, UpTo
<1>9. f[n] = SubSeq(s, 1, n)
  BY <1>1, <1>8 DEF T
<1>10. SubSeq(s, 1, n) = s
  BY <1>1, SubSeqFull DEF Strings
<1> QED
  BY <1>3, <1>4, <1>9, <1>10

LEMMA ShownNul == Shown(<<NUL>>) = <<>> /\ Shown(<<>>) = <<>>
<1>1. <<NUL>> \in Strings /\ <<>> \in Strings
  BY StringFacts DEF Strings, NUL
<1>2. Visible(<<NUL>>) = <<<<>>>>
  BY DEF Visible
<1>3. Visible(<<>>) = <<>>
  BY DEF Visible
<1>4. <<>> \in Seq(Int)
  BY EmptySeq
<1>5. FlattenSeq(<<<<>>>>) = <<>> /\ FlattenSeq(<<>>) = <<>>
  BY <1>4, FlattenFacts
<1> QED
  BY <1>2, <1>3, <1>5 DEF Shown, Visible

-----------------------------------------------------------------------------
(* Hexadecimal numbers.                                                    *)

LEMMA Pow2Sum ==
  ASSUME NEW a \in 0 .. LONG_BITS, NEW b \in 0 .. LONG_BITS - a
  PROVE  Pow2[a + b] = Pow2[a] * Pow2[b]
<1> DEFINE n == LONG_BITS - a
           T == {k \in 0 .. n : Pow2[a + k] = Pow2[a] * Pow2[k]}
<1>1. LONG_BITS \in Nat /\ n \in Nat /\ \A k \in 0 .. n : k \in 0 .. LONG_BITS /\ a + k \in 0 .. LONG_BITS
  BY Bounds
<1>2. Pow2[a] \in Nat /\ Pow2[0] = 1 /\ a + 0 = a
  BY <1>1, Pow2Facts
<1>3. 0 \in T
  BY <1>1, <1>2
<1>4. ASSUME NEW k \in 1 .. n, k - 1 \in T PROVE k \in T
  <2>1. /\ a + k \in 1 .. LONG_BITS /\ k \in 1 .. LONG_BITS /\ (a + k) - 1 = a + (k - 1)
        /\ k - 1 \in 0 .. LONG_BITS /\ k \in 0 .. n
    BY <1>1
  <2> DEFINE x == Pow2[a]
             y == Pow2[k - 1]
  <2>2. /\ Pow2[a + k] = 2 * Pow2[a + (k - 1)] /\ Pow2[k] = 2 * y /\ y \in Nat /\ x \in Nat
    BY <1>2, <2>1, Pow2Facts
  <2>3. Pow2[a + (k - 1)] = x * y
    BY <1>4
  <2> HIDE DEF x, y
  <2>4. 2 * (x * y) = x * (2 * y)
    BY <2>2
  <2>5. Pow2[a + k] = x * Pow2[k]
    BY <2>2, <2>3, <2>4
  <2> QED
    BY <2>1, <2>5 DEF x
<1> HIDE DEF T, n
<1>5. \A k \in 0 .. n : k \in T
  BY <1>1, <1>3, <1>4, UpTo
<1> QED
  BY <1>5 DEF T, n

LEMMA HexDigit == \A h \in 0 .. 15 : HexDigits[1 + h] = HexChar(h) /\ HexChar(h) \in 1 .. 127
<1> SUFFICES ASSUME NEW h \in 0 .. 15
             PROVE  HexDigits[1 + h] = HexChar(h) /\ HexChar(h) \in 1 .. 127
  OBVIOUS
<1>1. CASE h < 10
  <2>1. h = 0 \/ h = 1 \/ h = 2 \/ h = 3 \/ h = 4 \/ h = 5 \/ h = 6 \/ h = 7 \/ h = 8 \/ h = 9
    BY <1>1
  <2> QED
    BY <1>1, <2>1 DEF HexDigits, HexChar, Zero
<1>2. CASE ~(h < 10)
  <2>1. h = 10 \/ h = 11 \/ h = 12 \/ h = 13 \/ h = 14 \/ h = 15
    BY <1>2
  <2> QED
    BY <1>2, <2>1 DEF HexDigits, HexChar, Zero
<1> QED
  BY <1>1, <1>2

(* A number that is p * 16 * m less has the same digit behind p.           *)
LEMMA SameDigit ==
  ASSUME NEW u \in Int, NEW p \in Nat, p > 0, NEW m \in Nat
  PROVE  /\ ((u - (p * (16 * m))) \div p) % 16 = (u \div p) % 16
         /\ (u \div p) % 16 \in 0 .. 15
<1> DEFINE q == u \div p
           c == u % p
           v == u - (p * (16 * m))
<1>1. q \in Int /\ c \in 0 .. p - 1 /\ u = q * p + c
  BY DivMod
<1> HIDE DEF q, c
<1>2. p * (16 * m) = (16 * m) * p /\ 16 * m \in Int
  OBVIOUS
<1>3. q * p = ((q - 16 * m) + (16 * m)) * p
  BY <1>1, <1>2
<1> DEFINE z == q - 16 * m
           y == 16 * m
<1>4. z \in Int /\ y \in Int /\ z + y = q
  BY <1>1, <1>2
<1> HIDE DEF v
<1>5. v = z * p + c
  <2> HIDE DEF z, y
  <2>1. (z + y) * p = z * p + y * p /\ z * p \in Int /\ y * p \in Int
    BY <1>4
  <2> QED
    BY <1>1, <1>2, <1>4, <2>1 DEF v, y
<1>6. v \div p = z
  <2> HIDE DEF z
  <2> QED
    BY <1>1, <1>4, <1>5, DivUnique
<1>7. (z % 16) = (q % 16) /\ (q % 16) \in 0 .. 15
  BY <1>1
<1> QED
  BY <1>6, <1>7 DEF v, q

LEMMA HexSame ==
  ASSUME NEW bits \in {INT_BITS, LONG_BITS}, NEW n \in Int
  PROVE  /\ HexText(Wrap(n, bits), bits \div 4) = Hex(n % Pow2[bits], bits \div 4)
         /\ Hex(n % Pow2[bits], bits \div 4) \in Chars
<1> DEFINE d == bits \div 4
           P == Pow2[bits]
           u == n % Pow2[bits]
           num == Wrap(n, bits)
<1>1. d \in Nat /\ bits = 4 * d
  BY BitsAssumption
<1>2. bits \in 1 .. LONG_BITS /\ LONG_BITS \in Nat /\ P \in Nat /\ P > 0
  BY HalfFacts, Bounds, Pow2Facts
<1>3. u \in Int /\ num \in {u, u - P}
  <2>1. u \in Int
    BY <1>2, DivMod
  <2> QED
    BY <2>1, WrapFacts
<1> HIDE DEF d, u, num
<1>4. ASSUME NEW k \in 1 .. d
      PROVE  /\ HexChar((num \div Pow2[4 * (d - k)]) % 16)
                  = HexDigits[1 + ((u \div Pow2[4 * (d - k)]) % 16)]
             /\ HexDigits[1 + ((u \div Pow2[4 * (d - k)]) % 16)] \in 1 .. 127
  <2> DEFINE e == 4 * (d - k)
             p == Pow2[e]
             m == Pow2[bits - e - 4]
  <2>1. /\ e \in 0 .. LONG_BITS /\ 4 \in 0 .. LONG_BITS /\ 4 \in 0 .. LONG_BITS - e
        /\ (bits - e) - 4 \in 0 .. LONG_BITS - 4 /\ (bits - e) - 4 \in 0 .. LONG_BITS
        /\ bits - e \in 0 .. LONG_BITS - e /\ bits - e - 4 = (bits - e) - 4
        /\ 4 + (bits - e - 4) = bits - e /\ e + (bits - e) = bits
    BY <1>1, <1>2
  <2>2. p \in Nat /\ p > 0 /\ m \in Nat
    BY <2>1, Pow2Facts
  <2>3. Pow2[4] = 16
    <3>1. 1 \in 1 .. LONG_BITS /\ 2 \in 1 .. LONG_BITS /\ 3 \in 1 .. LONG_BITS /\ 4 \in 1 .. LONG_BITS
      BY <1>2, <2>1
    <3>2. /\ Pow2[0] = 1 /\ Pow2[1] = 2 * Pow2[1 - 1] /\ Pow2[2] = 2 * Pow2[2 - 1]
          /\ Pow2[3] = 2 * Pow2[3 - 1] /\ Pow2[4] = 2 * Pow2[4 - 1]
      BY <3>1, Pow2Facts, Zenon
    <3>3. 1 - 1 = 0 /\ 2 - 1 = 1 /\ 3 - 1 = 2 /\ 4 - 1 = 3
      OBVIOUS
    <3> QED
      BY <3>2, <3>3
  <2>4. Pow2[bits - e] = 16 * m
    <3> DEFINE g == bits - e - 4
    <3>1. 4 \in 0 .. LONG_BITS /\ g \in 0 .. LONG_BITS - 4 /\ 4 + g = bits - e
      BY <2>1
    <3> HIDE DEF g, e
    <3>2. Pow2[4 + g] = Pow2[4] * Pow2[g]
      BY <3>1, Pow2Sum
    <3> QED
      BY <2>3, <3>1, <3>2 DEF g
  <2>5. P = p * (16 * m)
    <3> DEFINE f == bits - e
    <3>1. e \in 0 .. LONG_BITS /\ f \in 0 .. LONG_BITS - e /\ e + f = bits
      BY <2>1
    <3> HIDE DEF e, f, m
    <3>2. Pow2[e + f] = Pow2[e] * Pow2[f]
      BY <3>1, Pow2Sum
    <3> QED
      BY <2>4, <3>1, <3>2 DEF f
  <2> HIDE DEF p, m, P
  <2>6. (num \div p) % 16 = (u \div p) % 16 /\ (u \div p) % 16 \in 0 .. 15
    <3>1. ((u - P) \div p) % 16 = (u \div p) % 16 /\ (u \div p) % 16 \in 0 .. 15
      BY <1>3, <2>2, <2>5, SameDigit
    <3>2. num = u \/ num = u - P
      BY <1>3
    <3> QED
      BY <3>1, <3>2
  <2> DEFINE x == (u \div p) % 16
  <2>7. x \in 0 .. 15 /\ (num \div p) % 16 = x
    BY <2>6
  <2> HIDE DEF x
  <2>8. HexChar((num \div p) % 16) = HexDigits[1 + x] /\ HexDigits[1 + x] \in 1 .. 127
    BY <2>7, HexDigit
  <2> QED
    BY <2>8 DEF x, p
<1>5. HexText(num, d) = Hex(u, d)
  BY <1>4 DEF HexText, Hex
<1>6. Hex(u, d) \in Chars
  BY <1>1, <1>4 DEF Hex, Chars
<1> QED
  BY <1>5, <1>6 DEF d, u, num

-----------------------------------------------------------------------------
(* What a conversion prints.                                               *)

Output == Seq(0 .. 127)

LEMMA OutputFacts ==
  /\ Output \subseteq Strings /\ Chars \subseteq Output /\ <<>> \in Output /\ <<>> \in Chars
  /\ <<NUL>> \in Output /\ <<Minus>> \in Chars /\ <<Zero>> \in Chars
<1>1. Output \subseteq Strings
  BY SeqMonotonic, 0 .. 127 \subseteq Int DEF Output, Strings
<1>2. Chars \subseteq Output
  BY SeqMonotonic, 1 .. 127 \subseteq 0 .. 127 DEF Output, Chars
<1>3. <<NUL>> \in Output /\ <<Minus>> \in Chars /\ <<Zero>> \in Chars
  BY DEF NUL, Minus, Zero, Output, Chars
<1>4. <<>> \in Output /\ <<>> \in Chars
  BY EmptySeq DEF Output, Chars
<1> QED
  BY <1>1, <1>2, <1>3, <1>4

LEMMA ReverseAppend ==
  ASSUME NEW s \in Strings, NEW c \in Int
  PROVE  Reverse(Append(s, c)) = <<c>> \o Reverse(s) /\ Len(Reverse(Append(s, c))) = Len(s) + 1
<1> DEFINE x == Append(s, c)
           n == Len(s)
<1>1. /\ x \in Strings /\ Len(x) = n + 1 /\ n \in Nat /\ x[n + 1] = c
      /\ \A i \in 1 .. n : x[i] = s[i] /\ s[i] \in Int
  BY AppendProperties, LenProperties, ElementOfSeq DEF Strings
<1> HIDE DEF x, n
<1> DEFINE rx == Reverse(x)
           rs == Reverse(s)
<1>2. rx = [i \in 1 .. n + 1 |-> x[((n + 1) - i) + 1]]
  BY <1>1 DEF Reverse
<1>3. rs = [i \in 1 .. n |-> s[(n - i) + 1]]
  BY DEF Reverse, n
<1>4. ASSUME NEW i \in 1 .. n PROVE rs[i] = s[(n - i) + 1] /\ rs[i] \in Int
  <2>1. (n - i) + 1 \in 1 .. n
    BY <1>1
  <2> QED
    BY <1>1, <1>3, <2>1
<1> HIDE DEF rs
<1>5. rs \in Strings /\ Len(rs) = n
  BY <1>1, <1>3, <1>4 DEF Strings
<1>6. ASSUME NEW i \in 1 .. n + 1 PROVE rx[i] = (<<c>> \o rs)[i] /\ rx[i] \in Int
  <2>0. <<c>> \in Seq(Int) /\ Len(<<c>>) = 1 /\ <<c>>[1] = c
    OBVIOUS
  <2>1. (<<c>> \o rs)[i] = IF i <= 1 THEN c ELSE rs[i - 1]
    BY <1>1, <1>5, <2>0 DEF Strings
  <2>2. rx[i] = x[((n + 1) - i) + 1]
    BY <1>2
  <2>3. CASE i = 1
    <3>1. ((n + 1) - i) + 1 = n + 1
      BY <1>1, <2>3
    <3> QED
      BY <1>1, <2>1, <2>2, <2>3, <3>1
  <2>4. CASE i # 1
    <3>1. i - 1 \in 1 .. n /\ ((n + 1) - i) + 1 = (n - (i - 1)) + 1 /\ (n - (i - 1)) + 1 \in 1 .. n /\ ~(i <= 1)
      BY <1>1, <2>4
    <3>2. rs[i - 1] = s[(n - (i - 1)) + 1]
      BY <1>4, <3>1
    <3> QED
      BY <1>1, <2>1, <2>2, <3>1, <3>2
  <2> QED
    BY <2>3, <2>4
<1> HIDE DEF rx
<1>7. rx \in Strings /\ Len(rx) = n + 1
  BY <1>1, <1>2, <1>6 DEF Strings
<1>8. <<c>> \o rs \in Strings /\ Len(<<c>> \o rs) = n + 1
  BY <1>1, <1>5, StringFacts
<1>9. rx = <<c>> \o rs
  BY <1>6, <1>7, <1>8, SeqEqual DEF Strings
<1> QED
  BY <1>7, <1>9 DEF rx, rs, x, n

LEMMA DigitsFacts ==
  ASSUME copy \in {"kernel", "user"}, NEW k, NEW n \in Long, n >= 0
  PROVE  /\ Digits(n) \in Output /\ Shown(Digits(n)) = Decimal(n)
         /\ copy = "user" => Digits(n) = Decimal(n)
         /\ copy = "kernel" => Counted(k, n) = Len(Digits(n))
         /\ Counted(k, n) \in Nat
<1> DEFINE s == DecChar[n]
           e == Decimal(n)
<1>1. /\ e \in Chars /\ Len(e) > 0 /\ s \in Strings
      /\ n = 0 => s = <<>> /\ e = <<Zero>>
      /\ n > 0 => s # <<>> /\ e = Reverse(s) /\ Len(s) > 0 /\ Len(e) = Len(s)
  BY DecimalFacts
<1>2. Len(s) \in Nat /\ Len(e) \in Nat /\ Shown(e) = e /\ e \in Output /\ e \in Strings
  BY <1>1, ShownChars, OutputFacts, LenProperties DEF Strings
<1>3. /\ Digits(n) = IF copy = "kernel" THEN PrintedKernel(s) ELSE PrintedUser(s)
      /\ Counted(k, n) = IF copy = "kernel" THEN CountedKernel(k, Len(s)) ELSE CountedUser(k, Len(s))
  BY DEF Digits, Counted
<1> HIDE DEF s, e
<1>4. n \in Int
  BY LongFacts
<1>5. CASE n = 0
  <2>1. Digits(n) = e /\ Len(s) = 0 /\ Len(e) = 1
    BY <1>1, <1>3, <1>5 DEF PrintedKernel, PrintedUser
  <2>2. Counted(k, n) \in Nat /\ (copy = "kernel" => Counted(k, n) = 1)
    BY <1>3, <2>1 DEF CountedKernel, CountedUser
  <2> QED
    BY <1>2, <2>1, <2>2 DEF e
<1>6. CASE n > 0 /\ copy = "user"
  <2>1. Digits(n) = e
    BY <1>1, <1>3, <1>6 DEF PrintedUser
  <2>2. Counted(k, n) \in Nat
    BY <1>1, <1>2, <1>3, <1>6 DEF CountedUser
  <2> QED
    BY <1>2, <1>6, <2>1, <2>2 DEF e
<1>7. CASE n > 0 /\ copy = "kernel"
  <2>1. Digits(n) = Reverse(Append(s, NUL))
    BY <1>1, <1>3, <1>7 DEF PrintedKernel
  <2>2. NUL \in Int
    BY DEF NUL
  <2>3. Digits(n) = <<NUL>> \o e /\ Len(Digits(n)) = Len(s) + 1
    BY <1>1, <1>7, <2>1, <2>2, ReverseAppend
  <2>4. Counted(k, n) = Len(s) + 1
    BY <1>3, <1>7 DEF CountedKernel
  <2>5. <<NUL>> \o e \in Output
    BY <1>2, OutputFacts DEF Output
  <2>6. Shown(<<NUL>> \o e) = e
    <3>1. <<NUL>> \in Strings
      BY OutputFacts
    <3>2. Shown(<<NUL>> \o e) = Shown(<<NUL>>) \o Shown(e)
      BY <1>2, <3>1, ShownConcat
    <3>3. <<>> \o e = e
      BY <1>2, ConcatEmptySeq DEF Strings
    <3> QED
      BY <1>2, <3>2, <3>3, ShownNul
  <2> QED
    BY <1>2, <1>7, <2>3, <2>4, <2>5, <2>6 DEF e
<1> QED
  BY <1>4, <1>5, <1>6, <1>7

(* A number with its sign.                                                 *)
LEMMA SignedFacts ==
  ASSUME copy \in {"kernel", "user"}, NEW k, NEW n \in Long, n < 0, n # -Top
  PROVE  LET x == <<Minus>> \o Digits(Wrap(-n, LONG_BITS))
             c == 1 + Counted(k, Wrap(-n, LONG_BITS))
         IN  /\ x \in Output /\ Shown(x) = <<Minus>> \o Decimal(-n) /\ <<Minus>> \o Decimal(-n) \in Chars
             /\ copy = "user" => x = <<Minus>> \o Decimal(-n)
             /\ copy = "kernel" => c = Len(x)
             /\ c \in Nat
<1> DEFINE m == -n
           d == Digits(m)
<1>1. m \in Long /\ m > 0 /\ m \in Int /\ -Top <= m /\ m < Top
  BY LongFacts
<1>2. Wrap(m, LONG_BITS) = m
  <2>1. Half(LONG_BITS) = Top
    BY DEF Half, Top
  <2> HIDE DEF m
  <2> QED
    BY <1>1, <2>1, WrapFacts
<1>3. /\ d \in Output /\ Shown(d) = Decimal(m) /\ (copy = "user" => d = Decimal(m))
      /\ (copy = "kernel" => Counted(k, m) = Len(d)) /\ Counted(k, m) \in Nat
  <2> HIDE DEF m
  <2> QED
    BY <1>1, DigitsFacts
<1>4. Decimal(m) \in Chars
  <2> HIDE DEF m
  <2> QED
    BY <1>1, DecimalFacts
<1> HIDE DEF d, m
<1> DEFINE x == <<Minus>> \o d
<1>5. <<Minus>> \in Strings /\ <<Minus>> \in Output /\ <<Minus>> \in Chars /\ d \in Strings
  BY <1>3, OutputFacts
<1>6. x \in Output /\ Len(x) = 1 + Len(d) /\ Len(d) \in Nat
  BY <1>3, <1>5 DEF Output
<1>7. <<Minus>> \o Decimal(m) \in Chars
  BY <1>4, <1>5 DEF Chars
<1>8. Shown(x) = Shown(<<Minus>>) \o Shown(d)
  BY <1>5, ShownConcat
<1>9. Shown(x) = <<Minus>> \o Decimal(m)
  BY <1>3, <1>5, <1>8, ShownChars
<1> HIDE DEF x
<1>10. /\ copy = "user" => x = <<Minus>> \o Decimal(m)
       /\ copy = "kernel" => 1 + Counted(k, m) = Len(x)
       /\ 1 + Counted(k, m) \in Nat
  BY <1>3, <1>6 DEF x
<1> QED
  BY <1>2, <1>6, <1>7, <1>9, <1>10 DEF x, d, m

(* What a conversion prints shows what it promises, and is counted so.     *)
LEMMA TextFacts ==
  ASSUME copy \in {"kernel", "user"}, longarg \in BOOLEAN,
         NEW k \in Conversions, NEW a \in Args, Sound(k, longarg, a)
  PROVE  /\ Text(k, a) \in Output
         /\ Promised(k, longarg, a) \in Chars
         /\ Shown(Text(k, a)) = Promised(k, longarg, a)
         /\ copy = "user" => Text(k, a) = Promised(k, longarg, a)
         /\ copy = "kernel" => Advance(k, a) = Len(Text(k, a))
         /\ Advance(k, a) \in Nat
<1> DEFINE bits == IF longarg THEN LONG_BITS ELSE INT_BITS
           num == Wrap(a.word, bits)
<1>1. a.word \in Long /\ a.str \in Chars /\ bits \in {INT_BITS, LONG_BITS} /\ a.word \in Int
  BY LongFacts DEF Args, Chars
<1>2. num \in Long /\ -Half(bits) <= num /\ num < Half(bits) /\ Half(bits) <= Top /\ num \in Int
      /\ Half(bits) \in Nat /\ Top \in Nat
  <2> HIDE DEF bits
  <2> QED
    BY <1>1, WrapFacts, HalfFacts, LongFacts
<1>3. Number(a) = num
  BY DEF Number
<1>4. /\ k = "d" => num # -Half(bits)
      /\ k = "u" => num >= 0
      /\ k = "c" => a.word \in 1 .. 127
  BY DEF Sound, Half
<1> HIDE DEF num
<1>5. ASSUME NEW x \in Chars, Text(k, a) = x, Promised(k, longarg, a) = x, Advance(k, a) = Len(Text(k, a))
      PROVE  /\ Text(k, a) \in Output
             /\ Promised(k, longarg, a) \in Chars
             /\ Shown(Text(k, a)) = Promised(k, longarg, a)
             /\ copy = "user" => Text(k, a) = Promised(k, longarg, a)
             /\ copy = "kernel" => Advance(k, a) = Len(Text(k, a))
             /\ Advance(k, a) \in Nat
  BY <1>5, ShownChars, OutputFacts, LenProperties DEF Chars
<1>6. CASE k = "x"
  <2> DEFINE x == Hex(a.word % Pow2[bits], bits \div 4)
  <2>1. HexText(num, bits \div 4) = x /\ x \in Chars
    <3> HIDE DEF bits
    <3> QED
      BY <1>1, HexSame DEF num
  <2>2. Text(k, a) = HexText(num, bits \div 4)
    BY <1>3, <1>6 DEF Text
  <2>3. Promised(k, longarg, a) = x
    BY <1>6 DEF Promised
  <2>4. Advance(k, a) = Len(Text(k, a))
    BY <1>6 DEF Advance
  <2> HIDE DEF x
  <2> QED
    BY <1>5, <2>1, <2>2, <2>3, <2>4
<1>7. CASE k = "d" /\ num < 0
  <2>1. Text(k, a) = <<Minus>> \o Digits(Wrap(-num, LONG_BITS))
    BY <1>3, <1>7 DEF Text
  <2>2. Promised(k, longarg, a) = <<Minus>> \o Decimal(-num)
    BY <1>7 DEF Promised, Signed, num
  <2>3. Advance(k, a) = 1 + Counted(k, Wrap(-num, LONG_BITS))
    BY <1>3, <1>7 DEF Advance
  <2>4. num # -Top
    BY <1>2, <1>4, <1>7
  <2> QED
    BY <1>2, <1>7, <2>1, <2>2, <2>3, <2>4, SignedFacts
<1>8. CASE (k = "d" /\ num >= 0) \/ k = "u"
  <2>1. num >= 0 /\ ~(num < 0)
    BY <1>2, <1>4, <1>8
  <2>2. Text(k, a) = Digits(num)
    BY <1>3, <1>8, <2>1 DEF Text
  <2>3. Promised(k, longarg, a) = Decimal(num)
    BY <1>8, <2>1 DEF Promised, Signed, num
  <2>4. Advance(k, a) = Counted(k, num)
    BY <1>3, <1>8, <2>1 DEF Advance
  <2>5. Decimal(num) \in Chars
    BY <1>2, <2>1, DecimalFacts
  <2> QED
    BY <1>2, <2>1, <2>2, <2>3, <2>4, <2>5, DigitsFacts
<1>9. CASE k = "s"
  <2>1. Text(k, a) = a.str /\ Promised(k, longarg, a) = a.str /\ Advance(k, a) = Len(Text(k, a))
    BY <1>9 DEF Text, Promised, Advance
  <2> QED
    BY <1>1, <1>5, <2>1
<1>10. CASE k = "c"
  <2>1. Text(k, a) = <<a.word>> /\ Promised(k, longarg, a) = <<a.word>> /\ Advance(k, a) = Len(Text(k, a))
    BY <1>10 DEF Text, Promised, Advance
  <2>2. <<a.word>> \in Chars
    BY <1>4, <1>10 DEF Chars
  <2> QED
    BY <1>5, <2>1, <2>2
<1> QED
  BY <1>2, <1>6, <1>7, <1>8, <1>9, <1>10 DEF Conversions

LEMMA PromisedChars ==
  ASSUME NEW k \in Conversions, NEW l \in BOOLEAN, NEW a \in Args, Sound(k, l, a)
  PROVE  Promised(k, l, a) \in Chars
<1> DEFINE bits == IF l THEN LONG_BITS ELSE INT_BITS
           num == Wrap(a.word, bits)
<1>1. a.word \in Long /\ a.str \in Chars /\ bits \in {INT_BITS, LONG_BITS} /\ a.word \in Int
  BY LongFacts DEF Args, Chars
<1>2. num \in Long /\ -Half(bits) <= num /\ num < Half(bits) /\ Half(bits) <= Top /\ num \in Int
      /\ Half(bits) \in Nat /\ Top \in Nat
  <2> HIDE DEF bits
  <2> QED
    BY <1>1, WrapFacts, HalfFacts, LongFacts
<1>3. /\ k = "d" => num # -Half(bits)
      /\ k = "u" => num >= 0
      /\ k = "c" => a.word \in 1 .. 127
  BY DEF Sound, Half
<1> HIDE DEF num
<1>4. CASE k = "x"
  <2>1. Hex(a.word % Pow2[bits], bits \div 4) \in Chars
    <3> HIDE DEF bits
    <3> QED
      BY <1>1, HexSame
  <2> QED
    BY <1>4, <2>1 DEF Promised
<1>5. CASE k = "d" /\ num < 0
  <2>1. Promised(k, l, a) = <<Minus>> \o Decimal(-num)
    BY <1>5 DEF Promised, Signed, num
  <2>2. -num \in Long /\ -num >= 0
    BY <1>2, <1>3, <1>5, LongFacts
  <2>3. Decimal(-num) \in Chars
    BY <2>2, DecimalFacts
  <2> QED
    BY <2>1, <2>3, OutputFacts DEF Chars
<1>6. CASE (k = "d" /\ num >= 0) \/ k = "u"
  <2>1. num >= 0 /\ ~(num < 0)
    BY <1>2, <1>3, <1>6
  <2>2. Promised(k, l, a) = Decimal(num)
    BY <1>6, <2>1 DEF Promised, Signed, num
  <2> QED
    BY <1>2, <2>1, <2>2, DecimalFacts
<1>7. CASE k = "s"
  BY <1>1, <1>7 DEF Promised
<1>8. CASE k = "c"
  <2>1. <<a.word>> \in Chars
    BY <1>3, <1>8 DEF Chars
  <2> QED
    BY <1>8, <2>1 DEF Promised
<1> QED
  BY <1>2, <1>4, <1>5, <1>6, <1>7, <1>8 DEF Conversions

-----------------------------------------------------------------------------
(* Formats.                                                                *)

Joined(F, ps) == FlattenSeq([i \in DOMAIN ps |-> F[ps[i]]])

LEMMA JoinedIn ==
  ASSUME NEW D, NEW S, NEW F \in [D -> Seq(S)], NEW qs \in Seq(D)
  PROVE  Joined(F, qs) \in Seq(S)
<1> DEFINE y == [i \in DOMAIN qs |-> F[qs[i]]]
           n == Len(qs)
           V == Seq(S)
<1>1. n \in Nat /\ DOMAIN qs = 1 .. n /\ \A i \in 1 .. n : qs[i] \in D
  BY LenProperties, ElementOfSeq
<1>2. \A i \in 1 .. n : F[qs[i]] \in V
  BY <1>1
<1> HIDE DEF V
<1>3. y \in Seq(V) /\ Len(y) = n /\ \A i \in 1 .. n : y[i] = F[qs[i]]
  BY <1>1, <1>2
<1>4. Joined(F, qs) = FlattenSeq(y)
  BY DEF Joined
<1> HIDE DEF y
<1> QED
  BY <1>3, <1>4, FlattenFacts DEF V

LEMMA JoinedCons ==
  ASSUME NEW D, NEW S, NEW F \in [D -> Seq(S)], NEW qs \in Seq(D), NEW p \in D,
         NEW ps, ps = <<p>> \o qs
  PROVE  Joined(F, ps) = F[p] \o Joined(F, qs)
<1> DEFINE y == [i \in DOMAIN qs |-> F[qs[i]]]
           n == Len(qs)
           V == Seq(S)
<1>1. n \in Nat /\ DOMAIN qs = 1 .. n /\ \A i \in 1 .. n : qs[i] \in D
  BY LenProperties, ElementOfSeq
<1>2. \A i \in 1 .. n : F[qs[i]] \in V
  BY <1>1
<1> HIDE DEF V
<1>3. y \in Seq(V) /\ Len(y) = n /\ \A i \in 1 .. n : y[i] = F[qs[i]]
  BY <1>1, <1>2
<1>4. Joined(F, qs) = FlattenSeq(y)
  BY DEF Joined
<1> HIDE DEF y
<1> DEFINE z == [i \in DOMAIN ps |-> F[ps[i]]]
           v == <<F[p]>>
<1>5. /\ ps \in Seq(D) /\ Len(ps) = n + 1
      /\ \A i \in 1 .. n + 1 : ps[i] = IF i <= 1 THEN p ELSE qs[i - 1]
  OBVIOUS
<1>6. DOMAIN ps = 1 .. n + 1 /\ \A i \in 1 .. n + 1 : ps[i] \in D
  BY <1>1, <1>5, LenProperties, ElementOfSeq
<1>7. \A i \in 1 .. n + 1 : F[ps[i]] \in V
  BY <1>6 DEF V
<1>8. z \in Seq(V) /\ Len(z) = n + 1 /\ \A i \in 1 .. n + 1 : z[i] = F[ps[i]]
  BY <1>1, <1>6, <1>7
<1>9. v \in Seq(V) /\ Len(v) = 1 /\ v[1] = F[p]
  BY DEF V
<1>10. Joined(F, ps) = FlattenSeq(z)
  BY DEF Joined
<1> HIDE DEF z, v, n
<1>11. /\ v \o y \in Seq(V) /\ Len(v \o y) = n + 1
       /\ \A i \in 1 .. n + 1 : (v \o y)[i] = IF i <= 1 THEN v[i] ELSE y[i - 1]
  <2> HIDE DEF V
  <2>1. /\ v \o y \in Seq(V) /\ Len(v \o y) = Len(v) + Len(y)
        /\ \A i \in 1 .. Len(v) + Len(y) : (v \o y)[i] = IF i <= Len(v) THEN v[i] ELSE y[i - Len(v)]
    <3>1. v \in Seq(V) /\ y \in Seq(V)
      BY <1>3, <1>9
    <3> QED
      BY <3>1, ConcatProperties
  <2>2. Len(v) + Len(y) = n + 1
    BY <1>1, <1>3, <1>9
  <2> QED
    BY <1>9, <2>1, <2>2
<1>12. ASSUME NEW i \in 1 .. n + 1 PROVE z[i] = (v \o y)[i]
  <2>1. CASE i = 1
    <3>1. (v \o y)[i] = v[i]
      BY <1>11, <2>1, 1 <= 1
    <3> QED
      BY <1>5, <1>8, <1>9, <2>1, <3>1
  <2>2. CASE i # 1
    <3>1. i - 1 \in 1 .. n /\ ~(i <= 1)
      BY <1>1, <2>2
    <3>2. (v \o y)[i] = y[i - 1]
      BY <1>11, <3>1
    <3>3. z[i] = F[qs[i - 1]]
      BY <1>5, <1>8, <3>1
    <3> QED
      BY <1>3, <3>1, <3>2, <3>3
  <2> QED
    BY <2>1, <2>2
<1>13. z = v \o y
  BY <1>1, <1>8, <1>11, <1>12, SeqEqual
<1>14. FlattenSeq(v \o y) = FlattenSeq(v) \o FlattenSeq(y)
  BY <1>3, <1>9, FlattenConcat DEF V
<1>15. FlattenSeq(v) = F[p]
  BY FlattenFacts DEF v
<1> QED
  BY <1>4, <1>10, <1>13, <1>14, <1>15

LEMMA CharsConcat ==
  ASSUME NEW s \in Chars, NEW u \in Chars
  PROVE  s \o u \in Chars /\ Len(s \o u) = Len(s) + Len(u) /\ Len(s) \in Nat /\ Len(u) \in Nat
BY ConcatProperties, LenProperties DEF Chars

LEMMA CodeFacts ==
  /\ \A k \in Conversions : Code[k] \in 1 .. 127 /\ Code[k] # Code.percent /\ Code[k] # Code.l
  /\ \A j \in Conversions, k \in Conversions : Code[j] = Code[k] => j = k
  /\ Code.percent \in 1 .. 127 /\ Code.l \in 1 .. 127 /\ Code.l \notin Letters
BY DEF Conversions, Code, Letters

(* What is left of a format, seen from a conversion's letter.              *)
Chosen(s, k, f) == s \o (<<Code[k]>> \o f)

LEMMA PieceFacts ==
  ASSUME NEW p \in Pieces
  PROVE  /\ FmtOf(p) \in Chars /\ FmtOf(p) # <<>>
         /\ ArgsOf(p) \in Seq(Args) /\ TextOf(p) \in Chars
         /\ p.chars \in Chars /\ p.arg \in Args /\ IsLong(p.chars) \in BOOLEAN
         /\ p.conv # "none" => p.conv \in Conversions
<1>1. p.conv \in Conversions \cup {"none"} /\ p.chars \in Chars /\ p.arg \in Args /\ IsLong(p.chars) \in BOOLEAN
  BY DEF Pieces, Chars, IsLong
<1>2. CASE p.conv = "none"
  <2>1. p.chars # <<>>
    BY <1>2 DEF Pieces
  <2>2. ArgsOf(p) = <<>> /\ FmtOf(p) = p.chars /\ TextOf(p) = p.chars
    BY <1>2 DEF FmtOf, ArgsOf, TextOf
  <2>3. <<>> \in Seq(Args)
    BY EmptySeq
  <2> QED
    BY <1>1, <1>2, <2>1, <2>2, <2>3
<1>3. CASE p.conv # "none"
  <2>1. p.conv \in Conversions /\ Sound(p.conv, IsLong(p.chars), p.arg)
    BY <1>1, <1>3 DEF Pieces
  <2>2. /\ ArgsOf(p) = <<p.arg>> /\ TextOf(p) = Promised(p.conv, IsLong(p.chars), p.arg)
        /\ FmtOf(p) = <<Code.percent>> \o p.chars \o <<Code[p.conv]>>
    BY <1>3 DEF FmtOf, ArgsOf, TextOf
  <2>3. <<Code.percent>> \in Chars /\ <<Code[p.conv]>> \in Chars
    BY <2>1, CodeFacts DEF Chars
  <2>4. <<Code.percent>> \o p.chars \in Chars
    BY <1>1, <2>3 DEF Chars
  <2> DEFINE s == <<Code.percent>> \o p.chars
             c == <<Code[p.conv]>>
  <2>5. s \in Chars /\ c \in Chars /\ Len(c) = 1
    BY <2>3, <2>4
  <2> HIDE DEF s, c
  <2>6. s \o c \in Chars /\ Len(s \o c) = Len(s) + 1 /\ Len(s) \in Nat
    BY <2>5, CharsConcat
  <2>7. s \o c # <<>>
    BY <2>6
  <2>8. FmtOf(p) = s \o c
    BY <2>2 DEF s, c
  <2>9. TextOf(p) \in Chars
    BY <1>1, <2>1, <2>2, PromisedChars
  <2>10. <<p.arg>> \in Seq(Args)
    BY <1>1
  <2> QED
    BY <1>1, <1>3, <2>1, <2>2, <2>6, <2>7, <2>8, <2>9, <2>10
<1> QED
  BY <1>2, <1>3

LEMMA FormatFacts ==
  ASSUME NEW qs \in Seq(Pieces)
  PROVE  /\ Format(qs).fmt \in Chars /\ Format(qs).args \in Seq(Args) /\ Format(qs).text \in Chars
         /\ \A p \in Pieces : LET f == Format(<<p>> \o qs)
                              IN  /\ f.fmt = FmtOf(p) \o Format(qs).fmt
                                  /\ f.args = ArgsOf(p) \o Format(qs).args
                                  /\ f.text = TextOf(p) \o Format(qs).text
<1> DEFINE F == [p \in Pieces |-> FmtOf(p)]
           A == [p \in Pieces |-> ArgsOf(p)]
           X == [p \in Pieces |-> TextOf(p)]
           M == 1 .. 127
           N == Args
<1>1. F \in [Pieces -> Chars] /\ A \in [Pieces -> Seq(Args)] /\ X \in [Pieces -> Chars]
  BY PieceFacts
<1>2. ASSUME NEW ps \in Seq(Pieces)
      PROVE  Format(ps).fmt = Joined(F, ps) /\ Format(ps).args = Joined(A, ps)
             /\ Format(ps).text = Joined(X, ps)
  <2>1. \A i \in DOMAIN ps : ps[i] \in Pieces
    BY LenProperties, ElementOfSeq
  <2>2. /\ [i \in DOMAIN ps |-> FmtOf(ps[i])] = [i \in DOMAIN ps |-> F[ps[i]]]
        /\ [i \in DOMAIN ps |-> ArgsOf(ps[i])] = [i \in DOMAIN ps |-> A[ps[i]]]
        /\ [i \in DOMAIN ps |-> TextOf(ps[i])] = [i \in DOMAIN ps |-> X[ps[i]]]
    BY <2>1
  <2> QED
    BY <2>2 DEF Format, Joined
<1>3. \A p \in Pieces : F[p] = FmtOf(p) /\ A[p] = ArgsOf(p) /\ X[p] = TextOf(p)
  OBVIOUS
<1> HIDE DEF F, A, X, M, N
<1>4. F \in [Pieces -> Seq(M)] /\ A \in [Pieces -> Seq(N)] /\ X \in [Pieces -> Seq(M)]
  BY <1>1 DEF Chars, M, N
<1>5. Joined(F, qs) \in Seq(M) /\ Joined(A, qs) \in Seq(N) /\ Joined(X, qs) \in Seq(M)
  BY <1>4, JoinedIn
<1>6. ASSUME NEW p \in Pieces, NEW ps, ps = <<p>> \o qs
      PROVE  /\ ps \in Seq(Pieces)
             /\ Joined(F, ps) = F[p] \o Joined(F, qs)
             /\ Joined(A, ps) = A[p] \o Joined(A, qs)
             /\ Joined(X, ps) = X[p] \o Joined(X, qs)
  <2>1. ps \in Seq(Pieces)
    BY <1>6
  <2>2. Joined(F, ps) = F[p] \o Joined(F, qs)
    BY <1>4, <1>6, JoinedCons
  <2>3. Joined(A, ps) = A[p] \o Joined(A, qs)
    BY <1>4, <1>6, JoinedCons
  <2>4. Joined(X, ps) = X[p] \o Joined(X, qs)
    BY <1>4, <1>6, JoinedCons
  <2> QED
    BY <2>1, <2>2, <2>3, <2>4
<1>7. ASSUME NEW p \in Pieces
      PROVE  LET f == Format(<<p>> \o qs)
             IN  /\ f.fmt = FmtOf(p) \o Format(qs).fmt
                 /\ f.args = ArgsOf(p) \o Format(qs).args
                 /\ f.text = TextOf(p) \o Format(qs).text
  <2> DEFINE ps == <<p>> \o qs
  <2>1. /\ ps \in Seq(Pieces)
        /\ Joined(F, ps) = F[p] \o Joined(F, qs)
        /\ Joined(A, ps) = A[p] \o Joined(A, qs)
        /\ Joined(X, ps) = X[p] \o Joined(X, qs)
    BY <1>6
  <2> HIDE DEF ps
  <2>2. /\ Format(ps).fmt = FmtOf(p) \o Format(qs).fmt
        /\ Format(ps).args = ArgsOf(p) \o Format(qs).args
        /\ Format(ps).text = TextOf(p) \o Format(qs).text
    BY <1>2, <1>3, <2>1
  <2> QED
    BY <2>2 DEF ps
<1> QED
  BY <1>1, <1>2, <1>4, <1>5, <1>7 DEF Chars, M, N

LEMMA FormatEnd ==
  ASSUME NEW ps \in Seq(Pieces)
  PROVE  /\ ps = <<>> => Format(ps) = [fmt |-> <<>>, args |-> <<>>, text |-> <<>>]
         /\ ps # <<>> => \E p \in Pieces, qs \in Seq(Pieces) : ps = <<p>> \o qs
         /\ Format(ps).fmt = <<>> => ps = <<>>
<1>1. ASSUME ps = <<>> PROVE Format(ps) = [fmt |-> <<>>, args |-> <<>>, text |-> <<>>]
  <2>1. /\ [i \in DOMAIN <<>> |-> FmtOf(<<>>[i])] = <<>>
        /\ [i \in DOMAIN <<>> |-> ArgsOf(<<>>[i])] = <<>>
        /\ [i \in DOMAIN <<>> |-> TextOf(<<>>[i])] = <<>>
    OBVIOUS
  <2> QED
    BY <1>1, <2>1, FlattenFacts DEF Format
<1>2. ASSUME ps # <<>> PROVE \E p \in Pieces, qs \in Seq(Pieces) : ps = <<p>> \o qs
  <2>1. Head(ps) \in Pieces /\ Tail(ps) \in Seq(Pieces) /\ ps = <<Head(ps)>> \o Tail(ps)
    BY <1>2
  <2> QED
    BY <2>1
<1>3. ASSUME ps # <<>> PROVE Format(ps).fmt # <<>>
  <2>1. PICK p \in Pieces, qs \in Seq(Pieces) : ps = <<p>> \o qs
    BY <1>2, <1>3
  <2>2. Format(ps).fmt = FmtOf(p) \o Format(qs).fmt /\ Format(qs).fmt \in Chars
    BY <2>1, FormatFacts
  <2>3. FmtOf(p) \in Chars /\ FmtOf(p) # <<>>
    BY PieceFacts
  <2> QED
    BY <2>2, <2>3, ConcatEqualIffEmpty DEF Chars
<1> QED
  BY <1>1, <1>2, <1>3

LEMMA Chop ==
  ASSUME NEW S, NEW s \in Seq(S), s # <<>>
  PROVE  /\ Head(s) \in S /\ Tail(s) \in Seq(S) /\ s = <<Head(s)>> \o Tail(s)
         /\ Head(s) = s[1] /\ 1 \in 1 .. Len(s)
         /\ \A i \in 1 .. Len(Tail(s)) : Tail(s)[i] = s[i + 1] /\ i + 1 \in 1 .. Len(s)
         /\ \A i \in 1 .. Len(s) : i # 1 => i - 1 \in 1 .. Len(Tail(s)) /\ Tail(s)[i - 1] = s[i]
<1>1. Len(s) \in Nat /\ Len(s) > 0
  OBVIOUS
<1>2. Head(s) \in S /\ Tail(s) \in Seq(S) /\ Head(s) = s[1] /\ Len(Tail(s)) = Len(s) - 1
  OBVIOUS
<1>3. \A i \in 1 .. Len(s) - 1 : Tail(s)[i] = s[i + 1]
  OBVIOUS
<1>4. s = <<Head(s)>> \o Tail(s)
  OBVIOUS
<1>5. ASSUME NEW i \in 1 .. Len(Tail(s)) PROVE Tail(s)[i] = s[i + 1] /\ i + 1 \in 1 .. Len(s)
  BY <1>1, <1>2, <1>3
<1>6. ASSUME NEW i \in 1 .. Len(s), i # 1 PROVE i - 1 \in 1 .. Len(Tail(s)) /\ Tail(s)[i - 1] = s[i]
  <2>1. i - 1 \in 1 .. Len(s) - 1 /\ (i - 1) + 1 = i
    BY <1>1, <1>6
  <2> QED
    BY <1>2, <1>3, <2>1
<1> QED
  BY <1>1, <1>2, <1>4, <1>5, <1>6

LEMMA ChopConcat ==
  ASSUME NEW S, NEW s \in Seq(S), s # <<>>, NEW u \in Seq(S)
  PROVE  Head(s \o u) = Head(s) /\ Tail(s \o u) = Tail(s) \o u
OBVIOUS

LEMMA ChopOne ==
  ASSUME NEW S, NEW c \in S, NEW u \in Seq(S)
  PROVE  /\ Head(<<c>> \o u) = c /\ Tail(<<c>> \o u) = u /\ <<c>> \o u \in Seq(S)
         /\ <<c>> \o u # <<>>
OBVIOUS

LEMMA Assoc ==
  ASSUME NEW x \in Strings, NEW y \in Strings, NEW z \in Strings
  PROVE  (x \o y) \o z = x \o (y \o z) /\ x \o y \in Strings /\ y \o z \in Strings
BY DEF Strings

-----------------------------------------------------------------------------
(* The loop over the format.                                               *)

(* Between two pieces of the format, and inside a conversion.              *)
Between(ps) ==
  /\ fmt = Format(ps).fmt /\ args = Format(ps).args
  /\ call.text = Shown(out) \o Format(ps).text

Inside(ps, k, s, a) ==
  /\ fmt = Chosen(s, k, Format(ps).fmt) /\ args = <<a>> \o Format(ps).args
  /\ \A i \in DOMAIN s : s[i] \notin Letters
  /\ Sound(k, longarg \/ IsLong(s), a)
  /\ call.text = Shown(out) \o (Promised(k, longarg \/ IsLong(s), a) \o Format(ps).text)

Flow ==
  \/ ~in_format /\ ~longarg /\ \E ps \in Seq(Pieces) : Between(ps)
  \/ in_format /\ \E ps \in Seq(Pieces), k \in Conversions, s \in Chars, a \in Args :
                    Inside(ps, k, s, a)

FormatTypes ==
  /\ copy \in {"kernel", "user"}
  /\ out \in Output /\ fmt \in Chars /\ args \in Seq(Args)
  /\ in_format \in BOOLEAN /\ longarg \in BOOLEAN /\ running \in BOOLEAN
  /\ pos \in Nat

(* What a turn of the loop adds.                                           *)
Turn(new) ==
  /\ Flow' /\ FormatTypes'
  /\ new \in Output /\ out' = out \o new
  /\ copy = "user" => new \in Chars
  /\ copy = "kernel" => pos' = pos + Len(new)
  /\ UNCHANGED <<copy, call, running>>

LEMMA PiecesLeft ==
  ASSUME FormatTypes, NEW ps \in Seq(Pieces), Between(ps), fmt # <<>>
  PROVE  \E p \in Pieces, qs \in Seq(Pieces) :
           /\ fmt = FmtOf(p) \o Format(qs).fmt /\ args = ArgsOf(p) \o Format(qs).args
           /\ call.text = Shown(out) \o (TextOf(p) \o Format(qs).text)
           /\ Head(fmt) = Head(FmtOf(p)) /\ Tail(fmt) = Tail(FmtOf(p)) \o Format(qs).fmt
<1>1. ps # <<>>
  BY FormatEnd DEF Between
<1>2. PICK p \in Pieces, qs \in Seq(Pieces) : ps = <<p>> \o qs
  BY <1>1, FormatEnd
<1>3. /\ fmt = FmtOf(p) \o Format(qs).fmt /\ args = ArgsOf(p) \o Format(qs).args
      /\ call.text = Shown(out) \o (TextOf(p) \o Format(qs).text)
  BY <1>2, FormatFacts DEF Between
<1>4. FmtOf(p) \in Chars /\ FmtOf(p) # <<>> /\ Format(qs).fmt \in Chars
  BY PieceFacts, FormatFacts
<1>5. Head(fmt) = Head(FmtOf(p)) /\ Tail(fmt) = Tail(FmtOf(p)) \o Format(qs).fmt
  BY <1>3, <1>4, ChopConcat DEF Chars
<1> QED
  BY <1>3, <1>5

(* A conversion starts with its %, nothing else does.                      *)
LEMMA PieceStart ==
  ASSUME NEW p \in Pieces
  PROVE  /\ p.conv = "none" => Head(FmtOf(p)) # Code.percent /\ Tail(FmtOf(p)) = Tail(p.chars)
                               /\ Head(FmtOf(p)) = Head(p.chars) /\ p.chars # <<>>
         /\ p.conv # "none" => Head(FmtOf(p)) = Code.percent
                               /\ Tail(FmtOf(p)) = p.chars \o <<Code[p.conv]>>
<1>1. p.chars \in Chars /\ FmtOf(p) # <<>> /\ (p.conv # "none" => p.conv \in Conversions)
  BY PieceFacts
<1>2. ASSUME p.conv = "none"
      PROVE  Head(FmtOf(p)) # Code.percent /\ FmtOf(p) = p.chars
  <2>1. FmtOf(p) = p.chars /\ \A i \in DOMAIN p.chars : p.chars[i] # Code.percent
    BY <1>2 DEF FmtOf, Pieces
  <2>2. Head(p.chars) = p.chars[1] /\ 1 \in 1 .. Len(p.chars) /\ DOMAIN p.chars = 1 .. Len(p.chars)
    BY <1>1, <2>1, Chop, LenProperties DEF Chars
  <2> QED
    BY <2>1, <2>2
<1>3. ASSUME p.conv # "none"
      PROVE  Head(FmtOf(p)) = Code.percent /\ Tail(FmtOf(p)) = p.chars \o <<Code[p.conv]>>
  <2> DEFINE c == Code.percent
             s == p.chars
             d == <<Code[p.conv]>>
  <2>1. FmtOf(p) = <<c>> \o s \o d
    BY <1>3 DEF FmtOf
  <2>2. c \in 1 .. 127 /\ Code[p.conv] \in 1 .. 127
    BY <1>1, <1>3, CodeFacts
  <2>3. c \in 1 .. 127 /\ d \in Chars /\ s \in Chars
    BY <1>1, <2>2 DEF Chars
  <2> HIDE DEF c, s, d
  <2>4. <<c>> \o s \o d = <<c>> \o (s \o d)
    <3>1. c \in Int /\ <<c>> \in Strings /\ s \in Strings /\ d \in Strings
      BY <2>3, CharsFacts DEF Strings
    <3> QED
      BY <3>1, Assoc
  <2>5. s \o d \in Chars
    BY <2>3, CharsConcat
  <2>6. Head(<<c>> \o (s \o d)) = c /\ Tail(<<c>> \o (s \o d)) = s \o d
    BY <2>3, <2>5, ChopOne DEF Chars
  <2> QED
    BY <2>1, <2>4, <2>6 DEF c, s, d
<1> QED
  BY <1>1, <1>2, <1>3

LEMMA EmptyWord == Word(0) \in Args
<1>1. 0 \in Long
  BY LongFacts
<1>2. <<>> \in Seq(1 .. 127)
  BY EmptySeq
<1> QED
  BY <1>1, <1>2 DEF Word, Args

(* The rest of a literal is a literal or nothing.                          *)
LEMMA LiteralLeft ==
  ASSUME NEW p \in Pieces, p.conv = "none", NEW qs \in Seq(Pieces)
  PROVE  \E ps \in Seq(Pieces) : /\ Format(ps).fmt = Tail(p.chars) \o Format(qs).fmt
                                 /\ Format(ps).args = Format(qs).args
                                 /\ Format(ps).text = Tail(p.chars) \o Format(qs).text
<1> DEFINE s == Tail(p.chars)
<1>1. /\ p.chars \in Seq(1 .. 127) /\ p.chars # <<>>
      /\ \A i \in DOMAIN p.chars : p.chars[i] # Code.percent
  BY DEF Pieces
<1>2. s \in Seq(1 .. 127) /\ \A i \in DOMAIN s : s[i] # Code.percent
  <2>1. /\ s \in Seq(1 .. 127) /\ DOMAIN p.chars = 1 .. Len(p.chars)
        /\ \A i \in 1 .. Len(s) : s[i] = p.chars[i + 1] /\ i + 1 \in 1 .. Len(p.chars)
    BY <1>1, Chop, LenProperties
  <2> HIDE DEF s
  <2>2. DOMAIN s = 1 .. Len(s)
    BY <2>1, LenProperties
  <2> QED
    BY <1>1, <2>1, <2>2
<1>3. Format(qs).fmt \in Chars /\ Format(qs).args \in Seq(Args) /\ Format(qs).text \in Chars
  BY FormatFacts
<1>4. CASE s = <<>>
  <2>1. <<>> \o Format(qs).fmt = Format(qs).fmt /\ <<>> \o Format(qs).text = Format(qs).text
    BY <1>3, ConcatEmptySeq DEF Chars
  <2> QED
    BY <1>4, <2>1
<1>5. CASE s # <<>>
  <2> DEFINE q  == Literal(s)
             ps == <<q>> \o qs
  <2>1. q \in Pieces
    BY <1>2, <1>5, EmptyWord DEF Literal, Pieces
  <2>2. FmtOf(q) = s /\ ArgsOf(q) = <<>> /\ TextOf(q) = s
    BY DEF Literal, FmtOf, ArgsOf, TextOf
  <2> HIDE DEF q, s
  <2>3. /\ Format(ps).fmt = FmtOf(q) \o Format(qs).fmt
        /\ Format(ps).args = ArgsOf(q) \o Format(qs).args
        /\ Format(ps).text = TextOf(q) \o Format(qs).text
    BY <2>1, FormatFacts
  <2>4. <<>> \o Format(qs).args = Format(qs).args
    BY <1>3, ConcatEmptySeq
  <2>5. ps \in Seq(Pieces)
    BY <2>1
  <2> QED
    BY <2>2, <2>3, <2>4, <2>5 DEF s
<1> QED
  BY <1>4, <1>5

LEMMA PlainTurn == FormatTypes /\ Flow /\ Plain => \E new : Turn(new)
<1> SUFFICES ASSUME FormatTypes, Flow, Plain PROVE \E new : Turn(new)
  OBVIOUS
<1>1. /\ ~in_format /\ ~longarg /\ running /\ fmt # <<>> /\ Head(fmt) \in 1 .. 127
      /\ Head(fmt) # Code.percent /\ fmt' = Tail(fmt) /\ out' = Append(out, Head(fmt))
      /\ pos' = pos + 1 /\ UNCHANGED <<copy, call, args, in_format, longarg, running>>
  BY DEF Flow, Plain, Char
<1>2. PICK p0 \in Seq(Pieces) : Between(p0)
  BY <1>1 DEF Flow
<1>3. PICK p \in Pieces, qs \in Seq(Pieces) :
           /\ fmt = FmtOf(p) \o Format(qs).fmt /\ args = ArgsOf(p) \o Format(qs).args
           /\ call.text = Shown(out) \o (TextOf(p) \o Format(qs).text)
           /\ Head(fmt) = Head(FmtOf(p)) /\ Tail(fmt) = Tail(FmtOf(p)) \o Format(qs).fmt
  BY <1>1, <1>2, PiecesLeft
<1>4. p.conv = "none" /\ Tail(FmtOf(p)) = Tail(p.chars) /\ Head(fmt) = Head(p.chars) /\ p.chars # <<>>
  BY <1>1, <1>3, PieceStart
<1>5. PICK ps \in Seq(Pieces) : /\ Format(ps).fmt = Tail(p.chars) \o Format(qs).fmt
                                /\ Format(ps).args = Format(qs).args
                                /\ Format(ps).text = Tail(p.chars) \o Format(qs).text
  BY <1>4, LiteralLeft
<1> DEFINE c == Head(fmt)
           s == Tail(p.chars)
           x == Format(qs).text
           o == Shown(out)
<1>6. /\ ArgsOf(p) = <<>> /\ TextOf(p) = p.chars /\ p.chars \in Chars /\ x \in Strings
      /\ Format(qs).args \in Seq(Args) /\ out \in Output /\ out \in Strings /\ pos \in Nat
  BY <1>4, PieceFacts, FormatFacts, CharsFacts, OutputFacts DEF ArgsOf, TextOf, FormatTypes
<1>7. p.chars = <<c>> \o s /\ c \in 1 .. 127 /\ s \in Strings
  <2>1. p.chars = <<Head(p.chars)>> \o Tail(p.chars) /\ Tail(p.chars) \in Chars
    BY <1>4, <1>6, Chop DEF Chars
  <2> QED
    BY <1>1, <1>4, <2>1, CharsFacts
<1>8. args' = Format(ps).args
  <2>1. <<>> \o Format(qs).args = Format(qs).args
    BY <1>6, ConcatEmptySeq
  <2> QED
    BY <1>1, <1>3, <1>5, <1>6, <2>1
<1>9. fmt' = Format(ps).fmt
  BY <1>1, <1>3, <1>4, <1>5
<1>10. call.text = o \o ((<<c>> \o s) \o x)
  BY <1>3, <1>6, <1>7
<1>11. call'.text = call.text /\ Format(ps).text = s \o x
  BY <1>1, <1>5
<1> HIDE DEF c, s, x
<1>12. <<c>> \in Chars /\ <<c>> \in Output /\ <<c>> \in Strings /\ Len(<<c>>) = 1 /\ Shown(<<c>>) = <<c>>
  <2>1. <<c>> \in Chars /\ Len(<<c>>) = 1
    BY <1>7 DEF Chars
  <2> QED
    BY <2>1, OutputFacts, CharsFacts, ShownChars
<1>13. out' = out \o <<c>> /\ out' \in Output /\ Shown(out') = o \o <<c>> /\ o \in Strings
  <2>1. out' = out \o <<c>>
    BY <1>1, <1>6, <1>7, AppendIsConcat DEF c, Output
  <2>2. out \o <<c>> \in Output
    BY <1>6, <1>12 DEF Output
  <2>3. Shown(out \o <<c>>) = Shown(out) \o Shown(<<c>>) /\ Shown(out) \in Strings
    BY <1>6, <1>12, ShownConcat
  <2> QED
    BY <1>12, <2>1, <2>2, <2>3
<1> HIDE DEF o
<1>14. call'.text = Shown(out') \o (s \o x)
  <2>1. (<<c>> \o s) \o x = <<c>> \o (s \o x) /\ s \o x \in Strings
    <3> DEFINE w == <<c>>
    <3>1. w \in Strings /\ s \in Strings /\ x \in Strings
      BY <1>6, <1>7, <1>12
    <3> HIDE DEF w
    <3>2. (w \o s) \o x = w \o (s \o x) /\ s \o x \in Strings
      BY <3>1, Assoc
    <3> QED
      BY <3>2 DEF w
  <2> DEFINE y == s \o x
  <2> HIDE DEF y
  <2>2. (o \o <<c>>) \o y = o \o (<<c>> \o y)
    BY <1>12, <1>13, <2>1, Assoc DEF y
  <2> QED
    BY <1>10, <1>11, <1>13, <2>1, <2>2 DEF y
<1>15. Flow'
  <2>1. Between(ps)'
    BY <1>8, <1>9, <1>11, <1>14 DEF Between
  <2> QED
    BY <1>1, <2>1 DEF Flow
<1>16. FormatTypes'
  <2>1. fmt' \in Chars /\ args' \in Seq(Args)
    BY <1>8, <1>9, FormatFacts
  <2> QED
    BY <1>1, <1>6, <1>13, <2>1 DEF FormatTypes
<1>17. Turn(<<c>>)
  BY <1>1, <1>12, <1>13, <1>15, <1>16 DEF Turn
<1> QED
  BY <1>17

LEMMA PercentTurn == FormatTypes /\ Flow /\ Percent => \E new : Turn(new)
<1> SUFFICES ASSUME FormatTypes, Flow, Percent PROVE \E new : Turn(new)
  OBVIOUS
<1>1. /\ ~in_format /\ ~longarg /\ running /\ fmt # <<>> /\ Head(fmt) = Code.percent
      /\ fmt' = Tail(fmt) /\ in_format' = TRUE
      /\ UNCHANGED <<copy, call, args, longarg, out, pos, running>>
  BY DEF Flow, Percent, Char
<1>2. PICK p0 \in Seq(Pieces) : Between(p0)
  BY <1>1 DEF Flow
<1>3. PICK p \in Pieces, qs \in Seq(Pieces) :
           /\ fmt = FmtOf(p) \o Format(qs).fmt /\ args = ArgsOf(p) \o Format(qs).args
           /\ call.text = Shown(out) \o (TextOf(p) \o Format(qs).text)
           /\ Head(fmt) = Head(FmtOf(p)) /\ Tail(fmt) = Tail(FmtOf(p)) \o Format(qs).fmt
  BY <1>1, <1>2, PiecesLeft
<1>4. p.conv # "none" /\ Tail(FmtOf(p)) = p.chars \o <<Code[p.conv]>>
  BY <1>1, <1>3, PieceStart
<1> DEFINE s == p.chars
           k == p.conv
           a == p.arg
           d == <<Code[k]>>
           f == Format(qs).fmt
<1>5. /\ s \in Chars /\ k \in Conversions /\ a \in Args /\ f \in Chars /\ Format(qs).args \in Seq(Args)
      /\ ArgsOf(p) = <<a>> /\ TextOf(p) = Promised(k, IsLong(s), a)
      /\ Sound(k, IsLong(s), a) /\ \A i \in DOMAIN s : s[i] \notin Letters
  <2>1. ArgsOf(p) = <<a>> /\ TextOf(p) = Promised(k, IsLong(s), a)
    BY <1>4 DEF ArgsOf, TextOf
  <2>2. Sound(k, IsLong(s), a) /\ \A i \in DOMAIN s : s[i] \notin Letters
    BY <1>4 DEF Pieces
  <2> QED
    BY <1>4, <2>1, <2>2, PieceFacts, FormatFacts
<1>6. d \in Chars
  BY <1>5, CodeFacts DEF Chars
<1>7. fmt' = (s \o d) \o f
  BY <1>1, <1>3, <1>4
<1>8. args' = <<a>> \o Format(qs).args /\ args' \in Seq(Args)
  <2>1. <<a>> \o Format(qs).args \in Seq(Args)
    BY <1>5, ChopOne
  <2> QED
    BY <1>1, <1>3, <1>5, <2>1
<1>9. fmt' = Chosen(s, k, f) /\ fmt' \in Chars
  <2> HIDE DEF d, f, s
  <2>1. s \in Strings /\ d \in Strings /\ f \in Strings
    BY <1>5, <1>6, CharsFacts
  <2>2. (s \o d) \o f = s \o (d \o f)
    BY <2>1, Assoc
  <2>3. d \o f \in Chars
    BY <1>5, <1>6, CharsConcat
  <2>4. s \o (d \o f) \in Chars
    BY <1>5, <2>3, CharsConcat
  <2> QED
    BY <1>7, <2>2, <2>4 DEF Chosen, d
<1>10. longarg = FALSE /\ longarg' = FALSE
  BY <1>1 DEF FormatTypes
<1>11. (longarg' \/ IsLong(s)) = IsLong(s)
  BY <1>10 DEF IsLong
<1>12. call'.text = Shown(out') \o (Promised(k, IsLong(s), a) \o Format(qs).text)
  BY <1>1, <1>3, <1>5
<1> HIDE DEF s, k, a, f, d
<1>13. Inside(qs, k, s, a)'
  BY <1>5, <1>8, <1>9, <1>11, <1>12 DEF Inside, f
<1>14. Flow'
  BY <1>1, <1>5, <1>13 DEF Flow
<1>15. FormatTypes'
  BY <1>1, <1>8, <1>9 DEF FormatTypes
<1>16. out' = out \o <<>> /\ <<>> \in Output /\ <<>> \in Chars /\ pos' = pos + Len(<<>>)
  BY <1>1, OutputFacts, ConcatEmptySeq, EmptySeq DEF FormatTypes, Output
<1>17. Turn(<<>>)
  BY <1>1, <1>14, <1>15, <1>16 DEF Turn
<1> QED
  BY <1>17

(* Inside a conversion, at its letter or before it.                        *)
LEMMA ChosenChars ==
  ASSUME NEW k \in Conversions, NEW s \in Chars, NEW f \in Chars
  PROVE  Chosen(s, k, f) \in Chars /\ Chosen(s, k, f) # <<>>
<1> DEFINE c == Code[k]
           u == <<c>> \o f
<1>1. c \in 1 .. 127
  BY CodeFacts
<1> HIDE DEF c
<1>2. u \in Chars /\ u # <<>>
  BY <1>1, ChopOne DEF Chars
<1>3. Chosen(s, k, f) = s \o u
  BY DEF Chosen, c
<1> HIDE DEF u
<1> QED
  BY <1>2, <1>3, CharsConcat, ConcatEqualIffEmpty DEF Chars

LEMMA AtLetter ==
  ASSUME NEW k \in Conversions, NEW f \in Chars
  PROVE  Head(Chosen(<<>>, k, f)) = Code[k] /\ Tail(Chosen(<<>>, k, f)) = f /\ ~ IsLong(<<>>)
<1> DEFINE c == Code[k]
           u == <<c>> \o f
<1>1. c \in 1 .. 127
  BY CodeFacts
<1> HIDE DEF c
<1>2. u \in Chars /\ Head(u) = c /\ Tail(u) = f
  BY <1>1, ChopOne DEF Chars
<1>3. Chosen(<<>>, k, f) = <<>> \o u
  BY DEF Chosen, c
<1> HIDE DEF u
<1>4. <<>> \o u = u
  BY <1>2, ConcatEmptySeq DEF Chars
<1> QED
  BY <1>2, <1>3, <1>4 DEF c, IsLong

LEMMA BeforeLetter ==
  ASSUME NEW k \in Conversions, NEW s \in Chars, NEW f \in Chars, s # <<>>,
         \A i \in DOMAIN s : s[i] \notin Letters
  PROVE  /\ Head(Chosen(s, k, f)) = Head(s) /\ Head(s) \notin Letters
         /\ Tail(Chosen(s, k, f)) = Chosen(Tail(s), k, f)
         /\ Tail(s) \in Chars /\ \A i \in DOMAIN Tail(s) : Tail(s)[i] \notin Letters
         /\ IsLong(s) <=> Head(s) = Code.l \/ IsLong(Tail(s))
<1> DEFINE u == <<Code[k]>> \o f
           v == Tail(s)
<1>1. u \in Chars /\ Chosen(s, k, f) = s \o u /\ Chosen(v, k, f) = v \o u
  <2>1. Code[k] \in 1 .. 127
    BY CodeFacts
  <2> QED
    BY <2>1, ChopOne DEF Chosen, Chars
<1> HIDE DEF u
<1>2. Head(s \o u) = Head(s) /\ Tail(s \o u) = v \o u
  BY <1>1, ChopConcat DEF Chars
<1>3. /\ v \in Chars /\ Head(s) = s[1] /\ 1 \in 1 .. Len(s)
      /\ \A i \in 1 .. Len(v) : v[i] = s[i + 1] /\ i + 1 \in 1 .. Len(s)
      /\ \A i \in 1 .. Len(s) : i # 1 => i - 1 \in 1 .. Len(v) /\ v[i - 1] = s[i]
  BY Chop DEF Chars
<1> HIDE DEF v
<1>4. DOMAIN s = 1 .. Len(s) /\ DOMAIN v = 1 .. Len(v)
  BY <1>3, LenProperties DEF Chars
<1>5. Head(s) \notin Letters /\ \A i \in DOMAIN v : v[i] \notin Letters
  BY <1>3, <1>4
<1>6. ASSUME IsLong(s), Head(s) # Code.l PROVE IsLong(v)
  <2>1. PICK i \in 1 .. Len(s) : s[i] = Code.l
    BY <1>4, <1>6 DEF IsLong
  <2>2. i # 1
    BY <1>3, <1>6, <2>1
  <2>3. i - 1 \in 1 .. Len(v) /\ v[i - 1] = Code.l
    BY <1>3, <2>1, <2>2
  <2> QED
    BY <1>4, <2>3 DEF IsLong
<1>7. ASSUME Head(s) = Code.l PROVE IsLong(s)
  BY <1>3, <1>4, <1>7 DEF IsLong
<1>8. ASSUME IsLong(v) PROVE IsLong(s)
  <2>1. PICK i \in 1 .. Len(v) : v[i] = Code.l
    BY <1>4, <1>8 DEF IsLong
  <2>2. i + 1 \in 1 .. Len(s) /\ s[i + 1] = Code.l
    BY <1>3, <2>1
  <2> QED
    BY <1>4, <2>2 DEF IsLong
<1> QED
  BY <1>1, <1>2, <1>3, <1>5, <1>6, <1>7, <1>8 DEF v

LEMMA FlagTurn == FormatTypes /\ Flow /\ (LongFlag \/ Ignored) => \E new : Turn(new)
<1> SUFFICES ASSUME FormatTypes, Flow, LongFlag \/ Ignored PROVE \E new : Turn(new)
  OBVIOUS
<1>1. /\ in_format /\ running /\ fmt # <<>> /\ Head(fmt) \notin Letters /\ fmt' = Tail(fmt)
      /\ UNCHANGED <<copy, call, args, in_format, out, pos, running>>
      /\ \/ Head(fmt) = Code.l /\ longarg' = TRUE
         \/ Head(fmt) # Code.l /\ longarg' = longarg
  <2>1. Code["l"] = Code.l
    OBVIOUS
  <2>2. CASE LongFlag
    BY <2>2, CodeFacts DEF LongFlag, Char
  <2>3. CASE Ignored
    BY <2>1, <2>3 DEF Ignored, Char, Letters
  <2> QED
    BY <2>2, <2>3
<1>2. PICK ps \in Seq(Pieces), k \in Conversions, s \in Chars, a \in Args : Inside(ps, k, s, a)
  BY <1>1 DEF Flow
<1> DEFINE f == Format(ps).fmt
           v == Tail(s)
<1>3. /\ fmt = Chosen(s, k, f) /\ args = <<a>> \o Format(ps).args
      /\ \A i \in DOMAIN s : s[i] \notin Letters
      /\ Sound(k, longarg \/ IsLong(s), a)
      /\ call.text = Shown(out) \o (Promised(k, longarg \/ IsLong(s), a) \o Format(ps).text)
  BY <1>2 DEF Inside
<1>4. f \in Chars
  BY FormatFacts
<1> HIDE DEF f
<1>5. s # <<>>
  <2>1. Code[k] \in Letters
    BY DEF Letters
  <2>2. s = <<>> => Head(fmt) = Code[k]
    BY <1>3, <1>4, AtLetter
  <2> QED
    BY <1>1, <1>3, <2>1, <2>2
<1>6. /\ Head(fmt) = Head(s) /\ fmt' = Chosen(v, k, f) /\ v \in Chars
      /\ \A i \in DOMAIN v : v[i] \notin Letters
      /\ IsLong(s) <=> Head(s) = Code.l \/ IsLong(v)
  BY <1>1, <1>3, <1>4, <1>5, BeforeLetter
<1> HIDE DEF v
<1>7. (longarg' \/ IsLong(v)) = (longarg \/ IsLong(s))
  <2>1. longarg \in BOOLEAN /\ longarg' \in BOOLEAN /\ IsLong(v) \in BOOLEAN /\ IsLong(s) \in BOOLEAN
    BY <1>1 DEF FormatTypes, IsLong
  <2> QED
    BY <1>1, <1>6, <2>1
<1>8. fmt' \in Chars
  BY <1>4, <1>6, ChosenChars
<1>9. Inside(ps, k, v, a)'
  BY <1>1, <1>3, <1>6, <1>7 DEF Inside, f
<1>10. Flow'
  BY <1>1, <1>6, <1>9 DEF Flow
<1>11. FormatTypes'
  BY <1>1, <1>8 DEF FormatTypes
<1>12. out' = out \o <<>> /\ <<>> \in Output /\ <<>> \in Chars /\ pos' = pos + Len(<<>>)
  BY <1>1, OutputFacts, ConcatEmptySeq, EmptySeq DEF FormatTypes, Output
<1>13. Turn(<<>>)
  BY <1>1, <1>10, <1>11, <1>12 DEF Turn
<1> QED
  BY <1>13

LEMMA ConvertTurn ==
  ASSUME NEW j \in Conversions, FormatTypes, Flow, Convert(j)
  PROVE  \E new : Turn(new)
<1>1. /\ in_format /\ running /\ fmt # <<>> /\ Head(fmt) = Code[j] /\ fmt' = Tail(fmt)
      /\ out' = out \o Text(j, Head(args)) /\ pos' = pos + Advance(j, Head(args))
      /\ args' = Tail(args) /\ longarg' = FALSE /\ in_format' = FALSE
      /\ UNCHANGED <<copy, call, running>>
  BY DEF Convert, Char, va_arg, va_next, NoLong
<1>2. PICK ps \in Seq(Pieces), k \in Conversions, s \in Chars, a \in Args : Inside(ps, k, s, a)
  BY <1>1 DEF Flow
<1> DEFINE f == Format(ps).fmt
<1>3. /\ fmt = Chosen(s, k, f) /\ args = <<a>> \o Format(ps).args
      /\ \A i \in DOMAIN s : s[i] \notin Letters
      /\ Sound(k, longarg \/ IsLong(s), a)
      /\ call.text = Shown(out) \o (Promised(k, longarg \/ IsLong(s), a) \o Format(ps).text)
  BY <1>2 DEF Inside
<1>4. f \in Chars /\ Format(ps).args \in Seq(Args) /\ Format(ps).text \in Chars
  BY FormatFacts
<1> HIDE DEF f
<1>5. s = <<>>
  <2>1. Code[j] \in Letters
    BY DEF Letters
  <2>2. ASSUME s # <<>> PROVE Head(fmt) \notin Letters
    <3>1. Head(Chosen(s, k, f)) = Head(s) /\ Head(s) \notin Letters
      BY <1>3, <1>4, <2>2, BeforeLetter
    <3> QED
      BY <1>3, <3>1
  <2> QED
    BY <1>1, <1>3, <2>1, <2>2
<1>6. Head(fmt) = Code[k] /\ fmt' = f /\ ~ IsLong(s)
  BY <1>1, <1>3, <1>4, <1>5, AtLetter
<1>7. k = j
  BY <1>1, <1>6, CodeFacts
<1>8. (longarg \/ IsLong(s)) = longarg
  <2>1. longarg \in BOOLEAN /\ IsLong(s) = FALSE
    BY <1>6 DEF FormatTypes, IsLong
  <2> QED
    BY <2>1
<1>9. Head(args) = a /\ args' = Format(ps).args
  BY <1>1, <1>3, <1>4, ChopOne
<1>10. Sound(k, longarg, a) /\ call.text = Shown(out) \o (Promised(k, longarg, a) \o Format(ps).text)
  BY <1>3, <1>8
<1> DEFINE new == Text(k, a)
           x   == Promised(k, longarg, a)
<1>11. /\ new \in Output /\ x \in Chars /\ Shown(new) = x
       /\ copy = "user" => new = x
       /\ copy = "kernel" => Advance(k, a) = Len(new)
       /\ Advance(k, a) \in Nat
  BY <1>10, TextFacts DEF FormatTypes
<1>12. out' = out \o new /\ pos' = pos + Advance(k, a)
  BY <1>1, <1>7, <1>9
<1> HIDE DEF new, x
<1>13. out \in Output /\ out \in Strings /\ new \in Strings /\ x \in Strings /\ Format(ps).text \in Strings
       /\ pos \in Nat
  BY <1>4, <1>11, OutputFacts, CharsFacts DEF FormatTypes
<1>14. out' \in Output
  BY <1>11, <1>12, <1>13, ConcatProperties DEF Output
<1>15. Shown(out') = Shown(out) \o x /\ Shown(out) \in Strings
  BY <1>11, <1>12, <1>13, ShownConcat
<1>16. call'.text = Shown(out') \o Format(ps).text
  <2> DEFINE o == Shown(out)
             y == Format(ps).text
  <2>1. o \in Strings /\ x \in Strings /\ y \in Strings /\ call'.text = o \o (x \o y)
    BY <1>1, <1>10, <1>13, <1>15 DEF x
  <2> HIDE DEF o, y
  <2>2. (o \o x) \o y = o \o (x \o y)
    BY <2>1, Assoc
  <2> QED
    BY <1>15, <2>1, <2>2 DEF o, y
<1>17. Flow'
  <2>1. Between(ps)'
    BY <1>6, <1>9, <1>16 DEF Between, f
  <2> QED
    BY <1>1, <2>1 DEF Flow
<1>18. FormatTypes'
  <2>1. fmt' \in Chars /\ args' \in Seq(Args)
    BY <1>4, <1>6, <1>9
  <2>2. pos' \in Nat
    BY <1>11, <1>12, <1>13
  <2> QED
    BY <1>1, <1>14, <2>1, <2>2 DEF FormatTypes
<1>19. Turn(new)
  BY <1>1, <1>11, <1>12, <1>17, <1>18 DEF Turn
<1> QED
  BY <1>19

LEMMA StepTurn == FormatTypes /\ Flow /\ Step => \E new : Turn(new)
BY PlainTurn, PercentTurn, FlagTurn, ConvertTurn DEF Step

(* At the end of the format all that was promised is printed.              *)
LEMMA EndOfFormat ==
  ASSUME FormatTypes, Flow, fmt = <<>>
  PROVE  call.text = Shown(out)
<1>1. CASE in_format
  <2>1. PICK ps \in Seq(Pieces), k \in Conversions, s \in Chars, a \in Args : Inside(ps, k, s, a)
    BY <1>1 DEF Flow
  <2>2. fmt = Chosen(s, k, Format(ps).fmt) /\ \A i \in DOMAIN s : s[i] \notin Letters
    BY <2>1 DEF Inside
  <2>3. Format(ps).fmt \in Chars
    BY FormatFacts
  <2>4. Chosen(s, k, Format(ps).fmt) # <<>>
    BY <2>2, <2>3, ChosenChars
  <2> QED
    BY <2>2, <2>4
<1>2. CASE ~in_format
  <2>1. PICK ps \in Seq(Pieces) : Between(ps)
    BY <1>2 DEF Flow
  <2>2. ps = <<>>
    BY <2>1, FormatEnd DEF Between
  <2>3. Format(ps) = [fmt |-> <<>>, args |-> <<>>, text |-> <<>>]
    BY <2>2, FormatEnd, Zenon
  <2>4. Shown(out) \in Strings
    BY OutputFacts, ShownConcat DEF FormatTypes
  <2>5. Shown(out) \o <<>> = Shown(out)
    BY <2>4, ConcatEmptySeq DEF Strings
  <2> QED
    BY <2>1, <2>3, <2>5 DEF Between
<1> QED
  BY <1>1, <1>2

-----------------------------------------------------------------------------
(* The console.                                                            *)

Buffered ==
  running /\ copy = "user" =>
    /\ tail = Len(out) /\ Len(call.text) < BUFFER
    /\ \A i \in 1 .. tail : buffer[i] = out[i]

IInv ==
  /\ TypeOK
  /\ running => Flow
  /\ ~running => call.text = Shown(out)
  /\ copy = "user" => out \in Chars
  /\ copy = "kernel" => pos = Len(out)
  /\ Buffered
  /\ WritesPromise

LEMMA Types ==
  TypeOK <=> /\ FormatTypes
             /\ buffer \in [1 .. BUFFER -> 0 .. 127]
             /\ tail \in 0 .. BUFFER /\ res \in 0 .. BUFFER
             /\ console \in Chars /\ Len(console) <= BUFFER + 1
BY DEF TypeOK, FormatTypes, Output, Chars, Args

LEMMA StartFacts ==
  ASSUME FormatInit
  PROVE  /\ FormatTypes /\ ~running /\ copy = "kernel" /\ out = <<>> /\ pos = 0
         /\ fmt = <<>> /\ args = <<>> /\ in_format = FALSE /\ longarg = FALSE
<1>1. /\ copy = "kernel" /\ fmt = <<>> /\ args = <<>> /\ out = <<>> /\ in_format = FALSE
      /\ longarg = FALSE /\ pos = 0 /\ running = FALSE
  BY DEF FormatInit
<1>2. <<>> \in Output /\ <<>> \in Chars /\ <<>> \in Seq(Args)
  BY OutputFacts, EmptySeq
<1> QED
  BY <1>1, <1>2 DEF FormatTypes

LEMMA InitHolds == Init => IInv
<1> SUFFICES ASSUME Init PROVE IInv
  OBVIOUS
<1>1. /\ FormatInit /\ buffer = [i \in 1 .. BUFFER |-> 0] /\ tail = 0 /\ console = <<>> /\ res = 0
      /\ call.text = <<>>
  BY DEF Init, FormatInit
<1>2. BUFFER \in Nat
  BY BufferAssumption
<1>3. TypeOK
  <2>1. <<>> \in Chars /\ Len(<<>>) = 0
    BY OutputFacts
  <2> QED
    BY <1>1, <1>2, <2>1, StartFacts, Types
<1>4. Shown(out) = call.text /\ pos = Len(out)
  BY <1>1, StartFacts, ShownNul
<1> QED
  BY <1>1, <1>3, <1>4, StartFacts DEF IInv, Buffered, WritesPromise

(* A call starts with all of its format ahead.                             *)
LEMMA CallStarts ==
  ASSUME NEW who \in {"kernel", "user"}, NEW ps \in Seq(Pieces), Call(who, Format(ps))
  PROVE  /\ Flow' /\ FormatTypes' /\ running' /\ ~running /\ copy' = who
         /\ out' = <<>> /\ pos' = 0 /\ call' = Format(ps)
<1>1. /\ ~running /\ copy' = who /\ call' = Format(ps) /\ args' = Format(ps).args
      /\ fmt' = Format(ps).fmt /\ out' = <<>> /\ in_format' = FALSE /\ longarg' = FALSE
      /\ pos' = 0 /\ running' = TRUE
  BY DEF Call, va_start
<1>2. /\ Format(ps).fmt \in Chars /\ Format(ps).args \in Seq(Args) /\ Format(ps).text \in Chars
      /\ <<>> \in Output
  BY FormatFacts, OutputFacts
<1>3. call'.text = Shown(out') \o Format(ps).text
  <2>1. <<>> \o Format(ps).text = Format(ps).text
    BY <1>2, ConcatEmptySeq DEF Chars
  <2> QED
    BY <1>1, <2>1, ShownNul
<1>4. Between(ps)'
  BY <1>1, <1>3 DEF Between
<1>5. Flow'
  BY <1>1, <1>4 DEF Flow
<1>6. FormatTypes'
  BY <1>1, <1>2 DEF FormatTypes
<1> QED
  BY <1>1, <1>5, <1>6

(* What is printed so far is not longer than what is promised.             *)
LEMMA TextBound == FormatTypes /\ Flow /\ out \in Chars => Len(out) <= Len(call.text) /\ Len(call.text) \in Nat
<1> SUFFICES ASSUME FormatTypes, Flow, out \in Chars
             PROVE  Len(out) <= Len(call.text) /\ Len(call.text) \in Nat
  OBVIOUS
<1>1. Shown(out) = out
  BY ShownChars
<1>2. \E x \in Chars : call.text = Shown(out) \o x
  <2>1. CASE in_format
    <3>1. PICK ps \in Seq(Pieces), k \in Conversions, s \in Chars, a \in Args : Inside(ps, k, s, a)
      BY <2>1 DEF Flow
    <3> DEFINE l == longarg \/ IsLong(s)
    <3>2. l \in BOOLEAN
      BY DEF IsLong
    <3>3. Sound(k, l, a) /\ call.text = Shown(out) \o (Promised(k, l, a) \o Format(ps).text)
      BY <3>1 DEF Inside
    <3> HIDE DEF l
    <3>4. Promised(k, l, a) \in Chars /\ Format(ps).text \in Chars
      BY <3>2, <3>3, PromisedChars, FormatFacts
    <3> QED
      BY <3>3, <3>4, CharsConcat
  <2>2. CASE ~in_format
    <3>1. PICK ps \in Seq(Pieces) : Between(ps)
      BY <2>2 DEF Flow
    <3> QED
      BY <3>1, FormatFacts DEF Between
  <2> QED
    BY <2>1, <2>2
<1>3. PICK x \in Chars : call.text = out \o x
  BY <1>1, <1>2
<1>4. Len(out \o x) = Len(out) + Len(x) /\ Len(out) \in Nat /\ Len(x) \in Nat
  BY CharsConcat
<1> QED
  BY <1>3, <1>4

LEMMA PrintkCallKeeps == IInv /\ PrintkCall => IInv'
<1> SUFFICES ASSUME IInv, PrintkCall PROVE IInv'
  OBVIOUS
<1>1. PICK ps \in KernelInputs : Call("kernel", Format(ps)) /\ UNCHANGED user_vars
  BY DEF PrintkCall, Calls
<1>2. ps \in Seq(Pieces)
  BY InputsAssumption
<1>3. /\ Flow' /\ FormatTypes' /\ running' /\ copy' = "kernel" /\ out' = <<>> /\ pos' = 0
  BY <1>1, <1>2, CallStarts
<1>4. TypeOK'
  BY <1>1, <1>3 DEF IInv, TypeOK, user_vars, FormatTypes, Output, Chars, Args
<1> QED
  BY <1>3, <1>4 DEF IInv, Buffered, WritesPromise

LEMMA PrintkStepKeeps == IInv /\ PrintkStep => IInv'
<1> SUFFICES ASSUME IInv, PrintkStep PROVE IInv'
  OBVIOUS
<1>1. FormatTypes /\ Flow /\ running /\ copy = "kernel" /\ pos = Len(out)
  <2>1. running
    BY DEF PrintkStep, Step, Plain, Percent, LongFlag, Convert, Ignored, Char
  <2> QED
    BY <2>1, Types DEF IInv, PrintkStep
<1>2. PICK new : Turn(new)
  BY <1>1, StepTurn DEF PrintkStep
<1>3. /\ Flow' /\ FormatTypes' /\ new \in Output /\ out' = out \o new /\ running' /\ copy' = "kernel"
      /\ pos' = pos + Len(new)
  BY <1>1, <1>2 DEF Turn
<1>4. pos' = Len(out')
  BY <1>1, <1>3, ConcatProperties DEF FormatTypes, Output
<1>5. TypeOK'
  BY <1>3 DEF IInv, PrintkStep, TypeOK, user_vars, FormatTypes, Output, Chars, Args
<1> QED
  BY <1>3, <1>4, <1>5 DEF IInv, Buffered, WritesPromise

LEMMA PrintkReturnKeeps == IInv /\ PrintkReturn => IInv'
<1> SUFFICES ASSUME IInv, PrintkReturn PROVE IInv'
  OBVIOUS
<1>1. /\ running /\ fmt = <<>> /\ copy = "kernel" /\ args' = <<>> /\ running' = FALSE
      /\ UNCHANGED <<copy, call, fmt, in_format, longarg, out, pos, buffer, tail, console, res>>
  BY DEF PrintkReturn, AtEnd, va_end, user_vars
<1>2. call.text = Shown(out)
  BY <1>1, EndOfFormat, Types DEF IInv
<1>3. TypeOK'
  <2>1. <<>> \in Seq([word : Long, str : Seq(1 .. 127)])
    BY EmptySeq
  <2> QED
    BY <1>1, <2>1 DEF IInv, TypeOK
<1> QED
  BY <1>1, <1>2, <1>3 DEF IInv, Buffered, WritesPromise

(* puti prints a number as it is written.                                  *)
LEMMA PutiFacts ==
  ASSUME NEW x \in Ints
  PROVE  Puti(x) = Append(Signed(x), 10) /\ Puti(x) \in Chars
<1> DEFINE h == Half(INT_BITS)
           n == IF x < 0 THEN -x ELSE x
<1>1. h \in Nat /\ h <= Top /\ Top \in Nat
  BY HalfFacts, LongFacts
<1>2. x \in Int /\ -h < x /\ x < h
  BY <1>1, InputsAssumption DEF Half
<1> HIDE DEF h
<1>3. n \in Int /\ 0 <= n /\ n < h /\ n \in Long
  BY <1>1, <1>2, LongFacts
<1>4. Wrap(n, INT_BITS) = n
  <2> HIDE DEF n
  <2>1. -h <= n /\ n < h
    BY <1>1, <1>3
  <2> QED
    BY <1>3, <2>1, WrapFacts DEF h
<1> DEFINE s == DecChar[n]
           e == Decimal(n)
<1>5. /\ e \in Chars /\ s \in Strings
      /\ n = 0 => s = <<>> /\ e = <<Zero>>
      /\ n > 0 => e = Reverse(s)
  <2> HIDE DEF n
  <2> QED
    BY <1>3, DecimalFacts
<1>6. Puti(x) = (IF x = 0 THEN <<Zero>> ELSE <<>>) \o (IF x < 0 THEN <<Minus>> ELSE <<>>)
                \o Reverse(s) \o <<10>>
  BY <1>4 DEF Puti
<1>7. Signed(x) = IF x < 0 THEN <<Minus>> \o e ELSE e
  BY DEF Signed
<1>8. Append(Signed(x), 10) = Signed(x) \o <<10>> /\ Signed(x) \o <<10>> \in Chars
  <2> HIDE DEF e
  <2>1. Signed(x) \in Chars
    BY <1>5, <1>7, OutputFacts, CharsConcat
  <2>2. <<10>> \in Chars /\ 10 \in 1 .. 127
    BY DEF Chars
  <2> QED
    BY <2>1, <2>2, CharsConcat, AppendIsConcat DEF Chars
<1>9. CASE x = 0
  <2>1. s = <<>> /\ e = <<Zero>>
    BY <1>5, <1>9
  <2> HIDE DEF s, e
  <2>2. Reverse(s) = <<>>
    BY <2>1 DEF Reverse
  <2>3. Puti(x) = <<Zero>> \o <<>> \o <<>> \o <<10>> /\ Signed(x) = <<Zero>>
    BY <1>6, <1>7, <1>9, <2>1, <2>2
  <2>4. <<Zero>> \o <<>> = <<Zero>>
    OBVIOUS
  <2> QED
    BY <1>8, <2>3, <2>4
<1>10. CASE x < 0
  <2>1. e = Reverse(s) /\ e \in Chars
    BY <1>2, <1>5, <1>10
  <2> HIDE DEF s, e
  <2>0. x # 0
    BY <1>2, <1>10
  <2>2. Puti(x) = <<>> \o <<Minus>> \o e \o <<10>>
    BY <1>6, <1>10, <2>0, <2>1, Zenon
  <2>4. Signed(x) = <<Minus>> \o e
    BY <1>7, <1>10
  <2>3. <<>> \o <<Minus>> = <<Minus>>
    OBVIOUS
  <2> QED
    BY <1>8, <2>2, <2>3, <2>4
<1>11. CASE x > 0
  <2>1. e = Reverse(s) /\ e \in Chars
    BY <1>2, <1>5, <1>11
  <2> HIDE DEF s, e
  <2>2. Puti(x) = <<>> \o <<>> \o e \o <<10>> /\ Signed(x) = e
    BY <1>2, <1>6, <1>7, <1>11, <2>1
  <2>3. <<>> \o <<>> = <<>> /\ <<>> \o e = e
    BY <2>1, ConcatEmptySeq DEF Chars
  <2> QED
    BY <1>8, <2>2, <2>3
<1> QED
  BY <1>2, <1>9, <1>10, <1>11

LEMMA DirectKeeps ==
  ASSUME IInv, NEW s \in Chars, Direct(s, s)
  PROVE  IInv'
<1>1. /\ FormatInit /\ copy' = "kernel" /\ out' = s /\ pos' = Len(s) /\ call'.text = s
      /\ UNCHANGED <<fmt, args, in_format, longarg, running, buffer, tail, console, res>>
  BY DEF Direct, user_vars
<1>2. s \in Output /\ Len(s) \in Nat /\ Shown(s) = s
  BY OutputFacts, LenProperties, ShownChars DEF Chars
<1>3. TypeOK'
  BY <1>1, <1>2 DEF IInv, TypeOK, Output
<1> QED
  BY <1>1, <1>2, <1>3, StartFacts DEF IInv, Buffered, WritesPromise

LEMMA PutsKeeps == IInv /\ (PutsCall \/ PutiCall) => IInv'
<1>1. ASSUME IInv, PutsCall PROVE IInv'
  <2>1. PICK s \in Texts : Direct(s, s)
    BY <1>1 DEF PutsCall
  <2>2. s \in Chars
    BY InputsAssumption DEF Chars
  <2> QED
    BY <1>1, <2>1, <2>2, DirectKeeps
<1>2. ASSUME IInv, PutiCall PROVE IInv'
  <2>1. PICK x \in Ints : Direct(Puti(x), Append(Signed(x), 10))
    BY <1>2 DEF PutiCall
  <2>2. Puti(x) = Append(Signed(x), 10) /\ Puti(x) \in Chars
    BY PutiFacts
  <2> QED
    BY <1>2, <2>1, <2>2, DirectKeeps
<1> QED
  BY <1>1, <1>2

LEMMA PrintfKeeps == IInv /\ Printf => IInv'
<1> SUFFICES ASSUME IInv, Printf PROVE IInv'
  OBVIOUS
<1>1. PICK ps \in UserInputs : /\ Len(Format(ps).text) < BUFFER /\ Call("user", Format(ps))
                               /\ tail' = 0 /\ UNCHANGED <<buffer, console, res>>
  BY DEF Printf, Fitting
<1>2. ps \in Seq(Pieces)
  BY InputsAssumption
<1>3. /\ Flow' /\ FormatTypes' /\ running' /\ copy' = "user" /\ out' = <<>> /\ call' = Format(ps)
  BY <1>1, <1>2, CallStarts
<1>4. <<>> \in Chars /\ Len(<<>>) = 0 /\ BUFFER \in Nat
  BY OutputFacts, BufferAssumption
<1>5. TypeOK'
  BY <1>1, <1>3, <1>4 DEF IInv, TypeOK, FormatTypes, Output, Chars, Args
<1>6. Buffered'
  BY <1>1, <1>3, <1>4 DEF Buffered
<1> QED
  BY <1>3, <1>4, <1>5, <1>6 DEF IInv, WritesPromise

(* putc leaves the buffer what was printed.                                *)
LEMMA PutcFacts ==
  ASSUME NEW new \in Output, Putc(new), tail \in Nat, tail + Len(new) <= BUFFER,
         buffer \in [1 .. BUFFER -> 0 .. 127]
  PROVE  /\ tail' = tail + Len(new) /\ tail' \in 0 .. BUFFER /\ tail' \in Nat
         /\ buffer' \in [1 .. BUFFER -> 0 .. 127]
         /\ \A i \in 1 .. tail : buffer'[i] = buffer[i]
         /\ \A i \in 1 .. Len(new) : buffer'[tail + i] = new[i]
<1>1. BUFFER \in Nat /\ Len(new) \in Nat /\ \A i \in 1 .. Len(new) : new[i] \in 0 .. 127
  BY BufferAssumption, LenProperties, ElementOfSeq DEF Output
<1>2. /\ tail' = tail + Len(new)
      /\ buffer' = [i \in 1 .. BUFFER |->
                      IF i \in tail + 1 .. tail + Len(new) THEN new[i - tail] ELSE buffer[i]]
  BY DEF Putc
<1>3. tail' \in 0 .. BUFFER /\ tail' \in Nat
  BY <1>1, <1>2
<1>4. ASSUME NEW i \in 1 .. BUFFER, i \in tail + 1 .. tail + Len(new)
      PROVE  i - tail \in 1 .. Len(new)
  BY <1>1, <1>4
<1>5. buffer' \in [1 .. BUFFER -> 0 .. 127]
  BY <1>1, <1>2, <1>4
<1>6. ASSUME NEW i \in 1 .. tail PROVE buffer'[i] = buffer[i]
  <2>1. i \in 1 .. BUFFER /\ ~(i \in tail + 1 .. tail + Len(new))
    BY <1>1
  <2> QED
    BY <1>2, <2>1
<1>7. ASSUME NEW i \in 1 .. Len(new) PROVE buffer'[tail + i] = new[i]
  <2>1. tail + i \in 1 .. BUFFER /\ tail + i \in tail + 1 .. tail + Len(new) /\ (tail + i) - tail = i
    BY <1>1
  <2> QED
    BY <1>2, <2>1
<1> QED
  BY <1>2, <1>3, <1>5, <1>6, <1>7

LEMMA PrintfStepKeeps == IInv /\ PrintfStep => IInv'
<1> SUFFICES ASSUME IInv, PrintfStep PROVE IInv'
  OBVIOUS
<1>1. /\ FormatTypes /\ Flow /\ running /\ copy = "user" /\ out \in Chars
      /\ tail = Len(out) /\ \A i \in 1 .. tail : buffer[i] = out[i]
      /\ Len(call.text) < BUFFER /\ buffer \in [1 .. BUFFER -> 0 .. 127]
  <2>1. running
    BY DEF PrintfStep, Step, Plain, Percent, LongFlag, Convert, Ignored, Char
  <2> QED
    BY <2>1, Types DEF IInv, Buffered, PrintfStep
<1>2. PICK new : Turn(new)
  BY <1>1, StepTurn DEF PrintfStep
<1>3. /\ Flow' /\ FormatTypes' /\ new \in Output /\ new \in Chars /\ out' = out \o new /\ running'
      /\ copy' = "user" /\ call' = call
  BY <1>1, <1>2 DEF Turn
<1>4. /\ out' \in Chars /\ Len(out') = Len(out) + Len(new) /\ Len(out) \in Nat /\ Len(new) \in Nat
      /\ \A i \in 1 .. Len(out) + Len(new) : out'[i] = IF i <= Len(out) THEN out[i] ELSE new[i - Len(out)]
  BY <1>1, <1>3, CharsConcat, ConcatProperties DEF Chars
<1>5. Len(out') <= Len(call.text) /\ Len(call.text) \in Nat
  <2>1. (FormatTypes /\ Flow /\ out \in Chars => Len(out) <= Len(call.text) /\ Len(call.text) \in Nat)'
    BY TextBound, PTL
  <2> QED
    BY <1>3, <1>4, <2>1
<1>6. SubSeq(out', Len(out) + 1, Len(out')) = new
  <2> DEFINE x == SubSeq(out', Len(out) + 1, Len(out'))
  <2>1. \A i \in Len(out) + 1 .. Len(out') : out'[i] \in 1 .. 127
    <3> DEFINE y == out'
    <3>1. y \in Seq(1 .. 127) /\ \A i \in Len(out) + 1 .. Len(y) : i \in 1 .. Len(y)
      BY <1>4 DEF Chars
    <3> HIDE DEF y
    <3>2. \A i \in 1 .. Len(y) : y[i] \in 1 .. 127
      BY <3>1, ElementOfSeq
    <3> QED
      BY <3>1, <3>2 DEF y
  <2>2. /\ x \in Chars
        /\ Len(x) = IF Len(out) + 1 <= Len(out') THEN Len(out') - (Len(out) + 1) + 1 ELSE 0
        /\ \A i \in 1 .. Len(out') - (Len(out) + 1) + 1 : x[i] = out'[(Len(out) + 1) + i - 1]
    <3>1. Len(out) + 1 \in Int /\ Len(out') \in Int
      BY <1>4
    <3> QED
      BY <2>1, <3>1, SubSeqProperties DEF Chars
  <2> HIDE DEF x
  <2>3. Len(x) = Len(new)
    BY <1>4, <2>2
  <2>4. ASSUME NEW i \in 1 .. Len(x) PROVE x[i] = new[i]
    <3>1. /\ i \in 1 .. Len(out') - (Len(out) + 1) + 1 /\ (Len(out) + 1) + i - 1 = Len(out) + i
          /\ Len(out) + i \in 1 .. Len(out) + Len(new) /\ ~(Len(out) + i <= Len(out))
          /\ (Len(out) + i) - Len(out) = i
      BY <1>4, <2>3
    <3> QED
      BY <1>4, <2>2, <3>1
  <2> QED
    BY <1>3, <2>2, <2>3, <2>4, SeqEqual DEF x, Chars
<1>7. Putc(new) /\ console' = console /\ res' = res
  BY <1>6 DEF PrintfStep
<1>8. BUFFER \in Nat /\ tail \in Nat /\ tail + Len(new) <= BUFFER
  BY <1>1, <1>4, <1>5, BufferAssumption
<1>9. /\ tail' = tail + Len(new) /\ tail' \in 0 .. BUFFER
      /\ buffer' \in [1 .. BUFFER -> 0 .. 127]
      /\ \A i \in 1 .. tail : buffer'[i] = buffer[i]
      /\ \A i \in 1 .. Len(new) : buffer'[tail + i] = new[i]
  BY <1>1, <1>3, <1>7, <1>8, PutcFacts
<1>10. ASSUME NEW i \in 1 .. tail' PROVE buffer'[i] = out'[i]
  <2>1. i \in 1 .. Len(out) + Len(new)
    BY <1>1, <1>4, <1>9
  <2>2. CASE i <= Len(out)
    <3>1. i \in 1 .. tail
      BY <1>1, <1>4, <2>1, <2>2
    <3> QED
      BY <1>1, <1>4, <1>9, <2>1, <2>2, <3>1
  <2>3. CASE ~(i <= Len(out))
    <3> DEFINE j == i - Len(out)
    <3>1. j \in 1 .. Len(new) /\ tail + j = i
      BY <1>1, <1>4, <2>1, <2>3
    <3>2. out'[i] = new[j]
      BY <1>4, <2>1, <2>3
    <3> HIDE DEF j
    <3>3. buffer'[tail + j] = new[j]
      BY <1>9, <3>1
    <3> QED
      BY <3>1, <3>2, <3>3
  <2> QED
    BY <2>2, <2>3
<1>11. tail' = Len(out') /\ Len(call'.text) < BUFFER
  BY <1>1, <1>3, <1>4, <1>9
<1>12. TypeOK'
  BY <1>3, <1>7, <1>9 DEF IInv, TypeOK, FormatTypes, Output, Chars, Args
<1>13. Buffered'
  BY <1>10, <1>11 DEF Buffered
<1> QED
  BY <1>3, <1>4, <1>12, <1>13 DEF IInv, WritesPromise

LEMMA WriteKeeps == IInv /\ Write => IInv'
<1> SUFFICES ASSUME IInv, Write PROVE IInv'
  OBVIOUS
<1>1. /\ running /\ fmt = <<>> /\ copy = "user" /\ Putc(<<NUL>>) /\ SysWrite(STDOUT, buffer', tail')
      /\ args' = <<>> /\ running' = FALSE /\ UNCHANGED <<copy, call, fmt, in_format, longarg, out, pos>>
  BY DEF Write, AtEnd, va_end
<1>2. /\ FormatTypes /\ Flow /\ out \in Chars
      /\ tail = Len(out) /\ \A i \in 1 .. tail : buffer[i] = out[i]
      /\ Len(call.text) < BUFFER /\ buffer \in [1 .. BUFFER -> 0 .. 127]
  BY <1>1, Types DEF IInv, Buffered
<1>3. call.text = out
  BY <1>1, <1>2, EndOfFormat, ShownChars
<1> DEFINE n == Len(out)
<1>4. n \in Nat /\ BUFFER \in Nat /\ n + 1 <= BUFFER
  BY <1>2, <1>3, LenProperties, BufferAssumption DEF Chars
<1>5. /\ tail' = n + 1 /\ tail' \in 0 .. BUFFER
      /\ buffer' \in [1 .. BUFFER -> 0 .. 127]
      /\ \A i \in 1 .. n : buffer'[i] = out[i]
      /\ buffer'[n + 1] = NUL
  <2>1. <<NUL>> \in Output /\ Len(<<NUL>>) = 1 /\ <<NUL>>[1] = NUL
    BY OutputFacts
  <2> DEFINE new == <<NUL>>
  <2> HIDE DEF new
  <2>2. /\ tail' = tail + Len(new) /\ tail' \in 0 .. BUFFER
        /\ buffer' \in [1 .. BUFFER -> 0 .. 127]
        /\ \A i \in 1 .. tail : buffer'[i] = buffer[i]
        /\ \A i \in 1 .. Len(new) : buffer'[tail + i] = new[i]
    BY <1>1, <1>2, <1>4, <2>1, PutcFacts DEF new
  <2>3. Len(new) = 1 /\ new[1] = NUL /\ 1 \in 1 .. 1
    BY <2>1 DEF new
  <2> QED
    BY <1>2, <2>2, <2>3
<1>6. \A i \in 1 .. n : out[i] \in 1 .. 127 /\ out[i] # NUL
  BY <1>2, ElementOfSeq, CharsFacts DEF Chars
<1> HIDE DEF n
<1> DEFINE I == {i \in 1 .. tail' : buffer'[i] = NUL}
<1>7. I = {n + 1}
  BY <1>4, <1>5, <1>6
<1>8. I # {} /\ Min(I) = n + 1
  <2>1. Min({n + 1}) = n + 1
    BY <1>4 DEF Min
  <2> QED
    BY <1>7, <2>1
<1>9. console' = <<36, 32>> \o SubSeq(buffer', 1, n) /\ res' = n
  <2>1. SelectInSubSeq(buffer', 1, tail', LAMBDA ch : ch = NUL) = n + 1
    BY <1>8 DEF SelectInSubSeq
  <2>2. n + 1 # 0 /\ (n + 1) - 1 = n
    BY <1>4
  <2> QED
    BY <1>1, <2>1, <2>2 DEF SysWrite, STDOUT
<1>10. SubSeq(buffer', 1, n) = out
  <2> DEFINE x == SubSeq(buffer', 1, n)
  <2>1. \A i \in 1 .. n : buffer'[i] \in 1 .. 127
    BY <1>5, <1>6
  <2>2. /\ x \in Chars /\ Len(x) = IF 1 <= n THEN n - 1 + 1 ELSE 0
        /\ \A i \in 1 .. n - 1 + 1 : x[i] = buffer'[1 + i - 1]
    <3>1. 1 \in Int /\ n \in Int
      BY <1>4
    <3> QED
      BY <2>1, <3>1, SubSeqProperties DEF Chars
  <2> HIDE DEF x
  <2>3. Len(x) = n
    BY <1>4, <2>2
  <2>4. ASSUME NEW i \in 1 .. n PROVE x[i] = out[i]
    <3>1. i \in 1 .. n - 1 + 1 /\ 1 + i - 1 = i
      BY <1>4
    <3> QED
      BY <1>5, <2>2, <3>1
  <2> QED
    BY <1>2, <2>2, <2>3, <2>4, SeqEqual DEF x, Chars, n
<1>11. console' = <<36, 32>> \o out /\ console' \in Chars /\ Len(console') = n + 2
  <2>1. <<36, 32>> \in Chars /\ Len(<<36, 32>>) = 2
    BY DEF Chars
  <2> DEFINE w == <<36, 32>>
  <2>2. w \in Chars /\ Len(w) = 2 /\ console' = w \o out
    BY <1>9, <1>10, <2>1
  <2> HIDE DEF w
  <2>3. w \o out \in Chars /\ Len(w \o out) = 2 + Len(out)
    BY <1>2, <2>2, CharsConcat
  <2> QED
    BY <1>4, <2>2, <2>3 DEF w, n
<1>12. TypeOK'
  <2>1. <<>> \in Seq(Args)
    BY EmptySeq
  <2>2. res' \in 0 .. BUFFER /\ Len(console') <= BUFFER + 1
    BY <1>4, <1>9, <1>11
  <2> QED
    BY <1>1, <1>5, <1>11, <2>1, <2>2 DEF IInv, TypeOK, Chars, Args
<1>13. call'.text = Shown(out') /\ WritesPromise'
  BY <1>1, <1>2, <1>3, <1>9, <1>11, ShownChars DEF WritesPromise, n
<1> QED
  BY <1>1, <1>2, <1>12, <1>13 DEF IInv, Buffered

LEMMA NextHolds == IInv /\ [Next]_vars => IInv'
<1> SUFFICES ASSUME IInv, [Next]_vars PROVE IInv'
  OBVIOUS
<1>1. CASE PrintkCall
  BY <1>1, PrintkCallKeeps
<1>2. CASE PrintkStep
  BY <1>2, PrintkStepKeeps
<1>3. CASE PrintkReturn
  BY <1>3, PrintkReturnKeeps
<1>4. CASE PutsCall \/ PutiCall
  BY <1>4, PutsKeeps
<1>5. CASE Printf
  BY <1>5, PrintfKeeps
<1>6. CASE PrintfStep
  BY <1>6, PrintfStepKeeps
<1>7. CASE Write
  BY <1>7, WriteKeeps
<1>8. CASE UNCHANGED vars
  <2> USE <1>8 DEF vars, format_vars, user_vars
  <2>1. TypeOK'
    BY DEF IInv, TypeOK
  <2>2. (running => Flow)'
    BY DEF IInv, Flow, Between, Inside
  <2>3. /\ (~running => call.text = Shown(out))'
        /\ (copy = "user" => out \in Chars)'
        /\ (copy = "kernel" => pos = Len(out))'
    BY DEF IInv
  <2>4. Buffered'
    BY DEF IInv, Buffered
  <2>5. WritesPromise'
    BY DEF IInv, WritesPromise
  <2> QED
    BY <2>1, <2>2, <2>3, <2>4, <2>5 DEF IInv
<1> QED
  BY <1>1, <1>2, <1>3, <1>4, <1>5, <1>6, <1>7, <1>8 DEF Next

LEMMA ConsoleInvariant == Spec => []IInv
BY InitHolds, NextHolds, PTL DEF Spec

(* The firmware shows what putch was given.                                *)
LEMMA TerminalShows == out \in Output => Terminal = out
<1> SUFFICES ASSUME out \in Output PROVE Terminal = out
  OBVIOUS
<1>1. out = [i \in DOMAIN out |-> out[i]]
  BY LenProperties DEF Output
<1>2. \A i \in DOMAIN out : (IF putc(out[i]).a7 = SBI_PUTCHAR THEN putc(out[i]).a0 ELSE NUL) = out[i]
  BY DEF putc, sbi_ecall
<1>3. Terminal = [i \in DOMAIN out |-> out[i]]
  BY <1>2 DEF Terminal
<1> QED
  BY <1>1, <1>3

(* TypeOK of Console.tla: for every size of an int, a long and the buffer, *)
(* and every call whose arguments fit its format, printk's and printf's    *)
(* counts never fall below 0, tail stays in the buffer, and no NUL reaches *)
(* the console through write.                                              *)
THEOREM ConsoleTypeCorrect == Spec => []TypeOK
<1>1. IInv => TypeOK
  BY DEF IInv
<1> QED
  BY <1>1, ConsoleInvariant, PTL

(* PrintsPromise of Console.tla, of printk, puts, puti and printf: every   *)
(* call, with any number of literals, conversions and flags in its format, *)
(* prints exactly the text they promise, and printk counts what it sent.   *)
THEOREM PrintsAsPromised == Spec => []PrintsPromise
<1>1. IInv => PrintsPromise
  <2> SUFFICES ASSUME IInv PROVE PrintsPromise
    OBVIOUS
  <2>1. out \in Output /\ copy \in {"kernel", "user"}
    BY DEF IInv, TypeOK, Output
  <2>2. Terminal = out
    BY <2>1, TerminalShows
  <2>3. ~running => call.text = Shown(out)
    BY DEF IInv
  <2>4. copy = "kernel" => pos = Len(out)
    BY DEF IInv
  <2> QED
    BY <2>2, <2>3, <2>4 DEF PrintsPromise
<1> QED
  BY <1>1, ConsoleInvariant, PTL

(* WritesPromise of Console.tla: whatever an earlier call left in buffer,  *)
(* a write shows the text of its own printf, whole, and returns its length.*)
THEOREM WritesAsPromised == Spec => []WritesPromise
<1>1. IInv => WritesPromise
  BY DEF IInv
<1> QED
  BY <1>1, ConsoleInvariant, PTL

-----------------------------------------------------------------------------
(* rand.                                                                   *)

USE RandAssumption

INT_MAX == 2147483647
Ints32  == {x \in Int : INT_MIN <= x /\ x <= INT_MAX}
Seeds   == {x \in Int : 0 <= x /\ x < INT_MAX}

-----------------------------------------------------------------------------
(* C's arithmetic.                                                         *)

(* Lehmer(x) is what rand computes, (16807LL * x) % 2147483647; it fits an *)
(* int and is never negative, so that rand never corrects it.              *)
THEOREM LehmerIsRemainder ==
  ASSUME NEW x \in Seeds
  PROVE  /\ Lehmer(x) = (16807 * x) % 2147483647
         /\ Lehmer(x) \in Seeds
<1> DEFINE q == x \div 127773
           m == x % 127773
           y == 16807 * m - 2836 * q
<1>1. x \in Int /\ 0 <= x /\ x < 2147483647
  BY SMT DEF Seeds, INT_MAX
<1>2. x = 127773 * q + m /\ m \in Int /\ 0 <= m /\ m < 127773 /\ q \in Int
  BY <1>1, SMT
<1>3. Lehmer(x) = IF y < 0 THEN y + 2147483647 ELSE y
  BY SMT DEF Lehmer
<1> HIDE DEF q, m
<1>4. 0 <= q /\ q <= 16807
  BY <1>1, <1>2, SMT
<1>5. y \in Int /\ -47664652 <= y /\ y <= 2147464004
  BY <1>2, <1>4, SMT
<1>6. 16807 * x = 2147483647 * q + y
  BY <1>1, <1>2, SMT
<1> HIDE DEF y
<1>7. Lehmer(x) \in Seeds
  BY <1>3, <1>5, SMT DEF Seeds, INT_MAX
<1>8. (16807 * x) % 2147483647 = IF y < 0 THEN y + 2147483647 ELSE y
  BY <1>2, <1>5, <1>6, SMT
<1> QED
  BY <1>3, <1>7, <1>8, SMT

(* Add32 is the int that the sum of two ints wraps to.                     *)
THEOREM Add32Wraps ==
  ASSUME NEW a \in Ints32, NEW b \in Ints32
  PROVE  /\ Add32(a, b) \in Ints32
         /\ (Add32(a, b) - (a + b)) % 4294967296 = 0
BY SMT DEF Add32, Ints32, INT_MIN, INT_MAX

LEMMA SeedsAreInts ==
  ASSUME NEW x \in Seeds
  PROVE  x \in Ints32
BY SMT DEF Seeds, Ints32, INT_MIN, INT_MAX

(* ModTen is the remainder of the uint64 that an int is converted to.      *)
THEOREM ModTenUnsigned ==
  ASSUME NEW x \in Ints32
  PROVE  /\ ModTen(x) = (IF x < 0 THEN 18446744073709551616 + x ELSE x) % 10
         /\ ModTen(x) \in 0 .. 9
BY SMT DEF ModTen, Ints32, INT_MIN, INT_MAX

-----------------------------------------------------------------------------
(* The invariant.                                                          *)

(* The entries 0 .. n - 1 are written.                                     *)
Prefix(n) ==
  /\ n \in 0 .. WARMUP + ROUND
  /\ r \in [0 .. n - 1 -> Ints32]
  /\ IF filled < WARMUP THEN n = filled ELSE n >= WARMUP + t

Sums == \A i \in DOMAIN r : i >= 34 => r[i] = Add32(r[i - 31], r[i - 3])

RandInv ==
  /\ filled \in 0 .. WARMUP /\ t \in 0 .. ROUND
  /\ t > 0 => filled = WARMUP
  /\ \E n \in Nat : Prefix(n)
  /\ Sums
  /\ \A i \in DOMAIN r : i < 34 => r[i] \in Seeds
  /\ ResultInRange

LEMMA InitRand == RandInit => RandInv
<1> SUFFICES ASSUME RandInit PROVE RandInv
  OBVIOUS
<1>1. r = <<>> /\ t = 0 /\ filled = 0 /\ drawn = 0
  BY DEF RandInit
<1>2. DOMAIN r = {} /\ r \in [0 .. 0 - 1 -> Ints32]
  BY <1>1
<1>3. Prefix(0)
  BY <1>1, <1>2 DEF Prefix
<1> QED
  BY <1>1, <1>2, <1>3 DEF RandInv, Sums, ResultInRange

(* The table with entry k written.                                         *)
LEMMA EntryWritten ==
  ASSUME NEW k, NEW x \in Ints32, Set(k, x),
         \A i \in DOMAIN r : r[i] \in Ints32,
         k \in DOMAIN r => x = r[k]
  PROVE  /\ r' \in [DOMAIN r \cup {k} -> Ints32]
         /\ r'[k] = x /\ \A i \in DOMAIN r : r'[i] = r[i]
         /\ DOMAIN r' = DOMAIN r \cup {k}
<1>1. r' = [i \in DOMAIN r \cup {k} |-> IF i = k THEN x ELSE r[i]]
  BY DEF Set
<1>2. \A i \in DOMAIN r \cup {k} : (IF i = k THEN x ELSE r[i]) \in Ints32
  OBVIOUS
<1> QED
  BY <1>1, <1>2

LEMMA SumsKept ==
  ASSUME Sums, NEW n \in Nat, DOMAIN r = 0 .. n - 1, NEW k \in Nat, k <= n,
         DOMAIN r' = DOMAIN r \cup {k}, \A i \in DOMAIN r : r'[i] = r[i],
         k >= 34 => r'[k] = Add32(r[k - 31], r[k - 3])
  PROVE  Sums'
<1> SUFFICES ASSUME NEW i \in DOMAIN r', i >= 34
             PROVE  r'[i] = Add32(r'[i - 31], r'[i - 3])
  BY DEF Sums, Add32
<1>1. i \in Nat /\ i - 31 \in DOMAIN r /\ i - 3 \in DOMAIN r
  OBVIOUS
<1>2. r'[i - 31] = r[i - 31] /\ r'[i - 3] = r[i - 3]
  BY <1>1
<1>3. r'[i] = Add32(r[i - 31], r[i - 3])
  <2>1. CASE i = k
    BY <2>1
  <2>2. CASE i # k
    BY <2>2 DEF Sums
  <2> QED
    BY <2>1, <2>2
<1> QED
  BY <1>2, <1>3

(* Both loops of the first call, and rand.                                 *)
LEMMA FillInv == ASSUME RandInv, Fill PROVE RandInv'
<1>1. /\ filled \in Nat /\ filled < WARMUP /\ t = 0
      /\ filled' = filled + 1 /\ t' = 0 /\ drawn' = drawn
  BY DEF RandInv, Fill
<1>2. Prefix(filled)
  BY <1>1 DEF RandInv, Prefix
<1>3. r \in [0 .. filled - 1 -> Ints32] /\ DOMAIN r = 0 .. filled - 1
  BY <1>2 DEF Prefix
<1> DEFINE x == IF filled = 0 THEN SEED
                ELSE IF filled < 31 THEN Lehmer(r[filled - 1])
                ELSE IF filled < 34 THEN r[filled - 31]
                ELSE Add32(r[filled - 31], r[filled - 3])
<1>4. Set(filled, x)
  BY DEF Fill
<1>5. ASSUME filled < 34 PROVE x \in Seeds
  <2>1. CASE filled = 0
    BY <2>1 DEF SEED, Seeds, INT_MAX
  <2>2. CASE filled # 0 /\ filled < 31
    <3>1. filled - 1 \in DOMAIN r
      BY <1>1, <1>3, <2>2
    <3>2. r[filled - 1] \in Seeds
      BY <1>1, <2>2, <3>1 DEF RandInv
    <3> QED
      BY <2>2, <3>2, LehmerIsRemainder
  <2>3. CASE filled >= 31
    <3>1. filled - 31 \in DOMAIN r
      BY <1>1, <1>3, <2>3
    <3>2. r[filled - 31] \in Seeds
      BY <1>1, <1>5, <3>1 DEF RandInv
    <3> QED
      BY <1>1, <1>5, <2>3, <3>2
  <2> QED
    BY <1>1, <2>1, <2>2, <2>3
<1>6. x \in Ints32
  <2>1. CASE filled < 34
    BY <1>5, <2>1, SeedsAreInts
  <2>2. CASE filled >= 34
    <3>1. filled - 31 \in DOMAIN r /\ filled - 3 \in DOMAIN r
      BY <1>1, <1>3, <2>2
    <3>2. x = Add32(r[filled - 31], r[filled - 3])
      BY <1>1, <2>2
    <3> QED
      BY <1>3, <3>1, <3>2, Add32Wraps
  <2> QED
    BY <1>1, <2>1, <2>2
<1>7. filled >= 34 => x = Add32(r[filled - 31], r[filled - 3])
  BY <1>1
<1> HIDE DEF x
<1>8. /\ r' \in [DOMAIN r \cup {filled} -> Ints32]
      /\ r'[filled] = x /\ \A i \in DOMAIN r : r'[i] = r[i]
      /\ DOMAIN r' = DOMAIN r \cup {filled}
  <2>1. filled \notin DOMAIN r /\ \A i \in DOMAIN r : r[i] \in Ints32
    BY <1>1, <1>3
  <2> QED
    BY <1>4, <1>6, <2>1, EntryWritten
<1>9. Prefix(filled)'
  <2>1. filled' \in 0 .. WARMUP + ROUND
    BY <1>1
  <2>2. t' = 0 /\ filled' <= WARMUP
    BY <1>1
  <2>3. DOMAIN r \cup {filled} = 0 .. filled' - 1
    BY <1>1, <1>3
  <2>4. r' \in [0 .. filled' - 1 -> Ints32]
    BY <1>8, <2>3
  <2>5. ~ (filled' < WARMUP) => filled' >= WARMUP + t'
    BY <2>1, <2>2
  <2> QED
    BY <2>1, <2>4, <2>5 DEF Prefix
<1>10. Sums'
  <2>1. Sums
    BY DEF RandInv
  <2>2. filled >= 34 => r'[filled] = Add32(r[filled - 31], r[filled - 3])
    BY <1>7, <1>8
  <2> QED
    BY <1>1, <1>3, <1>8, <2>1, <2>2, SumsKept
<1>11. \A i \in DOMAIN r' : i < 34 => r'[i] \in Seeds
  BY <1>3, <1>5, <1>8 DEF RandInv
<1> QED
  BY <1>1, <1>9, <1>10, <1>11 DEF RandInv, ResultInRange

LEMMA FillKeeps ==
  ASSUME RandInv, Fill
  PROVE  \A i \in DOMAIN r : i < SIZE /\ r'[i] = r[i]
<1>1. PICK n \in Nat : Prefix(n)
  BY DEF RandInv
<1>2. DOMAIN r = 0 .. filled - 1 /\ filled < WARMUP /\ filled \in Nat
  BY <1>1 DEF Prefix, Fill, RandInv
<1> QED
  BY <1>2 DEF Fill, Set

(* rand writes entry i + WARMUP, which is the next one in the first round; *)
(* later it holds what is written.                                         *)
LEMMA randWrites ==
  ASSUME RandInv, rand
  PROVE  \E n \in Nat, k \in Nat :
           /\ Prefix(n) /\ k = Wrapped + WARMUP /\ k <= n
           /\ k < WARMUP + ROUND /\ Wrapped \in 0 .. ROUND - 1
           /\ Draw(Wrapped) \in Ints32 /\ Draw(Wrapped) = Add32(r[k - 31], r[k - 3])
           /\ k = n \/ Draw(Wrapped) = r[k]
<1>1. PICK n \in Nat : Prefix(n)
  BY DEF RandInv
<1>2. filled = WARMUP /\ t \in 0 .. ROUND /\ n >= WARMUP + t /\ n <= WARMUP + ROUND
  BY <1>1 DEF RandInv, rand, Prefix
<1> DEFINE w == Wrapped
           k == w + WARMUP
<1>3. w \in 0 .. ROUND - 1 /\ w <= t
  BY <1>2 DEF Wrapped
<1> HIDE DEF w
<1>4. k \in Nat /\ k <= n /\ k < WARMUP + ROUND /\ k >= 34
  BY <1>2, <1>3
<1>5. r \in [0 .. n - 1 -> Ints32]
  BY <1>1 DEF Prefix
<1>6. k - 31 \in 0 .. n - 1 /\ k - 3 \in 0 .. n - 1
  BY <1>1, <1>4
<1>7. Draw(w) = Add32(r[k - 31], r[k - 3])
  <2>1. w + WARMUP - 31 = k - 31 /\ w + WARMUP - 3 = k - 3
    BY <1>3
  <2> QED
    BY <2>1 DEF Draw
<1>8. Draw(w) \in Ints32
  BY <1>5, <1>6, <1>7, Add32Wraps
<1>9. k # n => Draw(w) = r[k]
  <2>1. k # n => k \in DOMAIN r
    BY <1>1, <1>4, <1>5
  <2> QED
    BY <1>4, <1>7, <2>1 DEF RandInv, Sums
<1> QED
  BY <1>1, <1>3, <1>4, <1>7, <1>8, <1>9 DEF w

LEMMA randInv ==
  ASSUME RandInv, rand
  PROVE  RandInv' /\ \A i \in DOMAIN r : i < SIZE /\ r'[i] = r[i]
<1>1. PICK n \in Nat, k \in Nat :
        /\ Prefix(n) /\ k = Wrapped + WARMUP /\ k <= n
        /\ k < WARMUP + ROUND /\ Wrapped \in 0 .. ROUND - 1
        /\ Draw(Wrapped) \in Ints32 /\ Draw(Wrapped) = Add32(r[k - 31], r[k - 3])
        /\ k = n \/ Draw(Wrapped) = r[k]
  BY randWrites
<1> DEFINE w == Wrapped
           x == Draw(Wrapped)
           m == IF k = n THEN n + 1 ELSE n
<1>2. /\ Set(k, x) /\ t' = w + 1 /\ drawn' = ModTen(r'[k]) + 1
      /\ filled = WARMUP /\ filled' = WARMUP
  BY <1>1 DEF rand
<1>3. r \in [0 .. n - 1 -> Ints32] /\ DOMAIN r = 0 .. n - 1 /\ n <= WARMUP + ROUND /\ n >= WARMUP + t
  BY <1>1, <1>2 DEF Prefix
<1> HIDE DEF w, x
<1>4. x \in Ints32 /\ (k = n \/ x = r[k]) /\ x = Add32(r[k - 31], r[k - 3])
      /\ w \in 0 .. ROUND - 1 /\ k = w + WARMUP
  BY <1>1 DEF x, w
<1>5. /\ r' \in [DOMAIN r \cup {k} -> Ints32]
      /\ r'[k] = x /\ \A i \in DOMAIN r : r'[i] = r[i]
      /\ DOMAIN r' = DOMAIN r \cup {k}
  <2>1. (k \in DOMAIN r => x = r[k]) /\ \A i \in DOMAIN r : r[i] \in Ints32
    BY <1>3, <1>4
  <2> QED
    BY <1>2, <1>4, <2>1, EntryWritten
<1>6. m \in Nat /\ m <= WARMUP + ROUND /\ m >= WARMUP + (w + 1)
  BY <1>1, <1>3, <1>4
<1>13. DOMAIN r \cup {k} = 0 .. m - 1
  BY <1>1, <1>3, <1>4
<1> HIDE DEF m
<1>7. Prefix(m)'
  BY <1>2, <1>5, <1>6, <1>13 DEF Prefix
<1>8. Sums'
  <2>1. Sums
    BY DEF RandInv
  <2>2. k >= 34 => r'[k] = Add32(r[k - 31], r[k - 3])
    BY <1>4, <1>5
  <2> QED
    BY <1>1, <1>3, <1>5, <2>1, <2>2, SumsKept
<1>9. \A i \in DOMAIN r' : i < 34 => r'[i] \in Seeds
  <2>1. k >= 34
    BY <1>4
  <2> QED
    BY <1>3, <1>5, <2>1 DEF RandInv
<1>10. ResultInRange'
  <2>1. ModTen(x) \in 0 .. 9
    BY <1>4, ModTenUnsigned
  <2> QED
    BY <1>2, <1>5, <2>1 DEF ResultInRange
<1>11. RandInv'
  BY <1>2, <1>4, <1>6, <1>7, <1>8, <1>9, <1>10 DEF RandInv
<1>12. \A i \in DOMAIN r : i < SIZE
  BY <1>3
<1> QED
  BY <1>5, <1>11, <1>12

LEMMA StepRand ==
  RandInv /\ [RandNext]_rvars =>
    /\ RandInv'
    /\ [\A i \in DOMAIN r : i < SIZE /\ r'[i] = r[i]]_rvars
<1> SUFFICES ASSUME RandInv, [RandNext]_rvars
             PROVE  RandInv' /\ [\A i \in DOMAIN r : i < SIZE /\ r'[i] = r[i]]_rvars
  OBVIOUS
<1>1. CASE Fill
  BY <1>1, FillInv, FillKeeps
<1>2. CASE rand
  BY <1>2, randInv
<1>3. CASE UNCHANGED rvars
  <2>1. r' = r /\ t' = t /\ filled' = filled /\ drawn' = drawn
    BY <1>3 DEF rvars
  <2>2. \A n : Prefix(n)' <=> Prefix(n)
    BY <2>1 DEF Prefix
  <2> QED
    BY <1>3, <2>1, <2>2 DEF RandInv, Sums, ResultInRange, Add32
<1> QED
  BY <1>1, <1>2, <1>3 DEF RandNext

-----------------------------------------------------------------------------
(* What rand returns is in 1 .. 10, whatever ints its sums wrap to.        *)
THEOREM RandInRange == RandSpec => []ResultInRange
<1>1. RandInv => ResultInRange
  BY DEF RandInv
<1> QED
  BY <1>1, InitRand, StepRand, PTL DEF RandSpec

(* The table is never written past its end, and what is drawn stays: rand  *)
(* repeats itself after one round.                                         *)
THEOREM RandRepeats == RandSpec => Repeats
<1>1. RandInv /\ [RandNext]_rvars => [\A i \in DOMAIN r : i < SIZE /\ r'[i] = r[i]]_rvars
  BY StepRand
<1>2. RandInv /\ [RandNext]_rvars => RandInv'
  BY StepRand
<1> QED
  BY <1>1, <1>2, InitRand, PTL DEF RandSpec, Repeats

=============================================================================
