----------------------------- MODULE BootProofs -----------------------------
(***************************************************************************)
(* Proofs about Boot for every size of the RAM, of its pages and tables,   *)
(* every range of addresses the image may be linked for, and every image   *)
(* for which the RAM has room.                                             *)
(*                                                                         *)
(* The invariant says, stage by stage, what the registers hold             *)
(* (Registers) and what every page of the RAM holds as a table (Memory).   *)
(* While setup_vm_final maps page after page this is Mapped: the root, the *)
(* one table in the middle and a last table for every FAN pages of the     *)
(* RAM, each filled as far as the loops have come.  One turn of a loop     *)
(* (MapStep) fills the next entry, and takes a table from the allocator    *)
(* when it begins to need it.  A walk over such tables has one result      *)
(* (HighWalk, FinalWalk, OutsideWalk), from which the invariants follow.   *)
(* Memory that is Mapped is unique (MappedUnique), so create_mapping,      *)
(* which fills the same entries in three stretches (MapRange), leaves the  *)
(* same.                                                                   *)
(*                                                                         *)
(* What a loop computes is taken from its recursive function by induction  *)
(* over the set of turns that do (UpTo, Iteration).                        *)
(***************************************************************************)
EXTENDS Boot, WellFoundedInduction, TLAPS

-----------------------------------------------------------------------------
(* Loops.                                                                  *)

(* Induction over the naturals, over a set of them.                        *)
LEMMA NatSetInduction ==
  ASSUME NEW S \in SUBSET Nat,
         \A n \in Nat : (\A m \in 0 .. n - 1 : m \in S) => n \in S
  PROVE  S = Nat
<1> DEFINE T == Nat \ S
<1> SUFFICES ASSUME T # {} PROVE FALSE
  OBVIOUS
<1>1. T \subseteq Nat
  OBVIOUS
<1> HIDE DEF T
<1>2. PICK x \in T : \A y \in T : ~ (<<y, x>> \in OpToRel(<, Nat))
  BY <1>1, WFMin, NatLessThanWellFounded, Zenon
<1>3. \A y \in T : ~ (y < x)
  <2> SUFFICES ASSUME NEW y \in T, y < x PROVE FALSE
    OBVIOUS
  <2>1. x \in Nat /\ y \in Nat
    BY <1>1
  <2>2. <<y, x>> \in OpToRel(<, Nat)
    BY <2>1, Zenon DEF OpToRel
  <2> QED
    BY <1>2, <2>2, Zenon
<1>4. x \in Nat /\ x \notin S
  BY DEF T
<1>5. ASSUME NEW m \in 0 .. x - 1 PROVE m \in S
  <2>1. m \in Nat /\ m < x
    BY <1>4
  <2> QED
    BY <1>3, <2>1 DEF T
<1> QED
  BY <1>4, <1>5

LEMMA UpTo ==
  ASSUME NEW n \in Nat, NEW T, 0 \in T, \A k \in 1 .. n : k - 1 \in T => k \in T
  PROVE  \A k \in 0 .. n : k \in T
<1> DEFINE S == {k \in Nat : k <= n => k \in T}
<1>1. ASSUME NEW k \in Nat, \A m \in 0 .. k - 1 : m \in S PROVE k \in S
  <2>1. CASE k = 0
    BY <2>1
  <2>2. CASE k > 0 /\ k <= n
    <3>1. k - 1 \in S /\ k - 1 <= n /\ k \in 1 .. n
      BY <1>1, <2>2
    <3> QED
      BY <3>1
  <2> QED
    BY <2>1, <2>2
<1>2. S \in SUBSET Nat
  OBVIOUS
<1> HIDE DEF S
<1>3. S = Nat
  BY <1>1, <1>2, NatSetInduction
<1> QED
  BY <1>3 DEF S

(* The values f of a variable of a loop of n turns.                        *)
IsLoop(f, n, v0, h) == \A k \in 0 .. n : f[k] = IF k = 0 THEN v0 ELSE h[k][f[k - 1]]

LEMMA Iteration ==
  ASSUME NEW V, NEW v0 \in V, NEW n \in Nat, NEW h \in [1 .. n -> [V -> V]]
  PROVE  \E f \in [0 .. n -> V] : IsLoop(f, n, v0, h)
<1> DEFINE Rhs(f, k) == IF k = 0 THEN v0 ELSE h[k][f[k - 1]]
           S == {u \in 0 .. n : \E f \in [0 .. n -> V] : \A k \in 0 .. u : f[k] = Rhs(f, k)}
<1>1. 0 \in S
  <2> DEFINE f == [k \in 0 .. n |-> v0]
  <2>1. f \in [0 .. n -> V] /\ f[0] = v0 /\ 0 \in 0 .. n /\ 0 .. 0 = {0}
    OBVIOUS
  <2> HIDE DEF f
  <2>2. \A k \in 0 .. 0 : f[k] = Rhs(f, k)
    BY <2>1
  <2> HIDE DEF Rhs
  <2> QED
    BY <2>1, <2>2
<1>2. ASSUME NEW u \in 1 .. n, u - 1 \in S PROVE u \in S
  <2>1. PICK f \in [0 .. n -> V] : \A k \in 0 .. u - 1 : f[k] = Rhs(f, k)
    BY <1>2
  <2>2. h[u][f[u - 1]] \in V
    <3>1. h[u] \in [V -> V] /\ u - 1 \in 0 .. n
      OBVIOUS
    <3>2. f[u - 1] \in V
      BY <3>1
    <3> QED
      BY <3>1, <3>2
  <2> DEFINE g == [k \in 0 .. n |-> IF k = u THEN h[u][f[u - 1]] ELSE f[k]]
  <2>3. g \in [0 .. n -> V]
    BY <2>2
  <2>4. ASSUME NEW k \in 0 .. u PROVE g[k] = Rhs(g, k)
    <3>1. CASE k = u
      <4>1. g[u] = h[u][f[u - 1]] /\ u # 0 /\ u - 1 \in 0 .. n /\ u - 1 # u
        OBVIOUS
      <4>2. g[u - 1] = f[u - 1]
        BY <4>1
      <4> HIDE DEF g
      <4> QED
        BY <3>1, <4>1, <4>2
    <3>2. CASE k # u
      <4>1. k \in 0 .. u - 1 /\ k \in 0 .. n
        BY <3>2
      <4>2. g[k] = f[k] /\ f[k] = Rhs(f, k)
        BY <2>1, <3>2, <4>1
      <4>3. k # 0 => g[k - 1] = f[k - 1]
        BY <4>1
      <4> HIDE DEF g
      <4> QED
        BY <4>2, <4>3
    <3> QED
      BY <3>1, <3>2
  <2> HIDE DEF g, Rhs
  <2> QED
    BY <2>3, <2>4
<1> HIDE DEF S
<1>3. n \in S
  <2>1. \A u \in 1 .. n : u - 1 \in S => u \in S
    BY <1>2
  <2>2. \A u \in 0 .. n : u \in S
    BY <1>1, <2>1, UpTo
  <2> QED
    BY <2>2
<1> QED
  BY <1>3 DEF S, IsLoop

-----------------------------------------------------------------------------
(* Division.                                                               *)

LEMMA Times ==
  ASSUME NEW a \in Int, NEW b \in Int, NEW n \in Nat
  PROVE  /\ a * n \in Int /\ (a + 1) * n = a * n + n /\ (a + b) * n = a * n + b * n
         /\ a < b => a * n + n <= b * n
         /\ a <= b => a * n <= b * n
         /\ a >= 0 => a * n >= 0
<1>1. a * n \in Int /\ (a + 1) * n = a * n + n /\ (a + b) * n = a * n + b * n
  OBVIOUS
<1>2. ASSUME a < b PROVE a * n + n <= b * n
  <2> DEFINE d == b - a - 1
  <2>1. d \in Nat /\ b = a + 1 + d
    BY <1>2
  <2> HIDE DEF d
  <2>2. b * n = a * n + n + d * n
    BY <2>1
  <2>3. d * n >= 0
    BY <2>1
  <2>4. d * n \in Int /\ a * n \in Int /\ b * n \in Int
    BY <2>1
  <2> QED
    BY <2>2, <2>3, <2>4
<1>3. ASSUME a <= b PROVE a * n <= b * n
  BY <1>2, <1>3
<1>4. a >= 0 => a * n >= 0
  OBVIOUS
<1> QED
  BY <1>1, <1>2, <1>3, <1>4

LEMMA DivMod ==
  ASSUME NEW a \in Nat, NEW n \in Nat, n > 0
  PROVE  a \div n \in Nat /\ (a % n) \in 0 .. n - 1 /\ a = (a \div n) * n + (a % n)
<1>1. a \div n \in Int /\ (a % n) \in 0 .. n - 1 /\ a = (a \div n) * n + (a % n)
  OBVIOUS
<1> DEFINE d == a \div n
           m == a % n
<1>2. d \in Int /\ m \in 0 .. n - 1 /\ a = d * n + m
  BY <1>1
<1> HIDE DEF d, m
<1>3. d >= 0
  <2>1. SUFFICES ASSUME d < 0 PROVE FALSE
    BY <1>2
  <2>2. d * n + n <= 0 * n
    BY <1>2, <2>1, Times
  <2>3. d * n \in Int
    BY <1>2
  <2> QED
    BY <1>2, <2>2, <2>3
<1>4. d \in Nat
  BY <1>2, <1>3
<1> QED
  BY <1>1, <1>4 DEF d

LEMMA Parts ==
  ASSUME NEW a \in Nat, NEW n \in Nat, n > 0
  PROVE  \E q \in Nat, c \in 0 .. n - 1 : a = q * n + c
<1> DEFINE q == a \div n
           c == a % n
<1>1. q \in Nat /\ c \in 0 .. n - 1 /\ a = q * n + c
  BY DivMod
<1> HIDE DEF q, c
<1> QED
  BY <1>1

LEMMA DivUnique ==
  ASSUME NEW n \in Nat, n > 0, NEW q \in Nat, NEW c \in 0 .. n - 1
  PROVE  (q * n + c) \div n = q /\ (q * n + c) % n = c
<1> DEFINE a == q * n + c
           d == a \div n
           m == a % n
<1>1. a \in Nat
  BY Times
<1>2. d \in Nat /\ m \in 0 .. n - 1 /\ a = d * n + m
  BY <1>1, DivMod
<1> HIDE DEF d, m
<1>3. q * n \in Int /\ d * n \in Int
  BY <1>2
<1>4. ~(d < q)
  <2>1. d < q => d * n + n <= q * n
    BY <1>2, Times
  <2> QED
    BY <1>2, <1>3, <2>1
<1>5. ~(q < d)
  <2>1. q < d => q * n + n <= d * n
    BY <1>2, Times
  <2> QED
    BY <1>2, <1>3, <2>1
<1>6. d = q
  BY <1>2, <1>4, <1>5
<1>7. m = c
  BY <1>2, <1>3, <1>6
<1> QED
  BY <1>6, <1>7 DEF d, m

(* The least multiple that is not below x.                                 *)
LEMMA RoundUp ==
  ASSUME NEW x \in Nat, NEW n \in Nat, n > 0
  PROVE  /\ n * ((x + n - 1) \div n) \in Nat
         /\ x <= n * ((x + n - 1) \div n) /\ n * ((x + n - 1) \div n) < x + n
         /\ \E q \in Nat : n * ((x + n - 1) \div n) = q * n
         /\ \A q \in Nat : x <= q * n => n * ((x + n - 1) \div n) <= q * n
<1> DEFINE a == x + n - 1
           d == a \div n
           m == a % n
<1>1. a \in Nat
  OBVIOUS
<1>2. d \in Nat /\ m \in 0 .. n - 1 /\ a = d * n + m
  BY <1>1, DivMod
<1> HIDE DEF d, m
<1>3. d * n \in Nat /\ n * d = d * n
  BY <1>2, Times
<1>4. x <= d * n /\ d * n < x + n
  BY <1>2, <1>3
<1>5. ASSUME NEW q \in Nat, x <= q * n PROVE d * n <= q * n
  <2>1. SUFFICES ASSUME q < d PROVE FALSE
    BY <1>2, Times
  <2>2. q * n + n <= d * n /\ q * n \in Nat
    BY <1>2, <2>1, Times
  <2> QED
    BY <1>3, <1>4, <1>5, <2>2
<1> QED
  BY <1>2, <1>3, <1>4, <1>5 DEF d

-----------------------------------------------------------------------------
(* Addresses.  Both halves of the early table begin at an entry of the     *)
(* root; the pages of the RAM are numbered from 0, and page k * FAN + j    *)
(* belongs to entry j of table k.                                          *)

Low   == PHY_START \div EARLY_PGSIZE    (* entries of the root             *)
High  == VM_START \div EARLY_PGSIZE
Turns == (VM_END - VM_START) \div EARLY_PGSIZE
PAGES == PHY_SIZE \div PGSIZE
Entries == 0 .. FAN - 1

LEMMA Sizes ==
  /\ PGSIZE \in Nat /\ PGSIZE > 0 /\ FAN \in Nat /\ FAN > 0
  /\ PGSIZE * FAN \in Nat /\ PGSIZE * FAN > 0
  /\ EARLY_PGSIZE \in Nat /\ EARLY_PGSIZE > 0 /\ EARLY_PGSIZE = FAN * (PGSIZE * FAN)
  /\ PGSIZE * FAN = FAN * PGSIZE /\ FAN * FAN \in Nat /\ EARLY_PGSIZE = (FAN * FAN) * PGSIZE
<1>1. PGSIZE \in Nat /\ PGSIZE > 0 /\ FAN \in Nat /\ FAN > 0
  BY BootAssumption
<1>2. PGSIZE * FAN \in Nat /\ PGSIZE * FAN > 0 /\ FAN * FAN \in Nat
  BY <1>1
<1>3. EARLY_PGSIZE = (PGSIZE * FAN) * FAN
  BY DEF EARLY_PGSIZE
<1>4. \A x \in Nat : x > 0 => x * FAN \in Nat /\ x * FAN > 0 /\ x * FAN = FAN * x
  BY <1>1
<1> QED
  BY <1>1, <1>2, <1>3, <1>4

LEMMA Bases ==
  /\ Low \in Nat /\ High \in Nat /\ Turns \in Nat /\ Turns > 0
  /\ PHY_START = Low * EARLY_PGSIZE /\ VM_START = High * EARLY_PGSIZE
  /\ VM_END = (High + Turns) * EARLY_PGSIZE
  /\ Low + Turns <= High /\ High + Turns <= FAN /\ Low < High
  /\ PHY_START \in Nat /\ VM_START \in Nat /\ VM_END \in Nat
<1> DEFINE e == EARLY_PGSIZE
           End == VM_END \div e
<1>1. e \in Nat /\ e > 0 /\ FAN \in Nat
  BY Sizes
<1>2. /\ PHY_START \in Nat /\ VM_START \in Nat /\ VM_END \in Nat
      /\ PHY_START % e = 0 /\ VM_START % e = 0 /\ VM_END % e = 0
      /\ PHY_START + e <= VM_START /\ VM_START < VM_END
      /\ VM_END - VM_START <= VM_START - PHY_START /\ VM_END <= e * FAN
  BY BootAssumption DEF PA2VA_OFFSET
<1> HIDE DEF e
<1>3. /\ Low \in Nat /\ PHY_START = Low * e
      /\ High \in Nat /\ VM_START = High * e
      /\ End \in Nat /\ VM_END = End * e
  BY <1>1, <1>2, DivMod DEF Low, High, e
<1> HIDE DEF End
<1>4. /\ Low * e \in Nat /\ High * e \in Nat /\ End * e \in Nat /\ (Low + 1) * e = Low * e + e
      /\ (End - High) * e = End * e - High * e /\ (High - Low) * e = High * e - Low * e
  BY <1>1, <1>3
<1>5. High < End
  <2>1. SUFFICES ASSUME End <= High PROVE FALSE
    BY <1>3
  <2>2. End * e <= High * e
    BY <1>1, <1>3, <2>1, Times
  <2> QED
    BY <1>2, <1>3, <1>4, <2>2
<1>6. Low < High
  <2>1. SUFFICES ASSUME High <= Low PROVE FALSE
    BY <1>3
  <2>2. High * e <= Low * e
    BY <1>1, <1>3, <2>1, Times
  <2> QED
    BY <1>1, <1>2, <1>3, <1>4, <2>2
<1>7. End <= FAN
  <2>1. SUFFICES ASSUME FAN < End PROVE FALSE
    BY <1>1, <1>3
  <2>2. FAN * e + e <= End * e
    BY <1>1, <1>3, <2>1, Times
  <2>3. FAN * e = e * FAN /\ FAN * e \in Nat
    BY <1>1
  <2> QED
    BY <1>1, <1>2, <1>3, <1>4, <2>2, <2>3
<1>8. End - High <= High - Low
  <2>1. SUFFICES ASSUME High - Low < End - High PROVE FALSE
    BY <1>3
  <2>2. (High - Low) * e + e <= (End - High) * e
    BY <1>1, <1>3, <2>1, Times
  <2> QED
    BY <1>1, <1>2, <1>3, <1>4, <2>2
<1>9. Turns = End - High
  <2>1. End - High \in Nat /\ VM_END - VM_START = (End - High) * e + 0 /\ 0 \in 0 .. e - 1
    BY <1>1, <1>3, <1>4, <1>5
  <2> QED
    BY <1>1, <2>1, DivUnique DEF Turns, e
<1> QED
  BY <1>1, <1>2, <1>3, <1>5, <1>6, <1>7, <1>8, <1>9 DEF e

(* A place in the addresses of one entry of the root.                      *)
At(b, k, j, c) == b * EARLY_PGSIZE + (k * FAN + j) * PGSIZE + c

LEMMA Places ==
  ASSUME NEW b \in Entries, NEW k \in Entries, NEW j \in Entries, NEW c \in 0 .. PGSIZE - 1
  PROVE  /\ At(b, k, j, c) \in Nat
         /\ VPN_2(At(b, k, j, c)) = b /\ VPN_1(At(b, k, j, c)) = k /\ VPN_0(At(b, k, j, c)) = j
         /\ At(b, k, j, c) % PGSIZE = c
         /\ At(b, k, j, c) % EARLY_PGSIZE = (k * FAN + j) * PGSIZE + c
         /\ (k * FAN + j) * PGSIZE + c \in 0 .. EARLY_PGSIZE - 1
<1> DEFINE p == PGSIZE
           f == FAN
           t == p * f
           e == EARLY_PGSIZE
           n == k * f + j
<1>1. /\ p \in Nat /\ p > 0 /\ f \in Nat /\ f > 0 /\ t \in Nat /\ t > 0 /\ t = f * p
      /\ e \in Nat /\ e > 0 /\ e = f * t /\ b \in Nat /\ k \in Nat /\ j \in Nat /\ c \in Nat
      /\ b < f /\ k < f /\ j < f /\ c < p
  BY Sizes DEF Entries
<1>2. n \in Nat /\ n = k * f + j
  BY <1>1, Times
<1> HIDE DEF n
<1>3. n * p \in Nat /\ n * p + c \in Nat
  BY <1>1, <1>2, Times
<1>4. j * p + c \in 0 .. t - 1 /\ n * p + c = k * t + (j * p + c)
  <2>1. j * p \in Nat /\ j * p + p <= f * p
    BY <1>1, Times
  <2>2. n * p = (k * f) * p + j * p
    BY <1>1, <1>2
  <2>3. (k * f) * p = k * t
    BY <1>1
  <2>4. k * t \in Nat
    BY <1>1, Times
  <2> QED
    BY <1>1, <2>1, <2>2, <2>3, <2>4
<1>5. n * p + c \in 0 .. e - 1
  <2>1. k * t \in Nat /\ k * t + t <= f * t
    BY <1>1, Times
  <2> QED
    BY <1>1, <1>3, <1>4, <2>1
<1>6. b * e \in Nat /\ At(b, k, j, c) = b * e + (n * p + c)
  BY <1>1, <1>2, <1>3, Times DEF At
<1>7. At(b, k, j, c) \div e = b /\ At(b, k, j, c) % e = n * p + c
  <2> DEFINE o == n * p + c
  <2>1. o \in 0 .. e - 1 /\ At(b, k, j, c) = b * e + o
    BY <1>5, <1>6
  <2> HIDE DEF o, e
  <2>2. At(b, k, j, c) \div e = b /\ At(b, k, j, c) % e = o
    BY <1>1, <2>1, DivUnique
  <2> QED
    BY <2>2 DEF o
<1>8. At(b, k, j, c) \div t = b * f + k
  <2>1. b * f + k \in Nat
    BY <1>1, Times
  <2>2. (b * f + k) * t = b * e + k * t
    BY <1>1
  <2>3. k * t \in Nat /\ j * p + c \in Nat
    BY <1>1, Times
  <2>4. At(b, k, j, c) = (b * f + k) * t + (j * p + c)
    BY <1>4, <1>6, <2>2, <2>3
  <2> QED
    BY <1>1, <1>4, <2>1, <2>4, DivUnique
<1>9. /\ At(b, k, j, c) \div p = (b * f + k) * f + j
      /\ At(b, k, j, c) % p = c
  <2>1. (b * f + k) * f + j \in Nat
    BY <1>1, Times
  <2>2. ((b * f + k) * f + j) * p = ((b * f) * f + n) * p
    BY <1>1, <1>2
  <2>3. ((b * f) * f + n) * p = ((b * f) * f) * p + n * p
    BY <1>1, <1>2
  <2>4. ((b * f) * f) * p = b * e
    BY <1>1
  <2>5. At(b, k, j, c) = ((b * f + k) * f + j) * p + c
    BY <1>1, <1>3, <1>6, <2>2, <2>3, <2>4
  <2> QED
    BY <1>1, <2>1, <2>5, DivUnique
<1>10. b % f = b /\ (b * f + k) % f = k /\ ((b * f + k) * f + j) % f = j
  <2>1. 0 * f + b = b
    BY <1>1
  <2>2. b * f + k \in Nat
    BY <1>1, Times
  <2> QED
    BY <1>1, <2>1, <2>2, DivUnique
<1> QED
  BY <1>2, <1>3, <1>5, <1>6, <1>7, <1>8, <1>9, <1>10 DEF VPN_0, VPN_1, VPN_2

(* Every address is at such a place.                                       *)
LEMMA PlaceOf ==
  ASSUME NEW a \in Nat, a < FAN * EARLY_PGSIZE
  PROVE  \E b \in Entries, k \in Entries, j \in Entries, c \in 0 .. PGSIZE - 1 :
           a = At(b, k, j, c)
<1> DEFINE p == PGSIZE
           f == FAN
           t == p * f
           e == EARLY_PGSIZE
<1>1. /\ p \in Nat /\ p > 0 /\ f \in Nat /\ f > 0 /\ t \in Nat /\ t > 0 /\ t = f * p
      /\ e \in Nat /\ e > 0 /\ e = f * t
  BY Sizes
<1>2. ASSUME NEW x \in Nat, NEW n \in Nat, n > 0, x < f * n
      PROVE  \E q \in Entries, r \in 0 .. n - 1 : x = q * n + r
  <2>1. PICK q \in Nat, r \in 0 .. n - 1 : x = q * n + r
    BY <1>2, DivMod
  <2>2. q < f
    <3>1. SUFFICES ASSUME f <= q PROVE FALSE
      BY <1>1
    <3>2. f * n <= q * n /\ f * n \in Nat /\ q * n \in Nat
      BY <1>1, <3>1, Times
    <3> QED
      BY <1>2, <2>1, <3>2
  <2> QED
    BY <1>1, <2>1, <2>2 DEF Entries
<1>3. PICK b \in Entries, x \in 0 .. e - 1 : a = b * e + x
  BY <1>1, <1>2
<1>4. PICK k \in Entries, y \in 0 .. t - 1 : x = k * t + y
  BY <1>1, <1>2
<1>5. PICK j \in Entries, c \in 0 .. p - 1 : y = j * p + c
  BY <1>1, <1>2
<1>6. (k * f + j) * p = k * t + j * p /\ k * t \in Nat /\ j * p \in Nat /\ b * e \in Nat
  BY <1>1 DEF Entries
<1>7. a = At(b, k, j, c)
  BY <1>1, <1>3, <1>4, <1>5, <1>6 DEF At
<1> QED
  BY <1>7

-----------------------------------------------------------------------------
(* The early table.                                                        *)

Bits == {PTE_V, PTE_R, PTE_W, PTE_X, PTE_U}
All  == {PTE_V, PTE_R, PTE_W, PTE_X}

LEMMA PageNumbers ==
  ASSUME NEW a \in Nat
  PROVE  /\ PG_NUM(a) \in Nat
         /\ a % PGSIZE = 0 => PG_NUM(a) * PGSIZE = a
<1>1. /\ PGSIZE \in Nat /\ PGSIZE > 0 /\ a \div PGSIZE \in Nat
      /\ (a % PGSIZE) \in 0 .. PGSIZE - 1 /\ a = (a \div PGSIZE) * PGSIZE + (a % PGSIZE)
  BY Sizes, DivMod
<1> QED
  BY <1>1 DEF PG_NUM

LEMMA WithType ==
  ASSUME NEW a \in Nat, NEW perm \in SUBSET Bits
  PROVE  /\ With(VPN(PG_NUM(a)), perm) \in [ppn : Nat, perm : SUBSET Bits]
         /\ With(VPN(PG_NUM(a)), perm).perm = perm
         /\ a % PGSIZE = 0 => PTE2ADDR(With(VPN(PG_NUM(a)), perm)) = a
BY PageNumbers DEF With, VPN, PTE2ADDR

LEMMA EntriesOfHalves ==
  ASSUME NEW i \in 0 .. Turns - 1
  PROVE  /\ PHY_START + i * EARLY_PGSIZE \in Nat
         /\ VPN_2(PHY_START + i * EARLY_PGSIZE) = Low + i
         /\ VPN_2(VM_START + i * EARLY_PGSIZE) = High + i
         /\ Low + i \in Entries /\ High + i \in Entries
<1>1. /\ Low \in Nat /\ High \in Nat /\ Turns \in Nat /\ FAN \in Nat /\ EARLY_PGSIZE \in Nat
      /\ High + Turns <= FAN /\ Low < High /\ PGSIZE \in Nat /\ PGSIZE > 0 /\ FAN > 0
      /\ PHY_START = Low * EARLY_PGSIZE /\ VM_START = High * EARLY_PGSIZE /\ PHY_START \in Nat
  BY Bases, Sizes
<1>2. ASSUME NEW b \in Nat, b + i < FAN
      PROVE  b + i \in Entries /\ VPN_2(b * EARLY_PGSIZE + i * EARLY_PGSIZE) = b + i
  <2>1. b + i \in Entries /\ 0 \in Entries /\ 0 \in 0 .. PGSIZE - 1
    BY <1>1, <1>2 DEF Entries
  <2>2. At(b + i, 0, 0, 0) = b * EARLY_PGSIZE + i * EARLY_PGSIZE
    <3>1. (b + i) * EARLY_PGSIZE = b * EARLY_PGSIZE + i * EARLY_PGSIZE
      BY <1>1, Times
    <3>2. (b + i) * EARLY_PGSIZE \in Nat /\ 0 * FAN = 0 /\ 0 * PGSIZE = 0
      BY <1>1
    <3> QED
      BY <1>1, <3>1, <3>2 DEF At
  <2>3. VPN_2(At(b + i, 0, 0, 0)) = b + i
    BY <2>1, Places
  <2> QED
    BY <2>1, <2>2, <2>3
<1>3. Low + i < FAN /\ High + i < FAN /\ i * EARLY_PGSIZE \in Nat
  BY <1>1
<1> QED
  BY <1>1, <1>2, <1>3

(* Both halves lead to the RAM.                                            *)
LEMMA EarlyFacts ==
  /\ EarlyTable \in page_table_t
  /\ EarlyTable[Low]  = With(VPN(PG_NUM(PHY_START)), All)
  /\ EarlyTable[High] = With(VPN(PG_NUM(PHY_START)), All)
<1> DEFINE i(k) == (k - 1) * EARLY_PGSIZE
           Turn(k, t) ==
             map_early_pgtbl(map_early_pgtbl(t, PHY_START + i(k), PHY_START + i(k), All),
                             VM_START + i(k), PHY_START + i(k), All)
           pte(k) == With(VPN(PG_NUM(PHY_START + i(k))), All)
<1>1. Turns \in Nat /\ Turns > 0 /\ FAN \in Nat /\ Low \in Nat /\ High \in Nat
      /\ Low + Turns <= High /\ Low < High /\ High < FAN /\ Low \in Entries /\ High \in Entries
  BY Bases, Sizes DEF Entries
<1>2. ASSUME NEW k \in 1 .. Turns, NEW t \in page_table_t
      PROVE  /\ Turn(k, t) \in page_table_t
             /\ \A e \in Entries :
                  Turn(k, t)[e] = IF e \in {Low + k - 1, High + k - 1} THEN pte(k) ELSE t[e]
  <2>1. k - 1 \in 0 .. Turns - 1
    BY <1>1
  <2>2. /\ VPN_2(PHY_START + i(k)) = Low + (k - 1) /\ VPN_2(VM_START + i(k)) = High + (k - 1)
        /\ Low + (k - 1) \in Entries /\ High + (k - 1) \in Entries
        /\ PHY_START + i(k) \in Nat
    BY <2>1, EntriesOfHalves
  <2>3. pte(k) \in [ppn : Nat, perm : SUBSET Bits]
    BY <2>2, WithType DEF All, Bits
  <2>4. Turn(k, t) = [[t EXCEPT ![Low + (k - 1)] = pte(k)] EXCEPT ![High + (k - 1)] = pte(k)]
    BY <2>2 DEF map_early_pgtbl
  <2> HIDE DEF Turn, pte, i
  <2>5. Low + (k - 1) = Low + k - 1 /\ High + (k - 1) = High + k - 1
    BY <1>1
  <2> QED
    BY <2>2, <2>3, <2>4, <2>5 DEF page_table_t, Entries, Bits
<1>3. Zeroed \in page_table_t
  BY DEF Zeroed, VPN, page_table_t
<1> DEFINE h == [k \in 1 .. Turns |-> [t \in page_table_t |-> Turn(k, t)]]
<1>4. h \in [1 .. Turns -> [page_table_t -> page_table_t]]
  BY <1>2
<1>5. \A k \in 1 .. Turns, t \in page_table_t : h[k][t] = Turn(k, t)
  OBVIOUS
<1> HIDE DEF h, Turn
<1>6. PICK f \in [0 .. Turns -> page_table_t] : IsLoop(f, Turns, Zeroed, h)
  <2>1. Turns \in Nat
    BY <1>1
  <2> QED
    BY <1>3, <1>4, <2>1, Iteration
<1>7. \A k \in 0 .. Turns : f[k] = IF k = 0 THEN Zeroed ELSE Turn(k, f[k - 1])
  <2>1. \A k \in 0 .. Turns : k # 0 => k \in 1 .. Turns /\ f[k - 1] \in page_table_t
    BY <1>1
  <2> QED
    BY <1>5, <1>6, <2>1 DEF IsLoop
<1> DEFINE after == CHOOSE g : g = [k \in 0 .. Turns |-> IF k = 0 THEN Zeroed ELSE Turn(k, g[k - 1])]
<1>8. f = [k \in 0 .. Turns |-> IF k = 0 THEN Zeroed ELSE Turn(k, f[k - 1])]
  BY <1>7
<1>9. after = [k \in 0 .. Turns |-> IF k = 0 THEN Zeroed ELSE Turn(k, after[k - 1])]
  BY <1>8
<1>10. EarlyTable = after[Turns]
  BY DEF EarlyTable, Turns, Turn, All
<1> HIDE DEF after
<1> DEFINE Done(k) == /\ after[k] \in page_table_t
                      /\ k > 0 => after[k][Low] = pte(1) /\ after[k][High] = pte(1)
           T == {k \in 0 .. Turns : Done(k)}
<1>11. 0 \in T
  BY <1>1, <1>3, <1>9
<1>12. ASSUME NEW k \in 1 .. Turns, k - 1 \in T PROVE k \in T
  <2>1. after[k] = Turn(k, after[k - 1]) /\ after[k - 1] \in page_table_t /\ k - 1 \in 0 .. Turns
    BY <1>1, <1>9, <1>12
  <2>2. \A e \in Entries :
          after[k][e] = IF e \in {Low + k - 1, High + k - 1} THEN pte(k) ELSE after[k - 1][e]
    BY <1>2, <2>1
  <2>3. CASE k = 1
    BY <1>1, <1>2, <2>1, <2>2, <2>3
  <2>4. CASE k > 1
    <3>1. Low \notin {Low + k - 1, High + k - 1} /\ High \notin {Low + k - 1, High + k - 1}
      BY <1>1, <2>4
    <3>2. after[k - 1][Low] = pte(1) /\ after[k - 1][High] = pte(1)
      BY <1>12, <2>4
    <3> HIDE DEF pte
    <3> QED
      BY <1>1, <1>2, <2>1, <2>2, <3>1, <3>2
  <2> QED
    BY <2>3, <2>4
<1> HIDE DEF T
<1>13. Turns \in T
  BY <1>1, <1>11, <1>12, UpTo, SMTT(20)
<1>14. pte(1) = With(VPN(PG_NUM(PHY_START)), All)
  <2>1. i(1) = 0 /\ PHY_START + 0 = PHY_START
    BY Sizes, Bases
  <2> QED
    BY <2>1
<1> QED
  BY <1>1, <1>10, <1>13, <1>14 DEF T

-----------------------------------------------------------------------------
(* Pages.                                                                  *)

Paged(x) == \E q \in Nat : x = q * PGSIZE

LEMMA PagedFacts ==
  /\ \A x \in Nat : Paged(x) <=> x % PGSIZE = 0
  /\ \A x : Paged(x) => x \in Nat
  /\ \A x, y : Paged(x) /\ Paged(y) => /\ Paged(x + y)
                                       /\ x <= y => Paged(y - x)
                                       /\ x < y => x + PGSIZE <= y
  /\ Paged(PGSIZE) /\ Paged(0)
<1>1. PGSIZE \in Nat /\ PGSIZE > 0
  BY Sizes
<1>2. ASSUME NEW x \in Nat PROVE Paged(x) <=> x % PGSIZE = 0
  <2>1. x % PGSIZE = 0 => Paged(x)
    BY <1>1, DivMod DEF Paged
  <2>2. ASSUME NEW q \in Nat, x = q * PGSIZE PROVE x % PGSIZE = 0
    <3>1. x = q * PGSIZE + 0 /\ 0 \in 0 .. PGSIZE - 1
      BY <1>1, <2>2
    <3> QED
      BY <1>1, <3>1, DivUnique
  <2> QED
    BY <2>1, <2>2 DEF Paged
<1>3. ASSUME NEW x, Paged(x) PROVE x \in Nat
  BY <1>1, <1>3, Times DEF Paged
<1>4. ASSUME NEW x, NEW y, Paged(x), Paged(y)
      PROVE  Paged(x + y) /\ (x <= y => Paged(y - x)) /\ (x < y => x + PGSIZE <= y)
  <2>1. PICK a \in Nat, b \in Nat : x = a * PGSIZE /\ y = b * PGSIZE
    BY <1>4 DEF Paged
  <2>2. x \in Nat /\ y \in Nat
    BY <1>3, <1>4
  <2>3. (a + b) * PGSIZE = x + y /\ a + b \in Nat
    BY <1>1, <2>1, Times
  <2>4. x < y => a < b
    BY <1>1, <2>1, <2>2, Times
  <2>5. x <= y => b - a \in Nat /\ (b - a) * PGSIZE = y - x
    <3>1. x <= y => a <= b
      <4>1. b < a => b * PGSIZE + PGSIZE <= a * PGSIZE
        BY <1>1, Times
      <4> QED
        BY <1>1, <2>1, <2>2, <4>1
    <3>2. (b - a) * PGSIZE = b * PGSIZE - a * PGSIZE
      BY <1>1
    <3> QED
      BY <2>1, <3>1, <3>2
  <2>6. a < b => x + PGSIZE <= y
    BY <1>1, <2>1, Times
  <2> QED
    BY <2>3, <2>4, <2>5, <2>6 DEF Paged
<1>5. Paged(PGSIZE) /\ Paged(0)
  <2>1. PGSIZE = 1 * PGSIZE /\ 0 = 0 * PGSIZE
    BY <1>1
  <2> QED
    BY <2>1 DEF Paged
<1> QED
  BY <1>2, <1>3, <1>4, <1>5

LEMMA RoundedPage ==
  ASSUME NEW x \in Nat
  PROVE  /\ PGROUNDUP(x) \in Nat /\ Paged(PGROUNDUP(x))
         /\ x <= PGROUNDUP(x) /\ PGROUNDUP(x) < x + PGSIZE
         /\ \A y : Paged(y) /\ x <= y => PGROUNDUP(x) <= y
BY Sizes, RoundUp, SMTT(20) DEF PGROUNDUP, Paged

(* What the constants are.                                                 *)
LEMMA Constants ==
  /\ PHY_START \in Nat /\ VM_START \in Nat /\ PA2VA_OFFSET \in Nat /\ OPENSBI_SIZE \in Nat
  /\ BITMAP \in Nat /\ PHY_SIZE \in Nat /\ PHY_SIZE > 0 /\ PHY_SIZE <= EARLY_PGSIZE
  /\ OPENSBI_SIZE <= PHY_SIZE /\ PHY_END = PHY_START + PHY_SIZE
  /\ VM_START = PHY_START + PA2VA_OFFSET /\ PHY_START + EARLY_PGSIZE <= VM_START
  /\ Paged(PHY_START) /\ Paged(VM_START) /\ Paged(PA2VA_OFFSET) /\ Paged(OPENSBI_SIZE)
  /\ Paged(PHY_SIZE) /\ Paged(PHY_END) /\ Paged(EARLY_PGSIZE)
<1>1. /\ PHY_START \in Nat /\ VM_START \in Nat /\ OPENSBI_SIZE \in Nat
      /\ PHY_SIZE \in Nat /\ PHY_SIZE > 0 /\ PHY_SIZE <= EARLY_PGSIZE
      /\ OPENSBI_SIZE <= PHY_SIZE /\ PHY_SIZE % PGSIZE = 0 /\ OPENSBI_SIZE % PGSIZE = 0
      /\ PHY_START + EARLY_PGSIZE <= VM_START
  <2>1. EARLY_PGSIZE \in Nat
    BY Sizes
  <2>2. /\ PHY_SIZE \in 1 .. EARLY_PGSIZE /\ OPENSBI_SIZE \in 0 .. PHY_SIZE
        /\ PHY_SIZE % PGSIZE = 0 /\ OPENSBI_SIZE % PGSIZE = 0
        /\ PHY_START + EARLY_PGSIZE <= VM_START
    BY BootAssumption, Zenon
  <2>3. PHY_START \in Nat /\ VM_START \in Nat
    BY Bases
  <2> QED
    BY <2>1, <2>2, <2>3
<1>2. PA2VA_OFFSET = VM_START - PHY_START /\ PHY_END = PHY_START + PHY_SIZE
  BY DEF PA2VA_OFFSET, PHY_END
<1>3. BITMAP \in Nat
  BY LayoutsAssumption
<1>4. ASSUME NEW b \in Nat PROVE Paged(b * EARLY_PGSIZE)
  <2>1. b * EARLY_PGSIZE = (b * (FAN * FAN)) * PGSIZE /\ b * (FAN * FAN) \in Nat
    BY Sizes
  <2> QED
    BY <2>1 DEF Paged
<1>5. Paged(PHY_START) /\ Paged(VM_START) /\ Paged(EARLY_PGSIZE)
  <2>1. 1 * EARLY_PGSIZE = EARLY_PGSIZE
    BY Sizes
  <2> QED
    BY <1>4, <2>1, Bases
<1>6. Paged(PHY_SIZE) /\ Paged(OPENSBI_SIZE)
  BY <1>1, PagedFacts
<1>7. PHY_START <= VM_START
  BY <1>1, Sizes
<1>8. Paged(PHY_END) /\ Paged(PA2VA_OFFSET)
  BY <1>1, <1>2, <1>5, <1>6, <1>7, PagedFacts
<1> QED
  BY <1>1, <1>2, <1>3, <1>5, <1>6, <1>7, <1>8, Sizes

LEMMA RamFacts ==
  \A a : a \in RamPages <=> Paged(a) /\ PHY_START <= a /\ a < PHY_END
<1>1. PHY_START \in Nat /\ PHY_END \in Nat
  BY Constants, PagedFacts
<1> QED
  BY <1>1, PagedFacts DEF RamPages

(* The sections of an image, in their order.                               *)
LEMMA Symbols ==
  ASSUME NEW l \in Layouts
  PROVE  LET y == Sym(l)
         IN  /\ y.stext = VM_START + OPENSBI_SIZE
             /\ y.stext \in Nat /\ y.etext \in Nat /\ y.srodata \in Nat /\ y.erodata \in Nat
             /\ y.sdata \in Nat /\ y.uapp_start \in Nat /\ y.boot_stack \in Nat
             /\ y.early_pgtbl \in Nat /\ y.swapper_pg_dir \in Nat /\ y.ekernel \in Nat
             /\ y.stext <= y.etext /\ y.etext <= y.srodata /\ y.srodata <= y.erodata
             /\ y.erodata <= y.sdata /\ y.sdata <= y.uapp_start /\ y.uapp_start <= y.boot_stack
             /\ y.srodata = PGROUNDUP(y.etext) /\ y.sdata = PGROUNDUP(y.erodata)
             /\ y.early_pgtbl = y.boot_stack + PGSIZE
             /\ y.swapper_pg_dir = y.boot_stack + 2 * PGSIZE
             /\ y.boot_stack + 3 * PGSIZE <= y.ekernel
             /\ Paged(y.stext) /\ Paged(y.srodata) /\ Paged(y.sdata) /\ Paged(y.boot_stack)
             /\ VA2PA(y.ekernel) + BITMAP + PGSIZE * (PHY_SIZE \div (PGSIZE * FAN) + 6) <= PHY_END
<1> DEFINE y == Sym(l)
           stext   == VM_START + OPENSBI_SIZE
           srodata == PGROUNDUP(stext + l.text)
           sdata   == PGROUNDUP(srodata + l.rodata)
           uapp    == PGROUNDUP(sdata + l.data)
           stack   == PGROUNDUP(uapp + l.uapp)
<1>1. /\ l.text \in Nat /\ l.rodata \in Nat /\ l.data \in Nat /\ l.uapp \in Nat /\ l.bss \in Nat
      /\ VA2PA(y.ekernel) + BITMAP + PGSIZE * (PHY_SIZE \div (PGSIZE * FAN) + 6) <= PHY_END
  BY LayoutsAssumption
<1>2. /\ y.stext = stext /\ y.etext = stext + l.text /\ y.srodata = srodata
      /\ y.erodata = srodata + l.rodata /\ y.sdata = sdata /\ y.uapp_start = uapp
      /\ y.boot_stack = stack /\ y.early_pgtbl = stack + PGSIZE
      /\ y.swapper_pg_dir = stack + 2 * PGSIZE /\ y.ekernel = stack + 3 * PGSIZE + l.bss
  BY DEF Sym
<1>3. stext \in Nat /\ Paged(stext) /\ PGSIZE \in Nat
  BY Constants, PagedFacts, Sizes
<1> HIDE DEF y, stext
<1>4. srodata \in Nat /\ Paged(srodata) /\ stext + l.text <= srodata
  BY <1>1, <1>3, RoundedPage
<1> HIDE DEF srodata
<1>5. sdata \in Nat /\ Paged(sdata) /\ srodata + l.rodata <= sdata
  BY <1>1, <1>4, RoundedPage
<1> HIDE DEF sdata
<1>6. uapp \in Nat /\ sdata + l.data <= uapp
  BY <1>1, <1>5, RoundedPage
<1> HIDE DEF uapp
<1>7. stack \in Nat /\ Paged(stack) /\ uapp + l.uapp <= stack
  BY <1>1, <1>6, RoundedPage
<1> HIDE DEF stack
<1>8. /\ y.stext = VM_START + OPENSBI_SIZE
      /\ y.srodata = PGROUNDUP(y.etext) /\ y.sdata = PGROUNDUP(y.erodata)
  BY <1>2 DEF stext, srodata, sdata
<1> QED
  BY <1>1, <1>2, <1>3, <1>4, <1>5, <1>6, <1>7, <1>8 DEF y

(* The page buddy_init leaves first.                                       *)
LEMMA FirstFreeFacts ==
  ASSUME NEW top \in Nat, PHY_START <= top, top + PGSIZE <= PHY_END
  PROVE  /\ FirstFree(top) \in RamPages /\ FirstFree(top) \in Nat
         /\ top <= FirstFree(top) /\ FirstFree(top) < top + PGSIZE
<1> DEFINE First(a) == a >= top /\ \A b \in RamPages : b < a => b < top
           up == PGROUNDUP(top)
<1>1. /\ up \in Nat /\ Paged(up) /\ top <= up /\ up < top + PGSIZE
      /\ \A y : Paged(y) /\ top <= y => up <= y
  BY RoundedPage
<1>2. PHY_START \in Nat /\ PHY_END \in Nat /\ PGSIZE \in Nat
  BY Constants, Sizes, PagedFacts
<1> HIDE DEF up
<1>3. up \in RamPages
  BY <1>1, <1>2, RamFacts
<1>4. First(up)
  <2>1. ASSUME NEW b \in RamPages, b < up, ~(b < top) PROVE FALSE
    <3>1. b \in Nat /\ Paged(b)
      BY RamFacts, PagedFacts
    <3> QED
      BY <1>1, <2>1, <3>1
  <2> QED
    BY <1>1, <2>1
<1>5. FirstFree(top) \in RamPages \cup {PHY_END} /\ First(FirstFree(top))
  BY <1>3, <1>4 DEF FirstFree
<1> DEFINE a == FirstFree(top)
<1> HIDE DEF a
<1>6. a \in RamPages \cup {PHY_END} /\ First(a) /\ a \in Nat
  BY <1>2, <1>5, RamFacts, PagedFacts DEF a
<1>7. a <= up
  BY <1>1, <1>3, <1>6
<1>8. a # PHY_END
  BY <1>1, <1>2, <1>7
<1> QED
  BY <1>1, <1>2, <1>6, <1>7, <1>8 DEF a

-----------------------------------------------------------------------------
(* The pages of the tables: the two of the image, the one in the middle,   *)
(* which is the first that the allocator gives, and one for every FAN      *)
(* pages of the RAM from the end of the firmware on.                       *)

EarlyPage(l)  == VA2PA(Sym(l).early_pgtbl)
RootPage(l)   == VA2PA(Sym(l).swapper_pg_dir)
Top(l)        == VA2PA(Sym(l).ekernel + BITMAP)
Middle(l)     == FirstFree(Top(l))
First         == OPENSBI_SIZE \div PGSIZE     (* the first page mapped      *)
FirstTable    == First \div FAN
TableOf(l, k) == Middle(l) + PGSIZE * (1 + (k - FirstTable))

LEMMA Numbers ==
  /\ First \in Nat /\ First * PGSIZE = OPENSBI_SIZE
  /\ PAGES \in Nat /\ PAGES * PGSIZE = PHY_SIZE /\ PAGES <= FAN * FAN
  /\ FirstTable \in Nat /\ \E j \in Entries : First = FirstTable * FAN + j
  /\ \A k \in Nat : k * FAN < PAGES => k \in Entries /\ k <= PHY_SIZE \div (PGSIZE * FAN)
<1>1. PGSIZE \in Nat /\ PGSIZE > 0 /\ FAN \in Nat /\ FAN > 0 /\ FAN * FAN \in Nat
      /\ PGSIZE * FAN \in Nat /\ PGSIZE * FAN > 0 /\ EARLY_PGSIZE = (FAN * FAN) * PGSIZE
  BY Sizes
<1>2. /\ OPENSBI_SIZE \in Nat /\ PHY_SIZE \in Nat /\ PHY_SIZE <= EARLY_PGSIZE
      /\ Paged(OPENSBI_SIZE) /\ Paged(PHY_SIZE)
  BY Constants
<1>3. ASSUME NEW x \in Nat, Paged(x) PROVE x \div PGSIZE \in Nat /\ (x \div PGSIZE) * PGSIZE = x
  <2>1. x % PGSIZE = 0
    BY <1>3, PagedFacts
  <2> QED
    BY <1>1, <2>1, DivMod
<1>4. First \in Nat /\ First * PGSIZE = OPENSBI_SIZE /\ PAGES \in Nat /\ PAGES * PGSIZE = PHY_SIZE
  BY <1>2, <1>3 DEF First, PAGES
<1>5. PAGES <= FAN * FAN
  <2>1. SUFFICES ASSUME FAN * FAN < PAGES PROVE FALSE
    BY <1>1, <1>4
  <2> DEFINE ff == FAN * FAN
  <2>2. ff \in Nat /\ ff < PAGES /\ EARLY_PGSIZE = ff * PGSIZE
    BY <1>1, <2>1
  <2> HIDE DEF ff
  <2>3. ff * PGSIZE + PGSIZE <= PAGES * PGSIZE /\ ff * PGSIZE \in Nat
    BY <1>1, <1>4, <2>2, Times
  <2> QED
    BY <1>1, <1>2, <1>4, <2>2, <2>3
<1>6. FirstTable \in Nat /\ \E j \in Entries : First = FirstTable * FAN + j
  <2>1. First \div FAN \in Nat /\ (First % FAN) \in Entries /\ First = (First \div FAN) * FAN + (First % FAN)
    BY <1>1, <1>4, DivMod DEF Entries
  <2> QED
    BY <2>1 DEF FirstTable
<1>7. ASSUME NEW k \in Nat, k * FAN < PAGES PROVE k \in Entries
  <2>1. FAN <= k => FAN * FAN <= k * FAN
    BY <1>1, Times
  <2>2. k * FAN \in Nat
    BY <1>1
  <2> QED
    BY <1>1, <1>4, <1>5, <1>7, <2>1, <2>2 DEF Entries
<1>8. ASSUME NEW k \in Nat, k * FAN < PAGES PROVE k <= PHY_SIZE \div (PGSIZE * FAN)
  <2> DEFINE t == PGSIZE * FAN
             d == PHY_SIZE \div t
             m == PHY_SIZE % t
  <2>1. t \in Nat /\ t > 0 /\ d \in Nat /\ m \in 0 .. t - 1 /\ PHY_SIZE = d * t + m
    BY <1>1, <1>2, DivMod
  <2>2. (k * FAN) * PGSIZE + PGSIZE <= PAGES * PGSIZE
    <3>1. k * FAN \in Nat
      BY <1>1
    <3> QED
      BY <1>1, <1>4, <1>8, <3>1, Times
  <2>3. (k * FAN) * PGSIZE = k * t /\ k * t \in Nat
    BY <1>1
  <2> HIDE DEF t, d, m
  <2>4. d < k => d * t + t <= k * t
    BY <2>1, Times
  <2>5. d * t \in Nat
    BY <2>1
  <2>6. k <= d
    BY <1>1, <1>4, <2>1, <2>2, <2>3, <2>4, <2>5
  <2> QED
    BY <2>6 DEF d, t
<1> QED
  BY <1>4, <1>5, <1>6, <1>7, <1>8

LEMMA ImagePages ==
  ASSUME NEW l \in Layouts
  PROVE  /\ EarlyPage(l) \in RamPages /\ RootPage(l) \in RamPages /\ Middle(l) \in RamPages
         /\ EarlyPage(l) \in Nat /\ RootPage(l) \in Nat /\ Middle(l) \in Nat /\ Top(l) \in Nat
         /\ PHY_START < EarlyPage(l) /\ EarlyPage(l) + PGSIZE = RootPage(l)
         /\ RootPage(l) + PGSIZE <= Middle(l) /\ Top(l) <= Middle(l)
         /\ Paged(EarlyPage(l)) /\ Paged(RootPage(l)) /\ Paged(Middle(l))
         /\ Middle(l) + PGSIZE * (PHY_SIZE \div (PGSIZE * FAN) + 5) < PHY_END
         /\ First < PAGES
<1> DEFINE T == PHY_SIZE \div (PGSIZE * FAN)
           y == Sym(l)
<1>1. T \in Nat /\ PGSIZE \in Nat /\ PGSIZE > 0
  BY Sizes, Constants, DivMod
<1>2. /\ y.stext = VM_START + OPENSBI_SIZE
      /\ y.stext \in Nat /\ y.boot_stack \in Nat /\ y.ekernel \in Nat
      /\ y.stext <= y.boot_stack
      /\ y.early_pgtbl = y.boot_stack + PGSIZE /\ y.swapper_pg_dir = y.boot_stack + 2 * PGSIZE
      /\ y.boot_stack + 3 * PGSIZE <= y.ekernel /\ Paged(y.boot_stack)
      /\ y.ekernel - PA2VA_OFFSET + BITMAP + PGSIZE * (T + 6) <= PHY_END
  BY Symbols DEF VA2PA
<1>3. /\ PHY_START \in Nat /\ PHY_END \in Nat /\ PA2VA_OFFSET \in Nat /\ OPENSBI_SIZE \in Nat
      /\ BITMAP \in Nat /\ VM_START = PHY_START + PA2VA_OFFSET /\ Paged(PA2VA_OFFSET)
      /\ PHY_SIZE \in Nat /\ PHY_END = PHY_START + PHY_SIZE
  BY Constants, PagedFacts
<1> HIDE DEF T, y
<1>4. PGSIZE * (T + 6) \in Nat /\ PGSIZE * (T + 6) = PGSIZE * (T + 5) + PGSIZE
      /\ PGSIZE * (T + 5) \in Nat /\ PGSIZE * (T + 5) = PGSIZE * T + 5 * PGSIZE /\ PGSIZE * T \in Nat
  BY <1>1
<1> DEFINE b == y.boot_stack - PA2VA_OFFSET
<1>5. b \in Nat /\ PHY_START <= b /\ Paged(b)
  BY <1>2, <1>3, PagedFacts
<1>6. /\ EarlyPage(l) = b + PGSIZE /\ RootPage(l) = b + PGSIZE + PGSIZE
      /\ Top(l) = y.ekernel + BITMAP - PA2VA_OFFSET
  BY <1>1, <1>2, <1>3 DEF EarlyPage, RootPage, Top, VA2PA, y
<1>7. /\ Top(l) \in Nat /\ b + 3 * PGSIZE <= Top(l) /\ Top(l) + PGSIZE * (T + 6) <= PHY_END
  BY <1>1, <1>2, <1>3, <1>4, <1>5, <1>6
<1>8. b + OPENSBI_SIZE >= PHY_START /\ PHY_START + OPENSBI_SIZE <= b
  BY <1>2, <1>3
<1> HIDE DEF b
<1>9. /\ Middle(l) \in RamPages /\ Middle(l) \in Nat
      /\ Top(l) <= Middle(l) /\ Middle(l) < Top(l) + PGSIZE
  <2>1. PHY_START <= Top(l) /\ Top(l) + PGSIZE <= PHY_END
    BY <1>1, <1>3, <1>4, <1>5, <1>7
  <2> QED
    BY <1>7, <2>1, FirstFreeFacts DEF Middle
<1>10. Paged(b + PGSIZE) /\ Paged(b + PGSIZE + PGSIZE) /\ Paged(Middle(l))
  BY <1>5, <1>9, PagedFacts, RamFacts
<1>11. Middle(l) + PGSIZE * (T + 5) < PHY_END
  BY <1>1, <1>3, <1>4, <1>7, <1>9
<1>12. RootPage(l) + PGSIZE <= Middle(l) /\ Middle(l) < PHY_END
  BY <1>1, <1>3, <1>4, <1>5, <1>6, <1>7, <1>9, <1>11
<1>13. EarlyPage(l) \in RamPages /\ RootPage(l) \in RamPages
  BY <1>1, <1>3, <1>5, <1>6, <1>9, <1>10, <1>12, RamFacts
<1>14. First < PAGES
  <2>1. SUFFICES ASSUME PAGES <= First PROVE FALSE
    BY Numbers
  <2>2. PHY_SIZE <= OPENSBI_SIZE
    BY <1>1, <2>1, Numbers, Times
  <2> QED
    BY <1>1, <1>3, <1>5, <1>6, <1>8, <1>9, <1>12, <2>2
<1> QED
  <2>1. EarlyPage(l) \in Nat /\ RootPage(l) \in Nat /\ PHY_START < EarlyPage(l)
        /\ EarlyPage(l) + PGSIZE = RootPage(l) /\ Paged(EarlyPage(l)) /\ Paged(RootPage(l))
    BY <1>1, <1>3, <1>5, <1>6, <1>10
  <2> QED
    BY <1>7, <1>9, <1>10, <1>11, <1>12, <1>13, <1>14, <2>1 DEF T

LEMMA TablePages ==
  ASSUME NEW l \in Layouts, NEW k \in Nat, FirstTable <= k, k * FAN < PAGES
  PROVE  /\ TableOf(l, k) \in RamPages /\ TableOf(l, k) \in Nat /\ Paged(TableOf(l, k))
         /\ Middle(l) + PGSIZE <= TableOf(l, k) /\ TableOf(l, k) + 4 * PGSIZE < PHY_END
         /\ k = FirstTable => TableOf(l, k) = Middle(l) + PGSIZE
         /\ k > FirstTable => TableOf(l, k) = TableOf(l, k - 1) + PGSIZE
         /\ \A i \in Nat : FirstTable <= i /\ i < k => TableOf(l, i) + PGSIZE <= TableOf(l, k)
<1> DEFINE T == PHY_SIZE \div (PGSIZE * FAN)
           d == 1 + (k - FirstTable)
<1>1. T \in Nat /\ PGSIZE \in Nat /\ PGSIZE > 0 /\ FirstTable \in Nat /\ k <= T
  BY Sizes, Constants, DivMod, Numbers
<1>2. /\ Middle(l) \in Nat /\ Paged(Middle(l)) /\ Middle(l) + PGSIZE * (T + 5) < PHY_END
      /\ Middle(l) \in RamPages /\ PHY_END \in Nat /\ PHY_START \in Nat /\ PHY_START <= Middle(l)
  BY ImagePages, Constants, RamFacts, PagedFacts
<1> HIDE DEF T
<1>3. d \in Nat /\ d >= 1 /\ d <= T + 1 /\ TableOf(l, k) = Middle(l) + PGSIZE * d
  BY <1>1 DEF TableOf
<1>4. ASSUME NEW i \in Nat, FirstTable <= i, i < k
      PROVE  /\ TableOf(l, i) \in Nat /\ TableOf(l, i) + PGSIZE <= TableOf(l, k)
             /\ i = k - 1 => TableOf(l, i) + PGSIZE = TableOf(l, k)
  <2> DEFINE c == 1 + (i - FirstTable)
  <2>1. c \in Nat /\ c < d /\ TableOf(l, i) = Middle(l) + PGSIZE * c /\ (i = k - 1 => d = c + 1)
    BY <1>1, <1>4 DEF TableOf
  <2> HIDE DEF c, d
  <2>2. PGSIZE * c = c * PGSIZE /\ PGSIZE * d = d * PGSIZE /\ c * PGSIZE \in Nat /\ d * PGSIZE \in Nat
    BY <1>1, <1>3, <2>1
  <2>3. c * PGSIZE + PGSIZE <= d * PGSIZE /\ (d = c + 1 => d * PGSIZE = c * PGSIZE + PGSIZE)
    BY <1>1, <1>3, <2>1, Times
  <2> QED
    BY <1>1, <1>2, <1>3, <2>1, <2>2, <2>3
<1>5. k = FirstTable => TableOf(l, k) = Middle(l) + PGSIZE
  BY <1>1 DEF TableOf
<1> HIDE DEF d
<1>6. /\ PGSIZE * d = d * PGSIZE /\ d * PGSIZE \in Nat /\ PGSIZE <= d * PGSIZE
      /\ d * PGSIZE <= (T + 1) * PGSIZE
      /\ PGSIZE * (T + 5) = (T + 1) * PGSIZE + 4 * PGSIZE /\ (T + 1) * PGSIZE \in Nat
  <2>1. 1 * PGSIZE <= d * PGSIZE /\ d * PGSIZE <= (T + 1) * PGSIZE
    BY <1>1, <1>3, Times
  <2> QED
    BY <1>1, <1>3, <2>1
<1>7. TableOf(l, k) \in Nat /\ Middle(l) + PGSIZE <= TableOf(l, k) /\ TableOf(l, k) + 4 * PGSIZE < PHY_END
  BY <1>1, <1>2, <1>3, <1>6
<1>8. Paged(TableOf(l, k))
  <2>1. Paged(d * PGSIZE)
    BY <1>3 DEF Paged
  <2> QED
    BY <1>2, <1>3, <1>6, <2>1, PagedFacts
<1>9. TableOf(l, k) \in RamPages
  BY <1>1, <1>2, <1>7, <1>8, RamFacts
<1> QED
  BY <1>1, <1>4, <1>5, <1>7, <1>8, <1>9

-----------------------------------------------------------------------------
(* The tables while setup_vm_final maps: every page from First to Q - 1.   *)

(* FinalPerm, of any layout.                                               *)
RightsOf(l, va) ==
  IF va < PGROUNDUP(Sym(l).etext) THEN {PTE_V, PTE_R, PTE_X}
  ELSE IF va < PGROUNDUP(Sym(l).erodata) THEN {PTE_V, PTE_R}
  ELSE {PTE_W, PTE_R, PTE_V}

Link(a)      == With(ADDR2PTE(a), {PTE_V})
LeafOf(l, q) == With(ADDR2PTE(PHY_START + q * PGSIZE), RightsOf(l, VM_START + q * PGSIZE))
Has(Q, k)    == First < Q /\ FirstTable <= k /\ k * FAN < Q   (* the table is there *)

RootTable(l, Q)   == [i \in Entries |-> IF i = High /\ First < Q THEN Link(Middle(l)) ELSE VPN(0)]
MiddleTable(l, Q) == [k \in Entries |-> IF Has(Q, k) THEN Link(TableOf(l, k)) ELSE VPN(0)]
LastTable(l, Q, k) ==
  [j \in Entries |-> IF First <= k * FAN + j /\ k * FAN + j < Q THEN LeafOf(l, k * FAN + j) ELSE VPN(0)]

Mem == [RamPages -> page_table_t]

Mapped(m, n, Q, l) ==
  /\ m \in Mem
  /\ m[EarlyPage(l)] = EarlyTable
  /\ m[RootPage(l)] = RootTable(l, Q)
  /\ m[Middle(l)] = MiddleTable(l, Q)
  /\ \A k \in Nat : Has(Q, k) => m[TableOf(l, k)] = LastTable(l, Q, k)
  /\ \A a \in RamPages :
       a \notin {EarlyPage(l), RootPage(l)} /\ (a < Middle(l) \/ n <= a) => m[a] = Zeroed
  /\ First = Q => n = Middle(l)
  /\ First < Q => \E k \in Nat : Has(Q, k) /\ ~Has(Q, k + 1) /\ n = TableOf(l, k) + PGSIZE

LEMMA PageOrder ==
  ASSUME NEW K \in Nat, NEW J \in Entries, NEW k \in Nat, NEW j \in Entries
  PROVE  /\ k * FAN + j \in Nat
         /\ k * FAN + j < K * FAN + J <=> k < K \/ (k = K /\ j < J)
<1>1. FAN \in Nat /\ k * FAN \in Nat /\ K * FAN \in Nat /\ j \in 0 .. FAN - 1 /\ J \in 0 .. FAN - 1
  BY Sizes, Times DEF Entries
<1>2. (k < K => k * FAN + FAN <= K * FAN) /\ (K < k => K * FAN + FAN <= k * FAN)
  BY <1>1, Times
<1> QED
  BY <1>1, <1>2

LEMMA TheTables ==
  ASSUME NEW K \in Nat, NEW J \in Entries, First <= K * FAN + J
  PROVE  /\ FirstTable <= K
         /\ First = K * FAN + J => K = FirstTable
         /\ First < K * FAN + J /\ J = 0 => FirstTable < K
         /\ \A k \in Nat : Has(K * FAN + J + 1, k) <=> FirstTable <= k /\ k <= K
         /\ \A k \in Nat : Has(K * FAN + J, k) <=>
              First < K * FAN + J /\ FirstTable <= k /\ (k < K \/ (k = K /\ J > 0))
<1>1. PICK j0 \in Entries : First = FirstTable * FAN + j0
  BY Numbers
<1>2. FirstTable \in Nat /\ First \in Nat /\ 0 \in Entries /\ FAN \in Nat /\ FAN > 0 /\ J \in Nat
  BY Numbers, Sizes DEF Entries
<1>3. /\ First < K * FAN + J <=> FirstTable < K \/ (FirstTable = K /\ j0 < J)
      /\ First = K * FAN + J <=> FirstTable = K /\ j0 = J
      /\ K * FAN + J \in Nat
  <2>1. FirstTable * FAN + j0 < K * FAN + J <=> FirstTable < K \/ (FirstTable = K /\ j0 < J)
    BY <1>2, PageOrder
  <2>2. K * FAN + J < FirstTable * FAN + j0 <=> K < FirstTable \/ (K = FirstTable /\ J < j0)
    BY <1>2, PageOrder
  <2>3. K * FAN + J \in Nat /\ j0 \in Nat
    BY PageOrder DEF Entries
  <2> QED
    BY <1>1, <1>2, <2>1, <2>2, <2>3
<1>4. j0 \in Nat
  BY <1>2 DEF Entries
<1>5. ASSUME NEW k \in Nat
      PROVE  /\ k * FAN < K * FAN + J <=> k < K \/ (k = K /\ J > 0)
             /\ k * FAN < K * FAN + J + 1 <=> k <= K
  <2>1. k * FAN + 0 < K * FAN + J <=> k < K \/ (k = K /\ 0 < J)
    BY <1>2, PageOrder
  <2>2. K * FAN + J < k * FAN + 0 <=> K < k \/ (K = k /\ J < 0)
    BY <1>2, PageOrder
  <2>3. k * FAN \in Nat
    BY <1>2, Times
  <2> QED
    BY <1>2, <1>3, <2>1, <2>2, <2>3
<1> DEFINE Q == K * FAN + J
<1>6. Q \in Nat /\ Q = K * FAN + J
  BY <1>3
<1>9. First <= Q
  BY <1>6
<1> HIDE DEF Q
<1>7. FirstTable <= K
  BY <1>2, <1>3, <1>6, <1>9
<1>8. First < Q + 1
  BY <1>2, <1>6, <1>9
<1>10. ASSUME NEW k \in Nat
       PROVE  /\ Has(Q + 1, k) <=> FirstTable <= k /\ k <= K
              /\ Has(Q, k) <=> First < Q /\ FirstTable <= k /\ (k < K \/ (k = K /\ J > 0))
  <2>1. (k * FAN < Q <=> k < K \/ (k = K /\ J > 0)) /\ (k * FAN < Q + 1 <=> k <= K)
    BY <1>5, <1>6
  <2> QED
    BY <1>8, <2>1 DEF Has
<1>11. First = Q => K = FirstTable
  BY <1>3, <1>6
<1>12. First < Q /\ J = 0 => FirstTable < K
  BY <1>2, <1>3, <1>4, <1>6
<1> QED
  BY <1>6, <1>7, <1>10, <1>11, <1>12

PTE == [ppn : Nat, perm : SUBSET Bits]

LEMMA LinkFacts ==
  /\ VPN(0) \in PTE /\ ~PTE_VALID(VPN(0)) /\ VPN(0).perm = {}
  /\ \A a : Paged(a) => /\ Link(a) \in PTE /\ PTE_VALID(Link(a)) /\ ~Leaf(Link(a))
                        /\ PTE2ADDR(Link(a)) = a /\ VA2PA(PTE2VA(Link(a))) = a
<1>1. VPN(0) \in PTE /\ ~PTE_VALID(VPN(0)) /\ VPN(0).perm = {}
  BY DEF VPN, PTE, PTE_VALID
<1>2. ASSUME NEW a, Paged(a)
      PROVE  /\ Link(a) \in PTE /\ PTE_VALID(Link(a)) /\ ~Leaf(Link(a))
             /\ PTE2ADDR(Link(a)) = a /\ VA2PA(PTE2VA(Link(a))) = a
  <2>1. a \in Nat /\ a % PGSIZE = 0
    BY <1>2, PagedFacts
  <2>2. {PTE_V} \in SUBSET Bits
    BY DEF Bits
  <2>3. Link(a) \in PTE /\ Link(a).perm = {PTE_V} /\ PTE2ADDR(Link(a)) = a
    BY <2>1, <2>2, WithType DEF Link, PTE, ADDR2PTE
  <2>4. VA2PA(PTE2VA(Link(a))) = a
    BY <2>1, <2>3, Constants DEF VA2PA, PTE2VA
  <2> QED
    BY <2>3, <2>4 DEF PTE_VALID, Leaf
<1> QED
  BY <1>1, <1>2

LEMMA LeafFacts ==
  ASSUME NEW l \in Layouts, NEW q \in Nat
  PROVE  /\ LeafOf(l, q) \in PTE
         /\ PTE_VALID(LeafOf(l, q)) /\ Leaf(LeafOf(l, q))
         /\ LeafOf(l, q).perm = RightsOf(l, VM_START + q * PGSIZE)
         /\ PTE2ADDR(LeafOf(l, q)) = PHY_START + q * PGSIZE
<1> DEFINE a == PHY_START + q * PGSIZE
           p == RightsOf(l, VM_START + q * PGSIZE)
<1>1. a \in Nat /\ a % PGSIZE = 0
  <2>1. Paged(q * PGSIZE) /\ Paged(PHY_START)
    BY Constants DEF Paged
  <2>2. Paged(a) /\ a \in Nat
    BY <2>1, PagedFacts
  <2> QED
    BY <2>2, PagedFacts
<1>2. p \in SUBSET Bits /\ PTE_V \in p /\ PTE_R \in p
  BY DEF RightsOf, Bits
<1> HIDE DEF a, p
<1>3. /\ With(VPN(PG_NUM(a)), p) \in PTE /\ With(VPN(PG_NUM(a)), p).perm = p
      /\ PTE2ADDR(With(VPN(PG_NUM(a)), p)) = a
  BY <1>1, <1>2, WithType DEF PTE
<1>4. LeafOf(l, q) = With(VPN(PG_NUM(a)), p)
  BY DEF LeafOf, a, p, ADDR2PTE
<1>5. PTE_V # PTE_R
  BY DEF PTE_V, PTE_R
<1> QED
  BY <1>2, <1>3, <1>4, <1>5 DEF PTE_VALID, Leaf, a, p

LEMMA TableTypes ==
  ASSUME NEW l \in Layouts, NEW Q \in Nat, Q <= PAGES
  PROVE  /\ Zeroed \in page_table_t
         /\ RootTable(l, Q) \in page_table_t /\ MiddleTable(l, Q) \in page_table_t
         /\ \A k \in Nat : LastTable(l, Q, k) \in page_table_t
         /\ \A k \in Nat : Has(Q, k) => k * FAN < PAGES /\ FirstTable <= k /\ k \in Entries
<1>1. page_table_t = [Entries -> PTE] /\ VPN(0) \in PTE
  BY LinkFacts DEF page_table_t, Entries, PTE, Bits
<1>2. Zeroed \in page_table_t
  BY <1>1 DEF Zeroed, Entries
<1>3. RootTable(l, Q) \in page_table_t
  BY <1>1, LinkFacts, ImagePages DEF RootTable
<1>4. ASSUME NEW k \in Nat, Has(Q, k) PROVE k * FAN < PAGES /\ FirstTable <= k /\ k \in Entries
  <2>1. k * FAN < Q /\ FirstTable <= k /\ k * FAN \in Nat
    BY <1>4, Sizes, Times DEF Has
  <2>2. k * FAN < PAGES
    BY <2>1, Numbers
  <2> QED
    BY <2>1, <2>2, Numbers
<1>5. MiddleTable(l, Q) \in page_table_t
  <2>1. ASSUME NEW k \in Entries, Has(Q, k) PROVE Link(TableOf(l, k)) \in PTE
    BY <1>4, <2>1, TablePages, LinkFacts DEF Entries
  <2> QED
    BY <1>1, <2>1 DEF MiddleTable
<1>6. ASSUME NEW k \in Nat PROVE LastTable(l, Q, k) \in page_table_t
  <2>1. ASSUME NEW j \in Entries PROVE LeafOf(l, k * FAN + j) \in PTE
    BY PageOrder, LeafFacts
  <2> QED
    BY <1>1, <2>1 DEF LastTable
<1> QED
  BY <1>2, <1>3, <1>4, <1>5, <1>6

(* What setup_pte does to the table at a.                                  *)
LEMMA SetupPte ==
  ASSUME NEW m \in [mem : Mem, next : Nat], Paged(m.next),
         NEW table, VA2PA(table) \in RamPages, NEW i \in Entries
  PROVE  LET a  == VA2PA(table)
             ok == PTE_VALID(m.mem[a][i])
         IN  setup_pte(m, table, i) =
               [mem  |-> [m.mem EXCEPT ![a] = IF ok THEN m.mem[a]
                                              ELSE [m.mem[a] EXCEPT ![i] = Link(m.next)]],
                next |-> IF ok THEN m.next ELSE m.next + PGSIZE]
<1> DEFINE a  == VA2PA(table)
           ok == PTE_VALID(m.mem[a][i])
<1>1. a \in RamPages /\ m.mem \in Mem
  OBVIOUS
<1>2. setup_pte(m, table, i) =
        IF ok THEN m ELSE [mem  |-> [m.mem EXCEPT ![a][i] = Link(m.next)],
                           next |-> m.next + PGSIZE]
  BY DEF setup_pte, Link
<1> HIDE DEF a, ok
<1>3. CASE ok
  <2>1. [m.mem EXCEPT ![a] = m.mem[a]] = m.mem
    BY <1>1 DEF Mem
  <2> QED
    BY <1>2, <1>3, <2>1 DEF a, ok
<1>4. CASE ~ok
  BY <1>2, <1>4 DEF a, ok
<1> QED
  BY <1>3, <1>4

(* One turn of a loop.                                                     *)
LEMMA MapStep ==
  ASSUME NEW l \in Layouts, NEW m \in [mem : Mem, next : Nat],
         NEW K \in Nat, NEW J \in Entries, First <= K * FAN + J, K * FAN + J < PAGES,
         Mapped(m.mem, m.next, K * FAN + J, l),
         NEW perm, perm \cup {PTE_V} = RightsOf(l, VM_START + (K * FAN + J) * PGSIZE)
  PROVE  LET q == K * FAN + J
             n == map_final_pgtbl(m, Sym(l).swapper_pg_dir, VM_START + q * PGSIZE,
                                  PHY_START + q * PGSIZE, perm)
         IN  n \in [mem : Mem, next : Nat] /\ Mapped(n.mem, n.next, q + 1, l)
<1> DEFINE Q == K * FAN + J
           va == VM_START + Q * PGSIZE
           dir == Sym(l).swapper_pg_dir
           R == RootPage(l)
           M == Middle(l)
           T == TableOf(l, K)
<1>1. Q \in Nat /\ First <= Q /\ Q < PAGES /\ Q = K * FAN + J /\ Q + 1 \in Nat /\ Q + 1 <= PAGES
      /\ First \in Nat /\ Q <= PAGES
  BY PageOrder, Numbers
<1>2. /\ FirstTable <= K /\ (First = Q => K = FirstTable)
      /\ (First < Q /\ J = 0 => FirstTable < K)
      /\ \A k \in Nat : Has(Q + 1, k) <=> FirstTable <= k /\ k <= K
      /\ \A k \in Nat : Has(Q, k) <=> First < Q /\ FirstTable <= k /\ (k < K \/ (k = K /\ J > 0))
  BY TheTables
<1>3. K * FAN < PAGES /\ K \in Entries
  <2>1. Has(Q + 1, K)
    BY <1>2
  <2> QED
    BY <1>1, <2>1, TableTypes
<1>4. VPN_2(va) = High /\ VPN_1(va) = K /\ VPN_0(va) = J /\ High \in Entries
  <2>1. High \in Nat /\ High < FAN /\ FAN \in Nat /\ VM_START = High * EARLY_PGSIZE /\ 0 \in 0 .. PGSIZE - 1
    BY Bases, Sizes
  <2>2. High \in Entries
    BY <2>1 DEF Entries
  <2>3. va = At(High, K, J, 0)
    <3>1. VM_START \in Nat /\ Q * PGSIZE \in Nat
      BY <1>1, Bases, Sizes, Times
    <3> QED
      BY <2>1, <3>1 DEF At
  <2> QED
    BY <1>3, <2>1, <2>2, <2>3, Places
<1>5. Mapped(m.mem, m.next, Q, l)
  OBVIOUS
<1>6. LeafOf(l, Q) = With(ADDR2PTE(PHY_START + Q * PGSIZE), perm \cup {PTE_V})
  BY DEF LeafOf
<1>7. /\ EarlyPage(l) \in RamPages /\ R \in RamPages /\ M \in RamPages
      /\ EarlyPage(l) \in Nat /\ R \in Nat /\ M \in Nat /\ PGSIZE \in Nat /\ PGSIZE > 0
      /\ EarlyPage(l) < R /\ R < M /\ Paged(M)
  BY ImagePages, Sizes
<1>8. /\ T \in RamPages /\ T \in Nat /\ Paged(T) /\ M < T /\ M + PGSIZE <= T
      /\ (K = FirstTable => T = M + PGSIZE)
      /\ (FirstTable < K => T = TableOf(l, K - 1) + PGSIZE)
      /\ \A k \in Nat : FirstTable <= k /\ k < K => TableOf(l, k) + PGSIZE <= T
  BY <1>2, <1>3, <1>7, TablePages
<1>9. \A k \in Nat : FirstTable <= k /\ k <= K =>
        TableOf(l, k) \in RamPages /\ TableOf(l, k) \in Nat /\ M < TableOf(l, k)
  <2>1. ASSUME NEW k \in Nat, FirstTable <= k, k <= K PROVE k * FAN < PAGES
    <3>1. Has(Q + 1, k)
      BY <1>2, <2>1
    <3> QED
      BY <1>1, <3>1, TableTypes
  <2> QED
    BY <1>7, <2>1, TablePages
<1>10. VA2PA(dir) = R
  BY DEF RootPage
<1> HIDE DEF Q, va, dir, R, M, T
<1>11. /\ m.mem \in Mem /\ m.mem[EarlyPage(l)] = EarlyTable
       /\ m.mem[R] = RootTable(l, Q) /\ m.mem[M] = MiddleTable(l, Q)
       /\ \A k \in Nat : Has(Q, k) => m.mem[TableOf(l, k)] = LastTable(l, Q, k)
       /\ \A a \in RamPages :
            a \notin {EarlyPage(l), R} /\ (a < M \/ m.next <= a) => m.mem[a] = Zeroed
  BY <1>5 DEF Mapped, R, M
<1>12. m.next = IF First = Q THEN M ELSE IF J = 0 THEN T ELSE T + PGSIZE
  <2>1. CASE First = Q
    BY <1>5, <2>1 DEF Mapped, M
  <2>2. CASE First # Q
    <3>1. First < Q
      BY <1>1, <2>2
    <3>2. PICK k \in Nat : Has(Q, k) /\ ~Has(Q, k + 1) /\ m.next = TableOf(l, k) + PGSIZE
      BY <1>5, <3>1 DEF Mapped
    <3>3. J \in Nat
      BY Sizes DEF Entries
    <3>4. IF J = 0 THEN k = K - 1 ELSE k = K
      <4>1. FirstTable <= k /\ (k < K \/ (k = K /\ J > 0))
        BY <1>2, <3>2
      <4>2. k + 1 \in Nat /\ ~(k + 1 < K \/ (k + 1 = K /\ J > 0))
        <5>1. k + 1 \in Nat /\ FirstTable <= k + 1
          BY <4>1, Numbers
        <5> QED
          BY <1>2, <3>1, <3>2, <5>1
      <4> QED
        BY <3>3, <4>1, <4>2
    <3> QED
      BY <1>2, <1>8, <2>2, <3>1, <3>2, <3>4 DEF T
  <2> QED
    BY <2>1, <2>2
<1>13. Paged(m.next)
  BY <1>7, <1>8, <1>12, PagedFacts
<1> DEFINE rt == RootTable(l, Q + 1)
           mt == MiddleTable(l, Q + 1)
           lt == LastTable(l, Q + 1, K)
           old == LastTable(l, Q, K)
<1>14. rt \in page_table_t /\ mt \in page_table_t /\ lt \in page_table_t /\ old \in page_table_t
       /\ page_table_t = [Entries -> PTE]
  BY <1>1, TableTypes DEF page_table_t, Entries, PTE, Bits
<1> DEFINE n2 == IF First = Q THEN M + PGSIZE ELSE m.next
           m2 == [mem |-> [m.mem EXCEPT ![R] = rt], next |-> n2]
<1>15. setup_pte(m, dir, High) = m2
  <2> DEFINE ok == PTE_VALID(m.mem[R][High])
  <2>1. setup_pte(m, dir, High) =
          [mem  |-> [m.mem EXCEPT ![R] = IF ok THEN m.mem[R]
                                         ELSE [m.mem[R] EXCEPT ![High] = Link(m.next)]],
           next |-> IF ok THEN m.next ELSE m.next + PGSIZE]
    BY <1>4, <1>7, <1>10, <1>13, SetupPte
  <2>2. RootTable(l, Q)[High] = IF First < Q THEN Link(M) ELSE VPN(0)
    BY <1>4 DEF RootTable, M
  <2>3. ok <=> First # Q
    BY <1>1, <1>7, <1>11, <2>2, LinkFacts
  <2>4. First # Q => RootTable(l, Q) = rt
    BY <1>1 DEF RootTable
  <2>5. ASSUME First = Q PROVE [RootTable(l, Q) EXCEPT ![High] = Link(M)] = rt
    <3>1. ~(First < Q) /\ First < Q + 1
      BY <1>1, <2>5
    <3>2. RootTable(l, Q) = [i \in Entries |-> VPN(0)]
      BY <3>1 DEF RootTable
    <3>3. rt = [i \in Entries |-> IF i = High THEN Link(M) ELSE VPN(0)]
      BY <3>1 DEF RootTable, M
    <3> HIDE DEF rt
    <3> QED
      BY <3>2, <3>3
  <2> HIDE DEF ok, rt
  <2> QED
    BY <1>11, <1>12, <2>1, <2>3, <2>4, <2>5
<1>16. /\ m2 \in [mem : Mem, next : Nat] /\ Paged(m2.next)
       /\ m2.mem[R] = rt /\ m2.next = IF First = Q \/ J = 0 THEN T ELSE T + PGSIZE
       /\ \A a \in RamPages : a # R => m2.mem[a] = m.mem[a]
  BY <1>2, <1>7, <1>8, <1>11, <1>12, <1>13, <1>14, PagedFacts DEF Mem
<1>17. VA2PA(PTE2VA(rt[High])) = M
  BY <1>1, <1>4, <1>7, LinkFacts DEF RootTable, M
<1> HIDE DEF m2, n2, rt
<1> DEFINE m1 == [mem |-> [m2.mem EXCEPT ![M] = mt], next |-> T + PGSIZE]
<1>18. setup_pte(m2, PTE2VA(rt[High]), K) = m1
  <2> DEFINE ok == PTE_VALID(m2.mem[M][K])
  <2>1. setup_pte(m2, PTE2VA(rt[High]), K) =
          [mem  |-> [m2.mem EXCEPT ![M] = IF ok THEN m2.mem[M]
                                         ELSE [m2.mem[M] EXCEPT ![K] = Link(m2.next)]],
           next |-> IF ok THEN m2.next ELSE m2.next + PGSIZE]
    BY <1>3, <1>7, <1>16, <1>17, SetupPte
  <2>2. m2.mem[M] = MiddleTable(l, Q)
    BY <1>7, <1>11, <1>16
  <2>3. MiddleTable(l, Q)[K] = IF Has(Q, K) THEN Link(T) ELSE VPN(0)
    BY <1>3 DEF MiddleTable, T
  <2>4. ok <=> Has(Q, K)
    BY <1>8, <2>2, <2>3, LinkFacts
  <2>5. J \in Nat /\ (Has(Q, K) <=> First # Q /\ J # 0)
    <3>1. J \in Nat
      BY Sizes DEF Entries
    <3> QED
      BY <1>1, <1>2, <3>1
  <2>6. \A k \in Entries : k \in Nat /\ (Has(Q + 1, k) <=> Has(Q, k) \/ k = K)
    <3>1. \A k \in Entries : k \in Nat
      BY Sizes DEF Entries
    <3>2. ASSUME NEW k \in Nat PROVE Has(Q + 1, k) <=> Has(Q, k) \/ k = K
      <4>1. First = Q \/ First < Q
        BY <1>1
      <4> QED
        BY <1>2, <2>5, <3>2, <4>1
    <3> QED
      BY <3>1, <3>2
  <2>7. Has(Q, K) => MiddleTable(l, Q) = mt
    BY <2>6 DEF MiddleTable
  <2>8. [MiddleTable(l, Q) EXCEPT ![K] = Link(T)] = mt
    BY <1>3, <2>6 DEF MiddleTable, T
  <2> HIDE DEF ok, mt
  <2> QED
    BY <1>16, <2>1, <2>2, <2>4, <2>5, <2>7, <2>8
<1>19. /\ m1 \in [mem : Mem, next : Nat]
       /\ m1.mem[R] = rt /\ m1.mem[M] = mt
       /\ \A a \in RamPages : a \notin {R, M} => m1.mem[a] = m.mem[a]
  BY <1>7, <1>8, <1>14, <1>16 DEF Mem
<1>20. VA2PA(PTE2VA(mt[K])) = T
  <2>1. mt[K] = Link(T)
    BY <1>2, <1>3 DEF MiddleTable, T
  <2> QED
    BY <1>8, <2>1, LinkFacts
<1>21. m1.mem[T] = old
  <2>1. m1.mem[T] = m.mem[T]
    BY <1>7, <1>8, <1>19
  <2>2. CASE Has(Q, K)
    BY <1>11, <2>1, <2>2 DEF T
  <2>3. CASE ~Has(Q, K)
    <3>1. J \in Nat
      BY Sizes DEF Entries
    <3>2. First = Q \/ (First < Q /\ J = 0)
      BY <1>1, <1>2, <2>3, <3>1
    <3>3. m.next <= T
      BY <1>7, <1>8, <1>12, <3>2
    <3>4. m.mem[T] = Zeroed
      BY <1>7, <1>8, <1>11, <3>3
    <3>5. ASSUME NEW j \in Entries, First <= K * FAN + j, K * FAN + j < Q PROVE FALSE
      <4>1. K * FAN + j \in Nat /\ ~(K * FAN + j < K * FAN + 0) /\ j \in Nat /\ 0 \in Entries
        BY PageOrder, Sizes DEF Entries
      <4>2. K * FAN \in Nat /\ FAN \in Nat
        BY Sizes, Times
      <4> QED
        BY <1>1, <3>2, <3>5, <4>1, <4>2
    <3>6. old = Zeroed
      BY <3>5 DEF LastTable, Zeroed, Entries
    <3> QED
      BY <2>1, <3>4, <3>6
  <2> QED
    BY <2>2, <2>3
<1> HIDE DEF m1, mt
<1> DEFINE n == [mem |-> [m1.mem EXCEPT ![T] = lt], next |-> T + PGSIZE]
<1>22. [old EXCEPT ![J] = LeafOf(l, Q)] = lt
  <2>1. ASSUME NEW j \in Entries
        PROVE  /\ K * FAN + j \in Nat
               /\ K * FAN + j < Q + 1 <=> K * FAN + j < Q \/ j = J
               /\ j = J => K * FAN + j = Q
    <3>1. K * FAN \in Nat /\ j \in Nat /\ J \in Nat
      BY Sizes, Times DEF Entries
    <3> QED
      BY <1>1, <3>1
  <2>2. \A j \in Entries : lt[j] = IF j = J THEN LeafOf(l, Q) ELSE old[j]
    <3> SUFFICES ASSUME NEW j \in Entries PROVE lt[j] = IF j = J THEN LeafOf(l, Q) ELSE old[j]
      OBVIOUS
    <3>1. CASE j = J
      <4>1. First <= K * FAN + j /\ K * FAN + j < Q + 1 /\ K * FAN + j = Q
        BY <1>1, <2>1, <3>1
      <4> QED
        BY <3>1, <4>1 DEF LastTable
    <3>2. CASE j # J
      BY <2>1, <3>2 DEF LastTable
    <3> QED
      BY <3>1, <3>2
  <2> HIDE DEF lt, old
  <2> QED
    BY <1>14, <2>2
<1>23. map_final_pgtbl(m, dir, va, PHY_START + Q * PGSIZE, perm) = n
  <2>1. m2.mem[VA2PA(dir)][VPN_2(va)] = rt[High]
    BY <1>4, <1>10, <1>16
  <2>2. m1.mem[VA2PA(PTE2VA(rt[High]))][VPN_1(va)] = mt[K]
    BY <1>4, <1>17, <1>19
  <2>3. map_final_pgtbl(m, dir, va, PHY_START + Q * PGSIZE, perm) =
          [m1 EXCEPT !.mem[VA2PA(PTE2VA(mt[K]))][VPN_0(va)] =
             With(ADDR2PTE(PHY_START + Q * PGSIZE), perm \cup {PTE_V})]
    BY <1>4, <1>15, <1>18, <2>1, <2>2 DEF map_final_pgtbl
  <2>4. @ = [m1 EXCEPT !.mem[T][J] = LeafOf(l, Q)]
    BY <1>4, <1>6, <1>20
  <2>5. @ = [mem |-> [m1.mem EXCEPT ![T][J] = LeafOf(l, Q)], next |-> T + PGSIZE]
    BY <1>19 DEF m1
  <2>6. [m1.mem EXCEPT ![T][J] = LeafOf(l, Q)] = [m1.mem EXCEPT ![T] = lt]
    BY <1>8, <1>19, <1>21, <1>22
  <2> QED
    BY <2>3, <2>4, <2>5, <2>6
<1>24. /\ n \in [mem : Mem, next : Nat] /\ n.next = T + PGSIZE
       /\ n.mem[R] = rt /\ n.mem[M] = mt /\ n.mem[T] = lt
       /\ \A a \in RamPages : a \notin {R, M, T} => n.mem[a] = m.mem[a]
  BY <1>7, <1>8, <1>14, <1>19 DEF Mem
<1> HIDE DEF n, lt
<1>25. Mapped(n.mem, n.next, Q + 1, l)
  <2>1. n.mem[EarlyPage(l)] = EarlyTable
    BY <1>7, <1>8, <1>11, <1>24
  <2>2. ASSUME NEW k \in Nat, Has(Q + 1, k)
        PROVE  n.mem[TableOf(l, k)] = LastTable(l, Q + 1, k)
    <3>1. FirstTable <= k /\ k <= K
      BY <1>2, <2>2
    <3>2. CASE k = K
      BY <1>24, <3>2 DEF T, lt
    <3>3. CASE k < K
      <4>1. Has(Q, k)
        <5>1. First < Q
          BY <1>1, <1>2, <3>1, <3>3
        <5> QED
          BY <1>2, <3>1, <3>3, <5>1
      <4>2. TableOf(l, k) \in RamPages /\ TableOf(l, k) \notin {R, M, T}
        BY <1>7, <1>8, <1>9, <3>1, <3>3
      <4>3. n.mem[TableOf(l, k)] = LastTable(l, Q, k)
        BY <1>11, <1>24, <4>1, <4>2
      <4>4. ASSUME NEW j \in Entries PROVE K * FAN + J \in Nat /\ k * FAN + j < Q /\ k * FAN + j \in Nat
        BY <1>1, <3>3, PageOrder
      <4>5. LastTable(l, Q, k) = LastTable(l, Q + 1, k)
        <5>1. \A j \in Entries : k * FAN + j < Q /\ k * FAN + j < Q + 1
          BY <1>1, <4>4
        <5> QED
          BY <5>1 DEF LastTable
      <4> QED
        BY <4>3, <4>5
    <3> QED
      BY <3>1, <3>2, <3>3
  <2>3. ASSUME NEW a \in RamPages, a \notin {EarlyPage(l), R}, a < M \/ n.next <= a
        PROVE  n.mem[a] = Zeroed
    <3>1. a \in Nat /\ m.next \in Nat
      BY RamFacts, PagedFacts
    <3>2. a \notin {R, M, T}
      BY <1>7, <1>8, <1>24, <2>3, <3>1
    <3>3. m.next <= T + PGSIZE
      BY <1>7, <1>8, <1>12
    <3> QED
      BY <1>7, <1>8, <1>11, <1>24, <2>3, <3>1, <3>2, <3>3
  <2>4. First # Q + 1 /\ Has(Q + 1, K) /\ ~Has(Q + 1, K + 1)
    BY <1>1, <1>2
  <2>5. n.mem \in Mem
    BY <1>24
  <2>6. n.mem[RootPage(l)] = RootTable(l, Q + 1) /\ n.mem[Middle(l)] = MiddleTable(l, Q + 1)
    BY <1>24 DEF R, M, rt, mt
  <2>7. \A a \in RamPages :
          a \notin {EarlyPage(l), RootPage(l)} /\ (a < Middle(l) \/ n.next <= a) => n.mem[a] = Zeroed
    BY <2>3 DEF R, M
  <2>8. n.next = TableOf(l, K) + PGSIZE
    BY <1>24 DEF T
  <2> QED
    BY <2>1, <2>2, <2>4, <2>5, <2>6, <2>7, <2>8 DEF Mapped
<1> QED
  BY <1>23, <1>24, <1>25 DEF Q, va, dir

-----------------------------------------------------------------------------
(* Walks.                                                                  *)

(* Walk, over any memory.                                                  *)
WalkIn(m, root, va) ==
  LET e2 == m[root.ppn * PGSIZE][VPN_2(va)]
      e1 == m[PTE2ADDR(e2)][VPN_1(va)]
      e0 == m[PTE2ADDR(e1)][VPN_0(va)]
  IN  IF root.mode # SV39 THEN [pa |-> va, perm |-> All]
      ELSE IF PTE_VALID(e2) /\ Leaf(e2) THEN Maps(e2, va % EARLY_PGSIZE)
      ELSE IF PTE_VALID(e2) /\ PTE_VALID(e1) THEN Maps(e0, va % PGSIZE)
      ELSE [pa |-> 0, perm |-> {}]

RootAt(a) == [mode |-> SV39, ppn |-> PG_NUM(a)]

LEMMA WalkAt ==
  ASSUME NEW m, NEW a, Paged(a), NEW b \in Entries, NEW k \in Entries, NEW j \in Entries,
         NEW c \in 0 .. PGSIZE - 1
  PROVE  LET e2 == m[a][b]
             e1 == m[PTE2ADDR(e2)][k]
             e0 == m[PTE2ADDR(e1)][j]
         IN  WalkIn(m, RootAt(a), At(b, k, j, c)) =
               IF PTE_VALID(e2) /\ Leaf(e2) THEN Maps(e2, (k * FAN + j) * PGSIZE + c)
               ELSE IF PTE_VALID(e2) /\ PTE_VALID(e1) THEN Maps(e0, c)
               ELSE [pa |-> 0, perm |-> {}]
<1> DEFINE va == At(b, k, j, c)
<1>1. /\ VPN_2(va) = b /\ VPN_1(va) = k /\ VPN_0(va) = j /\ va % PGSIZE = c
      /\ va % EARLY_PGSIZE = (k * FAN + j) * PGSIZE + c
  BY Places
<1>2. RootAt(a).mode = SV39 /\ RootAt(a).ppn * PGSIZE = a
  <2>1. a \in Nat /\ a % PGSIZE = 0
    BY PagedFacts
  <2> QED
    BY <2>1, PageNumbers DEF RootAt
<1> HIDE DEF va
<1> QED
  BY <1>1, <1>2 DEF WalkIn, va

(* The early root leads to the RAM from both of its halves.                *)
LEMMA EarlyWalk ==
  ASSUME NEW l \in Layouts, NEW m, m[EarlyPage(l)] = EarlyTable,
         NEW b \in {PHY_START, VM_START}, NEW x \in 0 .. EARLY_PGSIZE - 1
  PROVE  WalkIn(m, RootAt(EarlyPage(l)), b + x) = [pa |-> PHY_START + x, perm |-> All]
<1>1. /\ Low \in Nat /\ High \in Nat /\ Low < FAN /\ High < FAN /\ PHY_START = Low * EARLY_PGSIZE
      /\ VM_START = High * EARLY_PGSIZE /\ PHY_START \in Nat /\ VM_START \in Nat
      /\ EARLY_PGSIZE \in Nat /\ FAN \in Nat /\ FAN > 0 /\ EARLY_PGSIZE > 0
      /\ PGSIZE \in Nat /\ PGSIZE > 0 /\ FAN * EARLY_PGSIZE = EARLY_PGSIZE * FAN
  BY Bases, Sizes
<1>2. PICK i \in Entries : b = i * EARLY_PGSIZE /\ i \in {Low, High}
  BY <1>1 DEF Entries
<1>3. i \in Nat /\ i < FAN /\ i * EARLY_PGSIZE \in Nat /\ x \in Nat /\ x < EARLY_PGSIZE
  BY <1>1, <1>2 DEF Entries
<1>4. PICK k \in Entries, j \in Entries, c \in 0 .. PGSIZE - 1 : x = (k * FAN + j) * PGSIZE + c
  <2>1. x < FAN * EARLY_PGSIZE
    <3>1. 1 * EARLY_PGSIZE <= FAN * EARLY_PGSIZE /\ FAN * EARLY_PGSIZE \in Nat
      BY <1>1, Times
    <3> QED
      BY <1>1, <1>3, <3>1
  <2>2. PICK i0 \in Entries, k \in Entries, j \in Entries, c \in 0 .. PGSIZE - 1 :
          x = At(i0, k, j, c)
    BY <1>3, <2>1, PlaceOf
  <2> DEFINE o == (k * FAN + j) * PGSIZE + c
  <2>3. o \in 0 .. EARLY_PGSIZE - 1
    BY Places
  <2>4. x % EARLY_PGSIZE = o
    BY <2>2, Places
  <2>5. x % EARLY_PGSIZE = x
    <3>1. 0 * EARLY_PGSIZE + x = x
      BY <1>1, <1>3
    <3> QED
      BY <1>1, <3>1, DivUnique
  <2> QED
    BY <2>4, <2>5
<1>5. b + x = At(i, k, j, c)
  <2> DEFINE o == (k * FAN + j) * PGSIZE
  <2>1. o \in Nat
    <3>1. k * FAN + j \in Nat
      BY <1>1 DEF Entries
    <3> QED
      BY <1>1, <3>1, Times
  <2>2. x = o + c /\ b = i * EARLY_PGSIZE /\ At(i, k, j, c) = i * EARLY_PGSIZE + o + c
    BY <1>2, <1>4 DEF At
  <2> HIDE DEF o
  <2> QED
    BY <1>1, <1>3, <2>1, <2>2
<1> DEFINE e == EarlyTable[i]
<1>6. e.perm = All /\ PTE2ADDR(e) = PHY_START /\ PTE_VALID(e) /\ Leaf(e)
  <2>1. e = With(VPN(PG_NUM(PHY_START)), All)
    BY <1>2, EarlyFacts
  <2>2. PHY_START % PGSIZE = 0
    BY <1>1, Constants, PagedFacts
  <2>3. All \in SUBSET Bits /\ PTE_V \in All /\ PTE_R \in All /\ PTE_V # PTE_R
    BY DEF All, Bits, PTE_V, PTE_R
  <2>4. e.perm = All /\ PTE2ADDR(e) = PHY_START
    BY <1>1, <2>1, <2>2, <2>3, WithType
  <2> QED
    BY <2>3, <2>4 DEF PTE_VALID, Leaf
<1>7. Paged(EarlyPage(l))
  BY ImagePages
<1>8. WalkIn(m, RootAt(EarlyPage(l)), At(i, k, j, c)) = Maps(e, (k * FAN + j) * PGSIZE + c)
  BY <1>6, <1>7, WalkAt
<1> HIDE DEF e
<1> QED
  BY <1>4, <1>5, <1>6, <1>8 DEF Maps

(* The tables that setup_vm_final leaves behind.                           *)
Final(m, l) ==
  /\ m[Middle(l)] = MiddleTable(l, PAGES)
  /\ \A k \in Nat : Has(PAGES, k) => m[TableOf(l, k)] = LastTable(l, PAGES, k)

LEMMA KernelPlace ==
  /\ \A va \in Kernel : \E q \in First .. PAGES - 1, c \in 0 .. PGSIZE - 1 :
       va = VM_START + q * PGSIZE + c
  /\ \A q \in First .. PAGES - 1, c \in 0 .. PGSIZE - 1 : VM_START + q * PGSIZE + c \in Kernel
<1>1. /\ VM_START \in Nat /\ PA2VA_OFFSET \in Nat /\ PHY_START \in Nat /\ PHY_SIZE \in Nat
      /\ VM_START = PHY_START + PA2VA_OFFSET /\ PHY_END = PHY_START + PHY_SIZE
      /\ PGSIZE \in Nat /\ PGSIZE > 0 /\ OPENSBI_SIZE \in Nat
  BY Constants, Sizes
<1>2. Kernel = VM_START + OPENSBI_SIZE .. VM_START + PHY_SIZE - 1
  <2>1. PHY_END + PA2VA_OFFSET = VM_START + PHY_SIZE
    BY <1>1
  <2> QED
    BY <1>1, <2>1 DEF Kernel, PA2VA
<1>3. /\ First \in Nat /\ First * PGSIZE = OPENSBI_SIZE /\ PAGES \in Nat /\ PAGES * PGSIZE = PHY_SIZE
  BY Numbers
<1>4. ASSUME NEW va \in Kernel
      PROVE  \E q \in First .. PAGES - 1, c \in 0 .. PGSIZE - 1 : va = VM_START + q * PGSIZE + c
  <2> DEFINE x == va - VM_START
  <2>1. x \in Nat /\ OPENSBI_SIZE <= x /\ x < PHY_SIZE /\ va = VM_START + x
    BY <1>1, <1>2
  <2> HIDE DEF x
  <2>2. PICK q \in Nat, c \in 0 .. PGSIZE - 1 : x = q * PGSIZE + c
    BY <1>1, <2>1, Parts
  <2>3. q * PGSIZE \in Nat /\ (q < First => q * PGSIZE + PGSIZE <= First * PGSIZE)
        /\ (PAGES <= q => PAGES * PGSIZE <= q * PGSIZE)
    BY <1>1, <1>3, Times
  <2>4. q \in First .. PAGES - 1
    BY <1>1, <1>3, <2>1, <2>2, <2>3
  <2> QED
    BY <1>1, <2>1, <2>2, <2>3, <2>4
<1>5. ASSUME NEW q \in First .. PAGES - 1, NEW c \in 0 .. PGSIZE - 1
      PROVE  VM_START + q * PGSIZE + c \in Kernel
  <2>1. q \in Nat /\ First <= q /\ q < PAGES
    BY <1>3
  <2>2. q * PGSIZE \in Nat /\ q * PGSIZE + PGSIZE <= PAGES * PGSIZE /\ First * PGSIZE <= q * PGSIZE
    BY <1>1, <1>3, <2>1, Times
  <2> QED
    BY <1>1, <1>2, <1>3, <2>2
<1> QED
  BY <1>4, <1>5

(* Along the root's entry of the kernel.                                    *)
LEMMA HighWalk ==
  ASSUME NEW l \in Layouts, NEW m, NEW a, Paged(a), m[a] = RootTable(l, PAGES), Final(m, l),
         NEW k \in Entries, NEW j \in Entries, NEW c \in 0 .. PGSIZE - 1
  PROVE  WalkIn(m, RootAt(a), At(High, k, j, c)) =
           IF Has(PAGES, k) THEN Maps(LastTable(l, PAGES, k)[j], c) ELSE [pa |-> 0, perm |-> {}]
<1>1. /\ VM_START \in Nat /\ PHY_START \in Nat /\ PGSIZE \in Nat /\ PGSIZE > 0 /\ FAN \in Nat /\ FAN > 0
      /\ VM_START = High * EARLY_PGSIZE /\ High \in Nat /\ High < FAN
      /\ First \in Nat /\ PAGES \in Nat /\ First < PAGES
  BY Bases, Sizes, Numbers, ImagePages
<1>2. High \in Entries
  BY <1>1 DEF Entries
<1>3. Paged(Middle(l)) /\ (\A i \in Nat : Has(PAGES, i) => Paged(TableOf(l, i)))
  BY <1>1, ImagePages, TableTypes, TablePages
<1> DEFINE e2 == m[a][High]
           e1 == m[PTE2ADDR(e2)][k]
           e0 == m[PTE2ADDR(e1)][j]
<1>4. e2 = Link(Middle(l))
  BY <1>1, <1>2 DEF RootTable
<1>5. PTE_VALID(e2) /\ ~Leaf(e2) /\ PTE2ADDR(e2) = Middle(l)
  BY <1>3, <1>4, LinkFacts
<1>6. e1 = IF Has(PAGES, k) THEN Link(TableOf(l, k)) ELSE VPN(0)
  BY <1>5 DEF Final, MiddleTable
<1>7. k \in Nat
  BY <1>1 DEF Entries
<1>8. Has(PAGES, k) => PTE_VALID(e1) /\ PTE2ADDR(e1) = TableOf(l, k)
  BY <1>3, <1>6, <1>7, LinkFacts
<1>9. Has(PAGES, k) => e0 = LastTable(l, PAGES, k)[j]
  BY <1>7, <1>8 DEF Final
<1>10. ~Has(PAGES, k) => ~PTE_VALID(e1)
  BY <1>6, LinkFacts
<1>11. WalkIn(m, RootAt(a), At(High, k, j, c)) =
        IF PTE_VALID(e2) /\ Leaf(e2) THEN Maps(e2, (k * FAN + j) * PGSIZE + c)
        ELSE IF PTE_VALID(e2) /\ PTE_VALID(e1) THEN Maps(e0, c)
        ELSE [pa |-> 0, perm |-> {}]
  BY <1>2, WalkAt
<1> HIDE DEF e0, e1, e2
<1> QED
  BY <1>5, <1>8, <1>9, <1>10, <1>11

LEMMA FinalWalk ==
  ASSUME NEW l \in Layouts, NEW m, NEW a, Paged(a), m[a] = RootTable(l, PAGES), Final(m, l),
         NEW q \in First .. PAGES - 1, NEW c \in 0 .. PGSIZE - 1
  PROVE  WalkIn(m, RootAt(a), VM_START + q * PGSIZE + c) =
           [pa |-> PHY_START + q * PGSIZE + c, perm |-> RightsOf(l, VM_START + q * PGSIZE)]
<1>1. /\ VM_START \in Nat /\ PHY_START \in Nat /\ PGSIZE \in Nat /\ PGSIZE > 0 /\ FAN \in Nat /\ FAN > 0
      /\ VM_START = High * EARLY_PGSIZE /\ High \in Nat /\ High < FAN
      /\ First \in Nat /\ PAGES \in Nat /\ First < PAGES
  BY Bases, Sizes, Numbers, ImagePages
<1>2. High \in Entries
  BY <1>1 DEF Entries
<1>3. q \in Nat /\ First <= q /\ q < PAGES
  BY <1>1
<1>4. PICK k \in Nat, j \in Entries : q = k * FAN + j
  BY <1>1, <1>3, Parts DEF Entries
<1>5. Has(PAGES, k) /\ k \in Entries
  <2>1. k * FAN \in Nat /\ j \in Nat /\ FirstTable <= k
    BY <1>1, <1>3, <1>4, TheTables DEF Entries
  <2>2. Has(PAGES, k)
    BY <1>1, <1>3, <1>4, <2>1 DEF Has
  <2> QED
    BY <1>1, <2>2, TableTypes
<1>6. VM_START + q * PGSIZE + c = At(High, k, j, c)
  BY <1>1, <1>4 DEF At
<1>7. LastTable(l, PAGES, k)[j] = LeafOf(l, q)
  BY <1>3, <1>4 DEF LastTable
<1>8. WalkIn(m, RootAt(a), VM_START + q * PGSIZE + c) = Maps(LeafOf(l, q), c)
  BY HighWalk, <1>5, <1>6, <1>7
<1> QED
  BY <1>3, <1>8, LeafFacts DEF Maps

LEMMA OutsideWalk ==
  ASSUME NEW l \in Layouts, NEW m, NEW a, Paged(a), m[a] = RootTable(l, PAGES), Final(m, l),
         NEW va \in Nat, va < FAN * EARLY_PGSIZE, va \notin Kernel
  PROVE  PTE_V \notin WalkIn(m, RootAt(a), va).perm
<1>1. /\ VM_START \in Nat /\ PHY_START \in Nat /\ PGSIZE \in Nat /\ PGSIZE > 0 /\ FAN \in Nat /\ FAN > 0
      /\ VM_START = High * EARLY_PGSIZE /\ High \in Nat /\ High < FAN
      /\ First \in Nat /\ PAGES \in Nat /\ First < PAGES
  BY Bases, Sizes, Numbers, ImagePages
<1>2. High \in Entries
  BY <1>1 DEF Entries
<1>3. PICK b \in Entries, k \in Entries, j \in Entries, c \in 0 .. PGSIZE - 1 :
        va = At(b, k, j, c)
  BY PlaceOf
<1>4. CASE b # High
  <2>1. m[a][b] = VPN(0)
    BY <1>4 DEF RootTable
  <2>2. ~PTE_VALID(m[a][b])
    BY <2>1, LinkFacts
  <2>3. WalkIn(m, RootAt(a), va) = [pa |-> 0, perm |-> {}]
    BY <1>3, <2>2, WalkAt
  <2> QED
    BY <2>3
<1>5. CASE b = High
  <2> DEFINE q == k * FAN + j
  <2>1. q \in Nat /\ k \in Nat
    BY <1>1 DEF Entries
  <2>2. va = VM_START + q * PGSIZE + c
    BY <1>1, <1>3, <1>5 DEF At
  <2>3. ~(First <= q /\ q < PAGES)
    <3>1. SUFFICES ASSUME First <= q, q < PAGES PROVE FALSE
      OBVIOUS
    <3>2. q \in First .. PAGES - 1
      BY <1>1, <2>1, <3>1
    <3> HIDE DEF q
    <3>3. VM_START + q * PGSIZE + c \in Kernel
      BY <3>2, KernelPlace
    <3> QED
      BY <2>2, <3>3
  <2>4. LastTable(l, PAGES, k)[j] = VPN(0)
    BY <2>3 DEF LastTable
  <2>5. WalkIn(m, RootAt(a), va) = IF Has(PAGES, k) THEN Maps(VPN(0), c) ELSE [pa |-> 0, perm |-> {}]
    BY HighWalk, <1>3, <1>5, <2>4
  <2> QED
    BY <2>5, LinkFacts DEF Maps
<1> QED
  BY <1>4, <1>5

LEMMA SectionRights ==
  ASSUME NEW l \in Layouts, NEW q \in First .. PAGES - 1, NEW c \in 0 .. PGSIZE - 1
  PROVE  LET va == VM_START + q * PGSIZE + c
             p  == RightsOf(l, VM_START + q * PGSIZE)
             y  == Sym(l)
         IN  /\ y.stext <= va /\ va < y.etext => p = {PTE_V, PTE_R, PTE_X}
             /\ y.srodata <= va /\ va < y.erodata => p = {PTE_V, PTE_R}
             /\ y.sdata <= va => p = {PTE_V, PTE_R, PTE_W}
             /\ ~({PTE_W, PTE_X} \subseteq p) /\ PTE_U \notin p
<1> DEFINE base == VM_START + q * PGSIZE
           va == base + c
           y == Sym(l)
<1>1. /\ y.etext \in Nat /\ y.srodata \in Nat /\ y.erodata \in Nat /\ y.sdata \in Nat
      /\ y.etext <= y.srodata /\ y.srodata <= y.erodata /\ y.erodata <= y.sdata
      /\ y.srodata = PGROUNDUP(y.etext) /\ y.sdata = PGROUNDUP(y.erodata)
      /\ Paged(y.srodata) /\ Paged(y.sdata)
  BY Symbols
<1>2. PGSIZE \in Nat /\ VM_START \in Nat /\ q \in Nat
  BY Sizes, Bases, Numbers
<1>3. base \in Nat /\ Paged(base)
  <2>1. Paged(q * PGSIZE) /\ Paged(VM_START)
    BY <1>2, Constants DEF Paged
  <2> QED
    BY <2>1, PagedFacts
<1>4. RightsOf(l, base) = IF base < y.srodata THEN {PTE_V, PTE_R, PTE_X}
                          ELSE IF base < y.sdata THEN {PTE_V, PTE_R}
                          ELSE {PTE_W, PTE_R, PTE_V}
  BY <1>1 DEF RightsOf
<1>5. va = VM_START + q * PGSIZE + c
  BY <1>2
<1>6. base <= va /\ va < base + PGSIZE /\ va \in Nat
  BY <1>2, <1>3
<1> HIDE DEF y, base, va
<1>7. /\ base < y.srodata => base + PGSIZE <= y.srodata
      /\ base < y.sdata => base + PGSIZE <= y.sdata
  BY <1>1, <1>3, PagedFacts
<1> DEFINE p == RightsOf(l, base)
<1>8. p = {PTE_V, PTE_R, PTE_X} \/ p = {PTE_V, PTE_R} \/ p = {PTE_V, PTE_R, PTE_W}
  BY <1>4
<1>9. ~({PTE_W, PTE_X} \subseteq p) /\ PTE_U \notin p
  BY <1>8 DEF PTE_V, PTE_R, PTE_W, PTE_X, PTE_U
<1>10. y.stext <= va /\ va < y.etext => p = {PTE_V, PTE_R, PTE_X}
  BY <1>1, <1>3, <1>4, <1>6
<1>11. y.srodata <= va /\ va < y.erodata => p = {PTE_V, PTE_R}
  BY <1>1, <1>2, <1>3, <1>4, <1>6, <1>7
<1>12. y.sdata <= va => p = {PTE_V, PTE_R, PTE_W}
  <2>1. ASSUME y.sdata <= va PROVE ~(base < y.srodata) /\ ~(base < y.sdata)
    BY <1>1, <1>2, <1>3, <1>6, <1>7, <2>1
  <2> QED
    BY <1>4, <2>1
<1> QED
  BY <1>5, <1>9, <1>10, <1>11, <1>12 DEF y, base

-----------------------------------------------------------------------------
(* Before the loops, after them, and after the first task's pages.         *)

LEMMA MappedFacts ==
  ASSUME NEW l \in Layouts, NEW m, NEW n, NEW Q \in First .. PAGES, Mapped(m, n, Q, l)
  PROVE  /\ n \in RamPages /\ n \in Nat /\ Paged(n) /\ Middle(l) <= n /\ n + 3 * PGSIZE < PHY_END
         /\ First < Q => Middle(l) + 2 * PGSIZE <= n
<1>1. First \in Nat /\ PAGES \in Nat /\ PGSIZE \in Nat /\ PGSIZE > 0 /\ PHY_END \in Nat /\ PHY_START \in Nat
  BY Numbers, Sizes, Constants, PagedFacts
<1>2. /\ Middle(l) \in Nat /\ Paged(Middle(l)) /\ PHY_START <= Middle(l)
      /\ Middle(l) + 5 * PGSIZE < PHY_END
  <2>1. Middle(l) \in RamPages /\ Middle(l) \in Nat
        /\ Middle(l) + PGSIZE * (PHY_SIZE \div (PGSIZE * FAN) + 5) < PHY_END
    BY ImagePages
  <2>2. PHY_SIZE \div (PGSIZE * FAN) \in Nat
    BY Constants, Sizes, DivMod
  <2>3. /\ PGSIZE * (PHY_SIZE \div (PGSIZE * FAN) + 5) = (PHY_SIZE \div (PGSIZE * FAN)) * PGSIZE + 5 * PGSIZE
        /\ (PHY_SIZE \div (PGSIZE * FAN)) * PGSIZE \in Nat
    BY <1>1, <2>2
  <2> QED
    BY <1>1, <2>1, <2>3, RamFacts
<1>3. CASE First = Q
  <2>1. n = Middle(l)
    BY <1>3 DEF Mapped
  <2> QED
    BY <1>1, <1>2, <1>3, <2>1, RamFacts
<1>4. CASE First # Q
  <2>1. PICK k \in Nat : Has(Q, k) /\ n = TableOf(l, k) + PGSIZE
    BY <1>1, <1>4 DEF Mapped
  <2>2. FirstTable <= k /\ k * FAN < PAGES
    BY <1>1, <2>1, TableTypes
  <2>3. /\ TableOf(l, k) \in Nat /\ Paged(TableOf(l, k))
        /\ Middle(l) + PGSIZE <= TableOf(l, k) /\ TableOf(l, k) + 4 * PGSIZE < PHY_END
    BY <2>2, TablePages
  <2>4. Paged(n) /\ n \in Nat
    BY <2>1, <2>3, PagedFacts
  <2> QED
    BY <1>1, <1>2, <2>1, <2>3, <2>4, RamFacts
<1> QED
  BY <1>3, <1>4

(* The memory when setup_vm is done.                                       *)
Started(l) == [[a \in RamPages |-> Zeroed] EXCEPT ![EarlyPage(l)] = EarlyTable]

LEMMA StartMapped ==
  ASSUME NEW l \in Layouts
  PROVE  Mapped(Started(l), Middle(l), First, l)
<1>1. /\ EarlyPage(l) \in RamPages /\ RootPage(l) \in RamPages /\ Middle(l) \in RamPages
      /\ EarlyPage(l) # RootPage(l) /\ EarlyPage(l) # Middle(l) /\ First \in Nat
  <2>1. PGSIZE \in Nat /\ PGSIZE > 0 /\ First \in Nat
    BY Sizes, Numbers
  <2> QED
    BY <2>1, ImagePages
<1>2. Zeroed \in page_table_t /\ EarlyTable \in page_table_t
  BY EarlyFacts, TableTypes, ImagePages, Numbers
<1>3. ~(First < First) /\ RootTable(l, First) = Zeroed /\ MiddleTable(l, First) = Zeroed
  BY <1>1 DEF RootTable, MiddleTable, Has, Zeroed, Entries
<1>4. /\ Started(l) \in Mem /\ Started(l)[EarlyPage(l)] = EarlyTable
      /\ \A a \in RamPages : a # EarlyPage(l) => Started(l)[a] = Zeroed
  BY <1>1, <1>2 DEF Started, Mem
<1>5. \A k \in Nat : ~Has(First, k)
  BY <1>1 DEF Has
<1> QED
  BY <1>1, <1>3, <1>4, <1>5 DEF Mapped

(* The memory when the first task has its root, at the page below n.       *)
Tasked(m, n, l) ==
  /\ m \in Mem /\ m[RootPage(l)] = RootTable(l, PAGES) /\ Final(m, l)
  /\ n \in RamPages /\ n - PGSIZE \in RamPages /\ Middle(l) + 5 * PGSIZE <= n
  /\ m[n - PGSIZE] = RootTable(l, PAGES)
  /\ \A a \in RamPages : n <= a => m[a] = Zeroed

LEMMA TaskTables ==
  ASSUME NEW l \in Layouts, NEW m, NEW n, Mapped(m, n, PAGES, l)
  PROVE  Tasked([m EXCEPT ![n + 2 * PGSIZE] = m[RootPage(l)]], n + 3 * PGSIZE, l)
<1> DEFINE u == n + 2 * PGSIZE
           w == [m EXCEPT ![u] = m[RootPage(l)]]
<1>1. First \in Nat /\ PAGES \in Nat /\ First < PAGES /\ PGSIZE \in Nat /\ PGSIZE > 0
      /\ PAGES \in First .. PAGES
  BY Numbers, Sizes, ImagePages
<1>2. /\ n \in Nat /\ n \in RamPages /\ Paged(n) /\ n + 3 * PGSIZE < PHY_END
      /\ Middle(l) + 2 * PGSIZE <= n
  BY <1>1, MappedFacts
<1>3. /\ Middle(l) \in Nat /\ RootPage(l) \in Nat /\ RootPage(l) + PGSIZE <= Middle(l)
      /\ RootPage(l) \in RamPages /\ Middle(l) \in RamPages
      /\ PHY_START \in Nat /\ PHY_END \in Nat
  BY ImagePages, Constants, PagedFacts
<1>4. u \in RamPages /\ u \in Nat /\ n + 3 * PGSIZE \in RamPages /\ (n + 3 * PGSIZE) - PGSIZE = u
  <2>1. Paged(n + PGSIZE)
    BY <1>2, PagedFacts
  <2>2. Paged(n + PGSIZE + PGSIZE)
    BY <2>1, PagedFacts
  <2>3. Paged(n + PGSIZE + PGSIZE + PGSIZE)
    BY <2>2, PagedFacts
  <2>4. n + PGSIZE + PGSIZE = u /\ n + PGSIZE + PGSIZE + PGSIZE = n + 3 * PGSIZE
    BY <1>1, <1>2
  <2>5. PHY_START <= n
    BY <1>2, RamFacts
  <2> QED
    BY <1>1, <1>2, <1>3, <2>2, <2>3, <2>4, <2>5, RamFacts
<1>5. /\ m \in Mem /\ m[RootPage(l)] = RootTable(l, PAGES)
      /\ m[Middle(l)] = MiddleTable(l, PAGES)
      /\ \A k \in Nat : Has(PAGES, k) => m[TableOf(l, k)] = LastTable(l, PAGES, k)
      /\ \A a \in RamPages :
           a \notin {EarlyPage(l), RootPage(l)} /\ (a < Middle(l) \/ n <= a) => m[a] = Zeroed
  BY DEF Mapped
<1>6. PICK h \in Nat : Has(PAGES, h) /\ ~Has(PAGES, h + 1) /\ n = TableOf(l, h) + PGSIZE
  BY <1>1 DEF Mapped
<1>7. ASSUME NEW k \in Nat, Has(PAGES, k)
      PROVE  TableOf(l, k) \in RamPages /\ TableOf(l, k) < u
  <2>1. /\ FirstTable <= k /\ k * FAN < PAGES /\ FirstTable <= h /\ h * FAN < PAGES
    BY <1>1, <1>6, <1>7, TableTypes
  <2>2. /\ TableOf(l, k) \in RamPages /\ TableOf(l, k) \in Nat /\ TableOf(l, h) \in Nat
        /\ k < h => TableOf(l, k) + PGSIZE <= TableOf(l, h)
    BY <2>1, TablePages
  <2>3. k <= h
    <3>1. SUFFICES ASSUME h < k PROVE FALSE
      OBVIOUS
    <3>2. (h + 1) * FAN <= k * FAN /\ (h + 1) * FAN \in Int /\ k * FAN \in Int
      BY <3>1, Sizes, Times
    <3>3. Has(PAGES, h + 1)
      BY <1>1, <2>1, <3>2, Numbers DEF Has
    <3> QED
      BY <1>6, <3>3
  <2> QED
    BY <1>1, <1>6, <2>2, <2>3
<1> HIDE DEF u
<1>8. w \in Mem /\ w[u] = RootTable(l, PAGES) /\ \A a \in RamPages : a # u => w[a] = m[a]
  BY <1>3, <1>4, <1>5 DEF Mem
<1> HIDE DEF w
<1>9. Middle(l) < u /\ RootPage(l) < u /\ Middle(l) + 5 * PGSIZE <= n + 3 * PGSIZE
  BY <1>1, <1>2, <1>3 DEF u
<1>10. w[RootPage(l)] = RootTable(l, PAGES)
  BY <1>3, <1>4, <1>5, <1>8, <1>9
<1>11. Final(w, l)
  <2>1. w[Middle(l)] = MiddleTable(l, PAGES)
    BY <1>3, <1>4, <1>5, <1>8, <1>9
  <2>2. ASSUME NEW k \in Nat, Has(PAGES, k) PROVE w[TableOf(l, k)] = LastTable(l, PAGES, k)
    <3>1. TableOf(l, k) \in RamPages /\ TableOf(l, k) < u
      BY <1>7, <2>2
    <3>2. TableOf(l, k) # u
      BY <1>4, <3>1
    <3> QED
      BY <1>5, <1>8, <2>2, <3>1, <3>2
  <2> QED
    BY <2>1, <2>2 DEF Final
<1>12. ASSUME NEW a \in RamPages, n + 3 * PGSIZE <= a PROVE w[a] = Zeroed
  <2>1. a \in Nat /\ EarlyPage(l) \in Nat /\ EarlyPage(l) < n
    BY <1>1, <1>2, <1>3, RamFacts, PagedFacts, ImagePages
  <2>2. a # u /\ a \notin {EarlyPage(l), RootPage(l)} /\ n <= a
    BY <1>1, <1>2, <1>3, <1>12, <2>1 DEF u
  <2> QED
    BY <1>5, <1>8, <2>2
<1>13. Tasked(w, n + 3 * PGSIZE, l)
  BY <1>4, <1>8, <1>9, <1>10, <1>11, <1>12 DEF Tasked
<1> QED
  BY <1>13 DEF u, w

-----------------------------------------------------------------------------
(* The inductive invariant: what each stage of the boot has done, the      *)
(* tables as far as page says that they are mapped.                        *)

Loaded == {"_start", "setup_vm"}
Early  == {"relocate", "csrw satp", "ret", "stvec", "sie", "sstatus", "mm_init"}

Registers ==
  /\ pc \in Loaded \cup Early \cup {"setup_vm_final", "task_init", "schedule", "__dummy"}
  /\ hi = (pc \notin Loaded \cup {"relocate", "csrw satp", "ret"})
  /\ ra = (pc \notin Loaded \cup {"relocate"})
  /\ pc \notin Loaded => t0 = PA2VA_OFFSET
  /\ sp = IF pc = "_start" THEN PHY_START
          ELSE IF pc \in {"setup_vm", "relocate"} THEN VA2PA(Sym(lay).boot_stack) + PGSIZE
          ELSE IF pc = "__dummy" THEN PA2VA(next - PGSIZE) - 1
          ELSE Sym(lay).boot_stack + PGSIZE
  /\ satp = IF pc \in Loaded \cup {"relocate", "csrw satp"} THEN Bare
            ELSE IF pc \in Early \cup {"setup_vm_final"} THEN RootAt(EarlyPage(lay))
            ELSE IF pc = "__dummy" THEN RootAt(next - PGSIZE)
            ELSE RootAt(RootPage(lay))
  /\ sie \in BOOLEAN /\ sstatus \in BOOLEAN
  /\ stvec = IF hi /\ pc # "stvec" THEN "virtual" ELSE "none"
  /\ sie => stvec = "virtual"

Memory ==
  /\ pc \in Loaded => mem = [a \in RamPages |-> Zeroed]
  /\ pc \in Early => mem = Started(lay)
  /\ pc \in Loaded \cup Early => next = PHY_START /\ page = VM_START + First * PGSIZE
  /\ pc = "setup_vm_final" =>
       \E Q \in First .. PAGES : page = VM_START + Q * PGSIZE /\ Mapped(mem, next, Q, lay)
  /\ pc = "task_init" => Mapped(mem, next, PAGES, lay)
  /\ pc \in {"schedule", "__dummy"} => Tasked(mem, next, lay)

IInv == lay \in Layouts /\ Registers /\ Memory

LEMMA Initially == Init => IInv
<1> SUFFICES ASSUME Init PROVE IInv
  OBVIOUS
<1>1. Registers
  BY DEF Init, Registers, Loaded, Early
<1>2. Memory
  BY Numbers DEF Init, Memory, Loaded, Early
<1> QED
  BY <1>1, <1>2 DEF Init, IInv

LEMMA Inductive == IInv /\ [Next]_vars => IInv'
<1> SUFFICES ASSUME IInv, [Next]_vars PROVE IInv'
  OBVIOUS
<1>1. lay \in Layouts /\ Registers /\ Memory
  BY DEF IInv
<1> USE <1>1
<1>2. CASE start
  <2>1. Registers'
    BY <1>2 DEF start, Goto, Here, Registers, Loaded, Early, s
  <2>2. Memory'
    BY <1>2 DEF start, Goto, Memory, Loaded, Early
  <2> QED
    BY <1>2, <2>1, <2>2 DEF start, IInv
<1>3. CASE setup_vm
  <2>1. Registers'
    BY <1>3 DEF setup_vm, Goto, reg_write, Registers, Loaded, Early
  <2>2. Here(early_pgtbl) = EarlyPage(lay)
    BY <1>3 DEF setup_vm, Goto, Here, early_pgtbl, s, EarlyPage, Registers, Loaded
  <2>3. mem' = Started(lay)
    BY <1>3, <2>2 DEF setup_vm, Goto, Memory, Loaded, Started
  <2>4. Memory'
    BY <1>3, <2>3 DEF setup_vm, Goto, Memory, Loaded, Early
  <2> QED
    BY <1>3, <2>1, <2>4 DEF setup_vm, IInv
<1>4. CASE Relocate
  <2>1. sp + t0 = Sym(lay).boot_stack + PGSIZE
    <3>1. sp = VA2PA(Sym(lay).boot_stack) + PGSIZE /\ t0 = PA2VA_OFFSET
      BY <1>4 DEF Relocate, Goto, Registers, Loaded
    <3> QED
      BY <3>1, Symbols, Constants, Sizes DEF VA2PA
  <2>2. Registers'
    BY <1>4, <2>1 DEF Relocate, Goto, Registers, Loaded, Early
  <2>3. Memory'
    BY <1>4 DEF Relocate, Goto, Memory, Loaded, Early
  <2> QED
    BY <1>4, <2>2, <2>3 DEF Relocate, IInv
<1>5. CASE SetEarly
  <2>1. satp' = RootAt(EarlyPage(lay))
    BY <1>5 DEF SetEarly, Goto, Here, early_pgtbl, s, EarlyPage, RootAt, Registers, Loaded
  <2>2. Registers'
    BY <1>5, <2>1 DEF SetEarly, Goto, Registers, Loaded, Early
  <2>3. Memory'
    BY <1>5 DEF SetEarly, Goto, Memory, Loaded, Early
  <2> QED
    BY <1>5, <2>2, <2>3 DEF SetEarly, IInv
<1>6. CASE Ret
  <2>1. Registers'
    BY <1>6 DEF Ret, Goto, Registers, Loaded, Early
  <2>2. Memory'
    BY <1>6 DEF Ret, Goto, Memory, Loaded, Early
  <2> QED
    BY <1>6, <2>1, <2>2 DEF Ret, IInv
<1>7. CASE SetVector
  <2>1. Registers'
    BY <1>7 DEF SetVector, Goto, Registers, Loaded, Early
  <2>2. Memory'
    BY <1>7 DEF SetVector, Goto, Memory, Loaded, Early
  <2> QED
    BY <1>7, <2>1, <2>2 DEF SetVector, IInv
<1>8. CASE EnableTimer
  <2>1. Registers'
    BY <1>8 DEF EnableTimer, Goto, Registers, Loaded, Early
  <2>2. Memory'
    BY <1>8 DEF EnableTimer, Goto, Memory, Loaded, Early
  <2> QED
    BY <1>8, <2>1, <2>2 DEF EnableTimer, IInv
<1>9. CASE EnableInterrupts
  <2>1. Registers'
    BY <1>9 DEF EnableInterrupts, Goto, Registers, Loaded, Early
  <2>2. Memory'
    BY <1>9 DEF EnableInterrupts, Goto, Memory, Loaded, Early
  <2> QED
    BY <1>9, <2>1, <2>2 DEF EnableInterrupts, IInv
<1>10. CASE mm_init
  <2>1. Registers'
    BY <1>10 DEF mm_init, Goto, Registers, Loaded, Early
  <2>2. next' = Middle(lay)
    BY <1>10 DEF mm_init, free_page_start, s, Middle, Top
  <2>3. Mapped(Started(lay), Middle(lay), First, lay) /\ First \in First .. PAGES
    BY StartMapped, ImagePages, Numbers
  <2>4. pc = "mm_init" /\ pc' = "setup_vm_final" /\ mem' = mem /\ page' = page /\ lay' = lay
    BY <1>10 DEF mm_init, Goto
  <2>5. mem = Started(lay) /\ page = VM_START + First * PGSIZE
    BY <2>4 DEF Memory, Early
  <2>6. Mapped(mem', next', First, lay') /\ page' = VM_START + First * PGSIZE
    BY <2>2, <2>3, <2>4, <2>5
  <2>7. Memory'
    BY <2>3, <2>4, <2>6 DEF Memory, Loaded, Early
  <2> QED
    BY <2>1, <2>4, <2>7 DEF IInv
<1>11. CASE MapPage
  <2>1. Registers'
    BY <1>11 DEF MapPage, Registers, Loaded, Early
  <2>2. /\ pc = "setup_vm_final" /\ pc' = pc /\ lay' = lay /\ page' = page + PGSIZE
        /\ page < PA2VA(PHY_END)
    BY <1>11 DEF MapPage
  <2>3. PICK Q \in First .. PAGES : page = VM_START + Q * PGSIZE /\ Mapped(mem, next, Q, lay)
    BY <2>2 DEF Memory
  <2>4. First \in Nat /\ PAGES \in Nat /\ PGSIZE \in Nat /\ VM_START \in Nat /\ PGSIZE > 0 /\ FAN \in Nat /\ FAN > 0
    BY Numbers, Sizes, Bases
  <2>5. Q \in Nat /\ First <= Q /\ Q < PAGES /\ Q + 1 \in First .. PAGES
    <3>1. PA2VA(PHY_END) = VM_START + PAGES * PGSIZE
      BY Constants, Numbers DEF PA2VA
    <3>2. Q \in Nat /\ Q * PGSIZE \in Nat /\ PAGES * PGSIZE \in Nat /\ (PAGES <= Q => PAGES * PGSIZE <= Q * PGSIZE)
      BY <2>4, Times
    <3> QED
      BY <2>2, <2>3, <2>4, <3>1, <3>2
  <2>6. PICK K \in Nat, J \in Entries : Q = K * FAN + J
    BY <2>4, <2>5, Parts DEF Entries
  <2> DEFINE m == [mem |-> mem, next |-> next]
             perm == RightsOf(lay, page)
             n == map_final_pgtbl(m, Sym(lay).swapper_pg_dir, VM_START + Q * PGSIZE,
                                  PHY_START + Q * PGSIZE, perm)
  <2>7. m \in [mem : Mem, next : Nat] /\ m.mem = mem /\ m.next = next
    BY <2>3, MappedFacts DEF Mapped
  <2>8. FinalPerm(page) = perm
    BY DEF FinalPerm, RightsOf, s
  <2>9. perm \cup {PTE_V} = RightsOf(lay, VM_START + Q * PGSIZE)
    BY <2>3 DEF RightsOf
  <2>10. VA2PA(page) = PHY_START + Q * PGSIZE
    BY <2>3, <2>4, <2>5, Constants DEF VA2PA
  <2>11. mem' = n.mem /\ next' = n.next
    BY <1>11, <2>3, <2>8, <2>10 DEF MapPage, get_kernel_pgtbl, s
  <2> HIDE DEF m, perm
  <2>12. Mapped(n.mem, n.next, Q + 1, lay)
    BY <2>3, <2>5, <2>6, <2>7, <2>9, MapStep
  <2>13. page' = VM_START + (Q + 1) * PGSIZE
    BY <2>2, <2>3, <2>4, <2>5, Times
  <2> HIDE DEF n
  <2>14. Mapped(mem', next', Q + 1, lay')
    BY <2>2, <2>11, <2>12
  <2>15. Memory'
    BY <2>2, <2>5, <2>13, <2>14 DEF Memory, Loaded, Early
  <2> QED
    BY <2>1, <2>2, <2>15 DEF IInv
<1>12. CASE vm_init
  <2>1. get_satp(get_kernel_pgtbl) = RootAt(RootPage(lay))
    BY DEF get_satp, get_kernel_pgtbl, s, RootAt, RootPage, VA2PA
  <2>2. Registers'
    BY <1>12, <2>1 DEF vm_init, Goto, Registers, Loaded, Early
  <2>3. pc = "setup_vm_final" /\ pc' = "task_init" /\ page = PA2VA(PHY_END)
        /\ mem' = mem /\ next' = next /\ lay' = lay
    BY <1>12 DEF vm_init, Goto
  <2>4. PICK Q \in First .. PAGES : page = VM_START + Q * PGSIZE /\ Mapped(mem, next, Q, lay)
    BY <2>3 DEF Memory
  <2>5. Q = PAGES
    <3>1. PA2VA(PHY_END) = VM_START + PAGES * PGSIZE /\ PAGES \in Nat /\ PGSIZE \in Nat /\ VM_START \in Nat
          /\ PGSIZE > 0 /\ First \in Nat
      BY Constants, Numbers, Sizes, Bases DEF PA2VA
    <3>2. Q \in Nat /\ Q * PGSIZE \in Nat /\ PAGES * PGSIZE \in Nat
          /\ (Q < PAGES => Q * PGSIZE + PGSIZE <= PAGES * PGSIZE) /\ Q <= PAGES
      BY <3>1, Times
    <3>3. VM_START + Q * PGSIZE = VM_START + PAGES * PGSIZE
      BY <2>3, <2>4, <3>1
    <3>4. ~(Q < PAGES)
      BY <3>1, <3>2, <3>3
    <3> QED
      BY <3>1, <3>2, <3>4
  <2>6. Memory'
    BY <2>3, <2>4, <2>5 DEF Memory, Loaded, Early
  <2> QED
    BY <2>2, <2>3, <2>6 DEF IInv
<1>13. CASE task_init
  <2>1. /\ pc = "task_init" /\ pc' = "schedule" /\ lay' = lay /\ next' = next + 3 * PGSIZE
        /\ mem' = [mem EXCEPT ![next + 2 * PGSIZE] = mem[RootPage(lay)]]
    BY <1>13 DEF task_init, Goto, UserRoot, get_kernel_pgtbl, s, RootPage
  <2>2. Mapped(mem, next, PAGES, lay)
    BY <2>1 DEF Memory
  <2>3. Tasked(mem', next', lay')
    BY <2>1, <2>2, TaskTables
  <2>4. Memory'
    BY <2>1, <2>3 DEF Memory, Loaded, Early
  <2>5. Registers'
    BY <1>13 DEF task_init, Goto, Registers, Loaded, Early
  <2> QED
    BY <2>1, <2>4, <2>5 DEF IInv
<1>14. CASE switch_to
  <2>1. Tasked(mem, next, lay)
    BY <1>14 DEF switch_to, Goto, Memory
  <2>2. PA2VA(next - PGSIZE) - PA2VA_OFFSET = next - PGSIZE
    <3>1. next \in Nat
      BY <2>1, RamFacts, PagedFacts DEF Tasked
    <3> QED
      BY <3>1, Constants, Sizes DEF PA2VA
  <2>3. get_satp(PA2VA(next - PGSIZE)) = RootAt(next - PGSIZE)
    BY <2>2 DEF get_satp, RootAt
  <2>4. Registers'
    BY <1>14, <2>3 DEF switch_to, Goto, Registers, Loaded, Early
  <2>5. Memory'
    BY <1>14, <2>1 DEF switch_to, Goto, Memory, Loaded, Early
  <2> QED
    BY <1>14, <2>4, <2>5 DEF switch_to, IInv
<1>15. CASE UNCHANGED vars
  BY <1>15 DEF vars, IInv, Registers, Memory
<1> QED
  BY <1>2, <1>3, <1>4, <1>5, <1>6, <1>7, <1>8, <1>9, <1>10, <1>11, <1>12, <1>13, <1>14, <1>15
  DEF Next

-----------------------------------------------------------------------------
(* What the invariant says of the addresses in use.                        *)

LEMMA WalkOfMem == \A root, va : Walk(root, va) = WalkIn(mem, root, va)
BY DEF Walk, WalkIn, All

LEMMA InKernel ==
  /\ \A va \in Int : va \in Kernel <=> PHY_START + OPENSBI_SIZE <= VA2PA(va) /\ VA2PA(va) < PHY_END
  /\ \A va \in Kernel : va \in Nat /\ va - VM_START \in 0 .. EARLY_PGSIZE - 1
                        /\ VA2PA(va) = PHY_START + (va - VM_START)
  /\ \A l \in Layouts, va \in Int :
       Sym(l).stext <= va /\ va < Sym(l).ekernel + BITMAP => va \in Kernel
<1>1. /\ PHY_START \in Nat /\ PA2VA_OFFSET \in Nat /\ VM_START = PHY_START + PA2VA_OFFSET
      /\ PHY_SIZE \in Nat /\ PHY_END = PHY_START + PHY_SIZE /\ OPENSBI_SIZE \in Nat /\ BITMAP \in Nat
      /\ PHY_SIZE <= EARLY_PGSIZE /\ EARLY_PGSIZE \in Nat
  BY Constants, Sizes
<1>2. \A va \in Int : va \in Kernel <=> PHY_START + OPENSBI_SIZE <= VA2PA(va) /\ VA2PA(va) < PHY_END
  BY <1>1 DEF Kernel, VA2PA, PA2VA
<1>3. \A va \in Kernel : va \in Nat /\ va - VM_START \in 0 .. EARLY_PGSIZE - 1
                         /\ VA2PA(va) = PHY_START + (va - VM_START)
  BY <1>1 DEF Kernel, VA2PA, PA2VA
<1>4. ASSUME NEW l \in Layouts, NEW va \in Int,
             Sym(l).stext <= va, va < Sym(l).ekernel + BITMAP
      PROVE  va \in Kernel
  <2>1. Sym(l).stext = VM_START + OPENSBI_SIZE /\ Sym(l).ekernel \in Nat
    BY Symbols
  <2>2. VA2PA(Sym(l).ekernel + BITMAP) < PHY_END
    <3>1. Top(l) \in Nat /\ Top(l) <= Middle(l) /\ Middle(l) \in RamPages /\ Middle(l) \in Nat
      BY ImagePages
    <3>2. Middle(l) < PHY_END
      BY <3>1, RamFacts
    <3> QED
      BY <1>1, <3>1, <3>2 DEF Top
  <2> QED
    BY <1>1, <1>2, <1>4, <2>1, <2>2 DEF VA2PA
<1> QED
  BY <1>2, <1>3, <1>4

LEMMA FinalMapped ==
  ASSUME NEW l \in Layouts, NEW m, NEW a, Paged(a), m[a] = RootTable(l, PAGES), Final(m, l),
         NEW va \in Int, va \in Kernel
  PROVE  LET e == WalkIn(m, RootAt(a), va)
             y == Sym(l)
         IN  /\ e.pa = VA2PA(va)
             /\ y.stext <= va /\ va < y.etext => e.perm = {PTE_V, PTE_R, PTE_X}
             /\ y.srodata <= va /\ va < y.erodata => e.perm = {PTE_V, PTE_R}
             /\ y.sdata <= va => e.perm = {PTE_V, PTE_R, PTE_W}
             /\ ~({PTE_W, PTE_X} \subseteq e.perm) /\ PTE_U \notin e.perm
<1>1. PICK q \in First .. PAGES - 1, c \in 0 .. PGSIZE - 1 : va = VM_START + q * PGSIZE + c
  BY KernelPlace
<1> DEFINE p == RightsOf(l, VM_START + q * PGSIZE)
<1>2. WalkIn(m, RootAt(a), va) = [pa |-> PHY_START + q * PGSIZE + c, perm |-> p]
  <2>1. WalkIn(m, RootAt(a), VM_START + q * PGSIZE + c) =
          [pa |-> PHY_START + q * PGSIZE + c, perm |-> RightsOf(l, VM_START + q * PGSIZE)]
    BY FinalWalk
  <2> QED
    BY <1>1, <2>1
<1>3. PHY_START + q * PGSIZE + c = VA2PA(va)
  <2>1. q \in Nat /\ PGSIZE \in Nat
    BY Numbers, Sizes
  <2>2. q * PGSIZE \in Nat
    BY <2>1, Times
  <2> QED
    BY <1>1, <2>1, <2>2, Constants DEF VA2PA
<1>4. LET y == Sym(l)
      IN  /\ y.stext <= va /\ va < y.etext => p = {PTE_V, PTE_R, PTE_X}
          /\ y.srodata <= va /\ va < y.erodata => p = {PTE_V, PTE_R}
          /\ y.sdata <= va => p = {PTE_V, PTE_R, PTE_W}
          /\ ~({PTE_W, PTE_X} \subseteq p) /\ PTE_U \notin p
  BY <1>1, SectionRights
<1> HIDE DEF p
<1> QED
  BY <1>2, <1>3, <1>4

(* The root in use, once there is one.                                     *)
EarlyRoot == satp = RootAt(EarlyPage(lay)) /\ mem[EarlyPage(lay)] = EarlyTable
FinalRoot(root) ==
  \E a \in RamPages : root = RootAt(a) /\ mem[a] = RootTable(lay, PAGES) /\ Final(mem, lay)

Paging == pc \notin Loaded \cup {"relocate", "csrw satp"}

LEMMA RootInUse ==
  ASSUME IInv
  PROVE  /\ pc \in Loaded \cup {"relocate", "csrw satp"} => satp = Bare
         /\ pc \in {"ret", "stvec", "sie", "sstatus", "mm_init", "setup_vm_final"} => EarlyRoot
         /\ pc \in {"task_init", "schedule", "__dummy"} =>
              FinalRoot(satp) /\ FinalRoot(RootAt(RootPage(lay)))
<1>1. lay \in Layouts /\ Registers /\ Memory
  BY DEF IInv
<1>2. /\ EarlyPage(lay) \in RamPages /\ RootPage(lay) \in RamPages
      /\ PAGES \in First .. PAGES
  BY <1>1, ImagePages, Numbers
<1>3. pc \in Loaded \cup {"relocate", "csrw satp"} => satp = Bare
  BY <1>1 DEF Registers
<1>4. ASSUME pc \in {"ret", "stvec", "sie", "sstatus", "mm_init", "setup_vm_final"} PROVE EarlyRoot
  <2>1. satp = RootAt(EarlyPage(lay))
    BY <1>1, <1>4 DEF Registers, Loaded, Early
  <2>2. Started(lay)[EarlyPage(lay)] = EarlyTable
    BY <1>1, StartMapped DEF Mapped
  <2>3. mem[EarlyPage(lay)] = EarlyTable
    <3>1. CASE pc = "setup_vm_final"
      BY <1>1, <3>1 DEF Memory, Mapped
    <3>2. CASE pc # "setup_vm_final"
      BY <1>1, <1>4, <2>2, <3>2 DEF Memory, Early
    <3> QED
      BY <3>1, <3>2
  <2> QED
    BY <2>1, <2>3 DEF EarlyRoot
<1>5. ASSUME pc \in {"task_init", "schedule", "__dummy"}
      PROVE  FinalRoot(satp) /\ FinalRoot(RootAt(RootPage(lay)))
  <2>1. mem[RootPage(lay)] = RootTable(lay, PAGES) /\ Final(mem, lay)
    <3>1. CASE pc = "task_init"
      BY <1>1, <3>1 DEF Memory, Mapped, Final
    <3>2. CASE pc # "task_init"
      BY <1>1, <1>5, <3>2 DEF Memory, Tasked
    <3> QED
      BY <3>1, <3>2
  <2>2. FinalRoot(RootAt(RootPage(lay)))
    BY <1>2, <2>1 DEF FinalRoot
  <2>3. CASE pc = "__dummy"
    <3>1. satp = RootAt(next - PGSIZE)
      BY <1>1, <2>3 DEF Registers, Loaded, Early
    <3>2. Tasked(mem, next, lay)
      BY <1>1, <2>3 DEF Memory
    <3> QED
      BY <2>1, <2>2, <3>1, <3>2 DEF Tasked, FinalRoot
  <2>4. CASE pc # "__dummy"
    <3>1. satp = RootAt(RootPage(lay))
      BY <1>1, <1>5, <2>4 DEF Registers, Loaded, Early
    <3> QED
      BY <2>2, <3>1
  <2> QED
    BY <2>3, <2>4
<1> QED
  BY <1>3, <1>4, <1>5

(* The kernel is mapped at its addresses from csrw satp on.                *)
LEMMA KernelMapped ==
  ASSUME IInv, Paging, NEW va \in Int, va \in Kernel
  PROVE  LET e == Walk(satp, va)
         IN  /\ e.pa = VA2PA(va)
             /\ va \in Text => PTE_X \in e.perm
             /\ Sym(lay).sdata <= va => PTE_W \in e.perm
<1>1. lay \in Layouts /\ Registers
  BY DEF IInv
<1>2. Walk(satp, va) = WalkIn(mem, satp, va)
  BY WalkOfMem
<1>3. CASE EarlyRoot
  <2> DEFINE x == va - VM_START
  <2>1. va \in Nat /\ x \in 0 .. EARLY_PGSIZE - 1 /\ VA2PA(va) = PHY_START + x /\ va = VM_START + x
    <3>1. va \in Nat /\ va - VM_START \in 0 .. EARLY_PGSIZE - 1
          /\ VA2PA(va) = PHY_START + (va - VM_START)
      BY InKernel
    <3>2. VM_START \in Nat
      BY Bases
    <3> QED
      BY <3>1, <3>2
  <2> HIDE DEF x
  <2>2. WalkIn(mem, satp, va) = [pa |-> PHY_START + x, perm |-> All]
    BY <1>1, <1>3, <2>1, EarlyWalk DEF EarlyRoot
  <2>3. PTE_X \in All /\ PTE_W \in All
    BY DEF All
  <2>4. Walk(satp, va).pa = VA2PA(va) /\ Walk(satp, va).perm = All
    BY <1>2, <2>1, <2>2
  <2> QED
    BY <2>3, <2>4
<1>4. CASE FinalRoot(satp)
  <2>1. PICK a \in RamPages : satp = RootAt(a) /\ mem[a] = RootTable(lay, PAGES) /\ Final(mem, lay)
    BY <1>4 DEF FinalRoot
  <2>2. LET e == WalkIn(mem, satp, va)
            y == Sym(lay)
        IN  /\ e.pa = VA2PA(va)
            /\ y.stext <= va /\ va < y.etext => e.perm = {PTE_V, PTE_R, PTE_X}
            /\ y.sdata <= va => e.perm = {PTE_V, PTE_R, PTE_W}
    <3>1. Paged(a)
      BY RamFacts
    <3> QED
      BY <1>1, <2>1, <3>1, FinalMapped
  <2>3. va \in Text => Sym(lay).stext <= va /\ va < Sym(lay).etext
    <3>1. Sym(lay).stext \in Nat /\ Sym(lay).etext \in Nat
      BY <1>1, Symbols
    <3> QED
      BY <3>1 DEF Text, s
  <2>4. PTE_X \in {PTE_V, PTE_R, PTE_X} /\ PTE_W \in {PTE_V, PTE_R, PTE_W}
    OBVIOUS
  <2> QED
    BY <1>2, <2>2, <2>3, <2>4
<1> QED
  BY <1>1, <1>3, <1>4, RootInUse DEF Paging, Registers, Loaded, Early

-----------------------------------------------------------------------------
(* The invariants that the run checks.                                     *)

LEMMA Typed == IInv => TypeOK
<1> SUFFICES ASSUME IInv PROVE TypeOK
  OBVIOUS
<1>1. lay \in Layouts /\ Registers /\ Memory
  BY DEF IInv
<1>2. /\ EarlyPage(lay) \in RamPages /\ RootPage(lay) \in RamPages
      /\ PAGES \in First .. PAGES
  BY <1>1, ImagePages, Numbers
<1>3. Bare.mode = 0 /\ \A a \in RamPages : RootAt(a).ppn * PGSIZE = a
  <2>1. ASSUME NEW a \in RamPages PROVE RootAt(a).ppn * PGSIZE = a
    <3>1. a \in Nat /\ a % PGSIZE = 0
      BY RamFacts, PagedFacts
    <3> QED
      BY <3>1, PageNumbers DEF RootAt
  <2> QED
    BY <2>1 DEF Bare
<1>4. PHY_START \in RamPages
  BY Constants, RamFacts
<1>5. ASSUME NEW Q \in First .. PAGES, Mapped(mem, next, Q, lay)
      PROVE  mem \in Mem /\ next \in RamPages
  <2>1. mem \in Mem
    BY <1>5 DEF Mapped
  <2>2. next \in RamPages
    BY <1>1, <1>5, MappedFacts
  <2> QED
    BY <2>1, <2>2
<1>6. mem \in Mem /\ next \in RamPages
  <2>1. CASE pc \in Loaded
    <3>1. Zeroed \in page_table_t
      BY <1>1, TableTypes, Numbers
    <3> QED
      BY <1>1, <1>4, <2>1, <3>1 DEF Memory, Mem
  <2>2. CASE pc \in Early
    BY <1>1, <1>4, <2>2, StartMapped DEF Memory, Mapped
  <2>3. CASE pc = "setup_vm_final"
    BY <1>1, <1>5, <2>3 DEF Memory
  <2>4. CASE pc = "task_init"
    BY <1>1, <1>2, <1>5, <2>4 DEF Memory
  <2>5. CASE pc \in {"schedule", "__dummy"}
    BY <1>1, <2>5 DEF Memory, Tasked
  <2> QED
    BY <1>1, <2>1, <2>2, <2>3, <2>4, <2>5 DEF Registers
<1>7. satp = Bare \/ satp.ppn * PGSIZE \in RamPages
  <2>1. CASE pc = "__dummy"
    <3>1. next - PGSIZE \in RamPages
      BY <1>1, <2>1 DEF Memory, Tasked
    <3>2. satp = RootAt(next - PGSIZE)
      BY <1>1, <2>1 DEF Registers, Loaded, Early
    <3> QED
      BY <1>3, <3>1, <3>2
  <2>2. CASE pc # "__dummy"
    <3>1. satp = Bare \/ satp = RootAt(EarlyPage(lay)) \/ satp = RootAt(RootPage(lay))
      BY <1>1, <2>2 DEF Registers
    <3> QED
      BY <1>2, <1>3, <3>1
  <2> QED
    BY <2>1, <2>2
<1>8. hi \in BOOLEAN /\ ra \in BOOLEAN /\ stvec \in {"none", "physical", "virtual"}
      /\ sie \in BOOLEAN /\ sstatus \in BOOLEAN
  BY <1>1 DEF Registers
<1> QED
  BY <1>1, <1>6, <1>7, <1>8 DEF TypeOK, Mem

LEMMA Running == IInv => KeepsRunning
<1> SUFFICES ASSUME IInv PROVE KeepsRunning
  OBVIOUS
<1>1. lay \in Layouts /\ Registers /\ Memory
  BY DEF IInv
<1> DEFINE y == Sym(lay)
<1>2. /\ y.stext \in Nat /\ y.etext \in Nat /\ y.etext <= y.srodata /\ y.srodata <= y.erodata
      /\ y.erodata <= y.sdata /\ y.sdata <= y.uapp_start /\ y.uapp_start <= y.boot_stack
      /\ y.stext <= y.etext /\ y.boot_stack + 3 * PGSIZE <= y.ekernel
      /\ y.srodata \in Nat /\ y.erodata \in Nat /\ y.sdata \in Nat /\ y.uapp_start \in Nat
      /\ y.boot_stack \in Nat /\ y.ekernel \in Nat /\ y.early_pgtbl = y.boot_stack + PGSIZE
  BY <1>1, Symbols
<1>3. /\ PGSIZE \in Nat /\ PGSIZE > 0 /\ PHY_START \in Nat /\ PHY_END \in Nat /\ BITMAP \in Nat
      /\ PA2VA_OFFSET \in Nat /\ OPENSBI_SIZE \in Nat
  BY Sizes, Constants, PagedFacts
<1> HIDE DEF y
<1>4. \A va \in Text : va \in Int /\ y.stext <= va /\ va < y.etext /\ va \in Kernel
  <2>1. \A va \in Text : va \in Int /\ y.stext <= va /\ va < y.etext
    BY <1>2 DEF Text, s, y
  <2>2. \A va \in Int : y.stext <= va /\ va < y.etext => va < y.ekernel + BITMAP
    BY <1>2, <1>3
  <2> QED
    BY <1>1, <2>1, <2>2, InKernel DEF y
<1>5. \A va : Walk(Bare, va) = [pa |-> va, perm |-> All] /\ PTE_X \in All /\ PTE_W \in All
  <2>1. Bare.mode # SV39 /\ PTE_X \in All /\ PTE_W \in All
    BY DEF Bare, SV39, All
  <2>2. \A root, va : root.mode # SV39 => WalkIn(mem, root, va) = [pa |-> va, perm |-> All]
    BY DEF WalkIn
  <2> QED
    BY <2>1, <2>2, WalkOfMem
<1>6. ASSUME NEW va \in Text
      PROVE  LET e == Walk(satp, Here(va)) IN PTE_X \in e.perm /\ e.pa = VA2PA(va)
  <2>1. CASE ~Paging
    <3>1. satp = Bare /\ ~hi
      BY <1>1, <2>1 DEF Registers, Paging, Loaded
    <3> QED
      BY <1>5, <3>1 DEF Here
  <2>2. CASE Paging /\ hi
    BY <1>4, <2>2, KernelMapped DEF Here
  <2>3. CASE Paging /\ ~hi
    <3>1. pc = "ret"
      BY <1>1, <2>3 DEF Registers, Paging, Loaded
    <3>2. EarlyRoot
      BY <3>1, RootInUse
    <3>3. va \in Kernel
      BY <1>4
    <3> DEFINE x == va - VM_START
    <3>4. x \in 0 .. EARLY_PGSIZE - 1 /\ VA2PA(va) = PHY_START + x
      BY <3>3, InKernel
    <3> HIDE DEF x
    <3>5. WalkIn(mem, satp, PHY_START + x) = [pa |-> PHY_START + x, perm |-> All]
      BY <1>1, <3>2, <3>4, EarlyWalk DEF EarlyRoot
    <3>6. Walk(satp, Here(va)) = [pa |-> VA2PA(va), perm |-> All]
      BY <2>3, <3>4, <3>5, WalkOfMem DEF Here
    <3> QED
      BY <1>5, <3>6
  <2> QED
    BY <2>1, <2>2, <2>3
<1>7. ASSUME pc \notin {"_start", "csrw satp"}
      PROVE  LET e == Walk(satp, sp - 1) IN PTE_W \in e.perm /\ e.pa \in PHY_START .. PHY_END - 1
  <2>1. CASE pc \in {"setup_vm", "relocate"}
    <3>1. satp = Bare /\ sp = VA2PA(y.boot_stack) + PGSIZE
      BY <1>1, <2>1 DEF Registers, Loaded, y
    <3>2. sp = EarlyPage(lay)
      BY <1>2, <1>3, <3>1 DEF EarlyPage, VA2PA, y
    <3>3. sp \in Nat /\ PHY_START < sp /\ sp < PHY_END
      BY <1>1, <3>2, ImagePages, RamFacts
    <3>4. Walk(satp, sp - 1) = [pa |-> sp - 1, perm |-> All]
      BY <1>5, <3>1
    <3> QED
      BY <1>3, <1>5, <3>3, <3>4
  <2>2. CASE pc \notin {"setup_vm", "relocate"}
    <3>1. Paging
      BY <1>7, <2>2 DEF Paging, Loaded
    <3>2. sp - 1 \in Int /\ y.sdata <= sp - 1 /\ sp - 1 \in Kernel
      <4>1. CASE pc = "__dummy"
        <5>1. sp = PA2VA(next - PGSIZE) - 1
          BY <1>1, <4>1 DEF Registers
        <5>2. next \in RamPages /\ Middle(lay) + 5 * PGSIZE <= next
          BY <1>1, <4>1 DEF Memory, Tasked
        <5>3. Middle(lay) \in Nat /\ Top(lay) \in Nat /\ Top(lay) <= Middle(lay)
          BY <1>1, ImagePages
        <5>4. next \in Nat /\ next < PHY_END
          BY <5>2, RamFacts, PagedFacts
        <5>5. Top(lay) = y.ekernel + BITMAP - PA2VA_OFFSET
          BY <1>2, <1>3 DEF Top, VA2PA, y
        <5>6. sp - 1 = next - PGSIZE + PA2VA_OFFSET - 2
          BY <1>3, <5>1, <5>4 DEF PA2VA
        <5>7. y.sdata <= sp - 1 /\ sp - 1 \in Int /\ VA2PA(sp - 1) < PHY_END
              /\ y.ekernel <= sp - 1
          BY <1>2, <1>3, <5>2, <5>3, <5>4, <5>5, <5>6 DEF VA2PA
        <5>8. PHY_START + OPENSBI_SIZE <= VA2PA(sp - 1)
          <6>1. y.stext = VM_START + OPENSBI_SIZE /\ VM_START = PHY_START + PA2VA_OFFSET
            BY <1>1, Symbols, Constants DEF y
          <6>2. y.stext <= y.ekernel
            BY <1>2, <1>3
          <6> QED
            BY <1>2, <1>3, <5>7, <6>1, <6>2 DEF VA2PA
        <5> QED
          BY <5>7, <5>8, InKernel
      <4>2. CASE pc # "__dummy"
        <5>1. sp = y.boot_stack + PGSIZE
          BY <1>1, <1>7, <2>2, <4>2 DEF Registers, y
        <5>2. sp - 1 \in Int /\ y.sdata <= sp - 1 /\ y.stext <= sp - 1 /\ sp - 1 < y.ekernel + BITMAP
          BY <1>2, <1>3, <5>1
        <5> QED
          BY <1>1, <5>2, InKernel DEF y
      <4> QED
        BY <4>1, <4>2
    <3>3. Walk(satp, sp - 1).pa = VA2PA(sp - 1) /\ PTE_W \in Walk(satp, sp - 1).perm
      BY <3>1, <3>2, KernelMapped DEF y
    <3>4. VA2PA(sp - 1) \in PHY_START .. PHY_END - 1
      <4>1. PHY_START + OPENSBI_SIZE <= VA2PA(sp - 1) /\ VA2PA(sp - 1) < PHY_END
        BY <3>2, InKernel
      <4>2. VA2PA(sp - 1) \in Int
        BY <1>3, <3>2 DEF VA2PA
      <4> QED
        BY <1>3, <4>1, <4>2
    <3> QED
      BY <3>3, <3>4
  <2> QED
    BY <2>1, <2>2
<1>8. sie /\ sstatus => stvec = "virtual"
  BY <1>1 DEF Registers
<1> QED
  BY <1>6, <1>7, <1>8 DEF KeepsRunning

LEMMA RightsHold == IInv => Rights
<1> SUFFICES ASSUME IInv, pc \in {"task_init", "schedule", "__dummy"}
             PROVE  LET root == get_satp(get_kernel_pgtbl)
                    IN  /\ \A va \in Kernel :
                             LET e == Walk(root, va)
                             IN  /\ e.pa = VA2PA(va)
                                 /\ va \in Text => e.perm = {PTE_V, PTE_R, PTE_X}
                                 /\ va \in Rodata => e.perm = {PTE_V, PTE_R}
                                 /\ va \in Written => e.perm = {PTE_V, PTE_R, PTE_W}
                                 /\ ~({PTE_W, PTE_X} \subseteq e.perm) /\ PTE_U \notin e.perm
                        /\ \A va \in (PHY_START .. VM_END - 1) \ Kernel :
                             PTE_V \notin Walk(root, va).perm
  BY DEF Rights
<1>1. lay \in Layouts
  BY DEF IInv
<1>2. get_satp(get_kernel_pgtbl) = RootAt(RootPage(lay))
  BY DEF get_satp, get_kernel_pgtbl, s, RootAt, RootPage, VA2PA
<1>3. FinalRoot(RootAt(RootPage(lay)))
  BY RootInUse
<1> DEFINE root == RootAt(RootPage(lay))
<1>4. PICK a \in RamPages : root = RootAt(a) /\ mem[a] = RootTable(lay, PAGES) /\ Final(mem, lay)
  BY <1>3 DEF FinalRoot
<1>5. Paged(a)
  BY RamFacts
<1> HIDE DEF root
<1>6. /\ \A va \in Text : Sym(lay).stext <= va /\ va < Sym(lay).etext
      /\ \A va \in Rodata : Sym(lay).srodata <= va /\ va < Sym(lay).erodata
      /\ \A va \in Written : Sym(lay).sdata <= va
  <2>1. /\ Sym(lay).stext \in Nat /\ Sym(lay).etext \in Nat /\ Sym(lay).srodata \in Nat
        /\ Sym(lay).erodata \in Nat /\ Sym(lay).sdata \in Nat /\ Sym(lay).ekernel \in Nat /\ BITMAP \in Nat
    BY <1>1, Symbols, Constants
  <2> QED
    BY <2>1 DEF Text, Rodata, Written, free_page_start, s
<1>7. ASSUME NEW va \in Int, va \in Kernel
      PROVE  LET e == Walk(root, va)
             IN  /\ e.pa = VA2PA(va)
                 /\ va \in Text => e.perm = {PTE_V, PTE_R, PTE_X}
                 /\ va \in Rodata => e.perm = {PTE_V, PTE_R}
                 /\ va \in Written => e.perm = {PTE_V, PTE_R, PTE_W}
                 /\ ~({PTE_W, PTE_X} \subseteq e.perm) /\ PTE_U \notin e.perm
  <2>1. LET e == WalkIn(mem, RootAt(a), va)
            y == Sym(lay)
        IN  /\ e.pa = VA2PA(va)
            /\ y.stext <= va /\ va < y.etext => e.perm = {PTE_V, PTE_R, PTE_X}
            /\ y.srodata <= va /\ va < y.erodata => e.perm = {PTE_V, PTE_R}
            /\ y.sdata <= va => e.perm = {PTE_V, PTE_R, PTE_W}
            /\ ~({PTE_W, PTE_X} \subseteq e.perm) /\ PTE_U \notin e.perm
    BY <1>1, <1>4, <1>5, <1>7, FinalMapped
  <2>2. Walk(root, va) = WalkIn(mem, RootAt(a), va)
    BY <1>4, WalkOfMem
  <2> QED
    BY <1>6, <2>1, <2>2
<1>8. ASSUME NEW va \in (PHY_START .. VM_END - 1) \ Kernel
      PROVE  PTE_V \notin Walk(root, va).perm
  <2>1. va \in Nat /\ va < FAN * EARLY_PGSIZE /\ va \notin Kernel
    <3>1. PHY_START \in Nat /\ VM_END \in Nat /\ EARLY_PGSIZE \in Nat /\ FAN \in Nat
      BY Bases, Sizes
    <3>2. VM_END <= EARLY_PGSIZE * FAN /\ EARLY_PGSIZE * FAN = FAN * EARLY_PGSIZE /\ FAN * EARLY_PGSIZE \in Nat
      BY <3>1, BootAssumption
    <3> QED
      BY <3>1, <3>2
  <2>2. PTE_V \notin WalkIn(mem, RootAt(a), va).perm
    BY <1>1, <1>4, <1>5, <2>1, OutsideWalk
  <2> QED
    BY <1>4, <2>2, WalkOfMem
<1>9. \A va \in Kernel : va \in Int
  BY InKernel
<1> QED
  BY <1>2, <1>7, <1>8, <1>9 DEF root

LEMMA FreePages == IInv => FreeIsFree
<1> SUFFICES ASSUME IInv, hi, pc # "mm_init", next > PHY_START,
                    NEW a \in RamPages, a >= next
             PROVE  /\ \A k \in 0 .. PGSIZE - 1 :
                         PA2VA(a + k) \notin Firmware \cup Text \cup Rodata \cup Written
                    /\ mem[a] = Zeroed
                    /\ LET e == Walk(satp, PA2VA(a)) IN PTE_W \in e.perm /\ e.pa = a
  BY DEF FreeIsFree
<1>1. lay \in Layouts /\ Registers /\ Memory
  BY DEF IInv
<1>2. pc \in {"setup_vm_final", "task_init", "schedule", "__dummy"}
  <2>1. pc \notin Loaded \cup Early
    BY <1>1, Constants DEF Memory
  <2> QED
    BY <1>1, <2>1 DEF Registers
<1> DEFINE y == Sym(lay)
<1>3. /\ PGSIZE \in Nat /\ PGSIZE > 0 /\ PHY_START \in Nat /\ PHY_END \in Nat /\ BITMAP \in Nat
      /\ PA2VA_OFFSET \in Nat /\ OPENSBI_SIZE \in Nat /\ VM_START \in Nat
      /\ VM_START = PHY_START + PA2VA_OFFSET
  BY Sizes, Constants, PagedFacts
<1>4. /\ y.stext = VM_START + OPENSBI_SIZE /\ y.stext \in Nat /\ y.etext \in Nat
      /\ y.srodata \in Nat /\ y.erodata \in Nat /\ y.sdata \in Nat /\ y.uapp_start \in Nat
      /\ y.boot_stack \in Nat /\ y.ekernel \in Nat
      /\ y.stext <= y.etext /\ y.etext <= y.srodata /\ y.srodata <= y.erodata
      /\ y.erodata <= y.sdata /\ y.sdata <= y.uapp_start /\ y.uapp_start <= y.boot_stack
      /\ y.boot_stack + 3 * PGSIZE <= y.ekernel
  BY <1>1, Symbols
<1> HIDE DEF y
<1>5. /\ Middle(lay) \in Nat /\ Top(lay) \in Nat /\ Top(lay) <= Middle(lay)
      /\ Top(lay) = y.ekernel + BITMAP - PA2VA_OFFSET
      /\ EarlyPage(lay) < Middle(lay) /\ RootPage(lay) < Middle(lay)
  <2>1. Top(lay) = y.ekernel + BITMAP - PA2VA_OFFSET
    BY <1>3, <1>4 DEF Top, VA2PA, y
  <2>2. /\ EarlyPage(lay) \in Nat /\ RootPage(lay) \in Nat /\ EarlyPage(lay) + PGSIZE = RootPage(lay)
        /\ RootPage(lay) + PGSIZE <= Middle(lay) /\ Middle(lay) \in Nat /\ Top(lay) \in Nat
        /\ Top(lay) <= Middle(lay)
    BY <1>1, ImagePages
  <2> QED
    BY <1>3, <2>1, <2>2
<1>6. a \in Nat /\ PHY_START <= a /\ a < PHY_END
  BY RamFacts, PagedFacts
<1>7. Middle(lay) <= a /\ mem[a] = Zeroed
  <2>1. CASE pc \in {"schedule", "__dummy"}
    <3>1. Tasked(mem, next, lay)
      BY <1>1, <2>1 DEF Memory
    <3>2. next \in Nat /\ Middle(lay) + 5 * PGSIZE <= next /\ mem[a] = Zeroed
      BY <3>1, RamFacts, PagedFacts DEF Tasked
    <3> QED
      BY <1>3, <1>5, <1>6, <3>2
  <2>2. CASE pc \in {"setup_vm_final", "task_init"}
    <3>1. PICK Q \in First .. PAGES : Mapped(mem, next, Q, lay)
      <4>1. PAGES \in First .. PAGES
        BY <1>1, ImagePages, Numbers
      <4> QED
        BY <1>1, <2>2, <4>1 DEF Memory
    <3>2. next \in Nat /\ Middle(lay) <= next
      BY <1>1, <3>1, MappedFacts
    <3>3. Middle(lay) <= a /\ a \notin {EarlyPage(lay), RootPage(lay)} /\ next <= a
      <4>1. EarlyPage(lay) \in Nat /\ RootPage(lay) \in Nat
        BY <1>1, ImagePages
      <4> QED
        BY <1>5, <1>6, <3>2, <4>1
    <3> QED
      BY <3>1, <3>3 DEF Mapped
  <2> QED
    BY <1>2, <2>1, <2>2
<1>8. ASSUME NEW k \in 0 .. PGSIZE - 1
      PROVE  PA2VA(a + k) \notin Firmware \cup Text \cup Rodata \cup Written
  <2> DEFINE v == PA2VA(a + k)
  <2>1. v \in Nat /\ y.ekernel + BITMAP <= v
    BY <1>3, <1>4, <1>5, <1>6, <1>7 DEF PA2VA
  <2> HIDE DEF v
  <2>2. v \notin Firmware
    BY <1>3, <1>4, <2>1 DEF Firmware
  <2>3. v \notin Text
    BY <1>3, <1>4, <2>1 DEF Text, s, y
  <2>4. v \notin Rodata
    BY <1>3, <1>4, <2>1 DEF Rodata, s, y
  <2>5. v \notin Written
    BY <1>3, <1>4, <2>1 DEF Written, free_page_start, s, y
  <2> QED
    BY <2>2, <2>3, <2>4, <2>5 DEF v
<1>9. LET e == Walk(satp, PA2VA(a)) IN PTE_W \in e.perm /\ e.pa = a
  <2> DEFINE v == PA2VA(a)
  <2>1. /\ v \in Int /\ VA2PA(v) = a /\ y.sdata <= v
        /\ PHY_START + OPENSBI_SIZE <= VA2PA(v) /\ VA2PA(v) < PHY_END
    BY <1>3, <1>4, <1>5, <1>6, <1>7 DEF PA2VA, VA2PA
  <2> HIDE DEF v
  <2>2. v \in Kernel
    BY <2>1, InKernel
  <2>3. Paging
    BY <1>2 DEF Paging, Loaded
  <2>4. Walk(satp, v).pa = VA2PA(v) /\ PTE_W \in Walk(satp, v).perm
    BY <2>1, <2>2, <2>3, KernelMapped DEF y
  <2> QED
    BY <2>1, <2>4 DEF v
<1> QED
  BY <1>7, <1>8, <1>9

-----------------------------------------------------------------------------
(* The loops of setup_vm_final and create_mapping.  Mapped says of every   *)
(* page of the RAM what it holds: both leave the one memory that has it.   *)

LEMMA LastOne ==
  ASSUME NEW Q \in Nat, NEW K \in Nat, Has(Q, K), ~Has(Q, K + 1), NEW k \in Nat
  PROVE  Has(Q, k) <=> FirstTable <= k /\ k <= K
<1>1. FAN \in Nat /\ k * FAN \in Nat /\ K * FAN \in Nat /\ (K + 1) * FAN \in Nat /\ FirstTable \in Nat
  BY Sizes, Times, Numbers
<1>2. First < Q /\ FirstTable <= K /\ K * FAN < Q /\ ~((K + 1) * FAN < Q)
  <2>1. First < Q /\ FirstTable <= K /\ K * FAN < Q
    BY DEF Has
  <2>2. FirstTable <= K + 1
    BY <1>1, <2>1
  <2> QED
    BY <2>1, <2>2 DEF Has
<1>3. (k <= K => k * FAN <= K * FAN) /\ (K + 1 <= k => (K + 1) * FAN <= k * FAN)
  BY <1>1, Times
<1> QED
  BY <1>1, <1>2, <1>3 DEF Has

LEMMA MappedUnique ==
  ASSUME NEW l \in Layouts, NEW Q \in First .. PAGES,
         NEW m, NEW n, Mapped(m, n, Q, l), NEW w, NEW v, Mapped(w, v, Q, l)
  PROVE  m = w /\ n = v
<1>1. First \in Nat /\ PAGES \in Nat /\ Q \in Nat /\ First <= Q /\ Q <= PAGES
      /\ PGSIZE \in Nat /\ PGSIZE > 0 /\ FirstTable \in Nat
  BY Numbers, Sizes
<1>2. Middle(l) \in Nat /\ Paged(Middle(l)) /\ Middle(l) \in RamPages
  BY ImagePages
<1>3. n = v /\ n \in Nat /\ \A a \in RamPages :
        Middle(l) < a /\ a < n => \E k \in Nat : Has(Q, k) /\ a = TableOf(l, k)
  <2>1. CASE First = Q
    <3>1. n = Middle(l) /\ v = Middle(l)
      BY <2>1 DEF Mapped
    <3>2. \A a \in RamPages : a \in Nat
      BY RamFacts, PagedFacts
    <3> QED
      BY <1>2, <3>1, <3>2
  <2>2. CASE First # Q
    <3>1. First < Q
      BY <1>1, <2>2
    <3>2. PICK K \in Nat : Has(Q, K) /\ ~Has(Q, K + 1) /\ n = TableOf(l, K) + PGSIZE
      BY <3>1 DEF Mapped
    <3>3. PICK L \in Nat : Has(Q, L) /\ ~Has(Q, L + 1) /\ v = TableOf(l, L) + PGSIZE
      BY <3>1 DEF Mapped
    <3>4. FirstTable <= K /\ K <= L /\ L <= K /\ K * FAN < PAGES
      BY <1>1, <3>2, <3>3, LastOne, TableTypes
    <3>5. n = v
      BY <3>2, <3>3, <3>4
    <3>6. TableOf(l, K) \in Nat /\ TableOf(l, K) = Middle(l) + PGSIZE * (1 + (K - FirstTable))
      BY <3>4, TablePages DEF TableOf
    <3>7. ASSUME NEW a \in RamPages, Middle(l) < a, a < n
          PROVE  \E k \in Nat : Has(Q, k) /\ a = TableOf(l, k)
      <4>1. a \in Nat /\ Paged(a)
        BY RamFacts, PagedFacts
      <4>2. Paged(a - Middle(l)) /\ a - Middle(l) > 0
        BY <1>2, <3>7, <4>1, PagedFacts
      <4>3. PICK d \in Nat : a - Middle(l) = d * PGSIZE
        BY <4>2 DEF Paged
      <4>4. d > 0 /\ a = Middle(l) + PGSIZE * d
        <5>1. d * PGSIZE = PGSIZE * d /\ d * PGSIZE \in Nat /\ (d = 0 => d * PGSIZE = 0)
          BY <1>1, <4>3
        <5> QED
          BY <1>2, <4>1, <4>2, <4>3, <5>1
      <4> DEFINE k == FirstTable + (d - 1)
                 D == 1 + (K - FirstTable)
      <4>5. k \in Nat /\ FirstTable <= k /\ d = 1 + (k - FirstTable) /\ D \in Nat
        BY <1>1, <3>4, <4>4
      <4>6. a = TableOf(l, k)
        BY <4>4, <4>5 DEF TableOf
      <4>7. d <= D
        <5>1. SUFFICES ASSUME D < d PROVE FALSE
          BY <4>5
        <5>2. D * PGSIZE + PGSIZE <= d * PGSIZE /\ D * PGSIZE \in Nat /\ d * PGSIZE \in Nat
              /\ PGSIZE * D = D * PGSIZE
          BY <1>1, <4>5, <5>1, Times
        <5> HIDE DEF D
        <5>3. n = Middle(l) + D * PGSIZE + PGSIZE
          BY <1>1, <1>2, <3>2, <3>6, <5>2 DEF D
        <5> QED
          BY <1>1, <1>2, <3>7, <4>1, <4>3, <5>2, <5>3
      <4>8. k <= K
        BY <1>1, <3>4, <4>5, <4>7
      <4>9. Has(Q, k)
        BY <1>1, <3>2, <4>5, <4>8, LastOne
      <4> QED
        BY <4>5, <4>6, <4>9
    <3> QED
      BY <1>1, <3>2, <3>5, <3>6, <3>7
  <2> QED
    BY <2>1, <2>2
<1>4. ASSUME NEW a \in RamPages PROVE m[a] = w[a]
  <2>1. a \in Nat
    BY RamFacts, PagedFacts
  <2>2. CASE a \in {EarlyPage(l), RootPage(l), Middle(l)}
    BY <2>2 DEF Mapped
  <2>3. CASE a \notin {EarlyPage(l), RootPage(l), Middle(l)} /\ (a < Middle(l) \/ n <= a)
    <3>1. m[a] = Zeroed
      BY <2>3 DEF Mapped
    <3>2. w[a] = Zeroed
      BY <1>3, <2>3 DEF Mapped
    <3> QED
      BY <3>1, <3>2
  <2>4. CASE Middle(l) < a /\ a < n
    <3>1. PICK k \in Nat : Has(Q, k) /\ a = TableOf(l, k)
      BY <1>3, <2>4
    <3> QED
      BY <3>1 DEF Mapped
  <2> QED
    BY <1>2, <1>3, <2>1, <2>2, <2>3, <2>4
<1>5. m \in Mem /\ w \in Mem
  BY DEF Mapped
<1>6. m = w
  BY <1>4, <1>5 DEF Mem
<1> QED
  BY <1>3, <1>6

(* create_mapping for a stretch of pages that get the same rights.         *)
LEMMA MapRange ==
  ASSUME NEW l \in Layouts, NEW P \in First .. PAGES, NEW Q \in First .. PAGES, P <= Q,
         NEW m \in [mem : Mem, next : Nat], Mapped(m.mem, m.next, P, l),
         NEW perm, \A q \in P .. Q - 1 : perm \cup {PTE_V} = RightsOf(l, VM_START + q * PGSIZE),
         NEW sz, sz = (Q - P) * PGSIZE
  PROVE  LET n == create_mapping(m, Sym(l).swapper_pg_dir, VM_START + P * PGSIZE,
                                 PHY_START + P * PGSIZE, sz, perm)
         IN  n \in [mem : Mem, next : Nat] /\ Mapped(n.mem, n.next, Q, l)
<1> DEFINE V == [mem : Mem, next : Nat]
           dir == Sym(l).swapper_pg_dir
           turns == Q - P
           F(k, x) == map_final_pgtbl(x, dir, VM_START + (P + (k - 1)) * PGSIZE,
                                      PHY_START + (P + (k - 1)) * PGSIZE, perm)
           At_(k, x) == x \in V /\ Mapped(x.mem, x.next, P + k, l)
<1>1. /\ First \in Nat /\ PAGES \in Nat /\ P \in Nat /\ Q \in Nat /\ First <= P /\ Q <= PAGES
      /\ turns \in Nat /\ PGSIZE \in Nat /\ PGSIZE > 0 /\ VM_START \in Nat /\ PHY_START \in Nat
      /\ FAN \in Nat /\ FAN > 0 /\ turns = Q - P
  BY Numbers, Sizes, Bases
<1>2. ASSUME NEW k \in 1 .. turns, NEW x, At_(k - 1, x) PROVE At_(k, F(k, x))
  <2> DEFINE q == P + (k - 1)
  <2>1. q \in Nat /\ First <= q /\ q < PAGES /\ q \in P .. Q - 1 /\ P + k = q + 1
    BY <1>1
  <2>2. PICK K \in Nat, J \in Entries : q = K * FAN + J
    BY <1>1, <2>1, Parts DEF Entries
  <2>3. perm \cup {PTE_V} = RightsOf(l, VM_START + q * PGSIZE)
    BY <2>1
  <2>4. x \in V /\ Mapped(x.mem, x.next, q, l)
    BY <1>2
  <2>5. F(k, x) = map_final_pgtbl(x, dir, VM_START + q * PGSIZE, PHY_START + q * PGSIZE, perm)
    OBVIOUS
  <2> HIDE DEF q, F
  <2>6. LET z == map_final_pgtbl(x, dir, VM_START + q * PGSIZE, PHY_START + q * PGSIZE, perm)
        IN  z \in V /\ Mapped(z.mem, z.next, q + 1, l)
    BY <2>1, <2>2, <2>3, <2>4, MapStep
  <2> QED
    BY <2>1, <2>5, <2>6
<1>3. At_(0, m)
  BY <1>1
<1>4. ASSUME NEW k \in 0 .. turns, NEW x, At_(k, x), NEW z, At_(k, z) PROVE x = z
  <2>1. P + k \in First .. PAGES
    BY <1>1
  <2>2. x.mem = z.mem /\ x.next = z.next
    BY <1>4, <2>1, MappedUnique
  <2> QED
    BY <1>4, <2>2
<1> HIDE DEF F, At_, turns
<1> DEFINE T == {k \in 0 .. turns : \E x : At_(k, x)}
<1>5. \A k \in 0 .. turns : \E x : At_(k, x)
  <2>1. 0 \in T
    BY <1>1, <1>3
  <2>2. ASSUME NEW k \in 1 .. turns, k - 1 \in T PROVE k \in T
    BY <1>2, <2>2
  <2> HIDE DEF T
  <2>3. \A k \in 0 .. turns : k \in T
    BY <1>1, <2>1, <2>2, UpTo
  <2> QED
    BY <2>3 DEF T
<1> DEFINE f == [k \in 0 .. turns |-> CHOOSE x : At_(k, x)]
<1>6. \A k \in 0 .. turns : At_(k, f[k])
  BY <1>5
<1> HIDE DEF f
<1>7. \A k \in 0 .. turns : f[k] = IF k = 0 THEN m ELSE F(k, f[k - 1])
  <2> SUFFICES ASSUME NEW k \in 0 .. turns PROVE f[k] = IF k = 0 THEN m ELSE F(k, f[k - 1])
    OBVIOUS
  <2>1. CASE k = 0
    BY <1>3, <1>4, <1>6, <2>1
  <2>2. CASE k # 0
    <3>1. k \in 1 .. turns /\ k - 1 \in 0 .. turns
      BY <1>1, <2>2
    <3>2. At_(k, F(k, f[k - 1]))
      BY <1>2, <1>6, <3>1
    <3> QED
      BY <1>4, <1>6, <2>2, <3>2
  <2> QED
    BY <2>1, <2>2
<1>8. f = [k \in 0 .. turns |-> IF k = 0 THEN m ELSE F(k, f[k - 1])]
  <2>1. f = [k \in 0 .. turns |-> f[k]]
    BY DEF f
  <2> QED
    BY <1>7, <2>1
<1> DEFINE va == VM_START + P * PGSIZE
           pa == PHY_START + P * PGSIZE
<1>9. PGROUNDUP(va) = va
  <2>1. Paged(VM_START) /\ Paged(P * PGSIZE)
    BY <1>1, Constants DEF Paged
  <2>2. Paged(va) /\ va \in Nat
    BY <2>1, PagedFacts
  <2> HIDE DEF va
  <2>3. PGROUNDUP(va) <= va /\ va <= PGROUNDUP(va) /\ PGROUNDUP(va) \in Nat
    BY <2>2, RoundedPage
  <2> QED
    BY <2>2, <2>3
<1>10. (sz + PGSIZE - 1) \div PGSIZE = turns
  <2>1. sz + PGSIZE - 1 = turns * PGSIZE + (PGSIZE - 1) /\ PGSIZE - 1 \in 0 .. PGSIZE - 1
    BY <1>1
  <2> QED
    BY <1>1, <2>1, DivUnique
<1> DEFINE G(k, x) == map_final_pgtbl(x, dir, va + (k - 1) * PGSIZE, pa + (k - 1) * PGSIZE, perm)
           after == CHOOSE g : g = [k \in 0 .. turns |-> IF k = 0 THEN m ELSE G(k, g[k - 1])]
<1>11. create_mapping(m, dir, va, pa, sz, perm) = after[turns]
  BY <1>9, <1>10, ZenonT(30) DEF create_mapping
<1>12. \A x : \A k \in 0 .. turns : G(k, x) = F(k, x)
  <2> SUFFICES ASSUME NEW k \in Int
               PROVE  /\ va + (k - 1) * PGSIZE = VM_START + (P + (k - 1)) * PGSIZE
                      /\ pa + (k - 1) * PGSIZE = PHY_START + (P + (k - 1)) * PGSIZE
    BY DEF F
  <2>1. k - 1 \in Int
    OBVIOUS
  <2>2. (P + (k - 1)) * PGSIZE = P * PGSIZE + (k - 1) * PGSIZE /\ P * PGSIZE \in Int /\ (k - 1) * PGSIZE \in Int
    BY <1>1, <2>1, Times
  <2> QED
    BY <1>1, <2>2
<1>13. f = [k \in 0 .. turns |-> IF k = 0 THEN m ELSE G(k, f[k - 1])]
  BY <1>8, <1>12
<1>14. after = [k \in 0 .. turns |-> IF k = 0 THEN m ELSE G(k, after[k - 1])]
  BY <1>13
<1> HIDE DEF after
<1>15. \A k \in 0 .. turns : after[k] = IF k = 0 THEN m ELSE F(k, after[k - 1])
  BY <1>12, <1>14
<1>16. At_(turns, after[turns])
  <2> DEFINE S == {k \in 0 .. turns : At_(k, after[k])}
  <2>1. 0 \in S
    BY <1>1, <1>3, <1>15
  <2>2. ASSUME NEW k \in 1 .. turns, k - 1 \in S PROVE k \in S
    <3>1. k \in 0 .. turns /\ k # 0
      BY <1>1
    <3> QED
      BY <1>2, <1>15, <2>2, <3>1
  <2> HIDE DEF S
  <2>3. \A k \in 0 .. turns : k \in S
    BY <1>1, <2>1, <2>2, UpTo
  <2> QED
    BY <1>1, <2>3 DEF S
<1>17. P + turns = Q
  BY <1>1 DEF turns
<1> QED
  BY <1>11, <1>16, <1>17 DEF At_

LEMMA RoundShift ==
  ASSUME NEW x \in Nat, NEW o, Paged(o), o <= x
  PROVE  PGROUNDUP(x - o) = PGROUNDUP(x) - o
<1>1. o \in Nat /\ x - o \in Nat
  BY PagedFacts
<1> DEFINE up == PGROUNDUP(x)
           low == PGROUNDUP(x - o)
<1>2. up \in Nat /\ Paged(up) /\ x <= up /\ \A y : Paged(y) /\ x <= y => up <= y
  BY RoundedPage
<1>3. low \in Nat /\ Paged(low) /\ x - o <= low /\ \A y : Paged(y) /\ x - o <= y => low <= y
  BY <1>1, RoundedPage
<1> HIDE DEF up, low
<1>4. low <= up - o
  <2>1. o <= up /\ x - o <= up - o
    BY <1>1, <1>2
  <2>2. Paged(up - o)
    BY <1>2, <2>1, PagedFacts
  <2> QED
    BY <1>3, <2>1, <2>2
<1>5. up <= low + o
  <2>1. x <= low + o
    BY <1>1, <1>3
  <2>2. Paged(low + o)
    BY <1>3, PagedFacts
  <2> QED
    BY <1>2, <2>1, <2>2
<1> QED
  BY <1>1, <1>2, <1>3, <1>4, <1>5 DEF up, low

(* The three stretches of pages.                                           *)
LEMMA Stretches ==
  ASSUME NEW l \in Layouts
  PROVE  \E r \in First .. PAGES, d \in First .. PAGES :
           /\ r <= d
           /\ VA2PA(Sym(l).srodata) = PHY_START + r * PGSIZE
           /\ VA2PA(Sym(l).sdata) = PHY_START + d * PGSIZE
           /\ \A q \in First .. r - 1 : RightsOf(l, VM_START + q * PGSIZE) = {PTE_V, PTE_R, PTE_X}
           /\ \A q \in r .. d - 1 : RightsOf(l, VM_START + q * PGSIZE) = {PTE_V, PTE_R}
           /\ \A q \in d .. PAGES - 1 : RightsOf(l, VM_START + q * PGSIZE) = {PTE_V, PTE_R, PTE_W}
<1> DEFINE y == Sym(l)
<1>1. /\ PGSIZE \in Nat /\ PGSIZE > 0 /\ PHY_START \in Nat /\ PA2VA_OFFSET \in Nat
      /\ VM_START \in Nat /\ VM_START = PHY_START + PA2VA_OFFSET /\ Paged(VM_START)
      /\ OPENSBI_SIZE \in Nat /\ PHY_SIZE \in Nat /\ PHY_END = PHY_START + PHY_SIZE /\ BITMAP \in Nat
  BY Sizes, Constants
<1>2. /\ First \in Nat /\ First * PGSIZE = OPENSBI_SIZE /\ PAGES \in Nat /\ PAGES * PGSIZE = PHY_SIZE
  BY Numbers
<1>3. /\ y.stext = VM_START + OPENSBI_SIZE /\ y.etext \in Nat /\ y.srodata \in Nat /\ y.erodata \in Nat
      /\ y.sdata \in Nat /\ y.stext <= y.etext /\ y.etext <= y.srodata /\ y.srodata <= y.erodata
      /\ y.erodata <= y.sdata /\ y.srodata = PGROUNDUP(y.etext) /\ y.sdata = PGROUNDUP(y.erodata)
      /\ Paged(y.srodata) /\ Paged(y.sdata)
  BY Symbols
<1>4. y.sdata < PHY_END + PA2VA_OFFSET
  <2>1. y.sdata <= y.uapp_start /\ y.uapp_start <= y.boot_stack /\ y.boot_stack + 3 * PGSIZE <= y.ekernel
        /\ y.uapp_start \in Nat /\ y.boot_stack \in Nat /\ y.ekernel \in Nat
    BY Symbols
  <2>2. Top(l) = y.ekernel + BITMAP - PA2VA_OFFSET
    BY <1>1, <2>1 DEF Top, VA2PA
  <2>3. Top(l) \in Nat /\ Top(l) <= Middle(l) /\ Middle(l) \in Nat /\ Middle(l) < PHY_END
    BY ImagePages, RamFacts
  <2> HIDE DEF y
  <2> QED
    BY <1>1, <1>3, <2>1, <2>2, <2>3
<1>5. ASSUME NEW x \in Nat, Paged(x), y.stext <= x, x < PHY_END + PA2VA_OFFSET
      PROVE  \E q \in First .. PAGES : x = VM_START + q * PGSIZE /\ VA2PA(x) = PHY_START + q * PGSIZE
  <2>1. Paged(x - VM_START) /\ x - VM_START \in Nat
    BY <1>1, <1>3, <1>5, PagedFacts
  <2>2. PICK q \in Nat : x - VM_START = q * PGSIZE
    BY <2>1 DEF Paged
  <2>3. q * PGSIZE \in Nat /\ (q < First => q * PGSIZE + PGSIZE <= First * PGSIZE)
        /\ (PAGES < q => PAGES * PGSIZE + PGSIZE <= q * PGSIZE)
    BY <1>1, <1>2, Times
  <2>4. OPENSBI_SIZE <= x - VM_START /\ x - VM_START < PHY_SIZE
    BY <1>1, <1>3, <1>5
  <2>5. q \in First .. PAGES
    BY <1>1, <1>2, <2>2, <2>3, <2>4
  <2> QED
    BY <1>1, <1>5, <2>2, <2>3, <2>5 DEF VA2PA
<1>6. PICK r \in First .. PAGES : y.srodata = VM_START + r * PGSIZE /\ VA2PA(y.srodata) = PHY_START + r * PGSIZE
  BY <1>1, <1>3, <1>4, <1>5
<1>7. PICK d \in First .. PAGES : y.sdata = VM_START + d * PGSIZE /\ VA2PA(y.sdata) = PHY_START + d * PGSIZE
  BY <1>1, <1>3, <1>4, <1>5
<1> HIDE DEF y
<1>8. ASSUME NEW q \in Nat
      PROVE  /\ q < r <=> VM_START + q * PGSIZE < y.srodata
             /\ q < d <=> VM_START + q * PGSIZE < y.sdata
  <2>1. r \in Nat /\ d \in Nat
    BY <1>2
  <2>2. /\ q * PGSIZE \in Nat /\ r * PGSIZE \in Nat /\ d * PGSIZE \in Nat
        /\ (q < r => q * PGSIZE + PGSIZE <= r * PGSIZE) /\ (r <= q => r * PGSIZE <= q * PGSIZE)
        /\ (q < d => q * PGSIZE + PGSIZE <= d * PGSIZE) /\ (d <= q => d * PGSIZE <= q * PGSIZE)
    BY <1>1, <2>1, Times
  <2> QED
    BY <1>1, <1>6, <1>7, <2>1, <2>2
<1>9. ASSUME NEW q \in Nat
      PROVE  RightsOf(l, VM_START + q * PGSIZE) = IF q < r THEN {PTE_V, PTE_R, PTE_X}
                                                  ELSE IF q < d THEN {PTE_V, PTE_R}
                                                  ELSE {PTE_V, PTE_R, PTE_W}
  <2>1. {PTE_W, PTE_R, PTE_V} = {PTE_V, PTE_R, PTE_W}
    OBVIOUS
  <2>2. q < r <=> VM_START + q * PGSIZE < PGROUNDUP(Sym(l).etext)
    BY <1>3, <1>8 DEF y
  <2>3. q < d <=> VM_START + q * PGSIZE < PGROUNDUP(Sym(l).erodata)
    BY <1>3, <1>8 DEF y
  <2> QED
    BY <2>1, <2>2, <2>3 DEF RightsOf
<1>10. r <= d
  <2>1. SUFFICES ASSUME d < r PROVE FALSE
    BY <1>2
  <2>2. d \in Nat
    BY <1>2
  <2>3. VM_START + d * PGSIZE < y.srodata
    BY <1>8, <2>1, <2>2
  <2> QED
    BY <1>3, <1>7, <2>3
<1>11. /\ \A q \in First .. r - 1 : q \in Nat /\ q < r
       /\ \A q \in r .. d - 1 : q \in Nat /\ ~(q < r) /\ q < d
       /\ \A q \in d .. PAGES - 1 : q \in Nat /\ ~(q < r) /\ ~(q < d)
  BY <1>2, <1>10
<1> QED
  BY <1>6, <1>7, <1>9, <1>10, <1>11 DEF y

LEMMA SameTables == IInv => Tables
<1> DEFINE text   == get("stext")
           rodata == PGROUNDUP(get("etext"))
           rest   == PGROUNDUP(get("erodata"))
           Map(m, from, to, perm) ==
             create_mapping(m, get_kernel_pgtbl, PA2VA(from), from, to - from, perm)
           m0 == [mem  |-> [a \in RamPages |-> IF a = get("early_pgtbl") THEN EarlyTable ELSE Zeroed],
                  next |-> FirstFree(VA2PA(free_page_start))]
           m1 == Map(m0, text, rodata, {PTE_R, PTE_X})
           m2 == Map(m1, rodata, rest, {PTE_R})
           m3 == Map(m2, rest, PHY_END, {PTE_R, PTE_W})
<1> SUFFICES ASSUME IInv, pc = "task_init" PROVE m3 = [mem |-> mem, next |-> next]
  BY DEF Tables
<1>1. lay \in Layouts /\ Mapped(mem, next, PAGES, lay)
  BY DEF IInv, Memory
<1>2. PICK r \in First .. PAGES, d \in First .. PAGES :
        /\ r <= d
        /\ VA2PA(Sym(lay).srodata) = PHY_START + r * PGSIZE
        /\ VA2PA(Sym(lay).sdata) = PHY_START + d * PGSIZE
        /\ \A q \in First .. r - 1 : RightsOf(lay, VM_START + q * PGSIZE) = {PTE_V, PTE_R, PTE_X}
        /\ \A q \in r .. d - 1 : RightsOf(lay, VM_START + q * PGSIZE) = {PTE_V, PTE_R}
        /\ \A q \in d .. PAGES - 1 : RightsOf(lay, VM_START + q * PGSIZE) = {PTE_V, PTE_R, PTE_W}
  BY <1>1, Stretches
<1>3. /\ PGSIZE \in Nat /\ PHY_START \in Nat /\ PA2VA_OFFSET \in Nat /\ Paged(PA2VA_OFFSET)
      /\ VM_START \in Nat /\ VM_START = PHY_START + PA2VA_OFFSET /\ OPENSBI_SIZE \in Nat
      /\ PHY_SIZE \in Nat /\ PHY_END = PHY_START + PHY_SIZE
      /\ First \in Nat /\ First * PGSIZE = OPENSBI_SIZE /\ PAGES \in Nat /\ PAGES * PGSIZE = PHY_SIZE
      /\ First \in First .. PAGES /\ PAGES \in First .. PAGES
  BY <1>1, Sizes, Constants, Numbers, ImagePages
<1>4. /\ Sym(lay).stext = VM_START + OPENSBI_SIZE /\ Sym(lay).etext \in Nat /\ Sym(lay).erodata \in Nat
      /\ Sym(lay).stext <= Sym(lay).etext /\ Sym(lay).stext <= Sym(lay).erodata
      /\ Sym(lay).srodata = PGROUNDUP(Sym(lay).etext) /\ Sym(lay).sdata = PGROUNDUP(Sym(lay).erodata)
  <2>1. Sym(lay).srodata \in Nat /\ Sym(lay).etext <= Sym(lay).srodata /\ Sym(lay).srodata <= Sym(lay).erodata
        /\ Sym(lay).stext \in Nat /\ Sym(lay).etext \in Nat /\ Sym(lay).erodata \in Nat
        /\ Sym(lay).stext <= Sym(lay).etext
    BY <1>1, Symbols
  <2>2. Sym(lay).stext <= Sym(lay).erodata
    BY <2>1
  <2> QED
    BY <1>1, <2>1, <2>2, Symbols
<1>5. text = PHY_START + First * PGSIZE
  BY <1>3, <1>4 DEF get, s, Sym
<1>6. /\ get("etext") = Sym(lay).etext - PA2VA_OFFSET /\ get("erodata") = Sym(lay).erodata - PA2VA_OFFSET
      /\ get("early_pgtbl") = EarlyPage(lay)
  BY DEF get, s, Sym, EarlyPage, VA2PA
<1>7. rodata = PHY_START + r * PGSIZE /\ rest = PHY_START + d * PGSIZE
  <2>1. PA2VA_OFFSET <= Sym(lay).etext /\ PA2VA_OFFSET <= Sym(lay).erodata
    BY <1>3, <1>4
  <2>2. rodata = Sym(lay).srodata - PA2VA_OFFSET /\ rest = Sym(lay).sdata - PA2VA_OFFSET
    BY <1>3, <1>4, <1>6, <2>1, RoundShift
  <2> QED
    BY <1>2, <2>2 DEF VA2PA
<1>8. \A q \in Nat : q * PGSIZE \in Nat /\ PA2VA(PHY_START + q * PGSIZE) = VM_START + q * PGSIZE
  <2> SUFFICES ASSUME NEW q \in Nat
               PROVE  q * PGSIZE \in Nat /\ PA2VA(PHY_START + q * PGSIZE) = VM_START + q * PGSIZE
    OBVIOUS
  <2>1. q * PGSIZE \in Nat
    BY <1>3, Times
  <2> QED
    BY <1>3, <2>1 DEF PA2VA
<1>9. m0.mem = Started(lay) /\ m0.next = Middle(lay)
  <2>1. EarlyPage(lay) \in RamPages
    BY <1>1, ImagePages
  <2>2. m0.mem = Started(lay)
    BY <1>6, <2>1 DEF Started
  <2> QED
    BY <2>2 DEF free_page_start, s, Middle, Top
<1>10. m0 \in [mem : Mem, next : Nat] /\ Mapped(m0.mem, m0.next, First, lay)
  <2>1. Mapped(Started(lay), Middle(lay), First, lay) /\ Middle(lay) \in Nat
    BY <1>1, StartMapped, ImagePages
  <2>2. Started(lay) \in Mem
    BY <2>1 DEF Mapped
  <2> QED
    BY <1>9, <2>1, <2>2
<1> HIDE DEF m0, text, rodata, rest
<1>11. ASSUME NEW m \in [mem : Mem, next : Nat], NEW P \in First .. PAGES, NEW Q \in First .. PAGES,
              P <= Q, Mapped(m.mem, m.next, P, lay),
              NEW perm, \A q \in P .. Q - 1 : perm \cup {PTE_V} = RightsOf(lay, VM_START + q * PGSIZE),
              NEW from, NEW to, from = PHY_START + P * PGSIZE, to = PHY_START + Q * PGSIZE
       PROVE  Map(m, from, to, perm) \in [mem : Mem, next : Nat]
              /\ Mapped(Map(m, from, to, perm).mem, Map(m, from, to, perm).next, Q, lay)
  <2>1. P \in Nat /\ Q \in Nat
    BY <1>3
  <2>2. to - from = (Q - P) * PGSIZE
    <3>1. (Q - P) * PGSIZE = Q * PGSIZE - P * PGSIZE /\ P * PGSIZE \in Nat /\ Q * PGSIZE \in Nat
      BY <1>3, <2>1
    <3> QED
      BY <1>3, <1>11, <3>1
  <2>3. Map(m, from, to, perm) = create_mapping(m, Sym(lay).swapper_pg_dir, VM_START + P * PGSIZE,
                                               PHY_START + P * PGSIZE, to - from, perm)
    BY <1>8, <1>11, <2>1 DEF get_kernel_pgtbl, s
  <2> HIDE DEF Map
  <2> DEFINE sz == to - from
             n == create_mapping(m, Sym(lay).swapper_pg_dir, VM_START + P * PGSIZE,
                                 PHY_START + P * PGSIZE, sz, perm)
  <2>4. sz = (Q - P) * PGSIZE
    BY <2>2
  <2> HIDE DEF sz
  <2>5. n \in [mem : Mem, next : Nat] /\ Mapped(n.mem, n.next, Q, lay)
    BY <1>1, <1>11, <2>4, MapRange
  <2>6. Map(m, from, to, perm) = n
    BY <2>3 DEF sz
  <2> QED
    BY <2>5, <2>6
<1> HIDE DEF Map
<1>12. m1 \in [mem : Mem, next : Nat] /\ Mapped(m1.mem, m1.next, r, lay)
  <2>1. \A q \in First .. r - 1 : {PTE_R, PTE_X} \cup {PTE_V} = RightsOf(lay, VM_START + q * PGSIZE)
    <3>1. {PTE_R, PTE_X} \cup {PTE_V} = {PTE_V, PTE_R, PTE_X}
      OBVIOUS
    <3> QED
      BY <1>2, <3>1
  <2>2. First <= r
    BY <1>3
  <2> QED
    BY <1>3, <1>5, <1>7, <1>10, <1>11, <2>1, <2>2
<1> HIDE DEF m1
<1>13. m2 \in [mem : Mem, next : Nat] /\ Mapped(m2.mem, m2.next, d, lay)
  <2>1. \A q \in r .. d - 1 : {PTE_R} \cup {PTE_V} = RightsOf(lay, VM_START + q * PGSIZE)
    <3>1. {PTE_R} \cup {PTE_V} = {PTE_V, PTE_R}
      OBVIOUS
    <3> QED
      BY <1>2, <3>1
  <2> QED
    BY <1>2, <1>7, <1>11, <1>12, <2>1
<1> HIDE DEF m2
<1>14. m3 \in [mem : Mem, next : Nat] /\ Mapped(m3.mem, m3.next, PAGES, lay)
  <2>1. \A q \in d .. PAGES - 1 : {PTE_R, PTE_W} \cup {PTE_V} = RightsOf(lay, VM_START + q * PGSIZE)
    <3>1. {PTE_R, PTE_W} \cup {PTE_V} = {PTE_V, PTE_R, PTE_W}
      OBVIOUS
    <3> QED
      BY <1>2, <3>1
  <2>2. PHY_END = PHY_START + PAGES * PGSIZE /\ d <= PAGES
    BY <1>3
  <2> QED
    BY <1>2, <1>3, <1>7, <1>11, <1>13, <2>1, <2>2
<1> HIDE DEF m3
<1>15. m3.mem = mem /\ m3.next = next
  BY <1>1, <1>3, <1>14, MappedUnique
<1> QED
  BY <1>14, <1>15

-----------------------------------------------------------------------------

LEMMA Invariance == Spec => []IInv
<1>1. Init => IInv
  BY Initially
<1>2. IInv /\ [Next]_vars => IInv'
  BY Inductive
<1> QED
  BY <1>1, <1>2, PTL DEF Spec

(* Every register and every page has its type at every step, and the pages *)
(* last: for every size of the RAM, of its pages and tables, and every     *)
(* image for which it has room.                                            *)
THEOREM TypeCorrect == Spec => []TypeOK
<1>1. IInv => TypeOK
  BY Typed
<1> QED
  BY <1>1, Invariance, PTL

(* From _start to the first context switch, the next instruction is always *)
(* fetched from where the loader put it, the stack can be written, and no  *)
(* interrupt is enabled before its handler is at an address that stays.    *)
THEOREM BootRuns == Spec => []KeepsRunning
<1>1. IInv => KeepsRunning
  BY Running
<1> QED
  BY <1>1, Invariance, PTL

(* setup_vm_final gives text, read-only data and the rest their rights, at *)
(* their physical addresses, and maps nothing else.                        *)
THEOREM RightsAreRight == Spec => []Rights
<1>1. IInv => Rights
  BY RightsHold
<1> QED
  BY <1>1, Invariance, PTL

(* Its loops do what create_mapping would.                                 *)
THEOREM LoopsMapTheSame == Spec => []Tables
<1>1. IInv => Tables
  BY SameTables
<1> QED
  BY <1>1, Invariance, PTL

(* What buddy_init and setup_vm_final leave to the allocator belongs to    *)
(* nobody and can be used.                                                 *)
THEOREM FreePagesAreFree == Spec => []FreeIsFree
<1>1. IInv => FreeIsFree
  BY FreePages
<1> QED
  BY <1>1, Invariance, PTL

=============================================================================
