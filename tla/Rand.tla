-------------------------------- MODULE Rand --------------------------------
(***************************************************************************)
(* rand(): an additive generator over a table of ints, in C's arithmetic.  *)
(* The table is unrolled as far as it is long and then rewritten in place. *)
(***************************************************************************)
EXTENDS Integers

CONSTANTS
  SIZE,      (* entries of r                                               *)
  WARMUP,    (* the entries that are filled before the first number        *)
  ROUND      (* t runs below this                                          *)

ASSUME RandAssumption ==
  /\ WARMUP \in Nat /\ WARMUP >= 34 /\ ROUND \in Nat \ {0} /\ SIZE \in Nat \ {0}
  /\ WARMUP + ROUND <= SIZE

VARIABLES
  r,         (* the entries written so far; reading another is an error    *)
  t,
  filled,    (* entries the first call has filled; initialize once it has all *)
  drawn      (* the last result                                            *)

rvars == <<r, t, filled, drawn>>

SEED == 5

(* (16807 * x) % 2147483647, from parts that fit an int; never negative.   *)
Lehmer(x) ==
  LET y == 16807 * (x % 127773) - 2836 * (x \div 127773)
  IN  IF y < 0 THEN y + 2147483647 ELSE y

INT_MIN == -2147483647 - 1

(* The sum of two ints modulo 2^32.                                        *)
Add32(a, b) ==
  IF a >= 0 /\ b >= 0 /\ a > 2147483647 - b THEN (a + INT_MIN) + (b + INT_MIN)
  ELSE IF a < 0 /\ b < 0 /\ a < INT_MIN - b THEN (a - INT_MIN) + (b - INT_MIN)
  ELSE a + b

(* Mutant: the remainder of the int, whose sign is the int's.              *)
ModTenSigned(x) == IF x < 0 THEN -((-(x + 10)) % 10) ELSE x % 10

(* (uint64) x % 10: a negative x stands for 2^64 + x, and 2^64 % 10 = 6.   *)
ModTen(x) == IF x < 0 THEN (6 + (x % 10)) % 10 ELSE x % 10

RandInit == r = <<>> /\ t = 0 /\ filled = 0 /\ drawn = 0

(* r[i] = n.                                                               *)
Set(i, n) == r' = [j \in DOMAIN r \cup {i} |-> IF j = i THEN n ELSE r[j]]

(* A turn of the loops of the first call.                                  *)
Fill ==
  /\ filled < WARMUP
  /\ Set(filled, IF filled = 0 THEN SEED
                 ELSE IF filled < 31 THEN Lehmer(r[filled - 1])
                 ELSE IF filled < 34 THEN r[filled - 31]
                 ELSE Add32(r[filled - 31], r[filled - 3]))
  /\ filled' = filled + 1
  /\ UNCHANGED <<t, drawn>>

(* Mutant: t is not wrapped.                                               *)
WrappedNot == t

(* t = t % 656.                                                            *)
Wrapped == t % ROUND

Draw(i) == Add32(r[i + WARMUP - 31], r[i + WARMUP - 3])

rand ==
  /\ filled = WARMUP
  /\ Set(Wrapped + WARMUP, Draw(Wrapped))
  /\ t' = Wrapped + 1
  /\ drawn' = ModTen(r'[Wrapped + WARMUP]) + 1
  /\ UNCHANGED filled

RandNext == Fill \/ rand

RandSpec == RandInit /\ [][RandNext]_rvars

-----------------------------------------------------------------------------
(* rand's result is one of 1..10, for a negative entry as well: so are the *)
(* priorities and the times, which are its remainder by 10 plus 1.         *)
ResultInRange == drawn \in 0 .. 10 /\ (t > 0 => drawn > 0)

(* What is drawn stays in the array, and from the second round on nothing  *)
(* changes: what is drawn again reads what the first round read, so rand   *)
(* repeats itself every ROUND calls.                                       *)
Repeats == [][\A i \in DOMAIN r : i < SIZE /\ r'[i] = r[i]]_rvars
=============================================================================
