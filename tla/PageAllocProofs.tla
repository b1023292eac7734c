-------------------------- MODULE PageAllocProofs --------------------------
(***************************************************************************)
(* What follows from the promise of the page allocator, for every number   *)
(* of pages, every reserved prefix and every set of block sizes.           *)
(***************************************************************************)
EXTENDS PageAlloc, TLAPS

(* reserved only counts up from 0, so that the reserved pages only grow    *)
(* while boot runs, before any block is granted.                           *)
BootFirst == reserved \in Nat /\ (owned # {} => reserved = RESERVED)

AbsInv == NoOverlap /\ BlocksAligned /\ BootFirst

(* A block that fits is apart from everything in use.                      *)
LEMMA FittingIsApart ==
  ASSUME NEW p, NEW n, Fits(p, n)
  PROVE  /\ PagesOf(Block(p, n)) \cap 0 .. reserved - 1 = {}
         /\ \A b \in owned : PagesOf(Block(p, n)) \cap PagesOf(b) = {}
BY DEF Fits, Used

LEMMA GrantInv ==
  ASSUME AbsInv, NEW p, NEW n, Grant(p, n)
  PROVE  AbsInv'
<1>1. /\ reserved' = reserved
      /\ reserved = RESERVED
      /\ owned' = owned \cup {Block(p, n)}
      /\ Fits(p, n)
  BY DEF Grant, FirstFit
<1>2. ASSUME NEW b \in owned', NEW c \in owned', b # c
      PROVE  PagesOf(b) \cap PagesOf(c) = {}
  BY <1>1, <1>2, FittingIsApart DEF AbsInv, NoOverlap
<1>3. ASSUME NEW b \in owned' PROVE PagesOf(b) \cap 0 .. reserved' - 1 = {}
  BY <1>1, FittingIsApart DEF AbsInv, NoOverlap
<1>4. BlocksAligned'
  BY <1>1 DEF AbsInv, BlocksAligned, Fits, Block
<1>5. BootFirst'
  BY <1>1 DEF AbsInv, BootFirst
<1> QED
  BY <1>2, <1>3, <1>4, <1>5 DEF AbsInv, NoOverlap, PagesOf

LEMMA AbsNextInv == AbsInv /\ [AbsNext]_absvars => AbsInv'
<1> SUFFICES ASSUME AbsInv, [AbsNext]_absvars PROVE AbsInv'
  OBVIOUS
<1>1. CASE Reserve
  <2>1. owned = {}
    BY <1>1 DEF Reserve, AbsInv, BootFirst
  <2> QED
    BY <1>1, <2>1 DEF Reserve, AbsInv, BootFirst, NoOverlap, BlocksAligned
<1>2. CASE \E n \in Orders : Refuse(n)
  BY <1>2 DEF Refuse, AbsInv, NoOverlap, BlocksAligned, BootFirst, PagesOf
<1>3. CASE \E n \in Orders : \E p \in 0 .. NPAGES - 1 : Grant(p, n)
  BY <1>3, GrantInv
<1>4. CASE \E b \in owned : Release(b)
  BY <1>4 DEF Release, AbsInv, NoOverlap, BlocksAligned, BootFirst, PagesOf
<1>5. CASE UNCHANGED absvars
  BY <1>5 DEF absvars, AbsInv, NoOverlap, BlocksAligned, BootFirst, PagesOf
<1> QED
  BY <1>1, <1>2, <1>3, <1>4, <1>5 DEF AbsNext

LEMMA AbsInvariance == AbsSpec => []AbsInv
<1>1. AbsInit => AbsInv
  BY DEF AbsInit, AbsInv, NoOverlap, BlocksAligned, BootFirst
<1> QED
  BY <1>1, AbsNextInv, PTL DEF AbsSpec

(* Pages are never handed out twice, nor those boot reserved (alloc_pages, *)
(* free_pages, buddy_init).                                                *)
THEOREM PagesAreExclusive == AbsSpec => []NoOverlap
<1>1. AbsInv => NoOverlap
  BY DEF AbsInv
<1> QED
  BY <1>1, AbsInvariance, PTL

(* Blocks lie in memory, at multiples of their size (buddy_alloc).         *)
THEOREM BlocksAreAligned == AbsSpec => []BlocksAligned
<1>1. AbsInv => BlocksAligned
  BY DEF AbsInv
<1> QED
  BY <1>1, AbsInvariance, PTL

=============================================================================
