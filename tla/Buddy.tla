------------------------------- MODULE Buddy -------------------------------
(***************************************************************************)
(* The buddy allocator of mm.c.  bitmap is a complete binary tree in an    *)
(* array: node i has children 2i+1 and 2i+2, node 0 spans all SIZE pages   *)
(* and the last SIZE nodes are the single pages.  bitmap[i] is the size of *)
(* the largest free block below i; handing out a node clears it and leaves *)
(* its descendants as they were.                                           *)
(*                                                                         *)
(* owned is not state of the code: it is what the callers hold, and stands *)
(* for their side of the contract (they free what they were given, once).  *)
(* The while loops that walk a path of the tree are the recursive          *)
(* functions below.                                                        *)
(***************************************************************************)
EXTENDS Integers

CONSTANTS
  DEPTH,        (* SIZE = 2^DEPTH pages, PHY_SIZE / PGSIZE in the code;    *)
                (* the bitmap's 2 * SIZE words are counted in a uint64_t   *)
  RESERVED,     (* pages below free_page_start                             *)
  PHY_START,    (* first physical page number of RAM                       *)
  VM_START,     (* first virtual page number of the kernel's mapping       *)
  ADDR_PAGES    (* pages in an address word, 2^52 in the code: arithmetic  *)
                (* on addresses wraps here                                 *)

Pow2[k \in 0 .. DEPTH + 2] == IF k = 0 THEN 1 ELSE 2 * Pow2[k - 1]

SIZE  == Pow2[DEPTH]

ASSUME DepthAssumption == DEPTH \in 0 .. 62 /\ RESERVED \in 1 .. SIZE
ASSUME AddrAssumption ==
  /\ PHY_START \in Nat /\ VM_START \in Nat /\ ADDR_PAGES \in Nat
  /\ PHY_START > 0 /\ PHY_START + SIZE <= VM_START
  /\ VM_START + SIZE <= ADDR_PAGES

Nodes == 0 .. 2 * SIZE - 2
Leaf(pfn) == pfn + SIZE - 1

VARIABLES
  bitmap,     (* buddy.bitmap                                              *)
  reserved,   (* pfn of the loop in buddy_init                             *)
  owned,      (* blocks [pfn, n] the callers hold                          *)
  got         (* page number the last buddy_alloc returned                 *)

vars == <<bitmap, reserved, owned, got>>

-----------------------------------------------------------------------------
(* The tree.                                                               *)

LEFT_LEAF(i)  == 2 * i + 1
RIGHT_LEAF(i) == 2 * i + 2
PARENT(i)     == (i + 1) \div 2 - 1
MAX(a, b)     == IF a > b THEN a ELSE b

(* node_size of node i, as the loop of buddy_init computes it.             *)
NodeSize[i \in Nodes] == IF i = 0 THEN SIZE ELSE NodeSize[PARENT(i)] \div 2

(* The nodes a walk from i to the root passes, i excluded.                 *)
Above[i \in Nodes] == IF i = 0 THEN {} ELSE {PARENT(i)} \cup Above[PARENT(i)]

(* A uint64_t as the set of its bits; the sizes asked for are at most      *)
(* SIZE + 1 and have no bits above these.                                  *)
BitPositions == 0 .. DEPTH + 1
Bits(x) == {k \in BitPositions : (x \div Pow2[k]) % 2 = 1}
Value(bits) ==
  LET sum[k \in 0 .. DEPTH + 2] ==
        IF k = 0 THEN 0
        ELSE sum[k - 1] + IF k - 1 \in bits THEN Pow2[k - 1] ELSE 0
  IN  sum[DEPTH + 2]

(* size |= size >> k                                                       *)
OrShifted(bits, k) == bits \cup {b \in BitPositions : b + k \in bits}

(* Every bit below the highest becomes 1.                                  *)
Smeared(bits) ==
  OrShifted(OrShifted(OrShifted(OrShifted(OrShifted(OrShifted(
    bits, 1), 2), 4), 8), 16), 32)

fixsize(size) == Value(Smeared(Bits(size - 1))) + 1

IS_POWER_OF_2(x) == Bits(x) \cap Bits(x - 1) = {}

(* The block size that serves a request.                                   *)
RoundedUp(nrpages) ==
  IF nrpages <= 0 THEN 1
  ELSE IF IS_POWER_OF_2(nrpages) THEN nrpages ELSE fixsize(nrpages)

-----------------------------------------------------------------------------
(* buddy_alloc and buddy_free.                                             *)

(* The nodes large enough for n pages: a walk for n meets no other.        *)
NodesFrom(n) == {i \in Nodes : NodeSize[i] >= n}

(* Mutant: a left child that fits exactly is passed over.                  *)
DescendStrict(bm, n) ==
  LET walk[i \in NodesFrom(n)] ==
        IF NodeSize[i] = n THEN i
        ELSE IF bm[LEFT_LEAF(i)] > n THEN walk[LEFT_LEAF(i)]
        ELSE walk[RIGHT_LEAF(i)]
  IN  walk[0]

(* The walk down to a node of size n.                                      *)
Descend(bm, n) ==
  LET walk[i \in NodesFrom(n)] ==
        IF NodeSize[i] = n THEN i
        ELSE IF bm[LEFT_LEAF(i)] >= n THEN walk[LEFT_LEAF(i)]
        ELSE walk[RIGHT_LEAF(i)]
  IN  walk[0]

(* Node i handed out, and its ancestors recomputed bottom-up.              *)
Taken(bm, i) ==
  LET new[j \in Nodes] ==
        IF j = i THEN 0
        ELSE IF j \in Above[i] THEN MAX(new[LEFT_LEAF(j)], new[RIGHT_LEAF(j)])
        ELSE bm[j]
  IN  new

(* buddy_alloc(n): the tree it leaves and the page number it returns.      *)
BuddyAlloc(bm, n) ==
  IF bm[0] < n
  THEN [bitmap |-> bm, pfn |-> 0]
  ELSE LET i == Descend(bm, n)
       IN  [bitmap |-> Taken(bm, i), pfn |-> (i + 1) * NodeSize[i] - SIZE]

(* The walk of buddy_free from the page's leaf up to the node handed out:  *)
(* the first one that is 0, or the root.                                   *)
Holder(bm, pfn) ==
  LET walk[i \in Nodes] == IF bm[i] = 0 \/ i = 0 THEN i ELSE walk[PARENT(i)]
  IN  walk[Leaf(pfn)]

(* Mutant: node_size starts at 2.                                          *)
HolderSizeDouble(bm, i) == 2 * NodeSize[i]

(* node_size at the end of that walk; it is doubled once more when the     *)
(* walk meets a root that is not 0.                                        *)
HolderSize(bm, i) == IF bm[i] = 0 THEN NodeSize[i] ELSE 2 * NodeSize[i]

(* Mutant: two free halves stay two halves.                                *)
NeverMerged(size, l, r) == MAX(l, r)

(* Two free halves make a free whole.                                      *)
Merged(size, l, r) == IF l + r = size THEN size ELSE MAX(l, r)

BuddyFree(bm, pfn) ==
  LET i == Holder(bm, pfn)
      new[j \in Nodes] ==
        IF j = i THEN HolderSize(bm, i)
        ELSE IF j \in Above[i]
             THEN Merged(NodeSize[j], new[LEFT_LEAF(j)], new[RIGHT_LEAF(j)])
             ELSE bm[j]
  IN  new

-----------------------------------------------------------------------------
(* Addresses, in pages.                                                    *)

PA2VA_OFFSET == VM_START - PHY_START
PFN2PHYS(p)  == p + PHY_START
PHYS2PFN(a)  == (a - PHY_START) % ADDR_PAGES
PA2VA(a)     == (a + PA2VA_OFFSET) % ADDR_PAGES
VA2PA(a)     == (a - PA2VA_OFFSET) % ADDR_PAGES

(* alloc_pages, alloc_page and kalloc turn pfn 0 into address 0.           *)
AllocAddr(pfn) == IF pfn = 0 THEN 0 ELSE PA2VA(PFN2PHYS(pfn))

-----------------------------------------------------------------------------
(* The specification.                                                      *)

Init ==
  /\ bitmap   = NodeSize
  /\ reserved = 0
  /\ owned    = {}
  /\ got      = 0

(* One turn of the second loop of buddy_init.                              *)
ReservePage ==
  /\ reserved < RESERVED
  /\ LET r == BuddyAlloc(bitmap, 1)
     IN  bitmap' = r.bitmap /\ got' = r.pfn
  /\ reserved' = reserved + 1
  /\ UNCHANGED owned

(* A caller asks for nrpages pages and keeps what it is given.  Requests   *)
(* beyond the whole memory are cut at SIZE + 1: one refused size is like   *)
(* another.                                                                *)
Alloc(nrpages) ==
  /\ reserved = RESERVED
  /\ LET n == RoundedUp(nrpages)
         r == BuddyAlloc(bitmap, n)
     IN  /\ bitmap' = r.bitmap
         /\ got'    = r.pfn
         /\ owned'  = IF r.pfn = 0 THEN owned
                      ELSE owned \cup {[pfn |-> r.pfn, n |-> n]}
  /\ UNCHANGED reserved

(* A caller gives back a block by the address it got: free_pages, kfree.   *)
Free(b) ==
  /\ bitmap' = BuddyFree(bitmap, PHYS2PFN(VA2PA(AllocAddr(b.pfn))))
  /\ owned'  = owned \ {b}
  /\ UNCHANGED <<reserved, got>>

Next ==
  \/ ReservePage
  \/ \E nrpages \in 0 .. SIZE + 1 : Alloc(nrpages)
  \/ \E b \in owned : Free(b)

Spec == Init /\ [][Next]_vars

-----------------------------------------------------------------------------
(* Properties.                                                             *)

Orders == {Pow2[k] : k \in 0 .. DEPTH + 1}

Abstract == INSTANCE PageAlloc WITH NPAGES <- SIZE

Span(i) == (i + 1) * NodeSize[i] - SIZE .. (i + 2) * NodeSize[i] - SIZE - 1

(* Every variable keeps its type, and no node claims more than it spans.   *)
TypeOK ==
  /\ DOMAIN bitmap = Nodes
  /\ \A i \in Nodes : bitmap[i] \in 0 .. NodeSize[i]
  /\ reserved \in 0 .. RESERVED
  /\ owned \subseteq [pfn : 1 .. SIZE - 1, n : Orders]
  /\ got \in 0 .. SIZE - 1

(* Outside blocks that are handed out, every node knows exactly the size   *)
(* of the largest aligned free block below it: nothing is lost to merges   *)
(* that were missed or to stale ancestors, whatever the history of calls.  *)
BitmapExact ==
  \A i \in Nodes :
    \/ \E b \in owned : Span(i) \subseteq Abstract!PagesOf(b) /\ NodeSize[i] < b.n
    \/ LET free == {n \in Orders : \E p \in Span(i) : Abstract!Fits(p, n)
                                     /\ p .. p + n - 1 \subseteq Span(i)}
       IN  IF free = {} THEN bitmap[i] = 0
           ELSE bitmap[i] \in free /\ \A n \in free : n <= bitmap[i]

(* The tree implements the promise of PageAlloc: first fit, refusing only  *)
(* when nothing fits.  No page is then handed out twice, nor one that boot *)
(* reserved (PageAllocProofs: PagesAreExclusive).                          *)
ImplementsPageAlloc == Abstract!AbsSpec

=============================================================================
