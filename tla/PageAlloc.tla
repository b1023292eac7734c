----------------------------- MODULE PageAlloc -----------------------------
(***************************************************************************)
(* What the page allocator of mm.c promises its callers, without the tree: *)
(* blocks of 2^k contiguous, naturally aligned pages, never overlapping    *)
(* and never touching the pages boot reserved; a request is refused only   *)
(* when no such block is free, and gets the lowest one when there is.      *)
(***************************************************************************)
EXTENDS Integers

CONSTANTS
  NPAGES,     (* pages managed                                             *)
  RESERVED,   (* pages below free_page_start, taken at boot                *)
  Orders      (* the block sizes                                           *)

VARIABLES
  reserved,   (* pages boot has reserved so far                            *)
  owned,      (* blocks handed out and not freed                           *)
  got         (* page number the last call returned, 0 when refused        *)

absvars == <<reserved, owned, got>>

Block(p, n)   == [pfn |-> p, n |-> n]
PagesOf(b)    == b.pfn .. b.pfn + b.n - 1
Used          == 0 .. reserved - 1 \cup UNION {PagesOf(b) : b \in owned}
Fits(p, n)    == /\ p % n = 0
                 /\ p + n <= NPAGES
                 /\ PagesOf(Block(p, n)) \cap Used = {}
FirstFit(p, n) == Fits(p, n) /\ \A q \in 0 .. p - 1 : ~Fits(q, n)

AbsInit == reserved = 0 /\ owned = {} /\ got = 0

(* Boot takes the pages in order.                                          *)
Reserve ==
  /\ reserved < RESERVED
  /\ FirstFit(reserved, 1)
  /\ reserved' = reserved + 1
  /\ got' = reserved
  /\ UNCHANGED owned

Grant(p, n) ==
  /\ reserved = RESERVED
  /\ FirstFit(p, n)
  /\ owned' = owned \cup {Block(p, n)}
  /\ got' = p
  /\ UNCHANGED reserved

Refuse(n) ==
  /\ reserved = RESERVED
  /\ \A p \in 0 .. NPAGES - 1 : ~Fits(p, n)
  /\ got' = 0
  /\ UNCHANGED <<reserved, owned>>

Release(b) ==
  /\ owned' = owned \ {b}
  /\ UNCHANGED <<reserved, got>>

AbsNext ==
  \/ Reserve
  \/ \E n \in Orders : Refuse(n) \/ \E p \in 0 .. NPAGES - 1 : Grant(p, n)
  \/ \E b \in owned : Release(b)

AbsSpec == AbsInit /\ [][AbsNext]_absvars

-----------------------------------------------------------------------------
(* What the promise entails.                                               *)

(* No page belongs to two blocks, and none to a block and to the kernel    *)
(* image, the firmware or the allocator's own bitmap (alloc_pages, mm.c).  *)
NoOverlap ==
  /\ \A b, c \in owned : b # c => PagesOf(b) \cap PagesOf(c) = {}
  /\ \A b \in owned : PagesOf(b) \cap 0 .. reserved - 1 = {}

(* Every block lies in memory, at a multiple of its own size: a caller may *)
(* map it page by page and find all of it by its first page (buddy_alloc). *)
BlocksAligned == \A b \in owned : b.pfn % b.n = 0 /\ b.pfn + b.n <= NPAGES

=============================================================================
