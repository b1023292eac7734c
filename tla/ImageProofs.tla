---------------------------- MODULE ImageProofs ----------------------------
(***************************************************************************)
(* Proofs about Image for every page size, every size of the user's        *)
(* addresses, and every file a linker makes.                               *)
(*                                                                         *)
(* The invariant says where an area and a page come from: an area is the   *)
(* stack's or that of a header, in the order of the headers (Areas), and a *)
(* page that is mapped has all the rights its area gives, so that no fault *)
(* is ever taken on it again (Mappings).  The exception is the stack after *)
(* a jump to it: the program is then stuck at that instruction, and its    *)
(* stack is zeros.                                                         *)
(***************************************************************************)
EXTENDS Image, TLAPS, FiniteSetTheorems, WellFoundedInduction

-----------------------------------------------------------------------------
(* The invariant.                                                          *)

(* The j-th program header, as its entry size gives its place.             *)
HeaderAt(j) == image.at[image.e_phoff + image.e_phentsize * j]
IsLoad(j)   == HeaderAt(j).p_type = "PT_LOAD"

(* do_mmap's area for header h, as load_elf_program calls it.              *)
AreaOf(h) == Area(h.p_vaddr, h.p_memsz, Rights, h.p_offset, h.p_filesz)

StackPage == USER_END \div PGSIZE - 1

(* The areas are the stack's and those of the headers the loop is past.    *)
Areas ==
  /\ image \in Images
  /\ vmas[1] = StackArea
  /\ \A n \in DOMAIN vmas : n # 1 => \E h \in Loads(image) : vmas[n] = AreaOf(h)
  /\ \A j \in 0 .. i - 1 : IsLoad(j) => \E n \in DOMAIN vmas : vmas[n] = AreaOf(HeaderAt(j))
  /\ mode # "loading" => i = image.e_phnum

(* What a page is mapped with.                                             *)
PermOf(n) == IF n = StackPage THEN {"R", "W", "U"} ELSE {"R", "W", "X", "U"}

(* The stack as alloc_annoymous_vm maps it.                                *)
FreshStack == [byte |-> Zeroed, perm |-> PtePerm(StackArea)]

Mappings ==
  /\ \A n \in PageNumbers : mapped[n].perm # {} => mapped[n].perm = PermOf(n)
  /\ FaultIsServed
  /\ JumpToStack(retry) => mode \in {"user", "halted"} /\ mapped[StackPage] = FreshStack
  /\ \A a \in stored :
       /\ mapped[Page(a)].perm # {}
       /\ ByteAt(a) = Written \/ (JumpToStack(retry) /\ Page(a) = StackPage)

IInv == TypeOK /\ Areas /\ Mappings /\ FilePartLoaded

-----------------------------------------------------------------------------
(* Pages and offsets.                                                      *)

LEMMA Times ==
  ASSUME NEW x \in Int, NEW y \in Int, x < y, NEW k \in Nat
  PROVE  x * k + k <= y * k
<1>1. x * k + k = (x + 1) * k
  OBVIOUS
<1>2. ASSUME NEW z \in Int, z <= y PROVE z * k <= y * k
  <2>1. (y - z) * k >= 0
    BY <1>2
  <2>2. (y - z) * k = y * k - z * k
    BY <1>2
  <2> QED
    BY <2>1, <2>2, <1>2
<1>3. (x + 1) * k <= y * k
  BY <1>2
<1> QED
  BY <1>1, <1>3

LEMMA DivMod ==
  ASSUME NEW a \in Int
  PROVE  /\ a \div PGSIZE \in Int /\ (a % PGSIZE) \in 0 .. PGSIZE - 1
         /\ a = (a \div PGSIZE) * PGSIZE + (a % PGSIZE)
BY SizesAssumption

(* An address lies in one page, at one place.                              *)
LEMMA DivUnique ==
  ASSUME NEW q \in Int, NEW a \in Int, q * PGSIZE <= a, a < q * PGSIZE + PGSIZE
  PROVE  a \div PGSIZE = q /\ a % PGSIZE = a - q * PGSIZE
<1> DEFINE d == a \div PGSIZE
           m == a % PGSIZE
<1>1. d \in Int /\ m \in 0 .. PGSIZE - 1 /\ a = d * PGSIZE + m
  BY DivMod
<1>2. PGSIZE \in Nat /\ PGSIZE > 0
  BY SizesAssumption
<1> HIDE DEF d, m
<1>3. ~ (d < q)
  BY <1>1, <1>2, Times
<1>4. ~ (q < d)
  BY <1>1, <1>2, Times
<1>5. d = q
  BY <1>1, <1>3, <1>4
<1>6. a = q * PGSIZE + m
  BY <1>1, <1>5
<1>7. m = a - q * PGSIZE
  <2> DEFINE x == q * PGSIZE
  <2>1. x \in Int
    BY <1>2
  <2> HIDE DEF x
  <2> QED
    BY <1>1, <1>6, <2>1 DEF x
<1> QED
  BY <1>5, <1>7 DEF d, m

LEMMA PageFacts ==
  ASSUME NEW a \in Nat
  PROVE  /\ Page(a) \in Nat /\ PGROUNDDOWN(a) = Page(a) * PGSIZE
         /\ PGROUNDDOWN(a) \in Nat
         /\ (a % PGSIZE) \in 0 .. PGSIZE - 1 /\ a = PGROUNDDOWN(a) + (a % PGSIZE)
<1>1. PGSIZE \in Nat /\ PGSIZE > 0
  BY SizesAssumption
<1>2. /\ a \div PGSIZE \in Int /\ (a % PGSIZE) \in 0 .. PGSIZE - 1
      /\ a = (a \div PGSIZE) * PGSIZE + (a % PGSIZE)
  BY DivMod
<1> DEFINE d == a \div PGSIZE
<1>3. Page(a) = d /\ PGROUNDDOWN(a) = d * PGSIZE
  BY DEF Page, PGROUNDDOWN
<1>4. d >= 0
  <2>1. d < 0 => d * PGSIZE + PGSIZE <= 0 * PGSIZE
    BY <1>1, <1>2, Times
  <2> QED
    BY <1>1, <1>2, <2>1
<1>5. d * PGSIZE \in Nat
  BY <1>1, <1>2, <1>4
<1> QED
  BY <1>1, <1>2, <1>3, <1>4, <1>5

(* Larger addresses have larger pages.                                     *)
LEMMA PageGrows ==
  ASSUME NEW a \in Nat, NEW b \in Nat, a <= b
  PROVE  Page(a) <= Page(b)
<1>1. PGSIZE \in Nat /\ PGSIZE > 0
  BY SizesAssumption
<1>2. /\ Page(a) \in Nat /\ Page(b) \in Nat
      /\ a = Page(a) * PGSIZE + (a % PGSIZE) /\ (a % PGSIZE) \in 0 .. PGSIZE - 1
      /\ b = Page(b) * PGSIZE + (b % PGSIZE) /\ (b % PGSIZE) \in 0 .. PGSIZE - 1
  BY PageFacts
<1>3. Page(b) < Page(a) => Page(b) * PGSIZE + PGSIZE <= Page(a) * PGSIZE
  <2>1. Page(a) \in Int /\ Page(b) \in Int /\ PGSIZE \in Nat
    BY <1>1, <1>2
  <2> QED
    BY <2>1, Times
<1> DEFINE x == Page(a) * PGSIZE
           y == Page(b) * PGSIZE
<1>4. x \in Nat /\ y \in Nat
  BY <1>1, <1>2
<1> HIDE DEF x, y
<1>5. Page(b) < Page(a) => y + PGSIZE <= x
  BY <1>3 DEF x, y
<1>6. a = x + (a % PGSIZE) /\ b = y + (b % PGSIZE)
  BY <1>2 DEF x, y
<1> QED
  BY <1>1, <1>2, <1>4, <1>5, <1>6

(* A mem_section of one page.                                              *)
LEMMA OnePage ==
  ASSUME NEW q \in Nat
  PROVE  Section(q * PGSIZE, q * PGSIZE + PGSIZE) = {q}
<1> DEFINE x == q * PGSIZE
<1>1. PGSIZE \in Nat /\ PGSIZE > 0 /\ x \in Nat
  BY SizesAssumption
<1>2. x \div PGSIZE = q
  BY <1>1, DivUnique
<1>3. (x + PGSIZE + PGSIZE - 1) \div PGSIZE = q + 1
  <2>1. (q + 1) * PGSIZE = x + PGSIZE
    BY <1>1
  <2> QED
    BY <1>1, <2>1, DivUnique
<1>4. PGROUNDUP(x + PGSIZE) = (q + 1) * PGSIZE
  BY <1>3 DEF PGROUNDUP, PGROUNDDOWN
<1>5. ((q + 1) * PGSIZE) \div PGSIZE = q + 1
  <2>1. (q + 1) * PGSIZE \in Int
    BY <1>1
  <2> QED
    BY <1>1, <2>1, DivUnique
<1>6. Section(x, x + PGSIZE) = q .. (q + 1) - 1
  BY <1>2, <1>4, <1>5 DEF Section, Page
<1> QED
  BY <1>6

LEMMA StackFacts ==
  /\ StackPage \in Nat /\ USER_END = StackPage * PGSIZE + PGSIZE
  /\ USER_END - PGSIZE \in Nat /\ USER_END - PGSIZE = StackPage * PGSIZE
  /\ PageNumbers = 0 .. StackPage
  /\ PGSIZE \in Nat /\ PGSIZE > 0 /\ USER_END \in Nat
<1>1. /\ PGSIZE \in Nat /\ PGSIZE > 0 /\ USER_END \in Nat /\ USER_END > PGSIZE
      /\ USER_END % PGSIZE = 0
  BY SizesAssumption
<1> DEFINE d == USER_END \div PGSIZE
<1>2. d \in Int /\ USER_END = d * PGSIZE
  <2>1. USER_END = d * PGSIZE + (USER_END % PGSIZE) /\ d \in Int
    BY <1>1, DivMod
  <2> QED
    BY <1>1, <2>1
<1>3. StackPage = d - 1 /\ PageNumbers = 0 .. d - 1
  BY DEF StackPage, PageNumbers
<1> HIDE DEF d
<1>4. d >= 1
  <2>1. d < 1 => d * PGSIZE + PGSIZE <= 1 * PGSIZE
    BY <1>1, <1>2, Times
  <2> QED
    BY <1>1, <1>2, <2>1
<1>5. (d - 1) * PGSIZE + PGSIZE = d * PGSIZE
  BY <1>1, <1>2
<1>6. StackPage \in Nat /\ USER_END = StackPage * PGSIZE + PGSIZE
  BY <1>2, <1>3, <1>4, <1>5
<1>7. StackPage * PGSIZE \in Nat
  BY <1>1, <1>6
<1> QED
  BY <1>1, <1>3, <1>6, <1>7

LEMMA AddressFacts ==
  ASSUME NEW a \in Addresses
  PROVE  /\ a \in Nat /\ Page(a) \in PageNumbers /\ Page(a) \in Nat
         /\ (a % PGSIZE) \in 0 .. PGSIZE - 1
         /\ Page(a) = StackPage <=> a >= USER_END - PGSIZE
<1>1. a \in Nat /\ a < USER_END
  BY StackFacts DEF Addresses
<1>2. Page(a) \in Nat /\ (a % PGSIZE) \in 0 .. PGSIZE - 1
  BY <1>1, PageFacts
<1> DEFINE s == StackPage * PGSIZE
<1>3. s \in Nat /\ USER_END = s + PGSIZE /\ StackPage \in Nat /\ PGSIZE \in Nat /\ PGSIZE > 0
  BY StackFacts
<1>4. a >= s => Page(a) = StackPage
  <2>1. ASSUME a >= s PROVE a \div PGSIZE = StackPage
    BY <1>1, <1>3, <2>1, DivUnique
  <2> QED
    BY <2>1 DEF Page
<1>5. Page(s) = StackPage
  <2>1. s \div PGSIZE = StackPage
    BY <1>3, DivUnique
  <2> QED
    BY <2>1 DEF Page
<1>6. a < s => Page(a) <= StackPage
  BY <1>1, <1>3, <1>5, PageGrows
<1>7. Page(a) = StackPage => a >= s
  <2>1. a = Page(a) * PGSIZE + (a % PGSIZE)
    BY <1>1, PageFacts
  <2> QED
    BY <1>2, <1>3, <2>1
<1>8. Page(a) \in PageNumbers
  BY <1>1, <1>2, <1>3, <1>4, <1>6, StackFacts
<1> HIDE DEF s
<1>9. a >= USER_END - PGSIZE <=> a >= s
  BY <1>1, <1>3
<1> QED
  BY <1>1, <1>2, <1>4, <1>7, <1>8, <1>9

(* A byte of a page is the byte of one address.                            *)
LEMMA ByteFacts ==
  ASSUME NEW n \in PageNumbers, NEW o \in 0 .. PGSIZE - 1
  PROVE  /\ n * PGSIZE + o \in Addresses
         /\ Page(n * PGSIZE + o) = n /\ (n * PGSIZE + o) % PGSIZE = o
<1>1. n \in Nat /\ n <= StackPage /\ PGSIZE \in Nat /\ PGSIZE > 0 /\ StackPage \in Nat
  BY StackFacts
<1>2. n * PGSIZE \in Nat /\ StackPage * PGSIZE \in Nat
  BY <1>1
<1>3. n * PGSIZE <= StackPage * PGSIZE
  <2>1. n < StackPage => n * PGSIZE + PGSIZE <= StackPage * PGSIZE
    BY <1>1, Times
  <2> QED
    BY <1>1, <1>2, <2>1
<1> DEFINE x == n * PGSIZE
           y == StackPage * PGSIZE
<1>4. x \in Nat /\ y \in Nat /\ x <= y /\ USER_END = y + PGSIZE
  BY <1>2, <1>3, StackFacts
<1>5. (x + o) \div PGSIZE = n /\ (x + o) % PGSIZE = x + o - x
  BY <1>1, <1>2, DivUnique
<1> HIDE DEF x, y
<1>6. x + o \in Addresses /\ x + o - x = o
  BY <1>1, <1>4 DEF Addresses
<1> QED
  BY <1>5, <1>6 DEF Page, x

-----------------------------------------------------------------------------
(* Headers, areas and permissions.                                         *)

LEMMA HeaderFacts ==
  ASSUME Areas, NEW j \in 0 .. image.e_phnum - 1
  PROVE  /\ HeaderAt(j) \in Headers
         /\ image.at[image.e_phoff + sizeof(Elf64_Phdr) * j] = HeaderAt(j)
         /\ IsLoad(j) => HeaderAt(j) \in Loads(image)
<1>1. image \in Images
  BY DEF Areas
<1>2. IsFile(image) /\ image.e_phentsize = sizeof(Elf64_Phdr)
  BY <1>1, ImagesAssumption, HeadersAssumption
<1>3. image.at \in [{image.e_phoff + image.e_phentsize * k : k \in 0 .. image.e_phnum - 1}
                      -> Headers]
  BY <1>2 DEF IsFile
<1> DEFINE o == image.e_phoff + image.e_phentsize * j
<1>4. o \in DOMAIN image.at /\ image.at[o] \in Headers
  BY <1>3
<1>5. HeaderAt(j) = image.at[o]
  BY DEF HeaderAt
<1>6. IsLoad(j) => HeaderAt(j) \in Loads(image)
  BY <1>4, <1>5 DEF IsLoad, Loads
<1> QED
  BY <1>2, <1>4, <1>5, <1>6

LEMMA LoadFacts ==
  ASSUME Areas, NEW h \in Loads(image)
  PROVE  /\ h \in Headers /\ h.p_type = "PT_LOAD"
         /\ h.p_vaddr \in Nat /\ h.p_memsz \in Nat /\ h.p_offset \in Nat /\ h.p_filesz \in Nat
         /\ h.p_filesz <= h.p_memsz /\ h.p_memsz > 0
         /\ h.p_vaddr + h.p_memsz <= USER_END - PGSIZE
         /\ h.p_vaddr % PGSIZE = h.p_offset % PGSIZE
         /\ \E j \in 0 .. image.e_phnum - 1 : IsLoad(j) /\ h = HeaderAt(j)
<1>1. image \in Images
  BY DEF Areas
<1>2. IsFile(image) /\ Linked(image)
  BY <1>1, ImagesAssumption
<1>3. image.at \in [{image.e_phoff + image.e_phentsize * k : k \in 0 .. image.e_phnum - 1}
                      -> Headers]
  BY <1>2 DEF IsFile
<1>4. PICK o \in DOMAIN image.at : h = image.at[o] /\ h.p_type = "PT_LOAD"
  BY DEF Loads
<1>5. PICK j \in 0 .. image.e_phnum - 1 : o = image.e_phoff + image.e_phentsize * j
  BY <1>3, <1>4
<1>6. IsLoad(j) /\ h = HeaderAt(j)
  BY <1>4, <1>5 DEF IsLoad, HeaderAt
<1>7. h \in Headers
  BY <1>3, <1>4
<1>8. /\ h.p_vaddr \in Nat /\ h.p_memsz \in Nat /\ h.p_offset \in Nat /\ h.p_filesz \in Nat
  BY <1>7 DEF Headers
<1>9. /\ h.p_filesz <= h.p_memsz /\ h.p_memsz > 0
      /\ h.p_vaddr + h.p_memsz <= USER_END - PGSIZE
      /\ h.p_vaddr % PGSIZE = h.p_offset % PGSIZE
  BY <1>2 DEF Linked
<1> QED
  BY <1>4, <1>6, <1>7, <1>8, <1>9

(* Segments that share a page of memory share that page of the file.       *)
LEMMA SamePlace ==
  ASSUME Areas, NEW h \in Loads(image), NEW g \in Loads(image),
         PagesOf(h) \cap PagesOf(g) # {}
  PROVE  h.p_vaddr - h.p_offset = g.p_vaddr - g.p_offset
<1>1. Linked(image)
  BY ImagesAssumption DEF Areas
<1>2. CASE g = h
  BY <1>2
<1>3. CASE g # h
  BY <1>1, <1>3 DEF Linked
<1> QED
  BY <1>2, <1>3

(* perm_elf2vm gives all rights whatever the header says.                  *)
LEMMA PermFacts ==
  /\ \A e : perm_elf2vm(e) = Rights
  /\ map_vm_perm(Rights) = Rights
  /\ map_vm_perm({"R", "W", "VM_ANONYM"}) = {"R", "W"}
BY DEF perm_elf2vm, map_vm_perm, Rights

LEMMA AreaFacts ==
  ASSUME NEW h
  PROVE  /\ AreaOf(h).vm_start = h.p_vaddr /\ AreaOf(h).vm_end = h.p_vaddr + h.p_memsz
         /\ AreaOf(h).vm_content_offset_in_file = h.p_offset
         /\ AreaOf(h).vm_flags = Rights /\ "VM_ANONYM" \notin AreaOf(h).vm_flags
         /\ PtePerm(AreaOf(h)) = {"R", "W", "X", "U"}
         /\ StackArea.vm_start = USER_END - PGSIZE
         /\ StackArea.vm_end = USER_END - PGSIZE + PGSIZE
         /\ "VM_ANONYM" \in StackArea.vm_flags
         /\ PtePerm(StackArea) = {"R", "W", "U"}
<1>1. /\ AreaOf(h).vm_start = h.p_vaddr /\ AreaOf(h).vm_end = h.p_vaddr + h.p_memsz
      /\ AreaOf(h).vm_content_offset_in_file = h.p_offset
      /\ AreaOf(h).vm_flags = Rights
  BY DEF AreaOf, Area
<1>2. /\ StackArea.vm_start = USER_END - PGSIZE
      /\ StackArea.vm_end = USER_END - PGSIZE + PGSIZE
      /\ StackArea.vm_flags = {"R", "W", "VM_ANONYM"}
  BY DEF StackArea, Area
<1>3. PtePerm(AreaOf(h)) = {"R", "W", "X", "U"}
  <2>1. PtePerm(AreaOf(h)) = Rights \cup {"U"}
    BY <1>1, PermFacts DEF PtePerm
  <2> QED
    BY <2>1 DEF Rights
<1>4. PtePerm(StackArea) = {"R", "W", "U"}
  <2>1. PtePerm(StackArea) = {"R", "W"} \cup {"U"}
    BY <1>2, PermFacts DEF PtePerm
  <2> QED
    BY <2>1
<1> QED
  BY <1>1, <1>2, <1>3, <1>4 DEF Rights

LEMMA AreaTypes ==
  ASSUME NEW h \in Headers
  PROVE  AreaOf(h) \in vm_area_struct /\ StackArea \in vm_area_struct
<1>1. Rights \in SUBSET VmFlags /\ {"R", "W", "VM_ANONYM"} \in SUBSET VmFlags
  BY DEF Rights, VmFlags
<1>2. h.p_vaddr \in Nat /\ h.p_memsz \in Nat /\ h.p_offset \in Nat /\ h.p_filesz \in Nat
  BY DEF Headers
<1>3. AreaOf(h) \in vm_area_struct
  BY <1>1, <1>2 DEF AreaOf, Area, vm_area_struct
<1>4. USER_END - PGSIZE \in Nat /\ USER_END - PGSIZE + PGSIZE \in Nat
  BY StackFacts
<1>5. StackArea \in vm_area_struct
  BY <1>1, <1>4 DEF StackArea, Area, vm_area_struct
<1> QED
  BY <1>3, <1>5

(* An address of a segment is one of a page below the stack's.             *)
LEMMA SpanFacts ==
  ASSUME Areas, NEW h \in Loads(image), NEW a \in Nat, Spans(h, a)
  PROVE  /\ a \in Addresses /\ a < USER_END - PGSIZE /\ Page(a) \in PagesOf(h)
<1>1. /\ h.p_vaddr \in Nat /\ h.p_memsz \in Nat /\ h.p_memsz > 0
      /\ h.p_vaddr + h.p_memsz <= USER_END - PGSIZE
  BY LoadFacts
<1>2. h.p_vaddr <= a /\ a < h.p_vaddr + h.p_memsz
  BY DEF Spans
<1>3. a \in Addresses /\ a < USER_END - PGSIZE
  BY <1>1, <1>2, StackFacts DEF Addresses
<1> DEFINE z == h.p_vaddr + h.p_memsz - 1
<1>4. z \in Nat /\ a <= z
  BY <1>1, <1>2
<1>5. Page(h.p_vaddr) <= Page(a) /\ Page(a) <= Page(z)
  BY <1>1, <1>2, <1>4, PageGrows
<1>6. Page(h.p_vaddr) \in Nat /\ Page(a) \in Nat /\ Page(z) \in Nat
  BY <1>1, <1>4, PageFacts
<1>7. Page(a) \in PagesOf(h)
  BY <1>5, <1>6 DEF PagesOf
<1> QED
  BY <1>3, <1>7

LEMMA SegmentPages ==
  ASSUME Areas, NEW h \in Loads(image), NEW n \in PagesOf(h)
  PROVE  n \in PageNumbers /\ n # StackPage
<1>1. /\ h.p_vaddr \in Nat /\ h.p_memsz \in Nat /\ h.p_memsz > 0
      /\ h.p_vaddr + h.p_memsz <= USER_END - PGSIZE
  BY LoadFacts
<1> DEFINE z == h.p_vaddr + h.p_memsz - 1
<1>2. z \in Nat /\ Spans(h, z)
  BY <1>1 DEF Spans
<1>3. z \in Addresses /\ z < USER_END - PGSIZE
  BY <1>2, SpanFacts
<1>4. Page(z) \in PageNumbers /\ Page(z) # StackPage
  <2>1. Page(z) \in PageNumbers /\ (Page(z) = StackPage <=> z >= USER_END - PGSIZE)
    BY <1>3, AddressFacts
  <2> QED
    BY <1>2, <1>3, <2>1, StackFacts
<1>5. Page(h.p_vaddr) \in Nat
  BY <1>1, PageFacts
<1>6. n \in Nat /\ n <= Page(z)
  BY <1>4, <1>5, StackFacts DEF PagesOf
<1> QED
  BY <1>4, <1>6, StackFacts

(* What find_vma returns: the stack's area for its addresses, and for      *)
(* another address the area of a segment that spans it.                    *)
LEMMA FoundFacts ==
  ASSUME TypeOK, Areas, NEW a \in Addresses, NEW n \in DOMAIN vmas, FoundVma(n, a)
  PROVE  \/ vmas[n] = StackArea /\ a >= USER_END - PGSIZE
         \/ /\ a < USER_END - PGSIZE
            /\ \E h \in Loads(image) : vmas[n] = AreaOf(h) /\ Spans(h, a)
<1>1. InArea(vmas[n], a) /\ a \in Nat
  BY AddressFacts DEF FoundVma
<1>2. CASE n = 1
  <2>1. vmas[n] = StackArea
    BY <1>2 DEF Areas
  <2> QED
    BY <1>1, <2>1, AreaFacts DEF InArea
<1>3. CASE n # 1
  <2>1. PICK h \in Loads(image) : vmas[n] = AreaOf(h)
    BY <1>3 DEF Areas
  <2>2. Spans(h, a)
    BY <1>1, <2>1, AreaFacts DEF InArea, Spans
  <2>3. a < USER_END - PGSIZE
    BY <1>1, <2>2, SpanFacts
  <2> QED
    BY <2>1, <2>2, <2>3
<1> QED
  BY <1>2, <1>3

(* If an area holds an address find_vma returns one: the first.            *)
LEMMA FirstArea ==
  ASSUME TypeOK, NEW a, NEW m \in DOMAIN vmas, InArea(vmas[m], a)
  PROVE  \E n \in DOMAIN vmas : FoundVma(n, a)
<1> DEFINE T == {n \in DOMAIN vmas : InArea(vmas[n], a)}
<1>1. DOMAIN vmas \subseteq Nat /\ DOMAIN vmas = 1 .. Len(vmas) /\ Len(vmas) \in Nat
  BY DEF TypeOK
<1>2. T \subseteq Nat /\ T # {}
  BY <1>1
<1> HIDE DEF T
<1>3. PICK x \in T : \A y \in T : ~ (<<y, x>> \in OpToRel(<, Nat))
  BY <1>2, WFMin, NatLessThanWellFounded, Zenon
<1>4. \A y \in T : ~ (y < x)
  <2> SUFFICES ASSUME NEW y \in T, y < x PROVE FALSE
    OBVIOUS
  <2>1. x \in Nat /\ y \in Nat
    BY <1>2
  <2>2. <<y, x>> \in OpToRel(<, Nat)
    BY <2>1, Zenon DEF OpToRel
  <2> QED
    BY <1>3, <2>2, Zenon
<1>5. x \in DOMAIN vmas /\ InArea(vmas[x], a)
  BY DEF T
<1>6. \A k \in 1 .. x - 1 : ~ InArea(vmas[k], a)
  <2> SUFFICES ASSUME NEW k \in 1 .. x - 1, InArea(vmas[k], a) PROVE FALSE
    OBVIOUS
  <2>1. k \in DOMAIN vmas /\ k < x
    BY <1>1, <1>5
  <2>2. k \in T
    BY <2>1 DEF T
  <2> QED
    BY <1>4, <2>1, <2>2
<1> QED
  BY <1>5, <1>6 DEF FoundVma

-----------------------------------------------------------------------------
(* What a fault puts into memory.                                          *)

(* The page of the file that belongs to the page of memory.                *)
LEMMA FilePageFacts ==
  ASSUME NEW v \in Nat, NEW o \in Nat, v % PGSIZE = o % PGSIZE, NEW b \in Nat, v <= b
  PROVE  PGROUNDDOWN(o + (b - v)) = PGROUNDDOWN(b) - (v - o)
<1>1. PGSIZE \in Nat /\ PGSIZE > 0
  BY StackFacts
<1>2. /\ Page(v) \in Nat /\ Page(o) \in Nat /\ Page(b) \in Nat
      /\ v = Page(v) * PGSIZE + (v % PGSIZE) /\ (v % PGSIZE) \in 0 .. PGSIZE - 1
      /\ o = Page(o) * PGSIZE + (o % PGSIZE)
      /\ b = Page(b) * PGSIZE + (b % PGSIZE) /\ (b % PGSIZE) \in 0 .. PGSIZE - 1
      /\ PGROUNDDOWN(b) = Page(b) * PGSIZE
  BY PageFacts
<1> DEFINE q == Page(b) - (Page(v) - Page(o))
           x == Page(v) * PGSIZE
           y == Page(o) * PGSIZE
           z == Page(b) * PGSIZE
           c == o + (b - v)
<1>3. x \in Nat /\ y \in Nat /\ z \in Nat /\ q \in Int
  BY <1>1, <1>2
<1>4. q * PGSIZE = z - (x - y)
  BY <1>1, <1>2
<1> HIDE DEF x, y, z
<1>5. /\ v = x + (v % PGSIZE) /\ o = y + (v % PGSIZE) /\ b = z + (b % PGSIZE)
      /\ PGROUNDDOWN(b) = z
  BY <1>2 DEF x, y, z
<1>6. c \in Int /\ z - (x - y) <= c /\ c < z - (x - y) + PGSIZE /\ v - o = x - y
  BY <1>1, <1>2, <1>3, <1>5
<1>7. c \div PGSIZE = q
  <2> HIDE DEF c, q
  <2>1. q * PGSIZE <= c /\ c < q * PGSIZE + PGSIZE
    BY <1>4, <1>6
  <2> QED
    BY <1>3, <1>6, <2>1, DivUnique
<1>8. PGROUNDDOWN(c) = z - (x - y)
  BY <1>4, <1>7 DEF PGROUNDDOWN
<1> QED
  BY <1>5, <1>6, <1>8

PageType == [byte : [0 .. PGSIZE - 1 -> Int], perm : SUBSET (Rights \cup {"U"})]

LEMMA FileByteType ==
  ASSUME NEW n \in Int
  PROVE  FileByte(n) \in Int
BY SizesAssumption DEF FileByte, Foreign

(* The first address of the stack.                                         *)
LEMMA StackStart == Page(USER_END - PGSIZE) = StackPage
<1>1. USER_END - PGSIZE \in Addresses
  BY StackFacts DEF Addresses
<1> QED
  BY <1>1, AddressFacts, StackFacts

LEMMA NoJump == ~ JumpToStack(NoAccess)
BY DEF JumpToStack, NoAccess

(* A program that jumped to its stack tries nothing else, and is never     *)
(* permitted to go on.                                                     *)
LEMMA JumpStays ==
  ASSUME Mappings, JumpToStack(retry), NEW a, NEW k, Tried(a, k)
  PROVE  retry = <<a, k>> /\ ~ Permitted(a, k)
<1>1. mode = "user" /\ retry # NoAccess
  BY NoJump DEF Mappings, Tried
<1>2. retry = <<a, k>>
  BY <1>1 DEF Tried
<1>3. retry[1] = a /\ retry[2] = k
  BY <1>2
<1>4. ~ Permitted(retry[1], retry[2])
  BY <1>1 DEF Mappings, FaultIsServed
<1> QED
  BY <1>2, <1>3, <1>4

(* A fault maps the one page of the address, with the rights of its area   *)
(* and what the file or the stack has there.  The page was not mapped,     *)
(* unless the access is a jump to the stack.                               *)
LEMMA FaultMaps ==
  ASSUME IInv, NEW a \in Addresses, NEW k \in Rights, PageFault(a, k)
  PROVE  /\ Page(a) \in PageNumbers
         /\ JumpToStack(<<a, k>>) <=> k = "X" /\ Page(a) = StackPage
         /\ JumpToStack(<<a, k>>) \/ mapped[Page(a)].perm = {}
         /\ mapped' \in [PageNumbers -> PageType]
         /\ \A n \in PageNumbers : n # Page(a) => mapped'[n] = mapped[n]
         /\ mapped'[Page(a)].perm = PermOf(Page(a))
         /\ Page(a) = StackPage => mapped'[Page(a)] = FreshStack
         /\ Page(a) = StackPage =>
              \A o \in 0 .. PGSIZE - 1 : mapped'[Page(a)].byte[o] = 0
         /\ \A h \in Loads(image) : \A x \in h.p_vaddr .. h.p_vaddr + h.p_filesz - 1 :
              Page(x) = Page(a) =>
                mapped'[Page(a)].byte[x % PGSIZE] = FileByte(h.p_offset + (x - h.p_vaddr))
<1>1. /\ TypeOK /\ Areas /\ Mappings
      /\ Tried(a, k) /\ ~ Permitted(a, k)
  BY DEF IInv, PageFault
<1>2. PICK n \in DOMAIN vmas :
        /\ FoundVma(n, a)
        /\ mapped' = IF "VM_ANONYM" \in vmas[n].vm_flags THEN AllocAnonymous(vmas[n])
                     ELSE AllocElfMem(FilePageStart(vmas[n], a), PGSIZE, PGSIZE,
                                      PGROUNDDOWN(a), PtePerm(vmas[n]))
  BY DEF PageFault
<1>3. /\ a \in Nat /\ Page(a) \in PageNumbers /\ Page(a) \in Nat
      /\ (Page(a) = StackPage <=> a >= USER_END - PGSIZE)
  BY AddressFacts
<1>4. mapped \in [PageNumbers -> PageType] /\ PGSIZE \in Nat /\ PGSIZE > 0
  BY <1>1, StackFacts DEF TypeOK, PageType
<1>5. JumpToStack(<<a, k>>) <=> k = "X" /\ Page(a) = StackPage
  BY <1>3 DEF JumpToStack
<1>6. JumpToStack(<<a, k>>) \/ mapped[Page(a)].perm = {}
  <2> SUFFICES ASSUME mapped[Page(a)].perm # {}, ~ JumpToStack(<<a, k>>) PROVE FALSE
    OBVIOUS
  <2>1. mapped[Page(a)].perm = PermOf(Page(a))
    BY <1>1, <1>3 DEF Mappings
  <2>2. k \in PermOf(Page(a)) /\ "U" \in PermOf(Page(a))
    BY <1>5 DEF PermOf, Rights
  <2> QED
    BY <1>1, <2>1, <2>2 DEF Permitted
<1>7. CASE vmas[n] = StackArea /\ a >= USER_END - PGSIZE
  <2> DEFINE new == [byte |-> Zeroed, perm |-> {"R", "W", "U"}]
  <2>1. mapped' = AllocAnonymous(StackArea)
    BY <1>2, <1>7, AreaFacts
  <2>2. Section(StackArea.vm_start, StackArea.vm_end) = {StackPage}
    <3>1. Section(StackPage * PGSIZE, StackPage * PGSIZE + PGSIZE) = {StackPage}
      BY StackFacts, OnePage
    <3> QED
      BY <3>1, AreaFacts, StackFacts
  <2>3. mapped' = [m \in PageNumbers |-> IF m = StackPage THEN new ELSE mapped[m]]
    BY <2>1, <2>2, AreaFacts DEF AllocAnonymous
  <2>4. Page(a) = StackPage
    BY <1>3, <1>7
  <2>5. /\ new \in PageType /\ new.perm = PermOf(StackPage)
        /\ \A o \in 0 .. PGSIZE - 1 : new.byte[o] = 0
    BY DEF PageType, Zeroed, Rights, PermOf
  <2>9. new = FreshStack
    <3>1. PtePerm(StackArea) = {"R", "W", "U"}
      BY AreaFacts
    <3> QED
      BY <3>1 DEF FreshStack
  <2> HIDE DEF new
  <2>6. mapped' \in [PageNumbers -> PageType]
    BY <1>4, <2>3, <2>5
  <2>7. mapped'[Page(a)] = new /\ \A m \in PageNumbers : m # Page(a) => mapped'[m] = mapped[m]
    BY <1>3, <2>3, <2>4
  <2>8. ASSUME NEW h \in Loads(image), NEW x \in h.p_vaddr .. h.p_vaddr + h.p_filesz - 1
        PROVE  Page(x) # Page(a)
    <3>1. h.p_vaddr \in Nat /\ h.p_filesz \in Nat /\ h.p_memsz \in Nat /\ h.p_filesz <= h.p_memsz
      BY <1>1, LoadFacts
    <3>2. x \in Nat /\ Spans(h, x)
      BY <3>1 DEF Spans
    <3>3. Page(x) \in PagesOf(h)
      BY <1>1, <3>2, SpanFacts
    <3> QED
      BY <1>1, <2>4, <3>3, SegmentPages
  <2> QED
    BY <1>3, <1>5, <1>6, <2>4, <2>5, <2>6, <2>7, <2>8, <2>9
<1>8. CASE a < USER_END - PGSIZE /\ \E g \in Loads(image) : vmas[n] = AreaOf(g) /\ Spans(g, a)
  <2>1. PICK g \in Loads(image) : vmas[n] = AreaOf(g) /\ Spans(g, a)
    BY <1>8
  <2>2. /\ g.p_vaddr \in Nat /\ g.p_offset \in Nat /\ g.p_vaddr % PGSIZE = g.p_offset % PGSIZE
        /\ g.p_vaddr <= a
    BY <1>1, <2>1, LoadFacts DEF Spans
  <2> DEFINE base == Page(a) * PGSIZE
             start == FilePageStart(vmas[n], a)
  <2>3. base \in Nat /\ PGROUNDDOWN(a) = base
    BY <1>3, PageFacts
  <2>4. start = base - (g.p_vaddr - g.p_offset)
    <3>1. start = PGROUNDDOWN(g.p_offset + (a - g.p_vaddr))
      BY <2>1, AreaFacts DEF FilePageStart
    <3> QED
      BY <1>3, <2>2, <2>3, <3>1, FilePageFacts
  <2>5. start \in Int
    BY <2>2, <2>3, <2>4
  <2>6. mapped' = AllocElfMem(start, PGSIZE, PGSIZE, base, {"R", "W", "X", "U"})
    BY <1>2, <2>1, <2>3, AreaFacts
  <2> HIDE DEF start
  <2>7. Section(base, base + PGSIZE) = {Page(a)}
    BY <1>3, OnePage
  <2> DEFINE new == [byte |-> [o \in 0 .. PGSIZE - 1 |-> FileByte(start + o)],
                     perm |-> {"R", "W", "X", "U"}]
  <2>8. mapped' = [m \in PageNumbers |-> IF m = Page(a) THEN new ELSE mapped[m]]
    <3>1. ASSUME NEW o \in 0 .. PGSIZE - 1
          PROVE  Page(a) * PGSIZE + o - base = o /\ o \in 0 .. PGSIZE - 1
      BY <2>3
    <3>2. [o \in 0 .. PGSIZE - 1 |->
             IF Page(a) * PGSIZE + o - base \in 0 .. PGSIZE - 1
             THEN FileByte(start + (Page(a) * PGSIZE + o - base)) ELSE 0] =
          [o \in 0 .. PGSIZE - 1 |-> FileByte(start + o)]
      <4> HIDE DEF base
      <4> QED
        BY <3>1
    <3>3. mapped' = [m \in PageNumbers |->
                      IF m \in {Page(a)}
                      THEN [byte |-> [o \in 0 .. PGSIZE - 1 |->
                                        IF m * PGSIZE + o - base \in 0 .. PGSIZE - 1
                                        THEN FileByte(start + (m * PGSIZE + o - base)) ELSE 0],
                            perm |-> {"R", "W", "X", "U"}]
                      ELSE mapped[m]]
      <4> HIDE DEF base
      <4> QED
        BY <2>6, <2>7 DEF AllocElfMem
    <3> HIDE DEF base
    <3> QED
      BY <3>2, <3>3
  <2>9. \A o \in 0 .. PGSIZE - 1 : FileByte(start + o) \in Int
    BY <2>5, FileByteType
  <2>10. new \in PageType
    BY <2>9 DEF PageType, Rights
  <2>11. Page(a) # StackPage
    BY <1>3, <1>8, StackFacts
  <2>12. new.perm = PermOf(Page(a)) /\ \A o \in 0 .. PGSIZE - 1 : new.byte[o] = FileByte(start + o)
    BY <2>11 DEF PermOf
  <2> HIDE DEF new
  <2>13. mapped' \in [PageNumbers -> PageType]
    BY <1>4, <2>8, <2>10
  <2>14. mapped'[Page(a)] = new /\ \A m \in PageNumbers : m # Page(a) => mapped'[m] = mapped[m]
    BY <1>3, <2>8
  <2>15. ASSUME NEW h \in Loads(image), NEW x \in h.p_vaddr .. h.p_vaddr + h.p_filesz - 1,
                Page(x) = Page(a)
         PROVE  new.byte[x % PGSIZE] = FileByte(h.p_offset + (x - h.p_vaddr))
    <3>1. /\ h.p_vaddr \in Nat /\ h.p_filesz \in Nat /\ h.p_memsz \in Nat /\ h.p_offset \in Nat
          /\ h.p_filesz <= h.p_memsz
      BY <1>1, LoadFacts
    <3>2. x \in Nat /\ Spans(h, x)
      BY <3>1 DEF Spans
    <3>3. Page(x) \in PagesOf(h) /\ Page(a) \in PagesOf(g)
      BY <1>1, <1>3, <2>1, <3>2, SpanFacts
    <3>4. h.p_vaddr - h.p_offset = g.p_vaddr - g.p_offset
      BY <1>1, <2>15, <3>3, SamePlace
    <3>5. x = base + (x % PGSIZE) /\ (x % PGSIZE) \in 0 .. PGSIZE - 1
      BY <2>15, <3>2, PageFacts
    <3>6. start + (x % PGSIZE) = h.p_offset + (x - h.p_vaddr)
      <4> HIDE DEF base
      <4> QED
        BY <2>2, <2>3, <2>4, <3>1, <3>2, <3>4, <3>5
    <3> QED
      BY <2>12, <3>5, <3>6
  <2> QED
    BY <1>3, <1>5, <1>6, <2>11, <2>12, <2>13, <2>14, <2>15
<1> QED
  BY <1>1, <1>2, <1>7, <1>8, FoundFacts

-----------------------------------------------------------------------------
(* The steps keep the invariant.                                           *)

LoadsBefore(n) == {j \in 0 .. n - 1 : IsLoad(j)}

LEMMA CountFacts ==
  ASSUME NEW n \in Nat
  PROVE  /\ IsFiniteSet(LoadsBefore(n)) /\ Cardinality(LoadsBefore(n)) \in Nat
         /\ Cardinality(LoadsBefore(n + 1)) =
              IF IsLoad(n) THEN Cardinality(LoadsBefore(n)) + 1 ELSE Cardinality(LoadsBefore(n))
<1>1. IsFiniteSet(0 .. n - 1)
  BY FS_Interval
<1>2. LoadsBefore(n) \in SUBSET (0 .. n - 1)
  BY DEF LoadsBefore
<1>3. IsFiniteSet(LoadsBefore(n))
  BY <1>1, <1>2, FS_Subset
<1>4. Cardinality(LoadsBefore(n)) \in Nat
  BY <1>3, FS_CardinalityType
<1>5. CASE IsLoad(n)
  <2>1. LoadsBefore(n + 1) = LoadsBefore(n) \cup {n} /\ n \notin LoadsBefore(n)
    BY <1>5 DEF LoadsBefore
  <2> QED
    BY <1>3, <1>4, <1>5, <2>1, FS_AddElement
<1>6. CASE ~ IsLoad(n)
  <2>1. LoadsBefore(n + 1) = LoadsBefore(n)
    BY <1>6 DEF LoadsBefore
  <2> QED
    BY <1>3, <1>4, <1>6, <2>1
<1> QED
  BY <1>5, <1>6

(* The types, with the count and the pages named.                          *)
LEMMA TypeBy ==
  TypeOK <=> /\ IsFile(image)
             /\ i \in 0 .. image.e_phnum
             /\ Len(vmas) = 1 + Cardinality(LoadsBefore(i))
             /\ vmas \in Seq(vm_area_struct)
             /\ mapped \in [PageNumbers -> PageType]
             /\ mode \in {"loading", "entry", "user", "halted"}
             /\ retry \in {NoAccess} \cup Addresses \X Rights
             /\ stored \in SUBSET Addresses
BY DEF TypeOK, LoadsBefore, IsLoad, HeaderAt, PageType

LEMMA InitInv == Init => IInv
<1> SUFFICES ASSUME Init PROVE IInv
  OBVIOUS
<1>1. image \in Images /\ IsFile(image) /\ image.e_phnum \in Nat
  BY ImagesAssumption DEF Init, IsFile
<1>2. StackArea \in vm_area_struct
  <2>1. {"R", "W", "VM_ANONYM"} \in SUBSET VmFlags
    BY DEF Rights, VmFlags
  <2>2. USER_END - PGSIZE \in Nat /\ USER_END - PGSIZE + PGSIZE \in Nat
    BY StackFacts
  <2> QED
    BY <2>1, <2>2, StackFacts DEF StackArea, Area, vm_area_struct
<1>3. Len(vmas) = 1 /\ vmas \in Seq(vm_area_struct) /\ DOMAIN vmas = {1} /\ vmas[1] = StackArea
  BY <1>2 DEF Init
<1>4. Cardinality(LoadsBefore(i)) = 0
  <2>1. LoadsBefore(i) = {}
    BY DEF Init, LoadsBefore
  <2> QED
    BY <2>1, FS_EmptySet
<1>5. mapped \in [PageNumbers -> PageType] /\ \A n \in PageNumbers : mapped[n].perm = {}
  BY DEF Init, NotMapped, Zeroed, PageType
<1>6. TypeOK
  BY <1>1, <1>3, <1>4, <1>5, TypeBy DEF Init
<1>7. Areas
  BY <1>1, <1>3 DEF Init, Areas
<1>8. Mappings
  BY <1>5, NoJump DEF Init, Mappings, FaultIsServed
<1>9. FilePartLoaded
  <2>1. ASSUME NEW a \in Addresses PROVE ~ Untouched(a)
    BY <1>5, <2>1, AddressFacts DEF Untouched
  <2>2. ASSUME NEW h \in Loads(image), NEW a \in h.p_vaddr .. h.p_vaddr + h.p_filesz - 1
        PROVE  a \in Addresses
    <3>1. /\ h.p_vaddr \in Nat /\ h.p_filesz \in Nat /\ h.p_memsz \in Nat
          /\ h.p_filesz <= h.p_memsz
      BY <1>7, LoadFacts
    <3>2. a \in Nat /\ Spans(h, a)
      BY <3>1 DEF Spans
    <3> QED
      BY <1>7, <3>2, SpanFacts
  <2>3. USER_END - PGSIZE .. USER_END - 1 \subseteq Addresses
    BY StackFacts DEF Addresses
  <2> QED
    BY <2>1, <2>2, <2>3 DEF FilePartLoaded
<1> QED
  BY <1>6, <1>7, <1>8, <1>9 DEF IInv

(* A turn of the loop appends the area of a header that is loaded.         *)
LEMMA LoadHeaderInv ==
  ASSUME IInv, LoadHeader
  PROVE  IInv'
<1>1. /\ TypeOK /\ Areas /\ mode = "loading" /\ i < image.e_phnum
      /\ i' = i + 1 /\ UNCHANGED <<image, mapped, mode, retry, stored>>
  BY DEF IInv, LoadHeader
<1>2. image.e_phnum \in Nat /\ i \in 0 .. image.e_phnum - 1
  BY <1>1 DEF TypeOK, IsFile
<1> DEFINE h == HeaderAt(i)
<1>3. /\ h \in Headers /\ image.at[image.e_phoff + sizeof(Elf64_Phdr) * i] = h
      /\ IsLoad(i) => h \in Loads(image)
  BY <1>1, <1>2, HeaderFacts
<1>4. vmas' = IF ~ IsLoad(i) THEN vmas ELSE Append(vmas, AreaOf(h))
  <2>1. vmas' = IF h.p_type # "PT_LOAD" THEN vmas
                ELSE Append(vmas, Area(h.p_vaddr, h.p_memsz, perm_elf2vm(h.p_flags),
                                       h.p_offset, h.p_filesz))
    <3> HIDE DEF h
    <3> QED
      BY <1>3 DEF LoadHeader
  <2> QED
    BY <2>1, PermFacts DEF IsLoad, AreaOf
<1> HIDE DEF h
<1>5. vmas \in Seq(vm_area_struct) /\ Len(vmas) = 1 + Cardinality(LoadsBefore(i))
  BY <1>1, TypeBy
<1>6. AreaOf(h) \in vm_area_struct
  BY <1>3, AreaTypes
<1>7. /\ vmas' \in Seq(vm_area_struct) /\ DOMAIN vmas \subseteq DOMAIN vmas'
      /\ \A n \in DOMAIN vmas : vmas'[n] = vmas[n]
      /\ \A n \in DOMAIN vmas' : n \notin DOMAIN vmas => vmas'[n] = AreaOf(h) /\ IsLoad(i)
      /\ Len(vmas') = IF IsLoad(i) THEN Len(vmas) + 1 ELSE Len(vmas)
      /\ IsLoad(i) => \E n \in DOMAIN vmas' : vmas'[n] = AreaOf(h)
  <2>1. CASE ~ IsLoad(i)
    BY <1>4, <1>5, <2>1
  <2>2. CASE IsLoad(i)
    <3>1. vmas' = Append(vmas, AreaOf(h))
      BY <1>4, <2>2
    <3>2. /\ vmas' \in Seq(vm_area_struct) /\ Len(vmas') = Len(vmas) + 1
          /\ DOMAIN vmas = 1 .. Len(vmas) /\ DOMAIN vmas' = 1 .. Len(vmas) + 1
          /\ Len(vmas) \in Nat
          /\ \A n \in 1 .. Len(vmas) : vmas'[n] = vmas[n]
          /\ vmas'[Len(vmas) + 1] = AreaOf(h)
      BY <1>5, <1>6, <3>1
    <3>3. ASSUME NEW n \in DOMAIN vmas', n \notin DOMAIN vmas PROVE n = Len(vmas) + 1
      BY <3>2, <3>3
    <3>4. Len(vmas) + 1 \in DOMAIN vmas' /\ DOMAIN vmas \subseteq DOMAIN vmas'
      BY <3>2
    <3> QED
      BY <2>2, <3>2, <3>3, <3>4
  <2> QED
    BY <2>1, <2>2
<1>8. Len(vmas') = 1 + Cardinality(LoadsBefore(i + 1))
  <2>1. /\ Cardinality(LoadsBefore(i)) \in Nat
        /\ Cardinality(LoadsBefore(i + 1)) =
             IF IsLoad(i) THEN Cardinality(LoadsBefore(i)) + 1 ELSE Cardinality(LoadsBefore(i))
    BY <1>2, CountFacts
  <2> QED
    BY <1>5, <1>7, <2>1
<1>9. TypeOK'
  <2>1. LoadsBefore(i)' = LoadsBefore(i + 1)
    BY <1>1 DEF LoadsBefore, IsLoad, HeaderAt
  <2>2. Len(vmas') = 1 + Cardinality(LoadsBefore(i)')
    BY <1>8, <2>1
  <2>3. i' \in 0 .. image.e_phnum
    BY <1>1, <1>2
  <2>4. TypeOK' <=> /\ IsFile(image') /\ i' \in 0 .. image'.e_phnum
                    /\ Len(vmas') = 1 + Cardinality(LoadsBefore(i)')
                    /\ vmas' \in Seq(vm_area_struct)
                    /\ mapped' \in [PageNumbers -> PageType]
                    /\ mode' \in {"loading", "entry", "user", "halted"}
                    /\ retry' \in {NoAccess} \cup Addresses \X Rights
                    /\ stored' \in SUBSET Addresses
    BY DEF TypeOK, LoadsBefore, IsLoad, HeaderAt, PageType
  <2>5. /\ IsFile(image) /\ mapped \in [PageNumbers -> PageType]
        /\ mode \in {"loading", "entry", "user", "halted"}
        /\ retry \in {NoAccess} \cup Addresses \X Rights /\ stored \in SUBSET Addresses
    BY <1>1, TypeBy
  <2> QED
    BY <1>1, <1>7, <2>2, <2>3, <2>4, <2>5
<1>10. Areas'
  <2>1. vmas'[1] = StackArea
    <3>1. 1 \in DOMAIN vmas
      <4>1. Cardinality(LoadsBefore(i)) \in Nat
        BY <1>2, CountFacts
      <4> QED
        BY <1>5, <4>1
    <3> QED
      BY <1>1, <1>7, <3>1 DEF Areas
  <2>2. ASSUME NEW n \in DOMAIN vmas', n # 1 PROVE \E g \in Loads(image) : vmas'[n] = AreaOf(g)
    BY <1>1, <1>3, <1>7, <2>2 DEF Areas
  <2>3. ASSUME NEW j \in 0 .. i, IsLoad(j)
        PROVE  \E n \in DOMAIN vmas' : vmas'[n] = AreaOf(HeaderAt(j))
    <3>1. CASE j = i
      BY <1>7, <2>3, <3>1 DEF h
    <3>2. CASE j # i
      <4>1. j \in 0 .. i - 1
        BY <1>2, <3>2
      <4>2. PICK n \in DOMAIN vmas : vmas[n] = AreaOf(HeaderAt(j))
        BY <1>1, <2>3, <4>1 DEF Areas
      <4> QED
        BY <1>7, <4>2
    <3> QED
      BY <3>1, <3>2
  <2>4. \A j : IsLoad(j)' = IsLoad(j) /\ HeaderAt(j)' = HeaderAt(j)
    BY <1>1 DEF IsLoad, HeaderAt
  <2>5. i' - 1 = i
    BY <1>1, <1>2
  <2> QED
    BY <1>1, <2>1, <2>2, <2>3, <2>4, <2>5 DEF Areas
<1>11. Mappings' /\ FilePartLoaded'
  BY <1>1 DEF IInv, Mappings, FaultIsServed, FilePartLoaded, Permitted, ByteAt, Untouched
<1> QED
  BY <1>9, <1>10, <1>11 DEF IInv

(* Steps that leave the areas and the pages.                               *)
LEMMA QuietInv ==
  ASSUME IInv, UNCHANGED <<image, i, vmas, mapped, stored>>,
         retry' = retry \/ (retry' = NoAccess /\ ~ JumpToStack(retry)),
         mode' \in {"loading", "entry", "user", "halted"},
         JumpToStack(retry) => mode' \in {"user", "halted"},
         mode' # "loading" => mode # "loading" \/ i = image.e_phnum
  PROVE  IInv'
<1>1. TypeOK'
  BY DEF IInv, TypeOK
<1>2. Areas'
  BY DEF IInv, Areas, IsLoad, HeaderAt
<1>3. Mappings'
  BY NoJump DEF IInv, Mappings, FaultIsServed, Permitted, ByteAt
<1>4. FilePartLoaded'
  BY DEF IInv, FilePartLoaded, ByteAt, Untouched
<1> QED
  BY <1>1, <1>2, <1>3, <1>4 DEF IInv

(* An address of a segment's part of the file, and one of the stack.       *)
LEMMA PlaceFacts ==
  ASSUME Areas
  PROVE  /\ \A h \in Loads(image) : \A a \in h.p_vaddr .. h.p_vaddr + h.p_filesz - 1 :
              a \in Addresses
         /\ \A a \in USER_END - PGSIZE .. USER_END - 1 : a \in Addresses /\ Page(a) = StackPage
<1>1. ASSUME NEW h \in Loads(image), NEW a \in h.p_vaddr .. h.p_vaddr + h.p_filesz - 1
      PROVE  a \in Addresses
  <2>1. /\ h.p_vaddr \in Nat /\ h.p_filesz \in Nat /\ h.p_memsz \in Nat
        /\ h.p_filesz <= h.p_memsz
    BY LoadFacts
  <2>2. a \in Nat /\ Spans(h, a)
    BY <2>1 DEF Spans
  <2> QED
    BY <2>2, SpanFacts
<1>2. ASSUME NEW a \in USER_END - PGSIZE .. USER_END - 1
      PROVE  a \in Addresses /\ Page(a) = StackPage
  <2>1. a \in Addresses /\ a >= USER_END - PGSIZE
    BY StackFacts DEF Addresses
  <2> QED
    BY <2>1, AddressFacts
<1> QED
  BY <1>1, <1>2

LEMMA PageFaultInv ==
  ASSUME IInv, NEW a \in Addresses, NEW k \in Rights, PageFault(a, k)
  PROVE  IInv'
<1> DEFINE p == Page(a)
<1>1. /\ TypeOK /\ Areas /\ Mappings /\ FilePartLoaded
      /\ UNCHANGED <<image, i, vmas, stored>> /\ retry' = <<a, k>> /\ mode' = "user"
      /\ Tried(a, k)
  BY DEF IInv, PageFault
<1>2. /\ p \in PageNumbers
      /\ JumpToStack(<<a, k>>) <=> k = "X" /\ p = StackPage
      /\ JumpToStack(<<a, k>>) \/ mapped[p].perm = {}
      /\ mapped' \in [PageNumbers -> PageType]
      /\ \A n \in PageNumbers : n # p => mapped'[n] = mapped[n]
      /\ mapped'[p].perm = PermOf(p)
      /\ p = StackPage => mapped'[p] = FreshStack
      /\ p = StackPage => \A o \in 0 .. PGSIZE - 1 : mapped'[p].byte[o] = 0
      /\ \A h \in Loads(image) : \A x \in h.p_vaddr .. h.p_vaddr + h.p_filesz - 1 :
           Page(x) = p => mapped'[p].byte[x % PGSIZE] = FileByte(h.p_offset + (x - h.p_vaddr))
  BY FaultMaps
<1> HIDE DEF p
<1>3. TypeOK'
  <2>1. retry' \in {NoAccess} \cup Addresses \X Rights
    BY <1>1
  <2> QED
    BY <1>1, <1>2, <2>1 DEF TypeOK, PageType
<1>4. Areas'
  <2>1. i = image.e_phnum
    BY <1>1 DEF Areas, Tried
  <2> QED
    BY <1>1, <2>1 DEF Areas, IsLoad, HeaderAt
<1>5. Mappings'
  <2>1. ASSUME NEW n \in PageNumbers, mapped'[n].perm # {} PROVE mapped'[n].perm = PermOf(n)
    BY <1>1, <1>2, <2>1 DEF Mappings
  <2>2. retry'[1] = a /\ retry'[2] = k
    BY <1>1
  <2>3. Permitted(retry[1], retry[2])' <=> ~ JumpToStack(retry)'
    <3>1. {k, "U"} \subseteq mapped'[p].perm <=> ~ (k = "X" /\ p = StackPage)
      BY <1>2 DEF PermOf, Rights
    <3>2. Permitted(retry[1], retry[2])' <=> {k, "U"} \subseteq mapped'[p].perm
      BY <2>2 DEF Permitted, p
    <3> QED
      BY <1>1, <1>2, <3>1, <3>2 DEF JumpToStack
  <2>4. ASSUME JumpToStack(retry)' PROVE mapped'[StackPage] = FreshStack
    BY <1>1, <1>2, <2>4 DEF JumpToStack
  <2>5. ASSUME NEW b \in stored
        PROVE  /\ mapped'[Page(b)].perm # {}
               /\ \/ mapped'[Page(b)].byte[b % PGSIZE] = Written
                  \/ JumpToStack(retry)' /\ Page(b) = StackPage
    <3>1. b \in Addresses
      BY <1>1 DEF TypeOK
    <3>2. /\ Page(b) \in PageNumbers /\ mapped[Page(b)].perm # {}
          /\ \/ mapped[Page(b)].byte[b % PGSIZE] = Written
             \/ JumpToStack(retry) /\ Page(b) = StackPage
      BY <1>1, <3>1, AddressFacts DEF Mappings, ByteAt
    <3>3. CASE Page(b) = p
      BY <1>1, <1>2, <3>2, <3>3 DEF JumpToStack, PermOf
    <3>4. CASE Page(b) # p
      <4>1. JumpToStack(retry) => JumpToStack(retry)'
        BY <1>1, JumpStays
      <4> QED
        BY <1>2, <3>2, <3>4, <4>1
    <3> QED
      BY <3>3, <3>4
  <2>6. mode' \in {"user", "halted"}
    BY <1>1
  <2> QED
    BY <1>1, <2>1, <2>3, <2>4, <2>5, <2>6 DEF Mappings, FaultIsServed, ByteAt
<1>6. FilePartLoaded'
  <2>1. ASSUME NEW h \in Loads(image), NEW x \in h.p_vaddr .. h.p_vaddr + h.p_filesz - 1,
               mapped'[Page(x)].perm # {}, x \notin stored
        PROVE  mapped'[Page(x)].byte[x % PGSIZE] = FileByte(h.p_offset + (x - h.p_vaddr))
    <3>1. x \in Addresses /\ Page(x) \in PageNumbers
      BY <1>1, PlaceFacts, AddressFacts
    <3>2. CASE Page(x) = p
      BY <1>2, <3>2
    <3>3. CASE Page(x) # p
      BY <1>1, <1>2, <2>1, <3>1, <3>3 DEF FilePartLoaded, Untouched, ByteAt
    <3> QED
      BY <3>2, <3>3
  <2>2. ASSUME NEW x \in USER_END - PGSIZE .. USER_END - 1, mapped'[Page(x)].perm # {},
               x \notin stored
        PROVE  mapped'[Page(x)].byte[x % PGSIZE] = 0
    <3>1. x \in Addresses /\ Page(x) = StackPage /\ Page(x) \in PageNumbers
          /\ (x % PGSIZE) \in 0 .. PGSIZE - 1
      BY <1>1, PlaceFacts, AddressFacts
    <3>2. CASE p = StackPage
      BY <1>2, <3>1, <3>2
    <3>3. CASE p # StackPage
      BY <1>1, <1>2, <2>2, <3>1, <3>3 DEF FilePartLoaded, Untouched, ByteAt
    <3> QED
      BY <3>2, <3>3
  <2> QED
    BY <1>1, <2>1, <2>2 DEF FilePartLoaded, Untouched, ByteAt
<1> QED
  BY <1>3, <1>4, <1>5, <1>6 DEF IInv

(* A store changes the byte of its address, and no other.                  *)
LEMMA StoreChanges ==
  ASSUME IInv, NEW a \in Addresses, Store(a)
  PROVE  /\ mapped' \in [PageNumbers -> PageType]
         /\ mapped[Page(a)].perm # {}
         /\ \A n \in PageNumbers : mapped'[n].perm = mapped[n].perm
         /\ mapped'[Page(a)].byte[a % PGSIZE] = Written
         /\ \A b \in Addresses : b # a =>
              mapped'[Page(b)].byte[b % PGSIZE] = mapped[Page(b)].byte[b % PGSIZE]
<1> DEFINE p == Page(a)
           o == a % PGSIZE
<1>1. mapped \in [PageNumbers -> PageType] /\ p \in PageNumbers /\ o \in 0 .. PGSIZE - 1
  BY AddressFacts DEF IInv, TypeOK, PageType
<1>2. mapped' = [mapped EXCEPT ![p].byte[o] = Written]
  BY DEF Store
<1>3. mapped[Page(a)].perm # {}
  BY DEF Store, Permitted
<1>4. a \in Nat /\ a = PGROUNDDOWN(a) + o /\ PGROUNDDOWN(a) = p * PGSIZE
  BY AddressFacts, PageFacts
<1> HIDE DEF p, o
<1> DEFINE new == [mapped[p] EXCEPT !.byte[o] = Written]
<1>5. new \in PageType /\ new.perm = mapped[p].perm
      /\ new.byte = [mapped[p].byte EXCEPT ![o] = Written]
  <2>1. mapped[p] \in PageType
    BY <1>1
  <2>2. mapped[p].byte \in [0 .. PGSIZE - 1 -> Int]
    BY <2>1 DEF PageType
  <2>3. [mapped[p].byte EXCEPT ![o] = Written] \in [0 .. PGSIZE - 1 -> Int]
    <3>1. ASSUME NEW g \in [0 .. PGSIZE - 1 -> Int], NEW w \in Int
          PROVE  [g EXCEPT ![o] = w] \in [0 .. PGSIZE - 1 -> Int]
      OBVIOUS
    <3>2. Written \in Int
      BY DEF Written
    <3> QED
      BY <2>2, <3>1, <3>2
  <2>4. new.perm = mapped[p].perm /\ new.byte = [mapped[p].byte EXCEPT ![o] = Written]
    BY <2>1 DEF PageType
  <2>5. new = [byte |-> new.byte, perm |-> new.perm]
    BY <2>1 DEF PageType
  <2> HIDE DEF new
  <2> QED
    BY <2>1, <2>3, <2>4, <2>5 DEF PageType
<1>6. mapped' = [mapped EXCEPT ![p] = new]
  BY <1>2
<1> HIDE DEF new
<1>7. mapped' \in [PageNumbers -> PageType]
  BY <1>1, <1>5, <1>6
<1>8. mapped'[p] = new /\ \A n \in PageNumbers : n # p => mapped'[n] = mapped[n]
  BY <1>1, <1>6
<1>9. mapped[p].byte \in [0 .. PGSIZE - 1 -> Int]
  BY <1>1 DEF PageType
<1>10. mapped'[p].byte[o] = Written
  BY <1>1, <1>5, <1>8, <1>9
<1>11. ASSUME NEW b \in Addresses, b # a
       PROVE  mapped'[Page(b)].byte[b % PGSIZE] = mapped[Page(b)].byte[b % PGSIZE]
  <2>1. /\ b \in Nat /\ Page(b) \in PageNumbers /\ (b % PGSIZE) \in 0 .. PGSIZE - 1
        /\ b = PGROUNDDOWN(b) + (b % PGSIZE) /\ PGROUNDDOWN(b) = Page(b) * PGSIZE
    BY AddressFacts, PageFacts
  <2>2. CASE Page(b) # p
    BY <1>8, <2>1, <2>2
  <2>3. CASE Page(b) = p
    <3>1. b % PGSIZE # o
      BY <1>4, <1>11, <2>1, <2>3
    <3>2. new.byte[b % PGSIZE] = mapped[p].byte[b % PGSIZE]
      BY <1>5, <1>9, <2>1, <3>1
    <3> QED
      BY <1>8, <2>3, <3>2
  <2> QED
    BY <2>2, <2>3
<1>12. \A n \in PageNumbers : mapped'[n].perm = mapped[n].perm
  BY <1>5, <1>8
<1> QED
  BY <1>3, <1>7, <1>10, <1>11, <1>12 DEF p, o

LEMMA StoreInv ==
  ASSUME IInv, NEW a \in Addresses, Store(a)
  PROVE  IInv'
<1>1. /\ TypeOK /\ Areas /\ Mappings /\ FilePartLoaded
      /\ UNCHANGED <<image, i, vmas, mode>> /\ retry' = NoAccess /\ stored' = stored \cup {a}
  BY DEF IInv, Store
<1>2. /\ mapped' \in [PageNumbers -> PageType]
      /\ mapped[Page(a)].perm # {}
      /\ \A n \in PageNumbers : mapped'[n].perm = mapped[n].perm
      /\ mapped'[Page(a)].byte[a % PGSIZE] = Written
      /\ \A b \in Addresses : b # a =>
           mapped'[Page(b)].byte[b % PGSIZE] = mapped[Page(b)].byte[b % PGSIZE]
  BY StoreChanges
<1>3. TypeOK'
  BY <1>1, <1>2 DEF TypeOK, PageType
<1>4. Areas'
  BY <1>1 DEF Areas, IsLoad, HeaderAt
<1>5. Mappings'
  <2> ~ JumpToStack(retry) /\ ~ JumpToStack(retry')
    BY <1>1, JumpStays, NoJump DEF Store
  <2>1. ASSUME NEW b \in stored'
        PROVE  mapped'[Page(b)].perm # {} /\ mapped'[Page(b)].byte[b % PGSIZE] = Written
    <3>1. b \in Addresses /\ Page(b) \in PageNumbers
      BY <1>3, AddressFacts DEF TypeOK
    <3>2. CASE b = a
      BY <1>2, <3>1, <3>2
    <3>3. CASE b # a
      <4>1. mapped[Page(b)].perm # {} /\ mapped[Page(b)].byte[b % PGSIZE] = Written
        BY <1>1, <3>3 DEF Mappings, ByteAt
      <4> QED
        BY <1>2, <3>1, <3>3, <4>1
    <3> QED
      BY <3>2, <3>3
  <2> QED
    BY <1>1, <1>2, <2>1 DEF Mappings, FaultIsServed, ByteAt
<1>6. FilePartLoaded'
  <2>1. ASSUME NEW x \in Addresses, mapped'[Page(x)].perm # {}, x \notin stored'
        PROVE  /\ Untouched(x)
               /\ mapped'[Page(x)].byte[x % PGSIZE] = ByteAt(x)
    BY <1>1, <1>2, <2>1, AddressFacts DEF Untouched, ByteAt
  <2>2. ASSUME NEW h \in Loads(image), NEW x \in h.p_vaddr .. h.p_vaddr + h.p_filesz - 1,
               mapped'[Page(x)].perm # {}, x \notin stored'
        PROVE  mapped'[Page(x)].byte[x % PGSIZE] = FileByte(h.p_offset + (x - h.p_vaddr))
    <3>1. x \in Addresses
      BY <1>1, PlaceFacts
    <3> QED
      BY <1>1, <2>1, <2>2, <3>1 DEF FilePartLoaded
  <2>3. ASSUME NEW x \in USER_END - PGSIZE .. USER_END - 1,
               mapped'[Page(x)].perm # {}, x \notin stored'
        PROVE  mapped'[Page(x)].byte[x % PGSIZE] = 0
    <3>1. x \in Addresses
      BY <1>1, PlaceFacts
    <3> QED
      BY <1>1, <2>1, <2>3, <3>1 DEF FilePartLoaded
  <2> QED
    BY <1>1, <2>2, <2>3 DEF FilePartLoaded, Untouched, ByteAt
<1> QED
  BY <1>3, <1>4, <1>5, <1>6 DEF IInv

LEMMA StepInv == IInv /\ [Next]_vars => IInv'
<1> SUFFICES ASSUME IInv, [Next]_vars PROVE IInv'
  OBVIOUS
<1>1. /\ mode \in {"loading", "entry", "user", "halted"} /\ Mappings
      /\ JumpToStack(retry) => mode \in {"user", "halted"}
  BY DEF IInv, TypeOK, Mappings
<1>2. CASE LoadHeader
  BY <1>2, LoadHeaderInv
<1>3. CASE FirstRun
  BY <1>1, <1>3, QuietInv DEF FirstRun
<1>4. ASSUME NEW a \in Addresses, Store(a) PROVE IInv'
  BY <1>4, StoreInv
<1>5. ASSUME NEW a \in Addresses, NEW k \in Rights, Access(a, k) PROVE IInv'
  <2>1. ~ JumpToStack(retry)
    BY <1>1, <1>5, JumpStays DEF Access
  <2> QED
    BY <1>1, <1>5, <2>1, QuietInv DEF Access
<1>6. ASSUME NEW a \in Addresses, NEW k \in Rights, PageFault(a, k) PROVE IInv'
  BY <1>6, PageFaultInv
<1>7. ASSUME NEW a \in Addresses, NEW k \in Rights, FaultNoVma(a, k) PROVE IInv'
  BY <1>7, QuietInv DEF FaultNoVma, Tried
<1>8. CASE UNCHANGED vars
  BY <1>1, <1>8, QuietInv DEF vars
<1> QED
  BY <1>2, <1>3, <1>4, <1>5, <1>6, <1>7, <1>8 DEF Next

-----------------------------------------------------------------------------
(* What the invariant says of the areas, of the faults and of the bytes.   *)

LEMMA InvSegmentsFound == IInv => SegmentsFound
<1> SUFFICES ASSUME IInv, mode = "user", NEW a \in Addresses
             PROVE  (\E n \in DOMAIN vmas : FoundVma(n, a))
                      <=> a >= USER_END - PGSIZE \/ \E h \in Loads(image) : Spans(h, a)
  BY DEF SegmentsFound
<1>1. TypeOK /\ Areas /\ i = image.e_phnum /\ image.e_phnum \in Nat
  BY DEF IInv, Areas, TypeOK, IsFile
<1>2. ASSUME NEW n \in DOMAIN vmas, FoundVma(n, a)
      PROVE  a >= USER_END - PGSIZE \/ \E h \in Loads(image) : Spans(h, a)
  BY <1>1, <1>2, FoundFacts
<1>3. ASSUME a >= USER_END - PGSIZE
      PROVE  \E n \in DOMAIN vmas : FoundVma(n, a)
  <2>1. 1 \in DOMAIN vmas
    <3>1. Cardinality(LoadsBefore(i)) \in Nat
      BY <1>1, CountFacts
    <3>2. vmas \in Seq(vm_area_struct) /\ Len(vmas) = 1 + Cardinality(LoadsBefore(i))
      BY <1>1, TypeBy
    <3> QED
      BY <3>1, <3>2
  <2>2. InArea(vmas[1], a)
    <3>1. a < USER_END - PGSIZE + PGSIZE
      BY StackFacts DEF Addresses
    <3> QED
      BY <1>1, <1>3, <3>1, AreaFacts DEF Areas, InArea
  <2> QED
    BY <1>1, <2>1, <2>2, FirstArea
<1>4. ASSUME NEW h \in Loads(image), Spans(h, a)
      PROVE  \E n \in DOMAIN vmas : FoundVma(n, a)
  <2>1. PICK j \in 0 .. image.e_phnum - 1 : IsLoad(j) /\ h = HeaderAt(j)
    BY <1>1, LoadFacts
  <2>2. PICK n \in DOMAIN vmas : vmas[n] = AreaOf(h)
    BY <1>1, <2>1 DEF Areas
  <2>3. InArea(vmas[n], a)
    BY <1>4, <2>2, AreaFacts DEF InArea, Spans
  <2> QED
    BY <1>1, <2>3, FirstArea
<1> QED
  BY <1>2, <1>3, <1>4

LEMMA InvFaultIsServed == IInv => FaultIsServed
BY DEF IInv, Mappings

(* What a step makes of a page that is mapped.                             *)
PageKept(n) ==
  mapped[n].perm # {} =>
    IF JumpToStack(retry') /\ n = Page(USER_END - PGSIZE)
    THEN mapped'[n] = [byte |-> Zeroed, perm |-> PtePerm(StackArea)]
    ELSE /\ mapped'[n].perm = mapped[n].perm
         /\ \A o \in 0 .. PGSIZE - 1 :
              mapped'[n].byte[o] = IF n * PGSIZE + o \in stored' THEN Written
                                   ELSE mapped[n].byte[o]

(* A page that stays, when the program does not jump to the stack or is    *)
(* stuck there.                                                            *)
LEMMA UnchangedKept ==
  ASSUME IInv, NEW n \in PageNumbers, mapped'[n] = mapped[n], stored' = stored,
         JumpToStack(retry') => JumpToStack(retry) \/ n # StackPage,
         JumpToStack(retry) => JumpToStack(retry')
  PROVE  PageKept(n)
<1>1. Mappings
  BY DEF IInv
<1>2. CASE JumpToStack(retry') /\ n = StackPage
  <2>1. mapped[n] = FreshStack
    BY <1>1, <1>2 DEF Mappings
  <2> QED
    BY <1>2, <2>1, StackStart DEF PageKept, FreshStack
<1>3. CASE ~ (JumpToStack(retry') /\ n = StackPage)
  <2>1. ASSUME NEW o \in 0 .. PGSIZE - 1, n * PGSIZE + o \in stored
        PROVE  mapped[n].byte[o] = Written
    <3>1. Page(n * PGSIZE + o) = n /\ (n * PGSIZE + o) % PGSIZE = o
      BY ByteFacts
    <3>2. ByteAt(n * PGSIZE + o) = Written
      BY <1>1, <1>3, <2>1, <3>1 DEF Mappings
    <3> QED
      BY <3>1, <3>2 DEF ByteAt
  <2> QED
    BY <1>3, <2>1, StackStart DEF PageKept
<1> QED
  BY <1>2, <1>3

LEMMA StoreKept ==
  ASSUME IInv, NEW a \in Addresses, Store(a), NEW n \in PageNumbers
  PROVE  PageKept(n)
<1>1. /\ \A m \in PageNumbers : mapped'[m].perm = mapped[m].perm
      /\ mapped'[Page(a)].byte[a % PGSIZE] = Written
      /\ \A b \in Addresses : b # a =>
           mapped'[Page(b)].byte[b % PGSIZE] = mapped[Page(b)].byte[b % PGSIZE]
  BY StoreChanges
<1>2. /\ stored' = stored \cup {a} /\ Mappings
      /\ ~ JumpToStack(retry) /\ ~ JumpToStack(retry')
  BY JumpStays, NoJump DEF IInv, Store
<1>3. ASSUME NEW o \in 0 .. PGSIZE - 1
      PROVE  mapped'[n].byte[o] = IF n * PGSIZE + o \in stored' THEN Written
                                  ELSE mapped[n].byte[o]
  <2> DEFINE b == n * PGSIZE + o
  <2>1. b \in Addresses /\ Page(b) = n /\ b % PGSIZE = o
    BY ByteFacts
  <2>2. b \in stored => mapped[Page(b)].byte[b % PGSIZE] = Written
    BY <1>2 DEF Mappings, ByteAt
  <2> HIDE DEF b
  <2>3. mapped'[n].byte[o] = IF b \in stored' THEN Written ELSE mapped[n].byte[o]
    <3>1. CASE b = a
      BY <1>1, <1>2, <2>1, <3>1
    <3>2. CASE b # a
      BY <1>1, <1>2, <2>1, <2>2, <3>2
    <3> QED
      BY <3>1, <3>2
  <2> QED
    BY <2>3 DEF b
<1> QED
  BY <1>1, <1>2, <1>3 DEF PageKept

LEMMA NextKeeps ==
  ASSUME IInv, [Next]_vars, NEW n \in PageNumbers
  PROVE  PageKept(n)
<1> Mappings
  BY DEF IInv
<1>1. ASSUME mapped' = mapped, stored' = stored, JumpToStack(retry') <=> JumpToStack(retry)
      PROVE  PageKept(n)
  BY <1>1, UnchangedKept
<1>2. CASE LoadHeader
  BY <1>1, <1>2 DEF LoadHeader
<1>3. CASE FirstRun
  BY <1>1, <1>3 DEF FirstRun
<1>4. ASSUME NEW a \in Addresses, Store(a) PROVE PageKept(n)
  BY <1>4, StoreKept
<1>5. ASSUME NEW a \in Addresses, NEW k \in Rights, Access(a, k) PROVE PageKept(n)
  <2>1. ~ JumpToStack(retry) /\ ~ JumpToStack(retry')
    BY <1>5, JumpStays, NoJump DEF Access
  <2> QED
    BY <1>1, <1>5, <2>1 DEF Access
<1>6. ASSUME NEW a \in Addresses, NEW k \in Rights, PageFault(a, k) PROVE PageKept(n)
  <2>1. /\ JumpToStack(<<a, k>>) => Page(a) = StackPage
        /\ JumpToStack(<<a, k>>) \/ mapped[Page(a)].perm = {}
        /\ \A m \in PageNumbers : m # Page(a) => mapped'[m] = mapped[m]
        /\ Page(a) = StackPage => mapped'[Page(a)] = FreshStack
    BY <1>6, FaultMaps
  <2>2. stored' = stored /\ retry' = <<a, k>>
    BY <1>6 DEF PageFault
  <2>3. CASE n = Page(a)
    <3>1. CASE JumpToStack(<<a, k>>)
      BY <2>1, <2>2, <2>3, <3>1, StackStart DEF PageKept, FreshStack
    <3>2. CASE ~ JumpToStack(<<a, k>>)
      BY <2>1, <2>3, <3>2 DEF PageKept
    <3> QED
      BY <3>1, <3>2
  <2>4. CASE n # Page(a)
    <3>1. JumpToStack(retry) => JumpToStack(retry')
      BY <1>6, <2>2, JumpStays DEF PageFault
    <3>2. JumpToStack(retry') => n # StackPage
      BY <2>1, <2>2, <2>4
    <3> QED
      BY <2>1, <2>2, <2>4, <3>1, <3>2, UnchangedKept
  <2> QED
    BY <2>3, <2>4
<1>7. ASSUME NEW a \in Addresses, NEW k \in Rights, FaultNoVma(a, k) PROVE PageKept(n)
  BY <1>1, <1>7 DEF FaultNoVma
<1>8. CASE UNCHANGED vars
  BY <1>1, <1>8 DEF vars
<1> QED
  BY <1>2, <1>3, <1>4, <1>5, <1>6, <1>7, <1>8 DEF Next

-----------------------------------------------------------------------------
(* The theorems.                                                           *)

(* Every state the loader and the program get to satisfies the invariant.  *)
THEOREM Invariance == Spec => []IInv
<1>1. Init => IInv
  BY InitInv
<1>2. IInv /\ [Next]_vars => IInv'
  BY StepInv
<1> QED
  BY <1>1, <1>2, PTL DEF Spec

(* Every variable keeps its type, and load_elf_program makes one area for  *)
(* each header that is to be loaded, behind the stack's.                   *)
THEOREM TypeCorrectness == Spec => []TypeOK
<1>1. IInv => TypeOK
  BY DEF IInv
<1> QED
  BY <1>1, Invariance, PTL

(* What do_page_fault copies from the file is what the header puts there,  *)
(* at every address and for every file a linker makes; the stack starts as *)
(* zeros.                                                                  *)
THEOREM FileIsLoaded == Spec => []FilePartLoaded
<1>1. IInv => FilePartLoaded
  BY DEF IInv
<1> QED
  BY <1>1, Invariance, PTL

(* find_vma finds an area for the addresses of the segments and the stack, *)
(* and for no other.                                                       *)
THEOREM AreasAreFound == Spec => []SegmentsFound
BY Invariance, InvSegmentsFound, PTL

(* After a page fault the access that caused it succeeds, unless it was a  *)
(* jump to the stack: that one faults for ever.                            *)
THEOREM FaultsAreServed == Spec => []FaultIsServed
BY Invariance, InvFaultIsServed, PTL

(* No fault maps a fresh page over one that the program has, so that what  *)
(* it has stored there stays, but for the faults of a jump to the stack:   *)
(* these replace the stack, whatever it held, by zeros.                    *)
THEOREM NothingIsLost == Spec => NothingLost
<1>1. IInv /\ [Next]_vars =>
        [\A n \in PageNumbers : mapped[n].perm # {} =>
           IF JumpToStack(retry') /\ n = Page(USER_END - PGSIZE)
           THEN mapped'[n] = [byte |-> Zeroed, perm |-> PtePerm(StackArea)]
           ELSE /\ mapped'[n].perm = mapped[n].perm
                /\ \A o \in 0 .. PGSIZE - 1 :
                     mapped'[n].byte[o] = IF n * PGSIZE + o \in stored' THEN Written
                                          ELSE mapped[n].byte[o]]_vars
  BY NextKeeps DEF PageKept
<1> QED
  BY <1>1, Invariance, PTL DEF Spec, NothingLost

=============================================================================
